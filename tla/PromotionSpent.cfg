SPECIFICATION FairSpec
CONSTANTS
  Policies <- TwoClusters
  MaxCands = 3
  MaxFaults = 0
  MaxGrants = 1
  None = None
PROPERTIES SpentRoundsMoveOn
CHECK_DEADLOCK FALSE
