SPECIFICATION FairSpec
CONSTANTS
  Policies <- Manifests
  MaxCands = 3
  MaxFaults = 1
  MaxGrants = 1
  None = None
INVARIANTS CandidateInv PromotedEarned HandoffBound
PROPERTIES RejectedIsFinal Ends
CHECK_DEADLOCK FALSE
