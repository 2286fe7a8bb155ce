SPECIFICATION FairSpec
CONSTANTS
  Logicals = {l1, l2}
  MaxAttempts = 2
  Outcomes = {"valid", "infra", "rejected"}
  None = None
  MaxCrashes = 1
INVARIANTS LedgerInv IngestLosesNothing
PROPERTIES Terminates
CHECK_DEADLOCK FALSE
