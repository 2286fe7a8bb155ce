SPECIFICATION FarmSpec
CONSTANTS
  Slots = {s1}
  Workers = {a, b}
  Direct = {d}
  Limits = {1, 2}
  MaxJobs = 1
  MaxCrashes = 1
  MaxActors = 2
  RestartLimit = 1
  None = None
INVARIANTS FarmInv
PROPERTIES BoundKeepsLease Served
CHECK_DEADLOCK FALSE
