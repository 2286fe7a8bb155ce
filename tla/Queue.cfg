SPECIFICATION FairSpec
CONSTANTS
  Jobs = {j1}
  Workers = {w1}
  Recoverers = {r1}
  Tokens = {t1, t2}
  None = None
  MaxCrashes = 1
INVARIANTS Inductive NoReplay LossNeedsCrash ScanComplete
PROPERTIES ImplementsLifecycle EventuallyClosed
