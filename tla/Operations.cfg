SPECIFICATION Spec
CONSTANTS
  r1 = r1
  r2 = r2
  e = e
  None = None
  Ops = {r1, r2, e}
  KindOf <- MCKinds
  CommandSize = 1
  MaxSteps = 2
INVARIANTS WorkerInv AtMostOnce HonestRegistry
PROPERTIES NeverBack Settled
CHECK_DEADLOCK FALSE
