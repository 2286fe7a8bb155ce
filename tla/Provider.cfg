SPECIFICATION AdmissionSpec
CONSTANTS
  a = a
  b = b
  c = c
  Callers = {a, b, c}
  Estimate <- MCEstimate
  Samples = {0, 2}
  MinLimit = 1
  InitialLimit = 2
  MaxLimit = 3
  IncreaseStep = 2
  Healthy = 2
  RpmLimit = 3
  TpmLimit = 3
  MaxCalls = 2
  MaxCrashes = 1
INVARIANTS AdmissionInv
PROPERTIES Admitted
CHECK_DEADLOCK FALSE
