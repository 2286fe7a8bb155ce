SPECIFICATION Spec
CONSTANTS
  a = a
  b = b
  Slots = {s1}
  Clients = {a, b}
  MaxWrites <- MCMaxWrites
  MaxRestarts = 1
  CacheSize = 4
  None = None
INVARIANTS TypeOK
PROPERTIES AtMostOnce InOrder ImplementsServer
CHECK_DEADLOCK FALSE
