SPECIFICATION FairSpec
CONSTANTS
  Sessions = {s1, s2}
  Keys = {k1}
  Ranks = {r1, r2}
  Calls = {c1, c2}
  Maintenance = Maintenance
  MaxSessions = 2
  None = None
INVARIANTS SessionInv OneSessionPerKey
PROPERTIES ClosingEnds
