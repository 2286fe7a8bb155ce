SPECIFICATION Spec
CONSTANTS
  Sessions = {s1, s2, s3, s4}
  MinSize = 1
  MaxSize = 3
  MaxBuilds = 2
  Reaper = Reaper
  None = None
SYMMETRY Symmetry
INVARIANTS PoolInv HealthySlots
