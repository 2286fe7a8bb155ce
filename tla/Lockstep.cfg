SPECIFICATION Spec
CONSTANTS
  Lanes = {1, 2}
  Lens = {1, 2}
  CoreMayFail = TRUE
INVARIANTS GroupInv FrameRefreshed
PROPERTIES EndIsTold Resolved
