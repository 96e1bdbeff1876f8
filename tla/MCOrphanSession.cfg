SPECIFICATION Spec
CONSTANTS
  Gens = {g1, g2}
  NoGen = NoGen
  MaxOrphans = 1
  BackoffCap = 2
SYMMETRY GenSymmetry
INVARIANT NothingOldConnected
