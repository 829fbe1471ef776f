SPECIFICATION BoxSpec
CONSTANTS
  Goroutines = {g1, g2}
  IDs = {i1, i2}
  Clones = {c1, c2}
  MaxSnapshots = 2
  MaxResets = 2
SYMMETRY Symmetry
INVARIANTS
  SnapshotBoxTypeOK
  CountsFollowRegistry
