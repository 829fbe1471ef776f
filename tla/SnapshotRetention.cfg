SPECIFICATION RetentionSpec
CONSTANTS
  j1 = j1
  j2 = j2
  c1 = c1
  Jobs = {j1,j2}
  Clones = {c1}
  Limit = 3
  Faults = {"snapshot","set","clone","promote","mark","label","destroy"}
  MaxSnapshots = 4
  MaxLeft = 1
  MaxState = 2
SYMMETRY Symmetry
INVARIANTS
  RetentionTypeOK
  ClonesKeepSnapshot
  
  NothingHalfBuilt
PROPERTIES
  RetentionKeeps
