SPECIFICATION Spec
CONSTANTS
  From = 1
  To = 4
  q1 = q1
  q2 = q2
  s1 = s1
  s2 = s2
  s3 = s3
  w1 = w1
  w2 = w2
  c1 = c1
  c2 = c2
  None = None
  Pools = {q1,q2}
  Snapshots = {s1,s2,s3}
  PoolOf <- TwoPoolsThreeSnapshots
  Wrappers = {w1, w2}
  Calls = {c1, c2}
  Occupied = {3}
  MaxNumberOfPortsToCheck = 1
  Faults = {"snapshot", "port", "clone", "run", "prepare"}
SYMMETRY Symmetry
INVARIANTS
  IsolatedClones
  NoLeakedPort
  FreePortIsClean
  NoStrayDataset
