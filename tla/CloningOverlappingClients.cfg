SPECIFICATION FairSpec
CONSTANTS
  From = 1
  To = 2
  q1 = q1
  q2 = q2
  s1 = s1
  s2 = s2
  w1 = w1
  w2 = w2
  w3 = w3
  c1 = c1
  c2 = c2
  h1 = h1
  h2 = h2
  i1 = i1
  i2 = i2
  None = None
  IdleChecker = IdleChecker
  Pools = {q1}
  Snapshots = {s1}
  PoolOf <- OnePool
  Wrappers = {w1,w2}
  Calls = {c1,c2}
  Handlers = {h1}
  IDs = {i1}
  Occupied = {}
  MaxNumberOfPortsToCheck = 1
  Faults = {}
  Requests = {"create", "destroy", "reset", "observe"}
  ClientsWait = FALSE
  PromptStops = TRUE
INVARIANTS
  NothingDangles
PROPERTIES
  OperationsEnd
