SPECIFICATION RecoverySpec
CONSTANTS
  From = 1
  To = 3
  q1 = q1
  q2 = q2
  s1 = s1
  s2 = s2
  w1 = w1
  w2 = w2
  w3 = w3
  c1 = c1
  c2 = c2
  h1 = h1
  h2 = h2
  i1 = i1
  i2 = i2
  None = None
  Torn = Torn
  IdleChecker = IdleChecker
  Pools = {q1,q2}
  Snapshots = {s1,s2}
  PoolOf <- TwoPools
  Wrappers = {w1,w2}
  Calls = {c1}
  Handlers = {h1}
  IDs = {i1,i2}
  Occupied = {}
  MaxNumberOfPortsToCheck = 1
  Faults = {"start"}
  Requests = {"create", "destroy", "reset"}
  ClientsWait = TRUE
  PromptStops = TRUE
  TornWrites = TRUE
  MaxSaves = 1
SYMMETRY Symmetry
INVARIANTS
  RecoveryTypeOK
  NothingLeftBehind
PROPERTIES
  SettledClonesSurvive
  RestoredPortsHeld
