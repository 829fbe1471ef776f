SPECIFICATION FairRefreshSpec
CONSTANTS
  q1 = q1
  q2 = q2
  t1 = t1
  t2 = t2
  c1 = c1
  None = None
  Main = Main
  Pools = {q1,q2}
  Entries <- InOrder
  Ticks = {t1,t2}
  Clones = {c1}
  Faults = {"prepare","job","crash"}
  MaxRefreshes = 1
  MaxReloads = 1
CHECK_DEADLOCK FALSE
INVARIANTS
  PoolRefreshTypeOK
  StatusSettles
  FrontIsNewest
  ClonesKeepSnapshot
PROPERTIES
  ServiceContinues
  RefreshEnds
