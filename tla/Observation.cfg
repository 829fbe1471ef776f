SPECIFICATION FairObservationSpec
CONSTANTS
  m = m
  u1 = u1
  Checker = m
  Users = {u1}
  Faults = {"connect", "platform", "init", "query", "report", "command"}
  MaxObservations = 2
CHECK_DEADLOCK FALSE
INVARIANTS
  ObservationTypeOK
  SummaryOfWholeRun
  SignalKept
  ExportingIsServed
PROPERTIES
  StopEnds
  CheckEnds
  RunnersEnd
  UnusedCloneIsDeletedUnlessStuck
