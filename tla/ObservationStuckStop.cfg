SPECIFICATION FairObservationSpec
CONSTANTS
  m = m
  u1 = u1
  Checker = m
  Users = {}
  Faults = {"report"}
  MaxObservations = 2
CHECK_DEADLOCK FALSE
PROPERTIES
  UnusedCloneIsDeleted
