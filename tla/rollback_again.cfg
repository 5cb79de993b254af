SPECIFICATION Spec
CONSTANTS
  N = 3
  Faults = {"crash"}
  MaxSaveFailures = 0
  MaxSessions = 2
CHECK_DEADLOCK FALSE
INVARIANTS
  RollbackCommandSucceeds
