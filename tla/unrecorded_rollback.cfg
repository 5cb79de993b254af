SPECIFICATION Spec
CONSTANTS
  N = 2
  Faults = {"stack"}
  MaxSaveFailures = 0
  MaxSessions = 1
CHECK_DEADLOCK FALSE
INVARIANTS
  FullRollbackIsRecorded
