SPECIFICATION Spec
CONSTANTS
  N = 2
  Faults = {"wait"}
  MaxSaveFailures = 0
  MaxSessions = 1
CHECK_DEADLOCK FALSE
INVARIANTS
  PushFindsStackAtRest
