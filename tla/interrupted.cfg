SPECIFICATION Spec
CONSTANTS
  N = 2
  Faults = {"crash"}
  MaxSaveFailures = 0
  MaxSessions = 1
CHECK_DEADLOCK FALSE
INVARIANTS
  InterruptedCanRollBack
