SPECIFICATION FairSpec
CONSTANTS
  N = 3
  Faults = {"prepare", "update", "stack", "stuck"}
  MaxSaveFailures = 0
  MaxSessions = 3
CHECK_DEADLOCK FALSE
PROPERTIES
  KeepsPromise
