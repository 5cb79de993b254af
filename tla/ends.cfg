SPECIFICATION FairSpec
CONSTANTS
  N = 3
  Faults = {"prepare", "update", "stack", "stuck", "wait", "crash"}
  MaxSaveFailures = 1
  MaxSessions = 2
CHECK_DEADLOCK FALSE
INVARIANTS
  TypeOK StateTracksMachine
PROPERTIES
  EveryCommandEnds
