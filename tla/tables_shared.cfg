SPECIFICATION Spec
CONSTANTS
  M = 2
  MaxInFlight = 1
CHECK_DEADLOCK FALSE
INVARIANTS
  EveryTableReady
