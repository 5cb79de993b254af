SPECIFICATION FairSpec
CONSTANTS
  M = 3
  MaxInFlight = 1
CHECK_DEADLOCK FALSE
INVARIANTS
  TypeOK SomeTableReady
PROPERTIES
  WaitEnds
