SPECIFICATION FairSpec
CONSTANTS
  Conn = {c1, c2}
  Id = {i1}
  Start = {s1, s2}
  NoStart = none
  WindowSets = {{}, {"late"}, {"early", "deaf", "after"}, {"same"}}
CHECK_DEADLOCK FALSE
INVARIANTS
  TypeOK LiveIsRegistered ReturnedIsDeleted StoppedIsEmpty
PROPERTIES
  ClosedIsSwept
