SPECIFICATION Spec
CONSTANTS
  Nested = {n1}
  MaxOwn = 1
  PageSize = 2
  MaxPolls = 3
  Faults = {}
  n1 = n1
CHECK_DEADLOCK FALSE
INVARIANT
  FlushesAll
