SPECIFICATION Spec
CONSTANTS
  Nested = {n1, n2}
  MaxOwn = 2
  PageSize = 2
  MaxPolls = 3
  Faults = {"throttle", "error", "rerun"}
  n1 = n1
  n2 = n2
CHECK_DEADLOCK FALSE
SYMMETRY Symmetry
CONSTRAINT InBounds
INVARIANTS
  TypeOK NoGaps SingleReader RunningIsMonitored
PROPERTIES
  ShowsOnlyNewer
