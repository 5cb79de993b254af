SPECIFICATION Spec
CONSTANTS
  Process = {p1, p2}
  FaultSets = {{"beside"}}
INVARIANT UpdateIsGuarded
