SPECIFICATION Spec
CONSTANTS
  Process = {p1, p2}
  FaultSets = {{"mixed"}}
INVARIANTS
  UpdateIsGuarded
