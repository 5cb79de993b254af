SPECIFICATION Spec
CONSTANTS
  Process = {p1, p2}
  FaultSets = {{"race"}}
INVARIANTS
  OneDeployment
