SPECIFICATION Spec
CONSTANTS
  Process = {p1, p2, p3}
  FaultSets = {{"read"}}
INVARIANTS
  OneDeployment
