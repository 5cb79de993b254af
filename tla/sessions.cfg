SPECIFICATION Spec
CONSTANTS
  Process = {p1, p2, p3}
  FaultSets = {{"lost", "undo", "crash"}, {"race", "read", "cleanup", "mixed"}, {"race", "read", "cleanup", "beside"}}
INVARIANTS
  TypeOK DeploymentsExclude UpdatesAreGuarded RefusalHasAReason
