SPECIFICATION Spec
CONSTANTS
  Env = {dev, prod}
  FirstEnv = dev
  Secret = {s1, s2, s3}
  WindowSets = {
    {"dies", "undone", "leaving"},
    {"refused", "declined"},
    {"partial", "publish", "elsewhere", "undone", "leaving"}}
SYMMETRY Symmetry
CHECK_DEADLOCK FALSE
INVARIANTS
  TypeOK DeployedHaveValues NoOrphans
PROPERTIES
  PushSparesNames
