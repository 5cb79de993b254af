SPECIFICATION Spec
CONSTANTS
  Env = {dev, prod}
  FirstEnv = dev
  Secret = {s1, s2}
  WindowSets = {{"refused"}}
CHECK_DEADLOCK FALSE
INVARIANT
  ReadsExist
