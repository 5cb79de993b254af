SPECIFICATION Spec
CONSTANTS
  i1 = i1
  i2 = i2
  i3 = i3
  x = x
  y = y
  Model = {m1}
  Index <- MCIndex
  Attr = {id, x, y}
  TableKeys = {{id}, {id, x}}
  SortKeys = {{}}
  IndexKeys <- MCIndexKeys
  Function = {f1}
  MAX_GSI_PER_TABLE = 2
CHECK_DEADLOCK FALSE
INVARIANT
  RollbackUndoes
