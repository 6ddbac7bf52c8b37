SPECIFICATION Spec
CONSTANTS
  Blocks = {b1, b2}
  MaxClients = 1
  BufferSize = 1
  MaxRefused = 0
  NULL = NULL
CHECK_DEADLOCK FALSE
INVARIANTS
  StalledOnlyAtCap
