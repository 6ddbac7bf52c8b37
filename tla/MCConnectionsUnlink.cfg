SPECIFICATION Spec
CONSTANTS
  Blocks = {b1, b2}
  MaxClients = 2
  BufferSize = 1
  MaxRefused = 1
  NULL = NULL
CHECK_DEADLOCK FALSE
PROPERTIES
  UnlinkOnlyLinked
