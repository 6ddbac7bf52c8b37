SPECIFICATION FairSpec
CONSTANTS
  Blocks = {b1, b2, b3}
  MaxClients = 3
  BufferSize = 1
  MaxRefused = 1
  NULL = NULL
CHECK_DEADLOCK FALSE
INVARIANTS
  TypeOK
  ListIntact
  NoUseAfterRelease
  NeverAbandoned
  ClosesCounted
PROPERTIES
  ShutdownCompletes
  IdleReaped
