SPECIFICATION Spec
CONSTANTS
  Chunks = {c1, c2, c3}
  chunkCapacity = 2
  NULL = NULL
CHECK_DEADLOCK FALSE
INVARIANTS
  TypeOK
  SlotsAccounted
  ChunksLinked
  EmptyOnlyAlone
PROPERTIES
  ImplementsAllocator
