SPECIFICATION ProbeSpec
CONSTANTS
  Keys = {"a", "b", "c"}
  Values = {v1, v2}
  Hashes <- Seeds
  initialCapacity = 1
  NULL = NULL
INVARIANTS
  EntriesCounted
  EntriesPlaced
  LoadBelowOne
  GrowsToPrime
PROPERTIES
  ImplementsMap
