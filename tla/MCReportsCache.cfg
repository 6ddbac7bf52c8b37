SPECIFICATION Spec
CONSTANTS
  Citizens = {1}
  Operators = {2, 3}
  Admins = {4}
  CityOf <- OneCity
  CacheSlots = 2
  CacheTTL = 0
  CacheRows = 1
  BodyRows = 2
  DbFaults = {"reset"}
  StarInputs = {5, 6}
  MaxReports = 2
  NULL = NULL
INVARIANTS
  TypeOK
  CacheCoherent
  ServedFresh
  NoDuplicateKeys
PROPERTIES
  ErrorLeavesTable
