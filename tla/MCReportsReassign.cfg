SPECIFICATION Spec
CONSTANTS
  Citizens = {1}
  Operators = {2, 3}
  Admins = {4}
  CityOf <- OneCity
  CacheSlots = 1
  CacheTTL = 1
  CacheRows = 1
  BodyRows = 1
  DbFaults = {"retry"}
  StarInputs = {1}
  MaxReports = 1
  NULL = NULL
INVARIANTS
  ServedFresh
