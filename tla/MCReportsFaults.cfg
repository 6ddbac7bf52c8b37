SPECIFICATION FairSpec
CONSTANTS
  Citizens = {1, 2}
  Operators = {3, 5}
  Admins = {7}
  CityOf <- TwoCities
  CacheSlots = 1
  CacheTTL = 1
  CacheRows = 1
  BodyRows = 1
  DbFaults = {"lookup", "user", "insert", "update", "peek", "reset", "json", "reread", "retry", "select", "row"}
  StarInputs = {1}
  MaxReports = 1
  NULL = NULL
INVARIANTS
  RowConsistent
PROPERTIES
  ImplementsLifecycle
  StaleExpires
