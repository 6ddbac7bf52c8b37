SPECIFICATION RetrySpec
CONSTANTS
  IPs = {a, b, c, d}
  RPS = 3
  MaxSavedIP = 2
  CreateFails = TRUE
  Retrying = {a}
  NULL = NULL
INVARIANTS
  TypeOK
  TwoSecondBound
  TableBounded
PROPERTIES
  NobodyLockedOut
