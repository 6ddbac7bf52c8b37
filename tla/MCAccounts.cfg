SPECIFICATION FairSpec
CONSTANTS
  Names = {n1, n2}
  Cities = {bari, lecce}
  Browsers = {b1, b2}
  Trailing = {b2}
  Tokens = {t1, t2}
  SESSION_MAX_AGE = 1
  DbFaults = {"insert", "operators"}
  MaxUsers = 2
  NULL = NULL
INVARIANTS
  TypeOK
  ServedAsSelf
  OneAdminPerCity
PROPERTIES
  SessionsEnd
