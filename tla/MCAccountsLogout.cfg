SPECIFICATION Spec
CONSTANTS
  Names = {n1}
  Cities = {c1}
  Browsers = {b1}
  Trailing = {b1}
  Tokens = {t1}
  SESSION_MAX_AGE = 1
  DbFaults = {}
  MaxUsers = 1
  NULL = NULL
PROPERTIES
  LogoutEndsSession
