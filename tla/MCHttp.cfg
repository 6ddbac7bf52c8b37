SPECIFICATION TrySpec
CONSTANTS
  Clients = {c1, c2}
  CLIENT_BUFFER_SIZE = 16
  FieldMax = 3
  Sends <- OneBusyClient
  Names <- FieldNames
  Garbage = {98}
  NULL = NULL
INVARIANTS
  OwnAnswers
  NeverWaitsForMore
  DecodesEncoded
  SessionCookieRead
  EscapeSafe
  FragmentsCounted
  RendersRight
