CONSTANTS
  a = a
  b = b
  p1 = p1
  p2 = p2
  Process = {p1, p2}
  Token = {a, b}
  Titles <- TwoTitles
  IndexTtl = 2
  MaxCrashes = 1
  RedisPrompt = TRUE
  NoDoc = NoDoc
  NoExpiry = NoExpiry
  NoToken = NoToken
SPECIFICATION Spec
INVARIANTS DocumentIsListed SetOutlivesDocument
PROPERTY IndexHeals
