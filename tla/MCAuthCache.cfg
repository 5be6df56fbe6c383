CONSTANTS
  c1 = c1
  c2 = c2
  Caller = {c1, c2}
  TicksPerSecond = 2
  CacheTtlSeconds = 2
  AuthTimeout = 2
  MaxLife = 7
  MaxFaults = 1
  RedisPrompt = TRUE
  NoEntry = NoEntry
  Never = Never
SPECIFICATION Spec
INVARIANTS TypeOK NoHitAfterExpiry
PROPERTIES RevocationTakesHold CallsEnd
