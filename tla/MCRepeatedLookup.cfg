CONSTANTS
  TmdbTimeout = 1
  ImdbTimeout = 1
SPECIFICATION KeptSpec
PROPERTY ProviderIsHitOnce
CHECK_DEADLOCK FALSE
