CONSTANTS
  r1 = r1
  r2 = r2
  r3 = r3
  Request = {r1, r2, r3}
  NoLease = NoLease
  Absent = Absent
  Refused = Refused
  LeaseTtl = 2
  WaitTime = 2
  MaxLost = 1
  RedisPrompt = TRUE
  ProviderOutcomes = {"record", "failure"}
  ProviderTimeout = 2
  MaxFaults = 1
  Second = 1
  RecordTtl = 1
  StaleServeWindow = 2
  CanonicalRecordTtl = 3
SPECIFICATION Spec
INVARIANTS ReleasedOnEveryPath StaleServedIsRefreshed SingleFlight FollowersAreServed
PROPERTIES EveryRequestEnds
