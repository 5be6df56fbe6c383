CONSTANTS
  r1 = r1
  r2 = r2
  r3 = r3
  Request = {r1, r2, r3}
  NoLease = NoLease
  Absent = Absent
  Refused = Refused
  LeaseTtl = 10
  WaitTime = 1
  MaxLost = 0
  RedisPrompt = TRUE
  ProviderOutcomes = {"record", "failure"}
  ProviderTimeout = 10
  MaxFaults = 0
  Second = 1
  RecordTtl = 4
  StaleServeWindow = 2
  CanonicalRecordTtl = 6
SPECIFICATION Spec
SYMMETRY Callers
PROPERTY FreshIsServed
