CONSTANTS
  r1 = r1
  r2 = r2
  r3 = r3
  Request = {r1, r2, r3}
  NoLease = NoLease
  LeaseTtl = 2
  WaitTime = 2
  MaxLost = 2
  RedisPrompt = TRUE
SPECIFICATION CoordSpec
INVARIANT LeaseHasOwner
PROPERTIES ImplementsLease WaitEnds AbandonedLeaseExpires
