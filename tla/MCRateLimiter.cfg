CONSTANTS
  c1 = c1
  c2 = c2
  c3 = c3
  Caller = {c1, c2, c3}
  MaxRequests = 2
  WindowSeconds = 2
  MaxAborts = 1
  NoKey = NoKey
  NoExpiry = NoExpiry
SPECIFICATION HistorySpec
INVARIANTS WindowBudget SlidingBudget
PROPERTY WindowReopens
