CONSTANTS
  q1 = q1
  q2 = q2
  q3 = q3
  w1 = w1
  w2 = w2
  Requester = {q1, q2, q3}
  Worker = {w1, w2}
  JobAttempts = 3
  Backoff = 1
  DedupTtl = 2
  MaxCrashes = 2
  Absent = Absent
  Second = 1
  RecordTtl = 1
  StaleServeWindow = 2
  CanonicalRecordTtl = 3
SPECIFICATION HistorySpec
INVARIANTS OneAttempt RefreshBudget
PROPERTIES JobSettles RefreshesGoOn
