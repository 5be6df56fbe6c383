CONSTANTS
  a = a
  b = b
  q = q
  p1 = p1
  p2 = p2
  Process = {p1, p2}
  Title = {a, b}
  Query = {q}
  Page = {1}
  PageSize = 2
  ProviderPageSize = 2
  Matches <- AllMatch
  ProviderOrder <- Alphabetical
  IndexOrder <- Alphabetical
  SnapshotTtl = 1
  IndexTtl = 2
  Absent = Absent
  Second = 1
  RecordTtl = 1
  StaleServeWindow = 1
  CanonicalRecordTtl = 2
SPECIFICATION Spec
INVARIANT AnswersAreRecent
PROPERTY ProviderIsAskedAgain
