CONSTANTS
  tmdbRecord = tmdbRecord
  imdbRecord = imdbRecord
  tmdbId = tmdbId
  imdbId = imdbId
  p1 = p1
  p2 = p2
  Process = {p1, p2}
  MediaId = {tmdbRecord, imdbRecord}
  Identifier = {tmdbId, imdbId}
  Ids <- TwoRecords
  Unchecked = {tmdbRecord}
  MaxOperations = 4
  None = None
  Second = 1
  RecordTtl = 1
  StaleServeWindow = 1
  CanonicalRecordTtl = 3
SPECIFICATION Spec
SYMMETRY Processes
INVARIANTS TypeOK PromiseKept LookupFindsPromised
