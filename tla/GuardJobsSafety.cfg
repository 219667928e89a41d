SPECIFICATION Spec
CONSTANTS
  MaxJobs = 2
  Tenants = {t1, t2}
  Workers = {w1, w2}
  Digests = {d1, d2}
  NoDigest = NoDigest
  MaxAttempts = 2
  RecoverLimit = 1
  SanitizationApproved = TRUE
  TokenLimit = 2
  CandidateLimit = 1
  MaxSheets = 2
  MaxRows = 2
  MaxColumns = 2
  MaxCells = 3
  MaxFindings = 3
  CompressedBytes = 760
  ExpandedBytes = 37
  EntryBytes = 11
  MaxEntries = 6
  Ratio = 2
  BodyBytes <- SomeBytes
SYMMETRY Symmetry
INVARIANTS
  TypeOK
  ActiveMatchesStatus
  OneOpenJobPerTenant
  EventsTellHistory
  CopyIsIntact
  ObjectIsTracked
PROPERTIES
  ClosedIsFinal
  ImplementsLedger
