SPECIFICATION RetentionSpec
CONSTANTS
  Invoice = {1, 2}
  Hash = {h1, h2}
  PayoutHash <- PayoutHashes
  Archiver = {a1, a2}
  ArchiveAfter = 1
  RetentionRow = 1
  ParamAccepted = TRUE
  OrphanLimit = 2
  LastDay = 4
  NoHash = NoHash
  NoRow = NoRow
  Missing = Missing
  Idle = Idle
SYMMETRY Symmetry
INVARIANTS
  RetentionTypeOK
  HistoryIsKept
PROPERTY
  StatusEndsInArchive
CHECK_DEADLOCK FALSE
