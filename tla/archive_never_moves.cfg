SPECIFICATION RetentionFairSpec
CONSTANTS
  Invoice = {1, 2}
  Hash = {h1, h2}
  PayoutHash <- PayoutHashes
  Archiver = {a1, a2}
  ArchiveAfter = 0
  RetentionRow = 1
  ParamAccepted = FALSE
  OrphanLimit = 4
  LastDay = 2
  NoHash = NoHash
  NoRow = NoRow
  Missing = Missing
  Idle = Idle
PROPERTY
  OldIsArchived
CHECK_DEADLOCK FALSE
