SPECIFICATION RetentionSpec
CONSTANTS
  Invoice = {1, 2}
  Hash = {h1, h2}
  PayoutHash <- PayoutHashes
  Archiver = {a1, a2}
  ArchiveAfter = 0
  RetentionRow = 1
  ParamAccepted = TRUE
  OrphanLimit = 4
  LastDay = 2
  NoHash = NoHash
  NoRow = NoRow
  Missing = Missing
  Idle = Idle
INVARIANTS
  PayoutIsArchivedToo
  HashNamesOneInvoice
  OrphansArrived
PROPERTY
  NamedIsNoOrphan
CHECK_DEADLOCK FALSE
