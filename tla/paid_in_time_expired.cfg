SPECIFICATION DSpec
CONSTANTS
  Invoice = {1}
  Hook = {}
  RustHook = {}
  Scanner = {n1}
  RustScanner = {}
  Manual = {}
  Hash = {1}
  Price <- DistinctPrices
  Transfer <- ExactDistinct
  Window = 50
  InvalidKey = {}
  ZeroNet = {}
  ScanLimit = 50
  RelayTrusted = TRUE
  Outages = FALSE
  NoHash = NoHash
  NoInvoiceId = NoInvoiceId
  NoPayment = NoPayment
INVARIANT
  PaidInTimeIsNotExpired
CHECK_DEADLOCK FALSE
