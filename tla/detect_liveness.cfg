SPECIFICATION DFairSpec
CONSTANTS
  Invoice = {1, 2}
  Hook = {w1}
  RustHook = {}
  Scanner = {n1, m1}
  RustScanner = {}
  Manual = {m1}
  Hash = {1, 2}
  Price <- DistinctPrices
  Transfer <- WithOtherAsset
  Window = 50
  InvalidKey = {2}
  ZeroNet = {}
  ScanLimit = 2
  RelayTrusted = TRUE
  Outages = FALSE
  NoHash = NoHash
  NoInvoiceId = NoInvoiceId
  NoPayment = NoPayment
PROPERTIES
  VisiblePaymentIsDetected
  OverdueIsClosed
CHECK_DEADLOCK FALSE
