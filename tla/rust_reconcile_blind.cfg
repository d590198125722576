SPECIFICATION DFairSpec
CONSTANTS
  Invoice = {1}
  Hook = {}
  RustHook = {}
  Scanner = {}
  RustScanner = {r1}
  Manual = {}
  Hash = {1}
  Price <- DistinctPrices
  Transfer <- ExactDistinct
  Window = 50
  InvalidKey = {}
  ZeroNet = {}
  ScanLimit = 50
  RelayTrusted = TRUE
  Outages = FALSE
  NoHash = NoHash
  NoInvoiceId = NoInvoiceId
  NoPayment = NoPayment
PROPERTY
  VisiblePaymentIsDetected
CHECK_DEADLOCK FALSE
