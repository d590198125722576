SPECIFICATION DFairSpec
CONSTANTS
  Invoice = {1, 2}
  Hook = {}
  RustHook = {}
  Scanner = {n1}
  RustScanner = {}
  Manual = {}
  Hash = {1, 2}
  Price <- EqualPrices
  Transfer <- ExactEqual
  Window = 50
  InvalidKey = {}
  ZeroNet = {}
  ScanLimit = 50
  RelayTrusted = TRUE
  Outages = FALSE
  NoHash = NoHash
  NoInvoiceId = NoInvoiceId
  NoPayment = NoPayment
PROPERTY
  PaymentIsDetected
CHECK_DEADLOCK FALSE
