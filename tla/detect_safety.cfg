SPECIFICATION DSpec
CONSTANTS
  Invoice = {1, 2}
  Hook = {w1, w2}
  RustHook = {}
  Scanner = {n1}
  RustScanner = {r1}
  Manual = {}
  Hash = {1, 2}
  Price <- DistinctPrices
  Transfer <- ExactDistinct
  Window = 50
  InvalidKey = {2}
  ZeroNet = {}
  ScanLimit = 50
  RelayTrusted = FALSE
  Outages = TRUE
  NoHash = NoHash
  NoInvoiceId = NoInvoiceId
  NoPayment = NoPayment
SYMMETRY Symmetry
INVARIANTS
  DTypeOK
  PaidCoherently
  OnePaymentOneInvoice
PROPERTY
  FirstDecisionStands
CHECK_DEADLOCK FALSE
