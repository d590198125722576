SPECIFICATION FlowSpec
CONSTANTS
  Invoice = {1, 2}
  Hook = {w1}
  RustHook = {}
  Scanner = {n1}
  RustScanner = {}
  Manual = {}
  Hash = {1}
  Price <- Prices
  Transfer <- Exact
  Window = 50
  InvalidKey = {}
  ZeroNet = {}
  ScanLimit = 50
  RelayTrusted = TRUE
  Outages = TRUE
  NoHash = NoHash
  NoInvoiceId = NoInvoiceId
  NoPayment = NoPayment
  Settler = {s1, s2}
  Confirmer = {c1}
  Retrier = {k1}
  Operator = {o1}
  Tx = {t1, t2}
  BatchSize = 50
  DeadLetterThreshold = 3
  BadDestination = {}
  DryRunValues = {FALSE}
  Faults = {"crash", "submit_timeout", "write_unacked", "claim_only"}
  NoTx = NoTx
  NoInvoice = NoInvoice
SYMMETRY Symmetry
INVARIANTS
  TransferIsBacked
  PayoutMatchesInvoice
PROPERTY
  KeepsMoneyFlow
CHECK_DEADLOCK FALSE
