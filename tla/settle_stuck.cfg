SPECIFICATION FairSpec
CONSTANTS
  Invoice = {1, 2}
  Settler = {s1}
  Confirmer = {c1}
  Retrier = {k1}
  Operator = {}
  Tx = {t1, t2}
  BatchSize = 1
  DeadLetterThreshold = 5
  BadDestination = {}
  DryRunValues = {FALSE}
  Faults = {}
  NoTx = NoTx
  NoInvoice = NoInvoice
PROPERTIES
  QueuedIsAlwaysAttempted
  SubmittedIsAlwaysResolved
  RequeuedIsAttempted
CHECK_DEADLOCK FALSE
