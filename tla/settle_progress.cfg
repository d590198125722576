SPECIFICATION FairSpec
CONSTANTS
  Invoice = {1, 2}
  Settler = {s1}
  Confirmer = {c1, c2}
  Retrier = {k1}
  Operator = {o1}
  Tx = {t1, t2}
  BatchSize = 1
  DeadLetterThreshold = 5
  BadDestination = {}
  DryRunValues = {FALSE}
  Faults = {"submit_timeout", "write_lost"}
  NoTx = NoTx
  NoInvoice = NoInvoice
PROPERTIES
  QueuedIsAttempted
  SubmittedIsResolved
  SettledIsFinal
  SubmittedWaitsForVerdict
  SettlesByTheRule
CHECK_DEADLOCK FALSE
