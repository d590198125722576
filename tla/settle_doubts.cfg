SPECIFICATION Spec
CONSTANTS
  Invoice = {1}
  Settler = {s1}
  Confirmer = {c1, c2, c3}
  Retrier = {k1}
  Operator = {o1}
  Tx = {t1}
  BatchSize = 50
  DeadLetterThreshold = 5
  BadDestination = {}
  DryRunValues = {TRUE, FALSE}
  Faults = {"write_unacked"}
  NoTx = NoTx
  NoInvoice = NoInvoice
INVARIANTS
  OneSettledEvent
  HealthCountsDeadLettered
PROPERTIES
  CleanReplay
  SettledIsFinal
  DryRunIsPure
CHECK_DEADLOCK FALSE
