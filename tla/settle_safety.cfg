SPECIFICATION Spec
CONSTANTS
  Invoice = {1, 2}
  Settler = {s1, s2}
  Confirmer = {c1, c2}
  Retrier = {k1}
  Operator = {o1}
  Tx = {t1, t2, t3}
  BatchSize = 50
  DeadLetterThreshold = 3
  BadDestination = {2}
  DryRunValues = {TRUE, FALSE}
  Faults = {"crash", "submit_timeout", "write_lost", "write_unacked", "claim_only"}
  NoTx = NoTx
  NoInvoice = NoInvoice
SYMMETRY Symmetry
INVARIANTS
  TypeOK
  AtMostOneTransfer
  ClaimExclusive
  SettledIsTransferred
CHECK_DEADLOCK FALSE
