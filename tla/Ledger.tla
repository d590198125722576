------------------------------- MODULE Ledger -------------------------------
(***************************************************************************)
(* The two status columns through which payment detection and merchant     *)
(* settlement meet: invoices.status and payouts.status.  Everything else   *)
(* a handler keeps is declared by the module of that handler.              *)
(*                                                                         *)
(* payouts.invoice_id is UNIQUE, so a payout is named by its invoice.      *)
(***************************************************************************)
EXTENDS Integers, FiniteSets

CONSTANT Invoice        \* invoices, numbered in the order of created_at

ASSUME InvoiceAssumption == Invoice \subseteq Nat

VARIABLES
  invStatus,            \* invoices.status
  payStatus             \* payouts.status; "none" while the row does not exist

ledgerVars == <<invStatus, payStatus>>

\* No statement of the code writes the status 'failed' the schema also allows.
InvoiceStatus == {"pending", "paid", "expired", "settled"}

PayoutStatus ==
  {"none", "queued", "submitted", "settled", "failed", "dead_lettered"}

LedgerTypeOK ==
  /\ invStatus \in [Invoice -> InvoiceStatus]
  /\ payStatus \in [Invoice -> PayoutStatus]

\* The row a loop over rows ORDER BY created_at ASC takes next.
IsOldest(i, rows) == i \in rows /\ \A j \in rows : i <= j

\* ORDER BY created_at ASC LIMIT n
OldestRows(rows, n) ==
  {i \in rows : Cardinality({j \in rows : j < i}) < n}
=============================================================================
