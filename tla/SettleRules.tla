---------------------------- MODULE SettleRules -----------------------------
(***************************************************************************)
(* The rule settle.rs states for recording a settlement.  It has no caller:*)
(* the reconcile cron that records settlements is the Next.js one, which   *)
(* checks nothing at that point.                                           *)
(***************************************************************************)
EXTENDS Settlement

\* parse_status of both enums; an unknown word is none of them.
KnownInvoiceStatus == {"pending", "paid", "settled", "expired", "failed"}
KnownPayoutStatus == {"queued", "submitted", "settled", "failed", "dead_lettered"}

\* validate_settle_transition: the first check that fails names the error.  A
\* payout status nobody knows passes.
ValidateSettleTransition(invoice, payout, tx) ==
  CASE tx = NoTx -> "MissingTxHash"
    [] tx # NoTx /\ ~(invoice \in KnownInvoiceStatus /\ invoice = "paid") ->
         "InvoiceNotPaid"
    [] tx # NoTx /\ invoice = "paid"
         /\ payout \in KnownPayoutStatus \ {"queued", "submitted"} ->
         "PayoutAlreadyTerminal"
    [] OTHER -> "Ok"

-----------------------------------------------------------------------------
\* The idempotency guard of the rule ("Payout is already settled or failed") is the
\* one that markPayoutSettled does without.  Where overlapping reconcile runs break
\* it, they repeat the settlement on record, hash and all, and each of them once: no
\* more events than runs that overlap.  So a reconcile run that is alone obeys it.
RepeatsSettlement(i) ==
  /\ payStatus[i] = "settled"
  /\ payTx'[i] = payTx[i]
  /\ settledEvents'[i] <= Cardinality(Confirmer)

\* Whenever a settlement is recorded, the rule nobody calls allows it: the invoice is
\* paid, the payout not terminal, the hash known, although the reconcile cron read
\* the row, and asked Horizon, some steps before.  The one exception is the
\* repetition by runs that overlap.
SettlesByTheRule ==
  [][\A i \in Invoice :
       settledEvents'[i] > settledEvents[i] =>
         \/ ValidateSettleTransition(invStatus[i], payStatus[i], payTx'[i]) = "Ok"
         \/ RepeatsSettlement(i)]_vars
=============================================================================
