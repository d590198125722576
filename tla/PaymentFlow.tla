---------------------------- MODULE PaymentFlow ----------------------------
(***************************************************************************)
(* The whole way of the money: detection and settlement run side by side   *)
(* on the same invoices and payouts, every process of both at its own      *)
(* pace.  A payout becomes visible to the settle crons in the very         *)
(* transaction that marks its invoice paid.                                *)
(***************************************************************************)
EXTENDS Detection, Settlement

flowVars == <<ledgerVars, detectionVars, settlementVars>>

FlowInit ==
  /\ invStatus = [i \in Invoice |-> "pending"]
  /\ payStatus = [i \in Invoice |-> "none"]
  /\ DetectionStart
  /\ SettlementStart

FlowNext ==
  \/ DetectionNext /\ UNCHANGED settlementVars
  \/ SettlementNext /\ UNCHANGED detectionVars

FlowSpec == FlowInit /\ [][FlowNext]_flowVars

-----------------------------------------------------------------------------
Inflight(i) == {t \in TxsOf(i) : txState[t] = "inflight"}
Executed(i) == {t \in TxsOf(i) : txState[t] = "success"}

Money == INSTANCE MoneyFlow WITH
           book    <- invStatus,
           moving  <- [i \in Invoice |-> Inflight(i)],
           arrived <- [i \in Invoice |-> Executed(i)]

\* The two services together keep the promise of MoneyFlow: in particular a
\* transfer is only built for an invoice that is paid at that moment, though the
\* settle cron read its status some steps before.
KeepsMoneyFlow == Money!Spec

FlowTypeOK == LedgerTypeOK /\ DetectionTypeOK /\ SettlementTypeOK

\* A buyer did send the payment recorded for invoice i, and sent it for i.
PaidByBuyer(i) == MadeFor(invHash[i], i)

\* A merchant is sent money only for an invoice with a payment of its own: no two
\* merchants are paid from one payment, even when two deliveries and a scan carry
\* it at once.  As far as the relay reports only payments that were made, and for
\* the invoice they were made for, it is a payment a buyer did make for this very
\* invoice.  From a relay that makes them up only the first half follows: the
\* webhook never asks Horizon, by design.
TransferIsBacked ==
  \A i \in Invoice :
    LiveTxsOf(i) # {} =>
      /\ invHash[i] \in Hash
      /\ \A j \in Invoice \ {i} : invHash[j] # invHash[i]
      /\ RelayTrusted => PaidByBuyer(i)

\* A payout exists exactly for the invoices that were accepted with a valid
\* settlement key, and stays with them after they are settled.
PayoutMatchesInvoice ==
  \A i \in Invoice :
    payStatus[i] # "none" <=>
      invStatus[i] \in {"paid", "settled"} /\ i \notin InvalidKey

-----------------------------------------------------------------------------
(* Why they hold: an inductive invariant of the two services together.     *)

\* An invoice has a payment hash exactly when it was accepted.
AcceptedByHash ==
  \A i \in Invoice : invHash[i] # NoHash <=> invStatus[i] \in {"paid", "settled"}

\* Only a payout row can be claimed, and only an accepted invoice has one: so
\* whatever settlement works on, it works on for an accepted invoice.
PayoutIsAccepted ==
  \A i \in Invoice :
    /\ payClaimed[i] => payStatus[i] # "none"
    /\ payStatus[i] # "none" => invStatus[i] \in {"paid", "settled"}

\* Behind a trusted relay, what a delivery or a scan is about to record is a payment
\* that was made for that invoice, and so is what the books say.
PaymentsAreReal ==
  RelayTrusted =>
    /\ \A w \in Hooks : hook[w].pc # "idle" => MadeFor(hook[w].hash, hook[w].inv)
    /\ \A s \in Scanners : scanner[s].pc = "mark" => MadeFor(scanner[s].hash, scanner[s].cur)
    /\ \A i \in Invoice : invHash[i] # NoHash => MadeFor(invHash[i], i)

FlowInv ==
  /\ SettlementInv
  /\ DetectionTypeOK /\ RunsCarryWork /\ OnePaymentOneInvoice
  /\ PaymentsAreReal
  /\ AcceptedByHash /\ PayoutIsAccepted
=============================================================================
