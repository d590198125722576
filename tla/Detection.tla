------------------------------ MODULE Detection ------------------------------
(***************************************************************************)
(* How a pending invoice becomes paid, or expires.  Webhook deliveries,    *)
(* reconcile runs and manual replays of both services race for the same    *)
(* rows; each reads first and writes in a later transaction:               *)
(*   Hook, RustHook        POST /api/webhooks/stellar;                     *)
(*   Scanner, RustScanner  GET /api/cron/reconcile (its scan of pending    *)
(*                         invoices) or, for the slots in Manual, POST     *)
(*                         /api/cron/reconcile/replay, which is such a     *)
(*                         scan of one invoice.                            *)
(* Buyers pay on the Stellar network, outside the program, all to the one  *)
(* treasury account.                                                       *)
(***************************************************************************)
EXTENDS Ledger

CONSTANTS
  Hook, RustHook, Scanner, RustScanner, Manual,
  Hash,                 \* hashes of buyer payments, numbered as Horizon lists them
  Price,                \* gross_amount_cents
  Transfer,             \* what buyers may send: records [memo, amount, usdc]
  Window,               \* the payments?limit=50 of a scan
  InvalidKey,           \* invoices whose merchant has no valid settlement key
  ZeroNet,              \* invoices whose fee eats the whole amount (1 cent)
  ScanLimit,            \* RECONCILE_SCAN_LIMIT, of the Next.js service
  RelayTrusted,         \* does the relay only report payments that exist?
  Outages,              \* may Horizon or a query fail during a run?
  NoHash, NoInvoiceId, NoPayment

ASSUME DetectionAssumption ==
  /\ Manual \subseteq Scanner \cup RustScanner
  /\ Scanner \cap RustScanner = {}
  /\ Hook \cap RustHook = {}
  /\ Hash \subseteq Nat
  /\ Price \in [Invoice -> Nat]
  /\ Transfer \subseteq [memo : Invoice, amount : Nat, usdc : BOOLEAN]
  /\ Window \in Nat \ {0}
  /\ InvalidKey \subseteq Invoice
  /\ ZeroNet \subseteq Invoice
  /\ ScanLimit \in Nat \ {0}
  /\ RelayTrusted \in BOOLEAN
  /\ Outages \in BOOLEAN
  /\ NoHash \notin Hash
  /\ NoInvoiceId \notin Invoice
  /\ NoPayment \notin [transfer : Transfer, late : BOOLEAN]

VARIABLES
  invHash,              \* invoices.transaction_hash
  detectedEvents,       \* payment_detected rows of payment_events
  skippedEvents,        \* invoices with a payout_skipped_invalid_destination row
  mismatchEvents,       \* invoices with a payment_*_mismatch row
  pastExpiry,           \* invoices whose expires_at has passed
  payments,             \* external: what each hash sent, and whether too late
  hook, scanner

invoiceVars   == <<invHash, detectedEvents, skippedEvents, mismatchEvents>>
outsideVars   == <<pastExpiry, payments>>
detectionVars == <<invoiceVars, outsideVars, hook, scanner>>

Hooks    == Hook \cup RustHook
Scanners == Scanner \cup RustScanner

NoDelivery == [pc |-> "idle", inv |-> NoInvoiceId, hash |-> NoHash]
IdleScan ==
  [pc |-> "next", todo |-> {}, cur |-> NoInvoiceId, hash |-> NoHash]

Payment == [transfer : Transfer, late : BOOLEAN]

DetectionTypeOK ==
  /\ invHash \in [Invoice -> Hash \cup {NoHash}]
  /\ detectedEvents \in [Invoice -> Nat]
  /\ skippedEvents \subseteq Invoice
  /\ mismatchEvents \subseteq Invoice
  /\ pastExpiry \subseteq Invoice
  /\ payments \in [Hash -> Payment \cup {NoPayment}]
  /\ hook \in [Hooks -> [pc : {"idle", "read", "mark"},
                         inv : Invoice \cup {NoInvoiceId}, hash : Hash \cup {NoHash}]]
  /\ scanner \in [Scanners ->
       [pc : {"next", "expire", "mark"}, todo : SUBSET Invoice,
        cur : Invoice \cup {NoInvoiceId}, hash : Hash \cup {NoHash}]]

DetectionStart ==
  /\ invHash = [i \in Invoice |-> NoHash]
  /\ detectedEvents = [i \in Invoice |-> 0]
  /\ skippedEvents = {}
  /\ mismatchEvents = {}
  /\ pastExpiry = {}
  /\ payments = [h \in Hash |-> NoPayment]
  /\ hook = [w \in Hooks |-> NoDelivery]
  /\ scanner = [s \in Scanners |-> IdleScan]

-----------------------------------------------------------------------------
(* The guarded transactions on an invoice.                                 *)

\* A bug this could have: a database without migration 007.
HashTaken_NoIndex(i, h) == FALSE

\* Migration 007: a partial unique index on invoices.transaction_hash.
HashTaken(i, h) == \E j \in Invoice \ {i} : invHash[j] = h

\* A bug this could have: a late payment may revive an expired invoice.
PaidUpdateApplies_LatePayment(i, h) ==
  invStatus[i] \in {"pending", "expired"} /\ ~HashTaken(i, h)

\* UPDATE invoices SET status = 'paid' ... WHERE id = i AND status = 'pending'
\* matches a row and the unique index accepts it.
PaidUpdateApplies(i, h) == invStatus[i] = "pending" /\ ~HashTaken(i, h)

SetPaid(i, h) ==
  /\ invStatus' = [invStatus EXCEPT ![i] = "paid"]
  /\ invHash' = [invHash EXCEPT ![i] = h]

\* A bug this could have: a status the CHECK on payouts does not list.
QueuePayout_OtherStatus(i) ==
  payStatus' = [payStatus EXCEPT ![i] = IF @ = "none" THEN "pending" ELSE @]

\* ON CONFLICT (invoice_id) DO NOTHING
QueuePayout(i) ==
  payStatus' = [payStatus EXCEPT ![i] = IF @ = "none" THEN "queued" ELSE @]

\* Does the transaction throw?  An invoice of net zero cannot have a payout:
\* CHECK (amount_cents > 0) on payouts undoes the update of the invoice too.
MarkPaidThrows(i, h) ==
  PaidUpdateApplies(i, h) /\ i \in ZeroNet /\ i \notin InvalidKey

\* A bug this could have: going on when the UPDATE matched no row.
MarkInvoicePaid_NoEarlyReturn(i, h) ==
  /\ IF PaidUpdateApplies(i, h) THEN SetPaid(i, h) ELSE UNCHANGED <<invStatus, invHash>>
  /\ detectedEvents' = [detectedEvents EXCEPT ![i] = @ + 1]
  /\ IF i \in InvalidKey THEN UNCHANGED payStatus ELSE QueuePayout(i)
  /\ skippedEvents' = skippedEvents \cup ({i} \cap InvalidKey)
  /\ UNCHANGED mismatchEvents

\* The transaction of markInvoicePaid and mark_invoice_paid_and_queue_payout:
\* status, payment_detected and payout (or the reason for none) all at once,
\* or nothing when another worker was first or the hash is taken.
MarkInvoicePaid(i, h) ==
  IF PaidUpdateApplies(i, h) /\ ~MarkPaidThrows(i, h)
  THEN /\ SetPaid(i, h)
       /\ detectedEvents' = [detectedEvents EXCEPT ![i] = @ + 1]
       /\ \/ /\ i \in InvalidKey
             /\ skippedEvents' = skippedEvents \cup {i}
             /\ UNCHANGED payStatus
          \/ /\ i \notin InvalidKey
             /\ QueuePayout(i)
             /\ UNCHANGED skippedEvents
       /\ UNCHANGED mismatchEvents
  ELSE UNCHANGED <<ledgerVars, invoiceVars>>

\* UPDATE invoices SET status = 'expired' ... WHERE id = i AND status = 'pending'
MarkInvoiceExpired(i) ==
  /\ invStatus' = [invStatus EXCEPT ![i] = IF @ = "pending" THEN "expired" ELSE @]
  /\ UNCHANGED <<payStatus, invoiceVars>>

\* The Rust webhook sets the invoice paid itself and only then calls the helper,
\* whose compare-and-set no longer finds a pending row: no event, no payout.
RustWebhookMarkPaid(i, h) ==
  IF PaidUpdateApplies(i, h)
  THEN /\ SetPaid(i, h)
       /\ UNCHANGED <<payStatus, detectedEvents, skippedEvents, mismatchEvents>>
  ELSE UNCHANGED <<ledgerVars, invoiceVars>>

-----------------------------------------------------------------------------
(* findPaymentForInvoice: the treasury's latest payments, newest first.    *)

Made == {h \in Hash : payments[h] # NoPayment}

\* A buyer made payment h, with the memo of invoice i.
MadeFor(h, i) == h \in Made /\ payments[h].transfer.memo = i

Listed == {h \in Made : Cardinality({g \in Made : g > h}) < Window}

\* The record ends the scan: its amount is the invoice's, whatever its asset and
\* memo, or it is a USDC payment that carries the memo.
EndsScan(h, i) ==
  LET sent == payments[h].transfer IN
  sent.amount = Price[i] \/ (sent.usdc /\ sent.memo = i)

\* A bug this could have: the memo is not compared.
Matches_AnyMemo(h, i) ==
  payments[h].transfer.amount = Price[i] /\ payments[h].transfer.usdc

Matches(h, i) ==
  payments[h].transfer = [memo |-> i, amount |-> Price[i], usdc |-> TRUE]

\* The record the scan of invoice i stops at, if any.
ScanStopsAt(h, i) ==
  /\ h \in Listed /\ EndsScan(h, i)
  /\ \A g \in Listed : EndsScan(g, i) => g <= h

\* The Rust scan compares the invoice with #[serde(flatten)] raw, in which the
\* fields HorizonPayment names (to, asset_code, amount) are missing: it finds the
\* payment, and calls it a mismatch.
Finds(s, h, i) == s \in Scanner /\ ScanStopsAt(h, i) /\ Matches(h, i)

-----------------------------------------------------------------------------
(* POST /api/webhooks/stellar.                                             *)

\* A delivery whose hash is already recorded ends at once.
ReceiveDelivery(w, i, h) ==
  /\ hook[w].pc = "idle"
  /\ RelayTrusted => MadeFor(h, i)
  /\ \A j \in Invoice : invHash[j] # h
  /\ hook' = [hook EXCEPT ![w] = [pc |-> "read", inv |-> i, hash |-> h]]
  /\ UNCHANGED <<ledgerVars, invoiceVars, outsideVars, scanner>>

ReadInvoice(w) ==
  /\ hook[w].pc = "read"
  /\ hook' = [hook EXCEPT ![w] =
       IF invStatus[hook[w].inv] = "pending" THEN [@ EXCEPT !.pc = "mark"]
                                             ELSE NoDelivery]
  /\ UNCHANGED <<ledgerVars, invoiceVars, outsideVars, scanner>>

ApplyDelivery(w) ==
  /\ hook[w].pc = "mark"
  /\ \/ w \in Hook /\ MarkInvoicePaid(hook[w].inv, hook[w].hash)
     \/ w \in RustHook /\ RustWebhookMarkPaid(hook[w].inv, hook[w].hash)
  /\ hook' = [hook EXCEPT ![w] = NoDelivery]
  /\ UNCHANGED <<outsideVars, scanner>>

\* The handler is cut off, or the delivery is lost half-way.
DeliveryDies(w) ==
  /\ Outages
  /\ hook[w].pc # "idle"
  /\ hook' = [hook EXCEPT ![w] = NoDelivery]
  /\ UNCHANGED <<ledgerVars, invoiceVars, outsideVars, scanner>>

-----------------------------------------------------------------------------
(* GET /api/cron/reconcile and POST /api/cron/reconcile/replay.            *)

ScannerGoes(s, next) == scanner' = [scanner EXCEPT ![s] = next]

ScannerContinues(s) ==
  ScannerGoes(s, [scanner[s] EXCEPT !.pc = "next", !.cur = NoInvoiceId, !.hash = NoHash])

\* A bug this could have: overdue invoices left out of the scan.
PendingInvoices_NotOverdue == {i \in Invoice \ pastExpiry : invStatus[i] = "pending"}

PendingInvoices == {i \in Invoice : invStatus[i] = "pending"}

\* A bug this could have: a scan one row short.
ScanRows_ShortLimit(s) ==
  IF s \in Scanner THEN OldestRows(PendingInvoices, ScanLimit - 1) ELSE PendingInvoices

\* The Rust scan takes page after page until it has seen them all.
ScanRows(s) ==
  IF s \in Scanner THEN OldestRows(PendingInvoices, ScanLimit) ELSE PendingInvoices

StartScan(s) ==
  /\ s \notin Manual
  /\ scanner[s] = IdleScan
  /\ ScanRows(s) # {}
  /\ ScannerGoes(s, [IdleScan EXCEPT !.todo = ScanRows(s)])
  /\ UNCHANGED <<ledgerVars, invoiceVars, outsideVars, hook>>

StartReplay(s, i) ==
  /\ s \in Manual
  /\ scanner[s] = IdleScan
  /\ i \in PendingInvoices
  /\ ScannerGoes(s, [IdleScan EXCEPT !.todo = {i}])
  /\ UNCHANGED <<ledgerVars, invoiceVars, outsideVars, hook>>

\* The clock first, then Horizon.  Only the cron records a mismatch.
VisitInvoice(s) ==
  /\ scanner[s].pc = "next"
  /\ \E i \in Invoice :
       LET run == [scanner[s] EXCEPT !.todo = @ \ {i}] IN
       /\ IsOldest(i, scanner[s].todo)
       /\ \/ /\ i \in pastExpiry
             /\ ScannerGoes(s, [run EXCEPT !.pc = "expire", !.cur = i])
             /\ UNCHANGED mismatchEvents
          \/ /\ i \notin pastExpiry
             /\ \E h \in Hash :
                  /\ Finds(s, h, i)
                  /\ ScannerGoes(s, [run EXCEPT !.pc = "mark", !.cur = i, !.hash = h])
             /\ UNCHANGED mismatchEvents
          \/ /\ i \notin pastExpiry
             /\ \A h \in Hash : ~Finds(s, h, i)
             /\ ScannerGoes(s, run)
             /\ IF s \notin Manual /\ \E h \in Hash : ScanStopsAt(h, i)
                THEN mismatchEvents' = mismatchEvents \cup {i}
                ELSE UNCHANGED mismatchEvents
  /\ UNCHANGED <<ledgerVars, invHash, detectedEvents, skippedEvents,
                 outsideVars, hook>>

RecordExpiry(s) ==
  /\ scanner[s].pc = "expire"
  /\ MarkInvoiceExpired(scanner[s].cur)
  /\ ScannerContinues(s)
  /\ UNCHANGED <<outsideVars, hook>>

\* Reached by the Next.js scan only.  A hash another invoice already has is a
\* no-op, any other error ends the run and leaves the rest of the list unvisited.
RecordPayment(s) ==
  LET i == scanner[s].cur  h == scanner[s].hash IN
  /\ scanner[s].pc = "mark"
  /\ MarkInvoicePaid(i, h)
  /\ IF MarkPaidThrows(i, h) THEN ScannerGoes(s, IdleScan) ELSE ScannerContinues(s)
  /\ UNCHANGED <<outsideVars, hook>>

\* The Rust reconcile goes on to the next invoice when Horizon is unavailable.
SkipUnavailable(s) ==
  /\ Outages
  /\ s \in RustScanner \ Manual
  /\ scanner[s].pc = "next"
  /\ \E i \in Invoice \ pastExpiry :
       /\ IsOldest(i, scanner[s].todo)
       /\ ScannerGoes(s, [scanner[s] EXCEPT !.todo = @ \ {i}])
  /\ UNCHANGED <<ledgerVars, invoiceVars, outsideVars, hook>>

ScannerDies(s) ==
  /\ Outages
  /\ scanner[s] # IdleScan
  /\ ScannerGoes(s, IdleScan)
  /\ UNCHANGED <<ledgerVars, invoiceVars, outsideVars, hook>>

-----------------------------------------------------------------------------
(* External: buyers and the clock.                                         *)

BuyerPays(h, sent) ==
  /\ IsOldest(h, Hash \ Made)
  /\ payments' = [payments EXCEPT ![h] =
       [transfer |-> sent, late |-> sent.memo \in pastExpiry]]
  /\ UNCHANGED <<ledgerVars, invoiceVars, pastExpiry, hook, scanner>>

DeadlinePasses(i) ==
  /\ i \notin pastExpiry
  /\ pastExpiry' = pastExpiry \cup {i}
  /\ UNCHANGED <<ledgerVars, invoiceVars, payments, hook, scanner>>

-----------------------------------------------------------------------------
DeliveryStep(w) == ReadInvoice(w) \/ ApplyDelivery(w)

ScannerStep(s) ==
  StartScan(s) \/ VisitInvoice(s) \/ RecordExpiry(s) \/ RecordPayment(s)

DetectionNext ==
  \/ \E w \in Hooks :
       \/ \E i \in Invoice, h \in Hash : ReceiveDelivery(w, i, h)
       \/ DeliveryStep(w) \/ DeliveryDies(w)
  \/ \E s \in Scanners :
       \/ ScannerStep(s) \/ SkipUnavailable(s) \/ ScannerDies(s)
       \/ \E i \in Invoice : StartReplay(s, i)
  \/ \E h \in Hash, sent \in Transfer : BuyerPays(h, sent)
  \/ \E i \in Invoice : DeadlinePasses(i)

dvars == <<ledgerVars, detectionVars>>

DInit ==
  /\ invStatus = [i \in Invoice |-> "pending"]
  /\ payStatus = [i \in Invoice |-> "none"]
  /\ DetectionStart

DSpec == DInit /\ [][DetectionNext]_dvars

(***************************************************************************)
(* The reconcile cron fires for ever and an invocation that is not cut off *)
(* takes its next step.  Neither buyers, nor the relay, nor an operator    *)
(* has to do anything, and no deadline has to pass.                        *)
(***************************************************************************)
DFairSpec ==
  /\ DSpec
  /\ \A w \in Hooks : WF_dvars(DeliveryStep(w))
  /\ \A s \in Scanners : WF_dvars(ScannerStep(s))

-----------------------------------------------------------------------------
(* Safety.                                                                 *)

DTypeOK == LedgerTypeOK /\ DetectionTypeOK

\* Invoice-paid / payout-queued isolation: whichever of the racing paths wins,
\* a paid invoice has exactly one payment_detected event and either its payout
\* or the event that says why not; any other invoice has none of them.
PaidCoherently ==
  \A i \in Invoice :
    LET paid == invStatus[i] = "paid" IN
    /\ detectedEvents[i] = (IF paid THEN 1 ELSE 0)
    /\ payStatus[i] # "none" <=> paid /\ i \notin InvalidKey
    /\ i \in skippedEvents   <=> paid /\ i \in InvalidKey

\* One payment never pays two invoices, even when the relay reports it for both
\* and the two deliveries are processed at the same time.
OnePaymentOneInvoice ==
  \A i, j \in Invoice : invHash[i] = invHash[j] /\ invHash[i] # NoHash => i = j

\* The first decision about an invoice stands: a late payment does not revive an
\* expired invoice, a run that saw the invoice pending does not expire a paid one,
\* and the recorded payment is never replaced.
FirstDecisionStands ==
  [][\A i \in Invoice :
       invStatus[i] # "pending" =>
         invStatus'[i] = invStatus[i] /\ invHash'[i] = invHash[i]]_dvars

\* A payment that arrived before the deadline is not lost to the expiry: late
\* means after the deadline, not scanned after it.
PaidInTimeIsNotExpired ==
  \A h \in Made :
    LET i == payments[h].transfer.memo IN
    Matches(h, i) /\ ~payments[h].late => invStatus[i] # "expired"

-----------------------------------------------------------------------------
(* Why they hold: an inductive invariant, when the Next.js service handles  *)
(* the webhooks.                                                           *)

\* What a delivery or a scan has in hand is an invoice, and a payment hash.
RunsCarryWork ==
  /\ \A w \in Hooks :
       hook[w].pc # "idle" => hook[w].inv \in Invoice /\ hook[w].hash \in Hash
  /\ \A s \in Scanners :
       /\ scanner[s].pc # "next" => scanner[s].cur \in Invoice
       /\ scanner[s].pc = "mark" => scanner[s].hash \in Hash

\* An invoice has a payment hash exactly when it has been paid.
PaidByHash ==
  \A i \in Invoice : invHash[i] # NoHash <=> invStatus[i] = "paid"

DetectionInv ==
  DTypeOK /\ RunsCarryWork /\ PaidByHash /\ OnePaymentOneInvoice

-----------------------------------------------------------------------------
(* Liveness.                                                               *)

\* A payment that a scan would report, and keeps being one, is credited, unless
\* the deadline of the invoice passes first.
VisiblePaymentIsDetected ==
  \A i \in Invoice :
    <>[](\E h \in Hash : ScanStopsAt(h, i) /\ Matches(h, i))
      => <>(invStatus[i] # "pending" \/ i \in pastExpiry)

\* At-least-once detection, as documented: a payment of the right amount with the
\* memo of an invoice, among the latest fifty, is credited unless the deadline of
\* the invoice passes first.
PaymentIsDetected ==
  \A i \in Invoice :
    <>[](\E h \in Listed : Matches(h, i))
      => <>(invStatus[i] # "pending" \/ i \in pastExpiry)

\* An invoice does not stay pending for ever once its deadline has passed.
OverdueIsClosed ==
  \A i \in Invoice : i \in pastExpiry ~> invStatus[i] # "pending"
=============================================================================
