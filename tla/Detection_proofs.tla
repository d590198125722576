-------------------------- MODULE Detection_proofs --------------------------
(***************************************************************************)
(* Proofs about Detection, for every number of invoices, payments,         *)
(* deliveries and scans of either service.                                 *)
(***************************************************************************)
EXTENDS Detection, TLAPS

USE DEF ledgerVars, invoiceVars, outsideVars, detectionVars

-----------------------------------------------------------------------------
(* What a step can do to the books.                                        *)

\* The pending invoice i is paid by h, which no other invoice has.
Pays(i, h) == PaidUpdateApplies(i, h) /\ SetPaid(i, h)

\* The rest of markInvoicePaid: the event, and the payout or why there is none.
Books(i) ==
  /\ detectedEvents' = [detectedEvents EXCEPT ![i] = @ + 1]
  /\ \/ /\ i \in InvalidKey
        /\ skippedEvents' = skippedEvents \cup {i}
        /\ UNCHANGED payStatus
     \/ /\ i \notin InvalidKey
        /\ QueuePayout(i)
        /\ UNCHANGED skippedEvents

NoBooks == UNCHANGED <<payStatus, detectedEvents, skippedEvents>>

BooksStay == UNCHANGED <<ledgerVars, invHash, detectedEvents, skippedEvents>>

\* Every step leaves the books alone, expires an invoice, or has one paid; only
\* the Rust webhook pays without booking it.
LEMMA BooksMove ==
  ASSUME DTypeOK, RunsCarryWork, [DetectionNext]_dvars
  PROVE  \/ BooksStay
         \/ \E i \in Invoice : MarkInvoiceExpired(i)
         \/ \E i \in Invoice, h \in Hash :
              Pays(i, h) /\ (Books(i) \/ (RustHook # {} /\ NoBooks))
<1>1. CASE UNCHANGED dvars
  BY <1>1 DEF dvars, BooksStay
<1>2. ASSUME NEW i \in Invoice, NEW h \in Hash, MarkInvoicePaid(i, h)
      PROVE  BooksStay \/ (Pays(i, h) /\ Books(i))
  BY <1>2 DEF MarkInvoicePaid, BooksStay, Pays, Books
<1>3. ASSUME NEW w \in Hooks, ApplyDelivery(w)
      PROVE  \/ BooksStay
             \/ \E i \in Invoice, h \in Hash :
                  Pays(i, h) /\ (Books(i) \/ (RustHook # {} /\ NoBooks))
  <2>1. hook[w].inv \in Invoice /\ hook[w].hash \in Hash
    BY <1>3 DEF ApplyDelivery, RunsCarryWork
  <2>2. CASE MarkInvoicePaid(hook[w].inv, hook[w].hash)
    BY <1>2, <2>1, <2>2
  <2>3. CASE w \in RustHook /\ RustWebhookMarkPaid(hook[w].inv, hook[w].hash)
    BY <2>1, <2>3 DEF RustWebhookMarkPaid, BooksStay, Pays, NoBooks
  <2> QED
    BY <1>3, <2>2, <2>3 DEF ApplyDelivery
<1>4. ASSUME NEW s \in Scanners, RecordPayment(s)
      PROVE  BooksStay \/ \E i \in Invoice, h \in Hash : Pays(i, h) /\ Books(i)
  <2>1. scanner[s].cur \in Invoice /\ scanner[s].hash \in Hash
    BY <1>4 DEF RecordPayment, RunsCarryWork
  <2> QED
    BY <1>2, <1>4, <2>1 DEF RecordPayment
<1>5. ASSUME NEW s \in Scanners, RecordExpiry(s)
      PROVE  \E i \in Invoice : MarkInvoiceExpired(i)
  BY <1>5 DEF RecordExpiry, RunsCarryWork
<1>6. CASE \E w \in Hooks :
             \/ \E i \in Invoice, h \in Hash : ReceiveDelivery(w, i, h)
             \/ ReadInvoice(w) \/ DeliveryDies(w)
  BY <1>6 DEF ReceiveDelivery, ReadInvoice, DeliveryDies, BooksStay
<1>7. CASE \E s \in Scanners :
             \/ StartScan(s) \/ VisitInvoice(s) \/ SkipUnavailable(s) \/ ScannerDies(s)
             \/ \E i \in Invoice : StartReplay(s, i)
  BY <1>7 DEF StartScan, VisitInvoice, SkipUnavailable, ScannerDies, StartReplay,
              BooksStay
<1>8. CASE \/ \E h \in Hash, sent \in Transfer : BuyerPays(h, sent)
           \/ \E i \in Invoice : DeadlinePasses(i)
  BY <1>8 DEF BuyerPays, DeadlinePasses, BooksStay
<1> QED
  BY <1>1, <1>3, <1>4, <1>5, <1>6, <1>7, <1>8
     DEF DetectionNext, DeliveryStep, ScannerStep

-----------------------------------------------------------------------------
(* Typing.                                                                 *)

\* The books keep their types.
LEMMA BooksType ==
  ASSUME DTypeOK, RunsCarryWork, [DetectionNext]_dvars
  PROVE  /\ LedgerTypeOK'
         /\ invHash' \in [Invoice -> Hash \cup {NoHash}]
         /\ detectedEvents' \in [Invoice -> Nat]
         /\ skippedEvents' \subseteq Invoice
<1> USE DEF DTypeOK, LedgerTypeOK, DetectionTypeOK, InvoiceStatus, PayoutStatus
<1>1. CASE BooksStay
  BY <1>1 DEF BooksStay
<1>2. ASSUME NEW i \in Invoice, MarkInvoiceExpired(i)
      PROVE  /\ LedgerTypeOK'
             /\ UNCHANGED <<invHash, detectedEvents, skippedEvents>>
  BY <1>2 DEF MarkInvoiceExpired
<1>3. ASSUME NEW i \in Invoice, NEW h \in Hash, Pays(i, h)
      PROVE  /\ invStatus' \in [Invoice -> InvoiceStatus]
             /\ invHash' \in [Invoice -> Hash \cup {NoHash}]
  BY <1>3 DEF Pays, SetPaid
<1>4. ASSUME NEW i \in Invoice, Books(i)
      PROVE  /\ payStatus' \in [Invoice -> PayoutStatus]
             /\ detectedEvents' \in [Invoice -> Nat]
             /\ skippedEvents' \subseteq Invoice
  BY <1>4 DEF Books, QueuePayout
<1>5. NoBooks => /\ payStatus' \in [Invoice -> PayoutStatus]
                 /\ detectedEvents' \in [Invoice -> Nat]
                 /\ skippedEvents' \subseteq Invoice
  BY DEF NoBooks
<1> QED
  BY <1>1, <1>2, <1>3, <1>4, <1>5, BooksMove

\* A delivery keeps its type, and what it carries stays an invoice and a hash.
LEMMA HookType ==
  ASSUME DTypeOK, RunsCarryWork, [DetectionNext]_dvars
  PROVE  /\ hook' \in [Hooks -> [pc : {"idle", "read", "mark"},
                              inv : Invoice \cup {NoInvoiceId},
                              hash : Hash \cup {NoHash}]]
         /\ \A w \in Hooks : hook'[w].pc # "idle" =>
                             hook'[w].inv \in Invoice /\ hook'[w].hash \in Hash
<1> DEFINE Delivery == [pc : {"idle", "read", "mark"},
                        inv : Invoice \cup {NoInvoiceId}, hash : Hash \cup {NoHash}]
<1>1. hook \in [Hooks -> Delivery]
  BY DEF DTypeOK, DetectionTypeOK
<1>2. NoDelivery \in Delivery /\ NoDelivery.pc = "idle"
  BY DEF NoDelivery
<1>3. ASSUME NEW w \in Hooks, NEW next \in Delivery, hook' = [hook EXCEPT ![w] = next],
             next.pc # "idle" => next.inv \in Invoice /\ next.hash \in Hash
      PROVE  /\ hook' \in [Hooks -> Delivery]
             /\ \A v \in Hooks : hook'[v].pc # "idle" =>
                                 hook'[v].inv \in Invoice /\ hook'[v].hash \in Hash
  BY <1>1, <1>3 DEF RunsCarryWork
<1>4. CASE UNCHANGED hook
  BY <1>1, <1>4 DEF RunsCarryWork
<1>5. ASSUME NEW w \in Hooks, NEW i \in Invoice, NEW h \in Hash, ReceiveDelivery(w, i, h)
      PROVE  hook' = [hook EXCEPT ![w] = [pc |-> "read", inv |-> i, hash |-> h]]
  BY <1>5 DEF ReceiveDelivery
<1>6. ASSUME NEW w \in Hooks, DeliveryStep(w) \/ DeliveryDies(w)
      PROVE  \/ hook' = [hook EXCEPT ![w] = NoDelivery]
             \/ /\ hook[w].pc = "read"
                /\ hook' = [hook EXCEPT ![w] = [hook[w] EXCEPT !.pc = "mark"]]
  BY <1>6 DEF DeliveryStep, ReadInvoice, ApplyDelivery, DeliveryDies
<1>7. ASSUME NEW w \in Hooks, hook[w].pc = "read"
      PROVE  /\ [hook[w] EXCEPT !.pc = "mark"] \in Delivery
             /\ [hook[w] EXCEPT !.pc = "mark"].inv \in Invoice
             /\ [hook[w] EXCEPT !.pc = "mark"].hash \in Hash
  BY <1>1, <1>7 DEF RunsCarryWork
<1>8. CASE \E w \in Hooks, i \in Invoice, h \in Hash : ReceiveDelivery(w, i, h)
  <2>1. PICK w \in Hooks, i \in Invoice, h \in Hash : ReceiveDelivery(w, i, h)
    BY <1>8
  <2> DEFINE next == [pc |-> "read", inv |-> i, hash |-> h]
  <2>2. next \in Delivery /\ next.inv \in Invoice /\ next.hash \in Hash
    OBVIOUS
  <2>3. hook' = [hook EXCEPT ![w] = next]
    BY <1>5, <2>1
  <2> HIDE DEF next, Delivery
  <2>4. /\ hook' \in [Hooks -> Delivery]
        /\ \A v \in Hooks : hook'[v].pc # "idle" =>
                            hook'[v].inv \in Invoice /\ hook'[v].hash \in Hash
    BY <1>3, <2>2, <2>3
  <2> QED
    BY <2>4 DEF Delivery
<1>9. CASE \E w \in Hooks : DeliveryStep(w) \/ DeliveryDies(w)
  <2>1. PICK w \in Hooks : DeliveryStep(w) \/ DeliveryDies(w)
    BY <1>9
  <2>2. CASE hook' = [hook EXCEPT ![w] = NoDelivery]
    BY <1>2, <1>3, <2>2
  <2>3. CASE /\ hook[w].pc = "read"
             /\ hook' = [hook EXCEPT ![w] = [hook[w] EXCEPT !.pc = "mark"]]
    BY <1>3, <1>7, <2>3
  <2> QED
    BY <1>6, <2>1, <2>2, <2>3
<1>10. CASE UNCHANGED dvars
  BY <1>4, <1>10 DEF dvars
<1>11. CASE \E s \in Scanners :
              \/ ScannerStep(s) \/ SkipUnavailable(s) \/ ScannerDies(s)
              \/ \E i \in Invoice : StartReplay(s, i)
  BY <1>4, <1>11 DEF ScannerStep, StartScan, VisitInvoice, RecordExpiry, RecordPayment,
                     SkipUnavailable, ScannerDies, StartReplay
<1>12. CASE \/ \E h \in Hash, sent \in Transfer : BuyerPays(h, sent)
            \/ \E i \in Invoice : DeadlinePasses(i)
  BY <1>4, <1>12 DEF BuyerPays, DeadlinePasses
<1> QED
  BY <1>8, <1>9, <1>10, <1>11, <1>12 DEF DetectionNext

\* Every row a scan lists is an invoice.
LEMMA RowsAreInvoices ==
  ASSUME NEW s \in Scanners PROVE ScanRows(s) \subseteq Invoice
BY DEF ScanRows, PendingInvoices, OldestRows

\* A scan keeps its type, and what it is about to write is an invoice, and a hash.
LEMMA ScannerType ==
  ASSUME DTypeOK, RunsCarryWork, [DetectionNext]_dvars
  PROVE  /\ scanner' \in [Scanners -> [pc : {"next", "expire", "mark"},
                                    todo : SUBSET Invoice,
                                    cur : Invoice \cup {NoInvoiceId},
                                    hash : Hash \cup {NoHash}]]
         /\ \A s \in Scanners :
              /\ scanner'[s].pc # "next" => scanner'[s].cur \in Invoice
              /\ scanner'[s].pc = "mark" => scanner'[s].hash \in Hash
<1> DEFINE Scan == [pc : {"next", "expire", "mark"}, todo : SUBSET Invoice,
                    cur : Invoice \cup {NoInvoiceId}, hash : Hash \cup {NoHash}]
           Carries(rec) == /\ rec.pc # "next" => rec.cur \in Invoice
                           /\ rec.pc = "mark" => rec.hash \in Hash
<1>1. scanner \in [Scanners -> Scan]
  BY DEF DTypeOK, DetectionTypeOK
<1>2. IdleScan \in Scan /\ Carries(IdleScan)
  BY DEF IdleScan
<1>3. ASSUME NEW s \in Scanners, NEW next \in Scan, Carries(next),
             scanner' = [scanner EXCEPT ![s] = next]
      PROVE  /\ scanner' \in [Scanners -> Scan]
             /\ \A r \in Scanners : Carries(scanner'[r])
  BY <1>1, <1>3 DEF RunsCarryWork
<1>4. CASE UNCHANGED scanner
  BY <1>1, <1>4 DEF RunsCarryWork
<1>5. ASSUME NEW s \in Scanners, NEW rows \in SUBSET Invoice,
             scanner' = [scanner EXCEPT ![s] = [IdleScan EXCEPT !.todo = rows]]
      PROVE  /\ scanner' \in [Scanners -> Scan]
             /\ \A r \in Scanners : Carries(scanner'[r])
  <2>1. [IdleScan EXCEPT !.todo = rows] \in Scan
    BY DEF IdleScan
  <2>2. Carries([IdleScan EXCEPT !.todo = rows])
    BY DEF IdleScan
  <2> QED
    BY <1>3, <1>5, <2>1, <2>2
<1>6. ASSUME NEW s \in Scanners, StartScan(s) \/ \E i \in Invoice : StartReplay(s, i)
      PROVE  \E rows \in SUBSET Invoice :
               scanner' = [scanner EXCEPT ![s] = [IdleScan EXCEPT !.todo = rows]]
  BY <1>6, RowsAreInvoices DEF StartScan, StartReplay, ScannerGoes
<1>7. ASSUME NEW s \in Scanners, ScannerContinues(s)
      PROVE  /\ scanner' \in [Scanners -> Scan]
             /\ \A r \in Scanners : Carries(scanner'[r])
  <2> DEFINE next == [scanner[s] EXCEPT !.pc = "next", !.cur = NoInvoiceId, !.hash = NoHash]
  <2>1. next \in Scan /\ next.pc = "next"
    BY <1>1
  <2> QED
    BY <1>3, <1>7, <2>1 DEF ScannerContinues, ScannerGoes
<1>8. ASSUME NEW s \in Scanners, VisitInvoice(s) \/ SkipUnavailable(s)
      PROVE  /\ scanner' \in [Scanners -> Scan]
             /\ \A r \in Scanners : Carries(scanner'[r])
  <2>1. ASSUME NEW i \in Invoice
        PROVE  [scanner[s] EXCEPT !.todo = @ \ {i}] \in Scan
    BY <1>1
  <2>2. ASSUME NEW i \in Invoice, NEW h \in Hash, NEW rec \in Scan
        PROVE  /\ [rec EXCEPT !.pc = "expire", !.cur = i] \in Scan
               /\ Carries([rec EXCEPT !.pc = "expire", !.cur = i])
               /\ [rec EXCEPT !.pc = "mark", !.cur = i, !.hash = h] \in Scan
               /\ Carries([rec EXCEPT !.pc = "mark", !.cur = i, !.hash = h])
    OBVIOUS
  <2>3. PICK i \in Invoice :
          LET run == [scanner[s] EXCEPT !.todo = @ \ {i}] IN
          \/ scanner' = [scanner EXCEPT ![s] = [run EXCEPT !.pc = "expire", !.cur = i]]
          \/ \E h \in Hash : scanner' = [scanner EXCEPT ![s] =
                              [run EXCEPT !.pc = "mark", !.cur = i, !.hash = h]]
          \/ scanner[s].pc = "next" /\ scanner' = [scanner EXCEPT ![s] = run]
    BY <1>8 DEF VisitInvoice, SkipUnavailable, ScannerGoes
  <2> DEFINE run == [scanner[s] EXCEPT !.todo = @ \ {i}]
  <2>4. run \in Scan
    BY <2>1
  <2>5. CASE scanner' = [scanner EXCEPT ![s] = [run EXCEPT !.pc = "expire", !.cur = i]]
    <3> HIDE DEF run, Scan, Carries
    <3>1. PICK h \in Hash \cup {NoHash} : TRUE
      OBVIOUS
    <3>2. /\ [run EXCEPT !.pc = "expire", !.cur = i] \in Scan
          /\ Carries([run EXCEPT !.pc = "expire", !.cur = i])
      BY <2>4 DEF Scan, Carries
    <3> QED
      BY <1>3, <2>5, <3>2
  <2>6. CASE \E h \in Hash : scanner' = [scanner EXCEPT ![s] =
                             [run EXCEPT !.pc = "mark", !.cur = i, !.hash = h]]
    <3> HIDE DEF run, Scan, Carries
    <3> QED
      BY <1>3, <2>2, <2>4, <2>6
  <2>7. CASE scanner[s].pc = "next" /\ scanner' = [scanner EXCEPT ![s] = run]
    <3>1. run.pc = "next"
      BY <1>1, <2>7
    <3> QED
      BY <1>3, <2>4, <2>7, <3>1
  <2> QED
    BY <2>3, <2>5, <2>6, <2>7
<1>9. ASSUME NEW s \in Scanners, RecordExpiry(s) \/ RecordPayment(s) \/ ScannerDies(s)
      PROVE  ScannerContinues(s) \/ scanner' = [scanner EXCEPT ![s] = IdleScan]
  BY <1>9 DEF RecordExpiry, RecordPayment, ScannerDies, ScannerGoes
<1>10. CASE \E s \in Scanners :
              \/ ScannerStep(s) \/ SkipUnavailable(s) \/ ScannerDies(s)
              \/ \E i \in Invoice : StartReplay(s, i)
  <2> HIDE DEF Scan, Carries
  <2>1. PICK s \in Scanners :
          \/ ScannerStep(s) \/ SkipUnavailable(s) \/ ScannerDies(s)
          \/ \E i \in Invoice : StartReplay(s, i)
    BY <1>10
  <2>2. CASE StartScan(s) \/ \E i \in Invoice : StartReplay(s, i)
    BY <1>5, <1>6, <2>2 DEF Scan, Carries
  <2>3. CASE VisitInvoice(s) \/ SkipUnavailable(s)
    BY <1>8, <2>3 DEF Scan, Carries
  <2>4. CASE RecordExpiry(s) \/ RecordPayment(s) \/ ScannerDies(s)
    BY <1>2, <1>3, <1>7, <1>9, <2>4 DEF Scan, Carries
  <2> QED
    BY <2>1, <2>2, <2>3, <2>4 DEF ScannerStep, Scan, Carries
<1>11. CASE \/ UNCHANGED dvars
            \/ \E w \in Hooks :
                 \/ \E i \in Invoice, h \in Hash : ReceiveDelivery(w, i, h)
                 \/ DeliveryStep(w) \/ DeliveryDies(w)
            \/ \E h \in Hash, sent \in Transfer : BuyerPays(h, sent)
            \/ \E i \in Invoice : DeadlinePasses(i)
  BY <1>4, <1>11 DEF dvars, DeliveryStep, ReceiveDelivery, ReadInvoice, ApplyDelivery,
                     DeliveryDies, BuyerPays, DeadlinePasses
<1> QED
  BY <1>10, <1>11 DEF DetectionNext

\* What the outside does, and what a scan notes down, keep their types.
LEMMA OutsideType ==
  ASSUME DTypeOK, RunsCarryWork, [DetectionNext]_dvars
  PROVE  /\ mismatchEvents' \subseteq Invoice
         /\ pastExpiry' \subseteq Invoice
         /\ payments' \in [Hash -> Payment \cup {NoPayment}]
<1> USE DEF DTypeOK, DetectionTypeOK
<1>1. CASE UNCHANGED <<mismatchEvents, pastExpiry, payments>>
  BY <1>1
<1>2. ASSUME NEW h \in Hash, NEW sent \in Transfer, BuyerPays(h, sent)
      PROVE  /\ payments' \in [Hash -> Payment \cup {NoPayment}]
             /\ UNCHANGED <<mismatchEvents, pastExpiry>>
  <2>1. [transfer |-> sent, late |-> sent.memo \in pastExpiry] \in Payment
    BY DEF Payment
  <2> QED
    BY <1>2, <2>1 DEF BuyerPays
<1>3. ASSUME NEW i \in Invoice, DeadlinePasses(i)
      PROVE  pastExpiry' \subseteq Invoice /\ UNCHANGED <<mismatchEvents, payments>>
  BY <1>3 DEF DeadlinePasses
<1>4. ASSUME NEW s \in Scanners, VisitInvoice(s)
      PROVE  mismatchEvents' \subseteq Invoice /\ UNCHANGED <<pastExpiry, payments>>
  BY <1>4 DEF VisitInvoice
<1>5. ASSUME NEW i \in Invoice, NEW h \in Hash,
             MarkInvoicePaid(i, h) \/ RustWebhookMarkPaid(i, h) \/ MarkInvoiceExpired(i)
      PROVE  UNCHANGED mismatchEvents
  BY <1>5 DEF MarkInvoicePaid, RustWebhookMarkPaid, MarkInvoiceExpired
<1>6. ASSUME NEW w \in Hooks, ApplyDelivery(w)
      PROVE  UNCHANGED <<mismatchEvents, pastExpiry, payments>>
  BY <1>5, <1>6 DEF ApplyDelivery, RunsCarryWork
<1>7. ASSUME NEW s \in Scanners, RecordPayment(s)
      PROVE  UNCHANGED <<mismatchEvents, pastExpiry, payments>>
  BY <1>5, <1>7 DEF RecordPayment, RunsCarryWork
<1>8. ASSUME NEW s \in Scanners, RecordExpiry(s)
      PROVE  UNCHANGED <<mismatchEvents, pastExpiry, payments>>
  BY <1>8 DEF RecordExpiry, MarkInvoiceExpired
<1>9. CASE \/ UNCHANGED dvars
           \/ \E w \in Hooks :
                \/ \E i \in Invoice, h \in Hash : ReceiveDelivery(w, i, h)
                \/ ReadInvoice(w) \/ DeliveryDies(w)
           \/ \E s \in Scanners :
                \/ StartScan(s) \/ SkipUnavailable(s) \/ ScannerDies(s)
                \/ \E i \in Invoice : StartReplay(s, i)
  BY <1>9 DEF dvars, ReceiveDelivery, ReadInvoice, DeliveryDies, StartScan,
              SkipUnavailable, ScannerDies, StartReplay
<1> QED
  BY <1>1, <1>2, <1>3, <1>4, <1>6, <1>7, <1>8, <1>9
     DEF DetectionNext, DeliveryStep, ScannerStep

LEMMA DetectionTypeStep ==
  ASSUME DTypeOK, RunsCarryWork, [DetectionNext]_dvars
  PROVE  DTypeOK' /\ RunsCarryWork'
<1>1. DTypeOK'
  BY BooksType, HookType, ScannerType, OutsideType DEF DTypeOK, DetectionTypeOK
<1>2. RunsCarryWork'
  BY HookType, ScannerType DEF RunsCarryWork
<1> QED
  BY <1>1, <1>2

-----------------------------------------------------------------------------
(* The invariant.                                                          *)

\* A hash is written together with the status, and only for a pending invoice.
LEMMA PaidByHashStep ==
  ASSUME DTypeOK, RunsCarryWork, PaidByHash, [DetectionNext]_dvars
  PROVE  PaidByHash'
<1> USE DEF DTypeOK, LedgerTypeOK, DetectionTypeOK, PaidByHash
<1>1. CASE BooksStay
  BY <1>1 DEF BooksStay
<1>2. ASSUME NEW i \in Invoice, MarkInvoiceExpired(i)
      PROVE  PaidByHash'
  BY <1>2 DEF MarkInvoiceExpired
<1>3. ASSUME NEW i \in Invoice, NEW h \in Hash, Pays(i, h)
      PROVE  PaidByHash'
  BY <1>3, DetectionAssumption DEF Pays, SetPaid
<1> QED
  BY <1>1, <1>2, <1>3, BooksMove

\* The unique index of migration 007 decides between two deliveries of one hash.
LEMMA OnePaymentStep ==
  ASSUME DTypeOK, RunsCarryWork, OnePaymentOneInvoice, [DetectionNext]_dvars
  PROVE  OnePaymentOneInvoice'
<1> USE DEF DTypeOK, DetectionTypeOK, OnePaymentOneInvoice
<1>1. CASE BooksStay
  BY <1>1 DEF BooksStay
<1>2. ASSUME NEW i \in Invoice, MarkInvoiceExpired(i)
      PROVE  OnePaymentOneInvoice'
  BY <1>2 DEF MarkInvoiceExpired
<1>3. ASSUME NEW i \in Invoice, NEW h \in Hash, Pays(i, h)
      PROVE  OnePaymentOneInvoice'
  <2>1. \A j \in Invoice \ {i} : invHash[j] # h
    BY <1>3 DEF Pays, PaidUpdateApplies, HashTaken
  <2>2. invHash' = [invHash EXCEPT ![i] = h]
    BY <1>3 DEF Pays, SetPaid
  <2> QED
    BY <2>1, <2>2
<1> QED
  BY <1>1, <1>2, <1>3, BooksMove

LEMMA DetectionInit == DInit => DetectionInv
<1> SUFFICES ASSUME DInit PROVE DetectionInv
  OBVIOUS
<1> USE DEF DInit, DetectionStart
<1>1. LedgerTypeOK
  BY DEF LedgerTypeOK, InvoiceStatus, PayoutStatus
<1>2. DetectionTypeOK
  <2>1. hook \in [Hooks -> [pc : {"idle", "read", "mark"},
                          inv : Invoice \cup {NoInvoiceId}, hash : Hash \cup {NoHash}]]
    BY DEF NoDelivery
  <2>2. scanner \in [Scanners ->
          [pc : {"next", "expire", "mark"}, todo : SUBSET Invoice,
           cur : Invoice \cup {NoInvoiceId}, hash : Hash \cup {NoHash}]]
    BY DEF IdleScan
  <2> QED
    BY <2>1, <2>2 DEF DetectionTypeOK
<1>3. RunsCarryWork
  BY DEF RunsCarryWork, NoDelivery, IdleScan
<1>4. PaidByHash /\ OnePaymentOneInvoice
  BY DEF PaidByHash, OnePaymentOneInvoice
<1> QED
  BY <1>1, <1>2, <1>3, <1>4 DEF DetectionInv, DTypeOK

LEMMA DetectionStep == DetectionInv /\ [DetectionNext]_dvars => DetectionInv'
BY DetectionTypeStep, PaidByHashStep, OnePaymentStep DEF DetectionInv

\* The inductive invariant holds in every run of both services' payment
\* detection, however many deliveries, scans and replays interleave.
THEOREM DetectionInvariant == DSpec => []DetectionInv
BY DetectionInit, DetectionStep, PTL DEF DSpec

\* Every row, delivery and scan keeps its type.
THEOREM DetectionTypeCorrect == DSpec => []DTypeOK
<1>1. DetectionInv => DTypeOK
  BY DEF DetectionInv
<1> QED
  BY <1>1, DetectionInvariant, PTL

\* One payment never pays two invoices: the partial unique index on
\* invoices.transaction_hash is enough, whichever paths race.
THEOREM OnePaymentPaysOneInvoice == DSpec => []OnePaymentOneInvoice
<1>1. DetectionInv => OnePaymentOneInvoice
  BY DEF DetectionInv
<1> QED
  BY <1>1, DetectionInvariant, PTL

\* The first decision about an invoice stands: AND status = 'pending' in every
\* UPDATE lets no later delivery, scan or replay, of either service, undo it.
THEOREM DecisionIsFinal == DSpec => FirstDecisionStands
<1> DEFINE Stands ==
      \A i \in Invoice : invStatus[i] # "pending" =>
                           invStatus'[i] = invStatus[i] /\ invHash'[i] = invHash[i]
<1>1. ASSUME DetectionInv, [DetectionNext]_dvars PROVE [Stands]_dvars
  <2> USE <1>1 DEF DetectionInv, DTypeOK, LedgerTypeOK, DetectionTypeOK
  <2>1. CASE BooksStay
    BY <2>1 DEF BooksStay
  <2>2. ASSUME NEW i \in Invoice, MarkInvoiceExpired(i) PROVE Stands
    BY <2>2 DEF MarkInvoiceExpired
  <2>3. ASSUME NEW i \in Invoice, NEW h \in Hash, Pays(i, h) PROVE Stands
    BY <2>3 DEF Pays, PaidUpdateApplies, SetPaid
  <2> QED
    BY <2>1, <2>2, <2>3, BooksMove
<1> QED
  BY <1>1, DetectionInvariant, PTL DEF DSpec, FirstDecisionStands

-----------------------------------------------------------------------------
(* What only the Next.js service keeps.                                    *)

LEMMA PaidCoherentlyStep ==
  ASSUME RustHook = {}, DetectionInv, PaidCoherently, [DetectionNext]_dvars
  PROVE  PaidCoherently'
<1> USE DEF DetectionInv, DTypeOK, LedgerTypeOK, DetectionTypeOK
<1>1. CASE BooksStay
  BY <1>1 DEF BooksStay, PaidCoherently
<1>2. ASSUME NEW i \in Invoice, MarkInvoiceExpired(i)
      PROVE  PaidCoherently'
  BY <1>2 DEF MarkInvoiceExpired, PaidCoherently
<1>3. ASSUME NEW i \in Invoice, NEW h \in Hash, Pays(i, h), Books(i)
      PROVE  PaidCoherently'
  <2>1. /\ invStatus[i] = "pending"
        /\ invStatus' = [invStatus EXCEPT ![i] = "paid"]
    BY <1>3 DEF Pays, PaidUpdateApplies, SetPaid
  <2>2. detectedEvents[i] = 0 /\ payStatus[i] = "none" /\ i \notin skippedEvents
    BY <2>1 DEF PaidCoherently
  <2>3. /\ detectedEvents' = [detectedEvents EXCEPT ![i] = @ + 1]
        /\ payStatus' = (IF i \in InvalidKey THEN payStatus
                                             ELSE [payStatus EXCEPT ![i] = "queued"])
        /\ skippedEvents' = (IF i \in InvalidKey THEN skippedEvents \cup {i}
                                                 ELSE skippedEvents)
    BY <1>3, <2>2 DEF Books, QueuePayout
  <2> QED
    BY <2>1, <2>2, <2>3 DEF PaidCoherently
<1> QED
  BY <1>1, <1>2, <1>3, BooksMove

\* With the webhooks handled by the Next.js service, a paid invoice has exactly
\* one payment_detected event and either its payout or the event that says why
\* not: the transaction of markInvoicePaid is all or nothing.  (The Rust webhook
\* breaks this: run rust_webhook_loses_payout.)
THEOREM PaidMeansBooked ==
  ASSUME RustHook = {} PROVE DSpec => []PaidCoherently
<1>1. DInit => PaidCoherently
  BY DEF DInit, DetectionStart, PaidCoherently
<1>2. DetectionInv /\ PaidCoherently /\ [DetectionNext]_dvars => PaidCoherently'
  BY PaidCoherentlyStep
<1> QED
  BY <1>1, <1>2, DetectionInvariant, PTL DEF DSpec
=============================================================================
