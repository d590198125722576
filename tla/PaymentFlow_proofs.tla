------------------------- MODULE PaymentFlow_proofs -------------------------
(***************************************************************************)
(* Proofs about PaymentFlow: detection and settlement, proved correct      *)
(* apart, keep each other's invariants when they run on the same rows, and *)
(* together they implement MoneyFlow.                                      *)
(***************************************************************************)
EXTENDS PaymentFlow, Detection_proofs, Settlement_proofs

USE DEF ledgerVars, invoiceVars, outsideVars, detectionVars,
        payoutVars, networkVars, processVars, settlementVars

-----------------------------------------------------------------------------
(* A step of one side, seen from the other.                                *)

\* What the lemmas of either side take for granted.
LEMMA BothTyped == FlowInv => DTypeOK /\ TypeOK
BY DEF FlowInv, SettlementInv, TypeOK, DTypeOK

\* Every step is one of detection, in which settlement rests, or the reverse.
LEMMA FlowSteps ==
  ASSUME [FlowNext]_flowVars
  PROVE  \/ [DetectionNext]_dvars /\ UNCHANGED settlementVars
         \/ [SettlementNext]_vars /\ UNCHANGED detectionVars
BY DEF FlowNext, flowVars, dvars, vars

\* All that detection does to the shared columns: it expires a pending invoice, or
\* accepts one, and in the latter case may add the payout.
LEMMA DetectionMoves ==
  ASSUME DTypeOK, RunsCarryWork, [DetectionNext]_dvars
  PROVE  \/ UNCHANGED <<ledgerVars, invHash>>
         \/ \E i \in Invoice :
              /\ invStatus[i] = "pending"
              /\ invStatus' = [invStatus EXCEPT ![i] = "expired"]
              /\ UNCHANGED <<payStatus, invHash>>
         \/ \E i \in Invoice, h \in Hash :
              /\ invStatus[i] = "pending"
              /\ invStatus' = [invStatus EXCEPT ![i] = "paid"]
              /\ invHash' = [invHash EXCEPT ![i] = h]
              /\ \/ UNCHANGED payStatus
                 \/ payStatus' = [payStatus EXCEPT ![i] = IF @ = "none" THEN "queued" ELSE @]
<1>1. invStatus \in [Invoice -> InvoiceStatus]
  BY DEF DTypeOK, LedgerTypeOK
<1>2. CASE BooksStay
  BY <1>2 DEF BooksStay
<1>3. ASSUME NEW i \in Invoice, MarkInvoiceExpired(i)
      PROVE  \/ UNCHANGED <<ledgerVars, invHash>>
             \/ /\ invStatus[i] = "pending"
                /\ invStatus' = [invStatus EXCEPT ![i] = "expired"]
                /\ UNCHANGED <<payStatus, invHash>>
  BY <1>1, <1>3 DEF MarkInvoiceExpired
<1>4. ASSUME NEW i \in Invoice, NEW h \in Hash,
             Pays(i, h) /\ (Books(i) \/ (RustHook # {} /\ NoBooks))
      PROVE  /\ invStatus[i] = "pending"
             /\ invStatus' = [invStatus EXCEPT ![i] = "paid"]
             /\ invHash' = [invHash EXCEPT ![i] = h]
             /\ \/ UNCHANGED payStatus
                \/ payStatus' = [payStatus EXCEPT ![i] = IF @ = "none" THEN "queued" ELSE @]
  BY <1>4 DEF Pays, PaidUpdateApplies, SetPaid, Books, QueuePayout, NoBooks
<1> QED
  BY <1>2, <1>3, <1>4, BooksMove

\* All that settlement does to them: it moves payouts somebody has claimed, never
\* back to no payout at all, and settles invoices whose payout somebody has claimed.
LEMMA SettlementMoves ==
  ASSUME TypeOK, WorkIsClaimed, SettlerKnows, [SettlementNext]_vars, NEW i \in Invoice
  PROVE  /\ payStatus'[i] # payStatus[i] => payClaimed[i] /\ payStatus'[i] # "none"
         /\ invStatus'[i] # invStatus[i] => payClaimed[i] /\ invStatus'[i] = "settled"
         /\ payClaimed'[i] # payClaimed[i] => payStatus[i] = "queued"
<1>1. /\ invStatus \in [Invoice -> InvoiceStatus] /\ payStatus \in [Invoice -> PayoutStatus]
      /\ payClaimed \in [Invoice -> BOOLEAN]
  BY DEF TypeOK, LedgerTypeOK, SettlementTypeOK
<1>2. ASSUME NEW c \in Confirmer, RecordVerdict(c)
      PROVE  /\ invStatus'[i] # invStatus[i] => payClaimed[i] /\ invStatus'[i] = "settled"
             /\ payStatus'[i] # payStatus[i] => payStatus'[i] # "none"
  <2>1. confirmer[c].pc # "next" => payClaimed[confirmer[c].row[1]]
    BY DEF WorkIsClaimed
  <2> QED
    BY <1>1, <1>2, <2>1 DEF RecordVerdict, MarkPayoutSettled, MarkPayoutFailed
<1>3. ASSUME NEW s \in Settler, RecordSubmission(s) \/ RecordFailure(s)
      PROVE  UNCHANGED invStatus /\ (payStatus'[i] # payStatus[i] => payStatus'[i] # "none")
  BY <1>1, <1>3 DEF RecordSubmission, RecordFailure, MarkPayoutSubmitted, MarkPayoutFailed
<1>4. ASSUME NEW k \in Retrier, NEW row \in retrier[k], RetryRow(k, row)
      PROVE  payStatus'[i] # payStatus[i] => payStatus'[i] # "none"
  BY <1>1, <1>4 DEF RetryRow, RequeueFailed, DeadLetter
<1>5. ASSUME NEW o \in Operator, ReplayPayout(o)
      PROVE  payStatus'[i] # payStatus[i] => payStatus'[i] # "none"
  BY <1>1, <1>5 DEF ReplayPayout
<1>6. payStatus'[i] # payStatus[i] => payClaimed[i] /\ payStatus'[i] # "none"
  BY <1>2, <1>3, <1>4, <1>5, OnlyClaimedMove, SharedState
<1>7. invStatus'[i] # invStatus[i] => payClaimed[i] /\ invStatus'[i] = "settled"
  BY <1>2, <1>3, SharedState
<1>8. ASSUME NEW j \in Invoice, ClaimPayout(j), payClaimed'[i] # payClaimed[i]
      PROVE  payStatus[i] = "queued"
  BY <1>1, <1>8 DEF ClaimPayout
<1> QED
  BY <1>6, <1>7, <1>8, SharedState

-----------------------------------------------------------------------------
(* The invariant of the two together.                                      *)

\* Detection touches nothing that settlement works on.
LEMMA DetectionKeepsSettlement ==
  ASSUME FlowInv, [DetectionNext]_dvars, UNCHANGED settlementVars
  PROVE  SettlementInv'
<1>1. DTypeOK /\ RunsCarryWork /\ SettlementInv
  BY BothTyped DEF FlowInv
<1>2. invStatus \in [Invoice -> InvoiceStatus] /\ payStatus \in [Invoice -> PayoutStatus]
  BY <1>1 DEF DTypeOK, LedgerTypeOK
<1>3. \A i \in Invoice :
        /\ payStatus'[i] \notin {"none", "queued"} => payStatus'[i] = payStatus[i]
        /\ invStatus'[i] = "settled" => invStatus[i] = "settled"
  BY <1>1, <1>2, DetectionMoves
<1>4. TypeOK'
  BY <1>1, BooksType DEF SettlementInv, TypeOK, SettlementTypeOK
<1>5. WorkIsClaimed'
  BY <1>1, <1>3 DEF SettlementInv, WorkIsClaimed
<1>6. SettledIsTransferred'
  BY <1>1, <1>3 DEF SettlementInv, SettledIsTransferred, TxsOf
<1>7. ClaimExclusive' /\ OneTxPerPayout' /\ HashesAreOwn'
  BY <1>1 DEF SettlementInv, ClaimExclusive, OneTxPerPayout, HashesAreOwn
<1>8. SettlerKnows'
  BY <1>1 DEF SettlementInv, SettlerKnows, TxsOf
<1> QED
  BY <1>4, <1>5, <1>6, <1>7, <1>8 DEF SettlementInv

\* A hash comes with the acceptance, and settling keeps it.
LEMMA AcceptedByHashStep ==
  ASSUME FlowInv, [FlowNext]_flowVars
  PROVE  AcceptedByHash'
<1>1. /\ invStatus \in [Invoice -> InvoiceStatus]
      /\ invHash \in [Invoice -> Hash \cup {NoHash}]
  BY BothTyped DEF DTypeOK, LedgerTypeOK, DetectionTypeOK
<1>2. AcceptedByHash /\ PayoutIsAccepted /\ RunsCarryWork /\ DTypeOK /\ TypeOK
  BY BothTyped DEF FlowInv
<1>3. CASE [DetectionNext]_dvars
  <2>1. CASE UNCHANGED <<ledgerVars, invHash>>
    BY <1>2, <2>1 DEF AcceptedByHash
  <2>2. ASSUME NEW i \in Invoice, invStatus[i] = "pending", UNCHANGED invHash,
               invStatus' = [invStatus EXCEPT ![i] = "expired"]
        PROVE  AcceptedByHash'
    BY <1>1, <1>2, <2>2 DEF AcceptedByHash
  <2>3. ASSUME NEW i \in Invoice, NEW h \in Hash, invStatus[i] = "pending",
               invStatus' = [invStatus EXCEPT ![i] = "paid"],
               invHash' = [invHash EXCEPT ![i] = h]
        PROVE  AcceptedByHash'
    BY <1>1, <1>2, <2>3, DetectionAssumption DEF AcceptedByHash
  <2> QED
    BY <1>2, <1>3, <2>1, <2>2, <2>3, DetectionMoves
<1>4. CASE [SettlementNext]_vars /\ UNCHANGED detectionVars
  <2>1. \A i \in Invoice : invStatus'[i] # invStatus[i] =>
          invStatus'[i] = "settled" /\ invStatus[i] \in {"paid", "settled"}
    BY <1>2, <1>4, SettlementMoves DEF FlowInv, SettlementInv, PayoutIsAccepted
  <2> QED
    BY <1>2, <1>4, <2>1 DEF AcceptedByHash
<1> QED
  BY <1>3, <1>4, FlowSteps

\* A payout is inserted with the acceptance, and claimed only where it exists.
LEMMA PayoutIsAcceptedStep ==
  ASSUME FlowInv, [FlowNext]_flowVars
  PROVE  PayoutIsAccepted'
<1>1. /\ invStatus \in [Invoice -> InvoiceStatus]
      /\ payStatus \in [Invoice -> PayoutStatus]
      /\ payClaimed \in [Invoice -> BOOLEAN] /\ payClaimed' \in [Invoice -> BOOLEAN]
  <2>1. DTypeOK /\ TypeOK
    BY BothTyped
  <2>2. [SettlementNext]_vars => TypeOK'
    BY <2>1, TypeStep
  <2> QED
    BY <2>1, <2>2, FlowSteps DEF TypeOK, LedgerTypeOK, SettlementTypeOK
<1>2. PayoutIsAccepted /\ RunsCarryWork /\ DTypeOK /\ TypeOK /\ SettlementInv
  BY BothTyped DEF FlowInv
<1>3. CASE [DetectionNext]_dvars /\ UNCHANGED settlementVars
  BY <1>1, <1>2, <1>3, DetectionMoves DEF PayoutIsAccepted
<1>4. CASE [SettlementNext]_vars
  <2>1. \A i \in Invoice :
          /\ payStatus'[i] # payStatus[i] => payClaimed[i] /\ payStatus'[i] # "none"
          /\ invStatus'[i] # invStatus[i] => payClaimed[i] /\ invStatus'[i] = "settled"
          /\ payClaimed'[i] # payClaimed[i] => payStatus[i] = "queued"
    BY <1>2, <1>4, SettlementMoves DEF SettlementInv
  <2> QED
    BY <1>1, <1>2, <2>1 DEF PayoutIsAccepted
<1> QED
  BY <1>3, <1>4, FlowSteps

-----------------------------------------------------------------------------
(* Behind a trusted relay, what is recorded is what a buyer sent.          *)

\* A payment that was made stays made: the network takes nothing back.
LEMMA PaymentStays ==
  ASSUME DTypeOK, [DetectionNext]_dvars, NEW h, NEW i, MadeFor(h, i)
  PROVE  MadeFor(h, i)'
<1>1. CASE UNCHANGED payments
  BY <1>1 DEF MadeFor, Made
<1>2. ASSUME NEW g \in Hash, NEW sent \in Transfer, BuyerPays(g, sent)
      PROVE  MadeFor(h, i)'
  <2>1. g # h /\ h \in Hash
    BY <1>2 DEF BuyerPays, IsOldest, MadeFor, Made
  <2>2. payments'[h] = payments[h]
    BY <1>2, <2>1 DEF BuyerPays, DTypeOK, DetectionTypeOK
  <2> QED
    BY <2>1, <2>2 DEF MadeFor, Made
<1>3. CASE UNCHANGED dvars
  BY <1>1, <1>3 DEF dvars
<1>4. CASE \E w \in Hooks :
             \/ \E j \in Invoice, g \in Hash : ReceiveDelivery(w, j, g)
             \/ DeliveryStep(w) \/ DeliveryDies(w)
  BY <1>1, <1>4 DEF ReceiveDelivery, DeliveryStep, ReadInvoice, ApplyDelivery, DeliveryDies
<1>5. CASE \E s \in Scanners :
             \/ ScannerStep(s) \/ SkipUnavailable(s) \/ ScannerDies(s)
             \/ \E j \in Invoice : StartReplay(s, j)
  BY <1>1, <1>5 DEF ScannerStep, StartScan, VisitInvoice, RecordExpiry, RecordPayment,
                    SkipUnavailable, ScannerDies, StartReplay
<1>6. CASE \E j \in Invoice : DeadlinePasses(j)
  BY <1>1, <1>6 DEF DeadlinePasses
<1> QED
  BY <1>2, <1>3, <1>4, <1>5, <1>6 DEF DetectionNext

\* What a delivery has in hand it had before, or the relay has just reported it.
LEMMA DeliveryCarries ==
  ASSUME DTypeOK, [DetectionNext]_dvars, NEW w \in Hooks, hook'[w].pc # "idle"
  PROVE  \/ /\ hook[w].pc # "idle"
            /\ hook'[w].hash = hook[w].hash /\ hook'[w].inv = hook[w].inv
         \/ RelayTrusted => MadeFor(hook'[w].hash, hook'[w].inv)
<1> USE DEF DTypeOK, DetectionTypeOK
<1>1. CASE UNCHANGED hook
  BY <1>1
<1>2. ASSUME NEW v \in Hooks, NEW j \in Invoice, NEW g \in Hash, ReceiveDelivery(v, j, g)
      PROVE  \/ RelayTrusted => MadeFor(hook'[w].hash, hook'[w].inv)
             \/ hook'[w] = hook[w]
  BY <1>2 DEF ReceiveDelivery
<1>3. ASSUME NEW v \in Hooks, ReadInvoice(v)
      PROVE  /\ hook[w].pc # "idle"
             /\ hook'[w].hash = hook[w].hash /\ hook'[w].inv = hook[w].inv
  BY <1>3 DEF ReadInvoice, NoDelivery
<1>4. ASSUME NEW v \in Hooks, ApplyDelivery(v) \/ DeliveryDies(v)
      PROVE  hook'[w] = hook[w]
  BY <1>4 DEF ApplyDelivery, DeliveryDies, NoDelivery
<1>5. CASE UNCHANGED dvars
  BY <1>1, <1>5 DEF dvars
<1>6. CASE \E s \in Scanners :
             \/ ScannerStep(s) \/ SkipUnavailable(s) \/ ScannerDies(s)
             \/ \E j \in Invoice : StartReplay(s, j)
  BY <1>1, <1>6 DEF ScannerStep, StartScan, VisitInvoice, RecordExpiry, RecordPayment,
                    SkipUnavailable, ScannerDies, StartReplay
<1>7. CASE \/ \E g \in Hash, sent \in Transfer : BuyerPays(g, sent)
           \/ \E j \in Invoice : DeadlinePasses(j)
  BY <1>1, <1>7 DEF BuyerPays, DeadlinePasses
<1> QED
  BY <1>2, <1>3, <1>4, <1>5, <1>6, <1>7 DEF DetectionNext, DeliveryStep

\* What a scan is about to record it was about to before, or it has just found it
\* among the payments Horizon lists, with the memo of the invoice.
LEMMA ScanCarries ==
  ASSUME DTypeOK, [DetectionNext]_dvars, NEW s \in Scanners, scanner'[s].pc = "mark"
  PROVE  scanner'[s] = scanner[s] \/ MadeFor(scanner'[s].hash, scanner'[s].cur)
<1> USE DEF DTypeOK, DetectionTypeOK
<1>1. CASE UNCHANGED scanner
  BY <1>1
<1>0. ASSUME NEW r \in Scanners, NEW next, ScannerGoes(r, next), next.pc # "mark"
      PROVE  scanner'[s] = scanner[s]
  <2>1. scanner' = [scanner EXCEPT ![r] = next]
    BY <1>0 DEF ScannerGoes
  <2>2. r # s
    BY <1>0, <2>1
  <2> QED
    BY <2>1, <2>2
<1>2. ASSUME NEW r \in Scanners,
             ScannerContinues(r) \/ ScannerGoes(r, IdleScan)
      PROVE  scanner'[s] = scanner[s]
  <2>1. CASE ScannerGoes(r, IdleScan)
    BY <2>1 DEF ScannerGoes, IdleScan
  <2>2. CASE ScannerContinues(r)
    <3> DEFINE next == [scanner[r] EXCEPT !.pc = "next", !.cur = NoInvoiceId, !.hash = NoHash]
    <3>1. next.pc = "next" /\ scanner' = [scanner EXCEPT ![r] = next]
      BY <2>2 DEF ScannerContinues, ScannerGoes
    <3> QED
      BY <3>1
  <2> QED
    BY <1>2, <2>1, <2>2
<1>3. ASSUME NEW r \in Scanners, RecordExpiry(r) \/ RecordPayment(r) \/ ScannerDies(r)
      PROVE  scanner'[s] = scanner[s]
  BY <1>2, <1>3 DEF RecordExpiry, RecordPayment, ScannerDies
<1>4. ASSUME NEW r \in Scanners, StartScan(r) \/ \E j \in Invoice : StartReplay(r, j)
      PROVE  scanner'[s] = scanner[s]
  BY <1>4 DEF StartScan, StartReplay, ScannerGoes, IdleScan
<1>5. ASSUME NEW r \in Scanners, SkipUnavailable(r)
      PROVE  scanner'[s] = scanner[s]
  BY <1>5 DEF SkipUnavailable, ScannerGoes
<1>6. ASSUME NEW r \in Scanners, VisitInvoice(r)
      PROVE  scanner'[s] = scanner[s] \/ MadeFor(scanner'[s].hash, scanner'[s].cur)
  <2>1. PICK i \in Invoice :
          LET run == [scanner[r] EXCEPT !.todo = @ \ {i}] IN
          /\ scanner[r].pc = "next"
          /\ \/ ScannerGoes(r, [run EXCEPT !.pc = "expire", !.cur = i])
             \/ \E h \in Hash :
                  /\ Finds(r, h, i)
                  /\ ScannerGoes(r, [run EXCEPT !.pc = "mark", !.cur = i, !.hash = h])
             \/ ScannerGoes(r, run)
    BY <1>6 DEF VisitInvoice
  <2> DEFINE run == [scanner[r] EXCEPT !.todo = @ \ {i}]
  <2>2. CASE \/ ScannerGoes(r, [run EXCEPT !.pc = "expire", !.cur = i])
             \/ ScannerGoes(r, run)
    <3>1. CASE ScannerGoes(r, [run EXCEPT !.pc = "expire", !.cur = i])
      <4> DEFINE next == [run EXCEPT !.pc = "expire", !.cur = i]
      <4>1. next.pc # "mark" /\ ScannerGoes(r, next)
        BY <3>1
      <4> HIDE DEF next
      <4> QED
        BY <1>0, <4>1
    <3>2. CASE ScannerGoes(r, run)
      <4>1. run.pc # "mark" /\ ScannerGoes(r, run)
        BY <2>1, <3>2
      <4> HIDE DEF run
      <4> QED
        BY <1>0, <4>1
    <3> QED
      BY <2>2, <3>1, <3>2
  <2>3. ASSUME NEW h \in Hash, Finds(r, h, i),
               ScannerGoes(r, [run EXCEPT !.pc = "mark", !.cur = i, !.hash = h])
        PROVE  scanner'[s] = scanner[s] \/ MadeFor(scanner'[s].hash, scanner'[s].cur)
    <3>1. MadeFor(h, i)
      BY <2>3 DEF Finds, ScanStopsAt, Listed, Matches, MadeFor
    <3>2. r = s => scanner'[s].hash = h /\ scanner'[s].cur = i
      BY <2>3 DEF ScannerGoes
    <3>3. r # s => scanner'[s] = scanner[s]
      BY <2>3 DEF ScannerGoes
    <3> QED
      BY <3>1, <3>2, <3>3
  <2> QED
    BY <2>1, <2>2, <2>3
<1>7. CASE \/ UNCHANGED dvars
           \/ \E w \in Hooks :
                \/ \E j \in Invoice, g \in Hash : ReceiveDelivery(w, j, g)
                \/ DeliveryStep(w) \/ DeliveryDies(w)
           \/ \E g \in Hash, sent \in Transfer : BuyerPays(g, sent)
           \/ \E j \in Invoice : DeadlinePasses(j)
  BY <1>1, <1>7 DEF dvars, DeliveryStep, ReceiveDelivery, ReadInvoice, ApplyDelivery,
                    DeliveryDies, BuyerPays, DeadlinePasses
<1> QED
  BY <1>3, <1>4, <1>5, <1>6, <1>7 DEF DetectionNext, ScannerStep

\* A hash gets into the books from the hands of a delivery or of a scan.
LEMMA BooksRecord ==
  ASSUME DTypeOK, RunsCarryWork, [DetectionNext]_dvars, NEW i \in Invoice
  PROVE  \/ invHash'[i] = invHash[i]
         \/ \E w \in Hooks : /\ hook[w].pc # "idle" /\ hook[w].inv = i
                             /\ hook[w].hash = invHash'[i]
         \/ \E s \in Scanners : /\ scanner[s].pc = "mark" /\ scanner[s].cur = i
                                /\ scanner[s].hash = invHash'[i]
<1> USE DEF DTypeOK, DetectionTypeOK
<1>1. CASE UNCHANGED invHash
  BY <1>1
<1>2. ASSUME NEW j \in Invoice, NEW h \in Hash,
             MarkInvoicePaid(j, h) \/ RustWebhookMarkPaid(j, h)
      PROVE  invHash'[i] = invHash[i] \/ (i = j /\ invHash'[i] = h)
  BY <1>2 DEF MarkInvoicePaid, RustWebhookMarkPaid, SetPaid
<1>3. ASSUME NEW w \in Hooks, ApplyDelivery(w)
      PROVE  \/ invHash'[i] = invHash[i]
             \/ /\ hook[w].pc # "idle" /\ hook[w].inv = i
                /\ hook[w].hash = invHash'[i]
  BY <1>2, <1>3 DEF ApplyDelivery, RunsCarryWork
<1>4. ASSUME NEW s \in Scanners, RecordPayment(s)
      PROVE  \/ invHash'[i] = invHash[i]
             \/ /\ scanner[s].pc = "mark" /\ scanner[s].cur = i
                /\ scanner[s].hash = invHash'[i]
  BY <1>2, <1>4 DEF RecordPayment, RunsCarryWork
<1>5. CASE \/ UNCHANGED dvars
           \/ \E w \in Hooks :
                \/ \E j \in Invoice, g \in Hash : ReceiveDelivery(w, j, g)
                \/ ReadInvoice(w) \/ DeliveryDies(w)
           \/ \E g \in Hash, sent \in Transfer : BuyerPays(g, sent)
           \/ \E j \in Invoice : DeadlinePasses(j)
  BY <1>1, <1>5 DEF dvars, ReceiveDelivery, ReadInvoice, DeliveryDies, BuyerPays,
                    DeadlinePasses
<1>6. CASE \E s \in Scanners :
             \/ StartScan(s) \/ VisitInvoice(s) \/ RecordExpiry(s)
             \/ SkipUnavailable(s) \/ ScannerDies(s)
             \/ \E j \in Invoice : StartReplay(s, j)
  BY <1>1, <1>6 DEF StartScan, VisitInvoice, RecordExpiry, MarkInvoiceExpired,
                    SkipUnavailable, ScannerDies, StartReplay
<1> QED
  BY <1>3, <1>4, <1>5, <1>6 DEF DetectionNext, DeliveryStep, ScannerStep

LEMMA PaymentsAreRealStep ==
  ASSUME FlowInv, [FlowNext]_flowVars
  PROVE  PaymentsAreReal'
<1>1. DTypeOK /\ RunsCarryWork /\ PaymentsAreReal
  BY BothTyped DEF FlowInv
<1>2. CASE [DetectionNext]_dvars
  <2> SUFFICES ASSUME RelayTrusted
               PROVE  /\ \A w \in Hooks :
                           hook'[w].pc # "idle" => MadeFor(hook[w].hash, hook[w].inv)'
                      /\ \A s \in Scanners :
                           scanner'[s].pc = "mark" => MadeFor(scanner[s].hash, scanner[s].cur)'
                      /\ \A i \in Invoice : invHash'[i] # NoHash => MadeFor(invHash[i], i)'
    BY DEF PaymentsAreReal
  <2>1. \A h, i : MadeFor(h, i) => h \in Made' /\ payments'[h].transfer.memo = i
    BY <1>1, <1>2, PaymentStays DEF MadeFor
  <2>2. ASSUME NEW w \in Hooks, hook'[w].pc # "idle"
        PROVE  MadeFor(hook[w].hash, hook[w].inv)'
    <3>1. MadeFor(hook'[w].hash, hook'[w].inv)
      BY <1>1, <1>2, <2>2, DeliveryCarries DEF PaymentsAreReal
    <3> QED
      BY <2>1, <3>1 DEF MadeFor
  <2>3. ASSUME NEW s \in Scanners, scanner'[s].pc = "mark"
        PROVE  MadeFor(scanner[s].hash, scanner[s].cur)'
    <3>1. MadeFor(scanner'[s].hash, scanner'[s].cur)
      BY <1>1, <1>2, <2>3, ScanCarries DEF PaymentsAreReal
    <3> QED
      BY <2>1, <3>1 DEF MadeFor
  <2>4. ASSUME NEW i \in Invoice, invHash'[i] # NoHash
        PROVE  MadeFor(invHash[i], i)'
    <3>1. MadeFor(invHash'[i], i)
      BY <1>1, <1>2, <2>4, BooksRecord DEF PaymentsAreReal
    <3> QED
      BY <2>1, <3>1 DEF MadeFor
  <2> QED
    BY <2>2, <2>3, <2>4
<1>3. CASE UNCHANGED detectionVars
  BY <1>1, <1>3 DEF PaymentsAreReal, MadeFor, Made
<1> QED
  BY <1>2, <1>3, FlowSteps

LEMMA FlowStart == FlowInit => FlowInv
<1> SUFFICES ASSUME FlowInit PROVE FlowInv
  OBVIOUS
<1> USE DEF FlowInit
<1>1. DetectionInv
  BY DetectionInit DEF DInit
<1>2. LedgerTypeOK /\ DetectionTypeOK /\ RunsCarryWork /\ OnePaymentOneInvoice
  BY <1>1 DEF DetectionInv, DTypeOK
<1>3. SettlementInv
  <2> USE SettlementAssumption DEF SettlementStart, IdleSettler, IdleConfirmer, NoRow
  <2>1. TypeOK
    BY <1>2 DEF TypeOK, SettlementTypeOK, SettlerState, ConfirmerState, TxState
  <2>2. WorkIsClaimed /\ ClaimExclusive /\ SettlerKnows /\ OneTxPerPayout
    BY DEF WorkIsClaimed, ClaimExclusive, SettlerKnows, OneTxPerPayout
  <2>3. HashesAreOwn /\ SettledIsTransferred
    BY DEF HashesAreOwn, SettledIsTransferred
  <2> QED
    BY <2>1, <2>2, <2>3 DEF SettlementInv
<1>4. AcceptedByHash /\ PayoutIsAccepted
  BY DEF DetectionStart, SettlementStart, AcceptedByHash, PayoutIsAccepted
<1>5. PaymentsAreReal
  BY DEF DetectionStart, NoDelivery, IdleScan, PaymentsAreReal
<1> QED
  BY <1>2, <1>3, <1>4, <1>5 DEF FlowInv

LEMMA FlowStep == FlowInv /\ [FlowNext]_flowVars => FlowInv'
<1> SUFFICES ASSUME FlowInv, [FlowNext]_flowVars PROVE FlowInv'
  OBVIOUS
<1>1. DTypeOK /\ TypeOK
  BY BothTyped
<1>2. SettlementInv'
  BY FlowSteps, DetectionKeepsSettlement, NextInv DEF FlowInv
<1>3. DetectionTypeOK' /\ RunsCarryWork' /\ OnePaymentOneInvoice'
  <2>1. CASE [DetectionNext]_dvars
    BY <1>1, <2>1, DetectionTypeStep, OnePaymentStep DEF FlowInv, DTypeOK
  <2>2. CASE UNCHANGED detectionVars
    BY <2>2 DEF FlowInv, DetectionTypeOK, RunsCarryWork, OnePaymentOneInvoice
  <2> QED
    BY <2>1, <2>2, FlowSteps
<1> QED
  BY <1>2, <1>3, AcceptedByHashStep, PayoutIsAcceptedStep, PaymentsAreRealStep DEF FlowInv

\* The invariants proved for detection alone and for settlement alone hold when
\* both work on the same invoices and payouts.
THEOREM FlowInvariant == FlowSpec => []FlowInv
BY FlowStart, FlowStep, PTL DEF FlowSpec

\* What settlement promises for payouts that are queued from the start, it keeps
\* while detection goes on accepting invoices: no double transfer, no shared claim,
\* no settlement without a transfer.
THEOREM SettlementSafeInFlow ==
  FlowSpec => [](AtMostOneTransfer /\ ClaimExclusive /\ SettledIsTransferred)
<1>1. FlowInv => AtMostOneTransfer /\ ClaimExclusive /\ SettledIsTransferred
  BY SettlementAssumption
     DEF FlowInv, SettlementInv, OneTxPerPayout, AtMostOneTransfer, LiveTxsOf, TxsOf
<1> QED
  BY <1>1, FlowInvariant, PTL

-----------------------------------------------------------------------------
(* What it gives.                                                          *)

\* Whoever has a transaction, live or not, was accepted: the transaction is of a
\* claimed payout, and a claimed payout is one of an accepted invoice.
LEMMA TxIsAccepted ==
  ASSUME FlowInv, NEW t \in Tx, txFor[t] # NoInvoice
  PROVE  txFor[t] \in Invoice /\ invStatus[txFor[t]] \in {"paid", "settled"}
<1>1. txFor[t] \in Invoice
  BY DEF FlowInv, SettlementInv, TypeOK, SettlementTypeOK
<1>2. payClaimed[txFor[t]]
  BY DEF FlowInv, SettlementInv, WorkIsClaimed
<1> QED
  BY <1>1, <1>2 DEF FlowInv, PayoutIsAccepted

\* Money goes to a merchant only for an invoice with a payment no other invoice has,
\* and behind a trusted relay that is a payment a buyer made for this invoice: however
\* deliveries, scans, settle runs and operators interleave.
THEOREM TransfersAreBacked == FlowSpec => []TransferIsBacked
<1>1. ASSUME FlowInv PROVE TransferIsBacked
  <2> SUFFICES ASSUME NEW i \in Invoice, LiveTxsOf(i) # {}
               PROVE  /\ invHash[i] \in Hash
                      /\ \A j \in Invoice \ {i} : invHash[j] # invHash[i]
                      /\ RelayTrusted => PaidByBuyer(i)
    BY DEF TransferIsBacked
  <2>1. PICK t \in Tx : txFor[t] = i
    BY DEF LiveTxsOf, TxsOf
  <2>2. invStatus[i] \in {"paid", "settled"}
    BY <1>1, <2>1, TxIsAccepted, SettlementAssumption
  <2>3. invHash[i] # NoHash /\ invHash[i] \in Hash
    BY <1>1, <2>2 DEF FlowInv, AcceptedByHash, DetectionTypeOK
  <2>4. \A j \in Invoice \ {i} : invHash[j] # invHash[i]
    BY <1>1, <2>3 DEF FlowInv, OnePaymentOneInvoice
  <2>5. RelayTrusted => PaidByBuyer(i)
    BY <1>1, <2>3 DEF FlowInv, PaymentsAreReal, PaidByBuyer
  <2> QED
    BY <2>3, <2>4, <2>5
<1> QED
  BY <1>1, FlowInvariant, PTL

LEMMA PayoutMatchesInvoiceStep ==
  ASSUME RustHook = {}, FlowInv, PayoutMatchesInvoice, [FlowNext]_flowVars
  PROVE  PayoutMatchesInvoice'
<1>1. DTypeOK /\ TypeOK /\ RunsCarryWork /\ SettlementInv /\ PayoutIsAccepted
  BY BothTyped DEF FlowInv
<1>2. invStatus \in [Invoice -> InvoiceStatus] /\ payStatus \in [Invoice -> PayoutStatus]
  BY <1>1 DEF DTypeOK, LedgerTypeOK
<1>3. CASE [DetectionNext]_dvars
  <2>1. CASE BooksStay
    BY <2>1 DEF BooksStay, PayoutMatchesInvoice
  <2>2. ASSUME NEW i \in Invoice, MarkInvoiceExpired(i)
        PROVE  PayoutMatchesInvoice'
    BY <1>2, <2>2 DEF MarkInvoiceExpired, PayoutMatchesInvoice
  <2>3. ASSUME NEW i \in Invoice, NEW h \in Hash, Pays(i, h), Books(i)
        PROVE  PayoutMatchesInvoice'
    <3>1. invStatus[i] = "pending" /\ invStatus' = [invStatus EXCEPT ![i] = "paid"]
      BY <2>3 DEF Pays, PaidUpdateApplies, SetPaid
    <3>2. payStatus[i] = "none"
      BY <1>2, <3>1 DEF PayoutMatchesInvoice
    <3>3. payStatus' = (IF i \in InvalidKey THEN payStatus
                                          ELSE [payStatus EXCEPT ![i] = "queued"])
      BY <2>3, <3>2 DEF Books, QueuePayout
    <3> QED
      BY <1>2, <3>1, <3>2, <3>3 DEF PayoutMatchesInvoice
  <2> QED
    BY <1>1, <1>3, <2>1, <2>2, <2>3, BooksMove
<1>4. CASE [SettlementNext]_vars
  <2>1. \A i \in Invoice :
          /\ payStatus'[i] # payStatus[i] => payClaimed[i] /\ payStatus'[i] # "none"
          /\ invStatus'[i] # invStatus[i] => payClaimed[i] /\ invStatus'[i] = "settled"
    BY <1>1, <1>4, SettlementMoves DEF SettlementInv
  <2> QED
    BY <1>1, <2>1 DEF PayoutIsAccepted, PayoutMatchesInvoice
<1> QED
  BY <1>3, <1>4, FlowSteps

\* With the webhooks handled by the Next.js service, a payout row exists exactly for
\* the accepted invoices whose merchant has a valid settlement key.
THEOREM PayoutsMatchInvoices ==
  ASSUME RustHook = {} PROVE FlowSpec => []PayoutMatchesInvoice
<1>1. FlowInit => PayoutMatchesInvoice
  BY DEF FlowInit, PayoutMatchesInvoice
<1>2. FlowInv /\ PayoutMatchesInvoice /\ [FlowNext]_flowVars => PayoutMatchesInvoice'
  BY PayoutMatchesInvoiceStep
<1> QED
  BY <1>1, <1>2, FlowInvariant, PTL DEF FlowSpec

-----------------------------------------------------------------------------
(* The refinement: every step of the two services is one of MoneyFlow, or   *)
(* nothing that MoneyFlow can see.                                         *)

Moving  == [i \in Invoice |-> Inflight(i)]
Arrived == [i \in Invoice |-> Executed(i)]

\* Without news from the network, nothing is sent, fails or arrives.
LEMMA TransfersStay ==
  ASSUME UNCHANGED networkVars PROVE UNCHANGED <<Moving, Arrived>>
BY DEF Moving, Arrived, Inflight, Executed, TxsOf

\* A step of detection accepts an invoice, or expires it.
LEMMA DetectionImplements ==
  ASSUME FlowInv, [DetectionNext]_dvars, UNCHANGED settlementVars
  PROVE  \/ UNCHANGED <<invStatus, Moving, Arrived>>
         \/ \E i \in Invoice : Money!Accept(i) \/ Money!Expire(i)
<1>1. DTypeOK /\ RunsCarryWork
  BY BothTyped DEF FlowInv
<1>2. UNCHANGED <<Moving, Arrived>>
  BY TransfersStay
<1> QED
  BY <1>1, <1>2, DetectionMoves
     DEF Money!Accept, Money!Expire, Money!Book, Moving, Arrived

\* The verdict of a reconcile run settles an invoice whose transfer has arrived;
\* written again over a settled invoice, it changes nothing.
LEMMA VerdictImplements ==
  ASSUME FlowInv, NEW c \in Confirmer, RecordVerdict(c)
  PROVE  \/ UNCHANGED <<invStatus, Moving, Arrived>>
         \/ \E i \in Invoice : Money!Settle(i)
<1> DEFINE i == confirmer[c].row[1]
           t == confirmer[c].row[2]
<1>1. UNCHANGED <<Moving, Arrived>>
  BY TransfersStay DEF RecordVerdict
<1>2. CASE confirmer[c].pc = "failed" /\ MarkPayoutFailed(i)
  BY <1>1, <1>2 DEF MarkPayoutFailed
<1>3. CASE confirmer[c].pc = "confirmed" /\ MarkPayoutSettled(i, t)
  <2>1. i \in Invoice /\ t \in Tx /\ payClaimed[i]
    BY <1>3 DEF FlowInv, SettlementInv, WorkIsClaimed, Row
  <2>2. txFor[t] = i /\ txState[t] = "success"
    BY <1>3 DEF FlowInv, SettlementInv, HashesAreOwn
  <2>3. Arrived[i] # {}
    BY <2>1, <2>2 DEF Arrived, Executed, TxsOf
  <2>4. invStatus[i] \in {"paid", "settled"}
    BY <2>1 DEF FlowInv, PayoutIsAccepted
  <2>5. invStatus' = [invStatus EXCEPT ![i] = "settled"]
    BY <1>3 DEF MarkPayoutSettled
  <2>6. CASE invStatus[i] = "paid"
    BY <1>1, <2>1, <2>3, <2>5, <2>6 DEF Money!Settle, Money!Book, Moving, Arrived
  <2>7. CASE invStatus[i] = "settled"
    <3>1. invStatus \in [Invoice -> InvoiceStatus]
      BY BothTyped DEF TypeOK, LedgerTypeOK
    <3> QED
      BY <1>1, <2>5, <2>7, <3>1
  <2> QED
    BY <2>4, <2>6, <2>7
<1> QED
  BY <1>2, <1>3 DEF RecordVerdict

\* A submission sends the money of an invoice that is paid at that moment, and for
\* which nothing was sent before, although the run checked both some steps ago.
LEMMA SubmissionImplements ==
  ASSUME FlowInv, NEW s \in Settler, NEW t \in Tx,
         settler[s].pc = "submit", txState[t] = "unused",
         txFor' = [txFor EXCEPT ![t] = settler[s].cur],
         txState' = [txState EXCEPT ![t] = "inflight"],
         UNCHANGED invStatus
  PROVE  \E i \in Invoice : Money!Send(i, t)
<1> DEFINE i == settler[s].cur
<1>1. /\ txFor \in [Tx -> Invoice \cup {NoInvoice}]
      /\ txState \in [Tx -> TxState]
  BY DEF FlowInv, SettlementInv, TypeOK, SettlementTypeOK
<1>2. i \in Invoice /\ payClaimed[i]
  BY DEF FlowInv, SettlementInv, TypeOK, SettlementTypeOK, SettlerState, SettlerKnows,
         WorkIsClaimed
<1>3. TxsOf(i) = {}
  BY DEF FlowInv, SettlementInv, SettlerKnows
<1>4. invStatus[i] = "paid"
  <2>1. invStatus[i] \in {"paid", "settled"}
    BY <1>2 DEF FlowInv, PayoutIsAccepted
  <2>2. invStatus[i] # "settled"
    BY <1>2, <1>3 DEF FlowInv, SettlementInv, SettledIsTransferred
  <2> QED
    BY <2>1, <2>2
<1>5. txFor[t] = NoInvoice
  BY DEF FlowInv, SettlementInv, OneTxPerPayout
<1>6. /\ txFor'[t] = i /\ txState'[t] = "inflight"
      /\ \A u \in Tx \ {t} : txFor'[u] = txFor[u] /\ txState'[u] = txState[u]
      /\ \A u \in Tx : txFor[u] # i
  BY <1>1, <1>2, <1>3 DEF TxsOf
<1>7. /\ Moving[i] = {} /\ Arrived[i] = {}
      /\ Moving'[i] = {t} /\ Arrived'[i] = {}
  BY <1>1, <1>2, <1>6 DEF Moving, Arrived, Inflight, Executed, TxsOf
<1>8. \A j \in Invoice \ {i} : Moving'[j] = Moving[j] /\ Arrived'[j] = Arrived[j]
  BY <1>1, <1>5, <1>6, SettlementAssumption DEF Moving, Arrived, Inflight, Executed, TxsOf
<1>9. Moving' = [Moving EXCEPT ![i] = {t}] /\ Arrived' = Arrived
  BY <1>2, <1>7, <1>8 DEF Moving, Arrived
<1> QED
  BY <1>2, <1>4, <1>7, <1>9 DEF Money!Send, Moving, Arrived

\* What the network decides makes the one transfer fail, or arrive.
LEMMA NetworkImplements ==
  ASSUME FlowInv, NEW t \in Tx, txState[t] = "inflight", UNCHANGED <<txFor, invStatus>>,
         NEW verdict \in {"success", "failed", "expired"},
         txState' = [txState EXCEPT ![t] = verdict]
  PROVE  \E i \in Invoice : Money!Fail(i, t) \/ Money!Arrive(i, t)
<1> DEFINE i == txFor[t]
<1>1. /\ txFor \in [Tx -> Invoice \cup {NoInvoice}]
      /\ txState \in [Tx -> TxState]
  BY DEF FlowInv, SettlementInv, TypeOK, SettlementTypeOK
<1>2. i \in Invoice
  <2>1. txFor[t] # NoInvoice
    BY DEF FlowInv, SettlementInv, OneTxPerPayout
  <2> QED
    BY <2>1, TxIsAccepted
<1>3. t \in Moving[i]
  BY <1>2 DEF Moving, Inflight, TxsOf
<1>4. \A j \in Invoice :
        /\ Inflight(j)' = IF j = i THEN Inflight(j) \ {t} ELSE Inflight(j)
        /\ Executed(j)' = IF j = i /\ verdict = "success" THEN Executed(j) \cup {t}
                                                          ELSE Executed(j)
  BY <1>1 DEF Inflight, Executed, TxsOf
<1>5. Moving' = [Moving EXCEPT ![i] = @ \ {t}]
  BY <1>2, <1>4 DEF Moving
<1>6. CASE verdict # "success"
  <2>1. Arrived' = Arrived
    BY <1>4, <1>6 DEF Arrived
  <2> QED
    BY <1>2, <1>3, <1>5, <2>1 DEF Money!Fail, Moving, Arrived
<1>7. CASE verdict = "success"
  <2>1. Arrived' = [Arrived EXCEPT ![i] = @ \cup {t}]
    BY <1>2, <1>4, <1>7 DEF Arrived
  <2> QED
    BY <1>2, <1>3, <1>5, <2>1 DEF Money!Arrive, Moving, Arrived
<1> QED
  BY <1>6, <1>7

\* The steps of settlement that MoneyFlow sees change one thing at a time.
LEMMA OneThingAtATime ==
  ASSUME [SettlementNext]_vars
  PROVE  \/ UNCHANGED networkVars
              /\ (UNCHANGED invStatus \/ \E c \in Confirmer : RecordVerdict(c))
         \/ UNCHANGED invStatus
<1>1. ASSUME NEW s \in Settler, RecordSubmission(s)
      PROVE  UNCHANGED invStatus
  BY <1>1 DEF RecordSubmission, MarkPayoutSubmitted
<1>2. ASSUME NEW c \in Confirmer, RecordVerdict(c)
      PROVE  UNCHANGED networkVars
  BY <1>2 DEF RecordVerdict
<1> QED
  BY <1>1, <1>2, SharedState

LEMMA SettlementImplements ==
  ASSUME FlowInv, [SettlementNext]_vars
  PROVE  \/ UNCHANGED <<invStatus, Moving, Arrived>>
         \/ \E i \in Invoice :
              \/ Money!Settle(i)
              \/ \E t \in Tx : Money!Send(i, t) \/ Money!Fail(i, t) \/ Money!Arrive(i, t)
<1>1. TypeOK
  BY BothTyped
<1>2. CASE UNCHANGED networkVars /\ UNCHANGED invStatus
  BY <1>2, TransfersStay
<1>3. CASE \E c \in Confirmer : RecordVerdict(c)
  BY <1>3, VerdictImplements
<1>4. CASE ~(UNCHANGED networkVars) /\ UNCHANGED invStatus
  <2>1. CASE \E s \in Settler, t \in Tx :
               /\ settler[s].pc = "submit" /\ txState[t] = "unused"
               /\ txFor' = [txFor EXCEPT ![t] = settler[s].cur]
               /\ txState' = [txState EXCEPT ![t] = "inflight"]
    BY <1>4, <2>1, SubmissionImplements
  <2>2. CASE \E t \in Tx : /\ txState[t] = "inflight"
                           /\ UNCHANGED txFor
                           /\ \E verdict \in {"success", "failed", "expired"} :
                                txState' = [txState EXCEPT ![t] = verdict]
    BY <1>4, <2>2, NetworkImplements
  <2> QED
    BY <1>1, <1>4, <2>1, <2>2, NetworkMoves
<1> QED
  BY <1>2, <1>3, <1>4, OneThingAtATime

\* The two services together implement MoneyFlow: an invoice is accepted or expires,
\* once; its merchant is sent the money by one transaction at a time, only while the
\* invoice is paid, and by no other once one has arrived; it is called settled only
\* after that.
THEOREM ImplementsMoneyFlow == FlowSpec => KeepsMoneyFlow
<1>1. FlowInit => Money!Init
  <2> SUFFICES ASSUME FlowInit PROVE Money!Init
    OBVIOUS
  <2>1. \A i \in Invoice : Inflight(i) = {} /\ Executed(i) = {}
    BY SettlementAssumption DEF FlowInit, SettlementStart, Inflight, Executed, TxsOf
  <2> QED
    BY <2>1 DEF FlowInit, Money!Init
<1>2. FlowInv /\ [FlowNext]_flowVars => [Money!Next]_Money!moneyVars
  <2> SUFFICES ASSUME FlowInv, [FlowNext]_flowVars
               PROVE  [Money!Next]_Money!moneyVars
    OBVIOUS
  <2>1. CASE UNCHANGED <<invStatus, Moving, Arrived>>
    BY <2>1 DEF Money!moneyVars, Moving, Arrived
  <2>2. CASE \E i \in Invoice :
               \/ Money!Accept(i) \/ Money!Expire(i) \/ Money!Settle(i)
               \/ \E t \in Tx : Money!Send(i, t) \/ Money!Fail(i, t) \/ Money!Arrive(i, t)
    BY <2>2 DEF Money!Next
  <2> QED
    BY <2>1, <2>2, FlowSteps, DetectionImplements, SettlementImplements
<1> QED
  BY <1>1, <1>2, FlowInvariant, PTL DEF FlowSpec, KeepsMoneyFlow, Money!Spec
=============================================================================
