------------------------- MODULE Settlement_proofs -------------------------
(***************************************************************************)
(* Proofs about Settlement, for every number of payouts, transactions,     *)
(* runs and thresholds, and for every choice of faults.                    *)
(***************************************************************************)
EXTENDS SettleRules, FiniteSetTheorems, TLAPS

\* The tuples a step may leave alone, as one definition to expand.
USE DEF ledgerVars, payoutVars, networkVars, processVars, settlementVars

-----------------------------------------------------------------------------
(* Typing.                                                                 *)

\* Every row a batch picks is a payout.
LEMMA QueuedAreInvoices == QueuedPayouts \subseteq Invoice
BY DEF QueuedPayouts, OldestRows

\* Every row of the confirmation list is a payout with a transaction.
LEMMA SubmittedAreRows == SubmittedPayouts \subseteq Row
BY DEF SubmittedPayouts

\* Counting one more keeps a table of counters one.
LEMMA Increment ==
  ASSUME NEW S, NEW f \in [S -> Nat], NEW x
  PROVE  [f EXCEPT ![x] = @ + 1] \in [S -> Nat]
<1>1. CASE x \in S
  <2>1. f[x] + 1 \in Nat
    BY <1>1
  <2> QED
    BY <2>1
<1>2. CASE x \notin S
  BY <1>2
<1> QED
  BY <1>1, <1>2

\* A settle run keeps its own type.
LEMMA SettlerType ==
  ASSUME TypeOK, NEW s \in Settler, SettlerStep(s) \/ SettlerDies(s)
  PROVE  settler' \in [Settler -> SettlerState]
<1> DEFINE rec == settler[s]
<1> USE DEF SettlerGoes, SettlerContinues
<1>1. settler \in [Settler -> SettlerState] /\ rec \in SettlerState
  BY DEF TypeOK, SettlementTypeOK
<1>2. IdleSettler \in SettlerState
  BY DEF SettlerState, IdleSettler
<1>3. /\ [rec EXCEPT !.pc = "submit"] \in SettlerState
      /\ [rec EXCEPT !.pc = "failing"] \in SettlerState
      /\ [rec EXCEPT !.pc = "next", !.cur = NoInvoice, !.tx = NoTx] \in SettlerState
  BY <1>1 DEF SettlerState
<1>4. CASE StartSettle(s)
  <2>1. PICK dry \in BOOLEAN :
          settler' = [settler EXCEPT ![s] =
            [IdleSettler EXCEPT !.todo = QueuedPayouts, !.dry = dry]]
    BY <1>4, SettlementAssumption DEF StartSettle
  <2>2. [IdleSettler EXCEPT !.todo = QueuedPayouts, !.dry = dry] \in SettlerState
    BY QueuedAreInvoices DEF SettlerState, IdleSettler
  <2> QED
    BY <1>1, <2>1, <2>2
<1>5. CASE ClaimNext(s)
  <2>1. PICK i \in Invoice :
          \/ settler' = [settler EXCEPT ![s] =
               [rec EXCEPT !.pc = "claimed", !.cur = i, !.todo = @ \ {i}]]
          \/ settler' = [settler EXCEPT ![s] = [rec EXCEPT !.todo = @ \ {i}]]
    BY <1>5 DEF ClaimNext
  <2>2. /\ [rec EXCEPT !.pc = "claimed", !.cur = i, !.todo = @ \ {i}] \in SettlerState
        /\ [rec EXCEPT !.todo = @ \ {i}] \in SettlerState
    BY <1>1 DEF SettlerState
  <2> QED
    BY <1>1, <2>1, <2>2
<1>6. CASE InspectClaimed(s)
  BY <1>6, <1>1, <1>3 DEF InspectClaimed
<1>7. CASE Submit(s)
  <2>1. CASE settler' = [settler EXCEPT ![s] = [rec EXCEPT !.pc = "failing"]]
    BY <1>1, <1>3, <2>1
  <2>2. CASE \E t \in Tx :
               settler' = [settler EXCEPT ![s] = [rec EXCEPT !.pc = "record", !.tx = t]]
    <3>1. PICK t \in Tx :
            settler' = [settler EXCEPT ![s] = [rec EXCEPT !.pc = "record", !.tx = t]]
      BY <2>2
    <3>2. [rec EXCEPT !.pc = "record", !.tx = t] \in SettlerState
      BY <1>1 DEF SettlerState
    <3> QED
      BY <1>1, <3>1, <3>2
  <2> QED
    BY <1>7, <2>1, <2>2 DEF Submit
<1>8. CASE RecordSubmission(s)
  BY <1>8, <1>1, <1>3 DEF RecordSubmission
<1>9. CASE RecordFailure(s)
  BY <1>9, <1>1, <1>3 DEF RecordFailure
<1>10. CASE SettlerDies(s)
  BY <1>10, <1>1, <1>2 DEF SettlerDies
<1> QED
  BY <1>4, <1>5, <1>6, <1>7, <1>8, <1>9, <1>10 DEF SettlerStep

\* A reconcile run keeps its own type.
LEMMA ConfirmerType ==
  ASSUME TypeOK, NEW c \in Confirmer, ConfirmerStep(c) \/ ConfirmerDies(c)
  PROVE  confirmer' \in [Confirmer -> ConfirmerState]
<1> DEFINE rec == confirmer[c]
<1> USE DEF ConfirmerGoes
<1>1. confirmer \in [Confirmer -> ConfirmerState] /\ rec \in ConfirmerState
  BY DEF TypeOK, SettlementTypeOK
<1>2. IdleConfirmer \in ConfirmerState
  BY DEF ConfirmerState, IdleConfirmer, NoRow
<1>3. CASE StartConfirm(c)
  <2>1. [IdleConfirmer EXCEPT !.todo = SubmittedPayouts] \in ConfirmerState
    BY SubmittedAreRows DEF ConfirmerState, IdleConfirmer, NoRow
  <2> QED
    BY <1>1, <1>3, <2>1 DEF StartConfirm
<1>4. CASE CheckTx(c)
  <2>1. PICK r \in rec.todo :
          confirmer' = [confirmer EXCEPT ![c] =
            [pc |-> Verdict(r[2]), todo |-> rec.todo \ {r},
             row |-> IF Verdict(r[2]) = "next" THEN NoRow ELSE r]]
    BY <1>4 DEF CheckTx
  <2>2. r \in Row /\ rec.todo \subseteq Row
    BY <1>1 DEF ConfirmerState
  <2>3. Verdict(r[2]) \in {"next", "confirmed", "failed"}
    BY DEF Verdict
  <2>4. [pc |-> Verdict(r[2]), todo |-> rec.todo \ {r},
         row |-> IF Verdict(r[2]) = "next" THEN NoRow ELSE r] \in ConfirmerState
    BY <2>2, <2>3 DEF ConfirmerState, Row, NoRow
  <2> QED
    BY <1>1, <2>1, <2>4
<1>5. CASE RecordVerdict(c)
  <2>1. [rec EXCEPT !.pc = "next", !.row = NoRow] \in ConfirmerState
    BY <1>1 DEF ConfirmerState, NoRow
  <2> QED
    BY <1>1, <1>5, <2>1 DEF RecordVerdict
<1>6. CASE ConfirmerDies(c)
  BY <1>1, <1>2, <1>6 DEF ConfirmerDies
<1> QED
  BY <1>3, <1>4, <1>5, <1>6 DEF ConfirmerStep

\* A settle run keeps the types of what it shares with the others.
LEMMA SettlerKeepsTypes ==
  ASSUME TypeOK, NEW s \in Settler, SettlerStep(s) \/ SettlerDies(s)
  PROVE  TypeOK'
<1> USE DEF TypeOK, LedgerTypeOK, SettlementTypeOK, SettlerOnly,
            InvoiceStatus, PayoutStatus, TxState
<1>1. settler' \in [Settler -> SettlerState]
  BY SettlerType
<1>2. settler[s] \in SettlerState
  OBVIOUS
<1>3. CASE StartSettle(s)
  BY <1>1, <1>3 DEF StartSettle
<1>4. CASE ClaimNext(s)
  BY <1>1, <1>4 DEF ClaimNext, ClaimPayout
<1>5. CASE InspectClaimed(s)
  BY <1>1, <1>5 DEF InspectClaimed
<1>6. CASE Submit(s)
  BY <1>1, <1>2, <1>6 DEF Submit, SettlerState
<1>7. CASE RecordSubmission(s)
  <2>1. settler[s].tx \in Tx \cup {NoTx}
    BY <1>2 DEF SettlerState
  <2>2. CASE MarkPayoutSubmitted(settler[s].cur, settler[s].tx)
    BY <1>1, <1>7, <2>1, <2>2 DEF RecordSubmission, MarkPayoutSubmitted
  <2>3. CASE UNCHANGED <<ledgerVars, payoutVars>>
    BY <1>1, <1>7, <2>3 DEF RecordSubmission
  <2> QED
    BY <1>7, <2>2, <2>3 DEF RecordSubmission
<1>8. CASE RecordFailure(s)
  BY <1>1, <1>8, Increment DEF RecordFailure, MarkPayoutFailed
<1>9. CASE SettlerDies(s)
  BY <1>1, <1>9 DEF SettlerDies
<1> QED
  BY <1>3, <1>4, <1>5, <1>6, <1>7, <1>8, <1>9 DEF SettlerStep

\* So does a reconcile run.
LEMMA ConfirmerKeepsTypes ==
  ASSUME TypeOK, NEW c \in Confirmer, ConfirmerStep(c) \/ ConfirmerDies(c)
  PROVE  TypeOK'
<1> USE DEF TypeOK, LedgerTypeOK, SettlementTypeOK, ConfirmerOnly,
            InvoiceStatus, PayoutStatus
<1>1. confirmer' \in [Confirmer -> ConfirmerState]
  BY ConfirmerType
<1>2. confirmer[c] \in ConfirmerState
  OBVIOUS
<1>3. CASE StartConfirm(c)
  BY <1>1, <1>3 DEF StartConfirm
<1>4. CASE CheckTx(c)
  BY <1>1, <1>4 DEF CheckTx
<1>5. CASE RecordVerdict(c)
  <2> DEFINE r == confirmer[c].row
  <2>1. r[2] \in Tx \cup {NoTx}
    BY <1>2 DEF ConfirmerState
  <2>2. CASE MarkPayoutSettled(r[1], r[2])
    BY <1>1, <1>5, <2>1, <2>2, Increment DEF RecordVerdict, MarkPayoutSettled
  <2>3. CASE MarkPayoutFailed(r[1])
    BY <1>1, <1>5, <2>3, Increment DEF RecordVerdict, MarkPayoutFailed
  <2> QED
    BY <1>5, <2>2, <2>3 DEF RecordVerdict
<1>6. CASE ConfirmerDies(c)
  BY <1>1, <1>6 DEF ConfirmerDies
<1> QED
  BY <1>3, <1>4, <1>5, <1>6 DEF ConfirmerStep

\* And a retry run.
LEMMA RetrierKeepsTypes ==
  ASSUME TypeOK, NEW k \in Retrier, RetrierStep(k) \/ RetrierDies(k)
  PROVE  TypeOK'
<1> USE DEF TypeOK, LedgerTypeOK, SettlementTypeOK, RetrierOnly,
            InvoiceStatus, PayoutStatus
<1>1. CASE StartRetry(k)
  BY <1>1 DEF StartRetry
<1>2. ASSUME NEW row \in retrier[k], RetryRow(k, row)
      PROVE  TypeOK'
  BY <1>2 DEF RetryRow, PassedRow, RequeueFailed, DeadLetter
<1>3. ASSUME NEW row \in retrier[k], SkipRow(k, row)
      PROVE  TypeOK'
  BY <1>3 DEF SkipRow, PassedRow
<1>4. CASE RetrierDies(k)
  BY <1>4 DEF RetrierDies
<1> QED
  BY <1>1, <1>2, <1>3, <1>4 DEF RetrierStep

\* Every step keeps the types.
LEMMA TypeStep == TypeOK /\ [SettlementNext]_vars => TypeOK'
<1> SUFFICES ASSUME TypeOK, [SettlementNext]_vars
             PROVE  TypeOK'
  OBVIOUS
<1> USE DEF TypeOK, LedgerTypeOK, SettlementTypeOK
<1>1. ASSUME NEW o \in Operator, ReplayPayout(o)
      PROVE  TypeOK'
  BY <1>1 DEF ReplayPayout, PayoutStatus
<1>2. ASSUME NEW o \in Operator, NEW i \in Invoice, CheckReplayable(o, i)
      PROVE  TypeOK'
  BY <1>2 DEF CheckReplayable
<1>3. ASSUME NEW i \in Invoice, ClaimEndpoint(i)
      PROVE  TypeOK'
  BY <1>3 DEF ClaimEndpoint, ClaimPayout
<1>4. ASSUME NEW t \in Tx, NetworkDecides(t)
      PROVE  TypeOK'
  BY <1>4 DEF NetworkDecides, TxState
<1>5. CASE UNCHANGED vars
  BY <1>5 DEF vars
<1> QED
  BY <1>1, <1>2, <1>3, <1>4, <1>5, SettlerKeepsTypes, ConfirmerKeepsTypes,
     RetrierKeepsTypes DEF SettlementNext

-----------------------------------------------------------------------------
(* Who may change what.                                                    *)

\* Each process state is its process's own.
LEMMA OwnState ==
  ASSUME [SettlementNext]_vars
  PROVE  /\ UNCHANGED settler
              \/ \E s \in Settler : SettlerStep(s) \/ SettlerDies(s)
         /\ UNCHANGED confirmer
              \/ \E c \in Confirmer : ConfirmerStep(c) \/ ConfirmerDies(c)
         /\ UNCHANGED retrier
              \/ \E k \in Retrier : RetrierStep(k) \/ RetrierDies(k)
         /\ UNCHANGED operator
              \/ \E o \in Operator :
                   ReplayPayout(o) \/ \E i \in Invoice : CheckReplayable(o, i)
<1>1. ASSUME NEW s \in Settler, SettlerStep(s) \/ SettlerDies(s)
      PROVE  UNCHANGED <<confirmer, retrier, operator>>
  BY <1>1 DEF SettlerStep, StartSettle, ClaimNext, InspectClaimed, Submit,
              RecordSubmission, RecordFailure, SettlerDies, SettlerOnly
<1>2. ASSUME NEW c \in Confirmer, ConfirmerStep(c) \/ ConfirmerDies(c)
      PROVE  UNCHANGED <<settler, retrier, operator>>
  BY <1>2 DEF ConfirmerStep, StartConfirm, CheckTx, RecordVerdict,
              ConfirmerDies, ConfirmerOnly
<1>3. ASSUME NEW k \in Retrier, RetrierStep(k) \/ RetrierDies(k)
      PROVE  UNCHANGED <<settler, confirmer, operator>>
  BY <1>3 DEF RetrierStep, StartRetry, RetryRow, SkipRow, PassedRow,
              RetrierDies, RetrierOnly
<1>4. ASSUME NEW o \in Operator,
             ReplayPayout(o) \/ \E i \in Invoice : CheckReplayable(o, i)
      PROVE  UNCHANGED <<settler, confirmer, retrier>>
  BY <1>4 DEF ReplayPayout, CheckReplayable
<1>5. ASSUME NEW i \in Invoice, ClaimEndpoint(i)
      PROVE  UNCHANGED processVars
  BY <1>5 DEF ClaimEndpoint
<1>6. ASSUME NEW t \in Tx, NetworkDecides(t)
      PROVE  UNCHANGED processVars
  BY <1>6 DEF NetworkDecides
<1>7. CASE UNCHANGED vars
  BY <1>7 DEF vars
<1> QED
  BY <1>1, <1>2, <1>3, <1>4, <1>5, <1>6, <1>7 DEF SettlementNext

\* The shared rows and the network change by these statements only.
LEMMA SharedState ==
  ASSUME [SettlementNext]_vars
  PROVE  /\ UNCHANGED networkVars
              \/ (\E s \in Settler : Submit(s))
              \/ (\E t \in Tx : NetworkDecides(t))
         /\ UNCHANGED payClaimed \/ (\E i \in Invoice : ClaimPayout(i))
         /\ UNCHANGED <<invStatus, payTx>>
              \/ (\E s \in Settler : RecordSubmission(s))
              \/ (\E c \in Confirmer : RecordVerdict(c))
         /\ UNCHANGED payStatus
              \/ (\E s \in Settler : RecordSubmission(s) \/ RecordFailure(s))
              \/ (\E c \in Confirmer : RecordVerdict(c))
              \/ (\E k \in Retrier : \E row \in retrier[k] : RetryRow(k, row))
              \/ (\E o \in Operator : ReplayPayout(o))
<1>1. ASSUME NEW s \in Settler, SettlerStep(s) \/ SettlerDies(s)
      PROVE  /\ UNCHANGED networkVars \/ Submit(s)
             /\ UNCHANGED payClaimed \/ (\E i \in Invoice : ClaimPayout(i))
             /\ UNCHANGED <<invStatus, payTx>> \/ RecordSubmission(s)
             /\ UNCHANGED payStatus \/ RecordSubmission(s) \/ RecordFailure(s)
  <2>1. CASE StartSettle(s)
    BY <2>1 DEF StartSettle
  <2>2. CASE ClaimNext(s)
    BY <2>2 DEF ClaimNext
  <2>3. CASE InspectClaimed(s)
    BY <2>3 DEF InspectClaimed
  <2>4. CASE Submit(s)
    BY <2>4 DEF Submit
  <2>5. CASE RecordSubmission(s)
    BY <2>5 DEF RecordSubmission, MarkPayoutSubmitted
  <2>6. CASE RecordFailure(s)
    BY <2>6 DEF RecordFailure, MarkPayoutFailed
  <2>7. CASE SettlerDies(s)
    BY <2>7 DEF SettlerDies
  <2> QED
    BY <1>1, <2>1, <2>2, <2>3, <2>4, <2>5, <2>6, <2>7 DEF SettlerStep
<1>2. ASSUME NEW c \in Confirmer, ConfirmerStep(c) \/ ConfirmerDies(c)
      PROVE  /\ UNCHANGED <<networkVars, payClaimed>>
             /\ UNCHANGED <<ledgerVars, payTx>> \/ RecordVerdict(c)
  BY <1>2 DEF ConfirmerStep, StartConfirm, CheckTx, RecordVerdict,
              ConfirmerDies, MarkPayoutSettled, MarkPayoutFailed
<1>3. ASSUME NEW k \in Retrier, RetrierStep(k) \/ RetrierDies(k)
      PROVE  /\ UNCHANGED <<networkVars, payClaimed, invStatus, payTx>>
             /\ UNCHANGED payStatus \/ (\E row \in retrier[k] : RetryRow(k, row))
  BY <1>3 DEF RetrierStep, StartRetry, RetryRow, SkipRow, PassedRow,
              RetrierDies, RequeueFailed, DeadLetter
<1>4. ASSUME NEW o \in Operator,
             ReplayPayout(o) \/ \E i \in Invoice : CheckReplayable(o, i)
      PROVE  /\ UNCHANGED <<networkVars, payClaimed, invStatus, payTx>>
             /\ UNCHANGED payStatus \/ ReplayPayout(o)
  BY <1>4 DEF ReplayPayout, CheckReplayable
<1>5. ASSUME NEW i \in Invoice, ClaimEndpoint(i)
      PROVE  UNCHANGED <<networkVars, ledgerVars, payTx>> /\ ClaimPayout(i)
  BY <1>5 DEF ClaimEndpoint
<1>6. ASSUME NEW t \in Tx, NetworkDecides(t)
      PROVE  UNCHANGED <<ledgerVars, payoutVars>>
  BY <1>6 DEF NetworkDecides
<1>7. CASE UNCHANGED vars
  BY <1>7 DEF vars
<1> QED
  BY <1>1, <1>2, <1>3, <1>4, <1>5, <1>6, <1>7 DEF SettlementNext

\* A settle run leaves the record of every other one alone.
LEMMA OnlyOwnRecord ==
  ASSUME TypeOK, NEW r \in Settler, SettlerStep(r) \/ SettlerDies(r),
         NEW s \in Settler \ {r}
  PROVE  settler'[s] = settler[s]
<1> settler \in [Settler -> SettlerState]
  BY DEF TypeOK, SettlementTypeOK
<1> QED
  BY DEF SettlerStep, StartSettle, ClaimNext, InspectClaimed, Submit,
         RecordSubmission, RecordFailure, SettlerDies, SettlerGoes, SettlerContinues

\* How one settle run moves, and what it finds when it does.
LEMMA SettlerMoves ==
  ASSUME TypeOK, [SettlementNext]_vars, NEW s \in Settler
  PROVE  LET old == settler[s]  new == settler'[s] IN
         \/ new.pc = old.pc /\ new.cur = old.cur /\ new.tx = old.tx
         \/ new.pc = "next" /\ new.cur = NoInvoice
         \/ /\ old.pc = "next" /\ new.pc = "claimed"
            /\ new.cur \in Invoice /\ ClaimPayout(new.cur)
         \/ old.pc = "claimed" /\ new.pc \in {"submit", "failing"} /\ new.cur = old.cur
         \/ old.pc \in {"submit", "record"} /\ new.pc = "failing" /\ new.cur = old.cur
         \/ /\ old.pc = "submit" /\ new.pc = "record" /\ new.cur = old.cur
            /\ new.tx \in Tx /\ txFor'[new.tx] = new.cur
<1> DEFINE old == settler[s]
           new == settler'[s]
<1> USE DEF SettlerGoes, SettlerContinues
<1>1. settler \in [Settler -> SettlerState] /\ txFor \in [Tx -> Invoice \cup {NoInvoice}]
  BY DEF TypeOK, SettlementTypeOK
<1>2. ASSUME NEW r \in Settler \ {s}, SettlerStep(r) \/ SettlerDies(r)
      PROVE  new = old
  BY <1>2, OnlyOwnRecord
<1>3. old \in SettlerState
  BY <1>1
<1>4. CASE StartSettle(s)
  BY <1>1, <1>4 DEF StartSettle, IdleSettler
<1>5. CASE ClaimNext(s)
  <2>1. PICK i \in Invoice :
          \/ ClaimPayout(i) /\ new = [old EXCEPT !.pc = "claimed", !.cur = i,
                                                !.todo = @ \ {i}]
          \/ new = [old EXCEPT !.todo = @ \ {i}]
    BY <1>1, <1>5 DEF ClaimNext
  <2>2. old.pc = "next"
    BY <1>5 DEF ClaimNext
  <2>3. CASE ClaimPayout(i) /\ new = [old EXCEPT !.pc = "claimed", !.cur = i,
                                                !.todo = @ \ {i}]
    <3>1. new.pc = "claimed" /\ new.cur = i
      BY <1>3, <2>3 DEF SettlerState
    <3> QED
      BY <2>2, <2>3, <3>1
  <2>4. CASE new = [old EXCEPT !.todo = @ \ {i}]
    BY <1>3, <2>4 DEF SettlerState
  <2> QED
    BY <2>1, <2>3, <2>4
<1>6. CASE InspectClaimed(s)
  <2>1. old.pc = "claimed"
    BY <1>6 DEF InspectClaimed
  <2>2. \/ new = [old EXCEPT !.pc = "failing"]
        \/ new = [old EXCEPT !.pc = "submit"]
        \/ new = [old EXCEPT !.pc = "next", !.cur = NoInvoice, !.tx = NoTx]
    BY <1>1, <1>6 DEF InspectClaimed
  <2> QED
    BY <1>3, <2>1, <2>2 DEF SettlerState
<1>7. CASE Submit(s)
  <2>1. old.pc = "submit"
    BY <1>7 DEF Submit
  <2>2. CASE new = [old EXCEPT !.pc = "failing"]
    BY <1>3, <2>1, <2>2 DEF SettlerState
  <2>3. CASE \E t \in Tx : /\ new = [old EXCEPT !.pc = "record", !.tx = t]
                           /\ txFor' = [txFor EXCEPT ![t] = old.cur]
    BY <1>1, <1>3, <2>1, <2>3 DEF SettlerState
  <2> QED
    BY <1>1, <1>7, <2>2, <2>3 DEF Submit
<1>8. CASE RecordSubmission(s)
  <2>1. old.pc = "record"
    BY <1>8 DEF RecordSubmission
  <2>2. \/ new = [old EXCEPT !.pc = "failing"]
        \/ new = [old EXCEPT !.pc = "next", !.cur = NoInvoice, !.tx = NoTx]
    BY <1>1, <1>8 DEF RecordSubmission
  <2> QED
    BY <1>3, <2>1, <2>2 DEF SettlerState
<1>9. CASE RecordFailure(s)
  BY <1>1, <1>3, <1>9 DEF RecordFailure, SettlerState
<1>10. CASE SettlerDies(s)
  BY <1>1, <1>10 DEF SettlerDies, IdleSettler
<1>11. CASE UNCHANGED settler
  BY <1>11
<1> QED
  BY OwnState, <1>2, <1>4, <1>5, <1>6, <1>7, <1>8, <1>9, <1>10, <1>11 DEF SettlerStep

\* How one reconcile run moves.
LEMMA ConfirmerMoves ==
  ASSUME TypeOK, [SettlementNext]_vars, NEW c \in Confirmer
  PROVE  LET old == confirmer[c]  new == confirmer'[c] IN
         \/ new = old
         \/ new.pc = "next" /\ new.todo \subseteq old.todo \cup SubmittedPayouts
         \/ /\ new.todo \subseteq old.todo /\ new.row \in old.todo
            /\ new.pc = Verdict(new.row[2])
<1> DEFINE old == confirmer[c]
           new == confirmer'[c]
<1> USE DEF ConfirmerGoes
<1>1. confirmer \in [Confirmer -> ConfirmerState]
  BY DEF TypeOK, SettlementTypeOK
<1>2. ASSUME NEW d \in Confirmer \ {c}, ConfirmerStep(d) \/ ConfirmerDies(d)
      PROVE  new = old
  BY <1>1, <1>2 DEF ConfirmerStep, StartConfirm, CheckTx, RecordVerdict, ConfirmerDies
<1>3. old \in ConfirmerState
  BY <1>1
<1>4. CASE StartConfirm(c)
  BY <1>1, <1>4 DEF StartConfirm, IdleConfirmer
<1>5. CASE CheckTx(c)
  BY <1>1, <1>5 DEF CheckTx
<1>6. CASE RecordVerdict(c)
  BY <1>1, <1>3, <1>6 DEF RecordVerdict, ConfirmerState
<1>7. CASE ConfirmerDies(c)
  BY <1>1, <1>7 DEF ConfirmerDies, IdleConfirmer
<1>8. CASE UNCHANGED confirmer
  BY <1>8
<1> QED
  BY OwnState, <1>2, <1>4, <1>5, <1>6, <1>7, <1>8 DEF ConfirmerStep

\* A claim is never given back.
LEMMA ClaimsStay ==
  ASSUME TypeOK, [SettlementNext]_vars, NEW i \in Invoice, payClaimed[i]
  PROVE  payClaimed'[i]
<1>1. payClaimed \in [Invoice -> BOOLEAN]
  BY DEF TypeOK, SettlementTypeOK
<1>2. CASE UNCHANGED payClaimed
  BY <1>2
<1>3. ASSUME NEW j \in Invoice, ClaimPayout(j)
      PROVE  payClaimed'[i]
  BY <1>1, <1>3 DEF ClaimPayout
<1> QED
  BY SharedState, <1>2, <1>3

\* How the network's view of the transactions moves.
LEMMA NetworkMoves ==
  ASSUME TypeOK, [SettlementNext]_vars
  PROVE  \/ UNCHANGED networkVars
         \/ \E s \in Settler, t \in Tx :
              /\ settler[s].pc = "submit" /\ txState[t] = "unused"
              /\ settler'[s].pc \in {"record", "failing"}
              /\ txFor' = [txFor EXCEPT ![t] = settler[s].cur]
              /\ txState' = [txState EXCEPT ![t] = "inflight"]
         \/ \E t \in Tx :
              /\ txState[t] = "inflight"
              /\ UNCHANGED txFor
              /\ \E verdict \in {"success", "failed", "expired"} :
                   txState' = [txState EXCEPT ![t] = verdict]
<1>1. ASSUME NEW s \in Settler, Submit(s)
      PROVE  \/ UNCHANGED networkVars
             \/ \E t \in Tx :
                  /\ settler[s].pc = "submit" /\ txState[t] = "unused"
                  /\ settler'[s].pc \in {"record", "failing"}
                  /\ txFor' = [txFor EXCEPT ![t] = settler[s].cur]
                  /\ txState' = [txState EXCEPT ![t] = "inflight"]
  <2>1. settler \in [Settler -> SettlerState] /\ settler[s] \in SettlerState
    BY DEF TypeOK, SettlementTypeOK
  <2>2. ASSUME NEW t \in Tx,
               \/ settler' = [settler EXCEPT ![s] = [@ EXCEPT !.pc = "record", !.tx = t]]
               \/ settler' = [settler EXCEPT ![s] = [@ EXCEPT !.pc = "failing"]]
        PROVE  settler'[s].pc \in {"record", "failing"}
    BY <2>1, <2>2 DEF SettlerState
  <2> QED
    BY <1>1, <2>2 DEF Submit, SettlerGoes
<1>2. ASSUME NEW t \in Tx, NetworkDecides(t)
      PROVE  /\ txState[t] = "inflight"
             /\ UNCHANGED txFor
             /\ \E verdict \in {"success", "failed", "expired"} :
                  txState' = [txState EXCEPT ![t] = verdict]
  BY <1>2 DEF NetworkDecides
<1> QED
  BY SharedState, <1>1, <1>2

-----------------------------------------------------------------------------
(* The conjuncts of the inductive invariant, one by one.                   *)

\* Two runs cannot come to hold the same payout: the later claim finds it taken.
LEMMA ClaimExclusiveStep ==
  ASSUME TypeOK, WorkIsClaimed, ClaimExclusive, [SettlementNext]_vars
  PROVE  ClaimExclusive'
<1> SUFFICES ASSUME NEW r \in Settler, NEW s \in Settler, r # s,
                    settler'[r].cur = settler'[s].cur, settler'[r].cur # NoInvoice
             PROVE  FALSE
  BY DEF ClaimExclusive
<1>1. ASSUME NEW q \in Settler, settler'[q].cur # NoInvoice
      PROVE  \/ settler'[q].cur = settler[q].cur
             \/ /\ settler'[q].cur \in Invoice /\ ~payClaimed[settler'[q].cur]
                /\ settler'[q] # settler[q]
  BY <1>1, SettlerMoves DEF ClaimPayout
<1>2. settler'[r] = settler[r] \/ settler'[s] = settler[s]
  BY OwnState, OnlyOwnRecord
<1>3. ASSUME NEW q \in Settler, settler[q].cur # NoInvoice
      PROVE  payClaimed[settler[q].cur]
  BY <1>3 DEF WorkIsClaimed
<1> QED
  BY <1>1, <1>2, <1>3 DEF ClaimExclusive

\* A row whose status moves is one somebody works on.
LEMMA OnlyClaimedMove ==
  ASSUME TypeOK, WorkIsClaimed, SettlerKnows, [SettlementNext]_vars,
         NEW i \in Invoice, payStatus'[i] # payStatus[i]
  PROVE  payClaimed[i]
<1>1. payStatus \in [Invoice -> PayoutStatus]
  BY DEF TypeOK, LedgerTypeOK
<1>2. ASSUME NEW s \in Settler, RecordSubmission(s) \/ RecordFailure(s)
      PROVE  payClaimed[i]
  <2>1. settler[s].cur = i
    BY <1>1, <1>2 DEF RecordSubmission, RecordFailure, MarkPayoutSubmitted, MarkPayoutFailed
  <2> QED
    BY <2>1, SettlementAssumption DEF WorkIsClaimed
<1>3. ASSUME NEW c \in Confirmer, RecordVerdict(c)
      PROVE  payClaimed[i]
  <2>1. confirmer[c].row[1] = i /\ confirmer[c].pc # "next"
    BY <1>1, <1>3 DEF RecordVerdict, MarkPayoutSettled, MarkPayoutFailed
  <2> QED
    BY <2>1 DEF WorkIsClaimed
<1>4. ASSUME NEW k \in Retrier, NEW row \in retrier[k], RetryRow(k, row)
      PROVE  payClaimed[i]
  <2>1. row[1] = i
    BY <1>1, <1>4 DEF RetryRow, RequeueFailed, DeadLetter
  <2> QED
    BY <2>1 DEF WorkIsClaimed
<1>5. ASSUME NEW o \in Operator, ReplayPayout(o)
      PROVE  payClaimed[i]
  <2>1. operator[o] = i
    BY <1>1, <1>5 DEF ReplayPayout
  <2> QED
    BY <2>1, SettlementAssumption DEF WorkIsClaimed
<1> QED
  BY SharedState, <1>2, <1>3, <1>4, <1>5

\* Whatever a list, a run or the network names is claimed, and stays so.
LEMMA WorkIsClaimedStep ==
  ASSUME TypeOK, TypeOK', WorkIsClaimed, SettlerKnows, [SettlementNext]_vars
  PROVE  WorkIsClaimed'
<1> USE SettlementAssumption
<1>1. ASSUME NEW i \in Invoice, payStatus'[i] \notin {"none", "queued"}
      PROVE  payClaimed'[i]
  BY <1>1, OnlyClaimedMove, ClaimsStay DEF WorkIsClaimed
<1>2. ASSUME NEW s \in Settler, settler'[s].cur # NoInvoice
      PROVE  payClaimed'[settler'[s].cur]
  <2>1. settler'[s].cur \in Invoice
    BY <1>2 DEF TypeOK, SettlementTypeOK, SettlerState
  <2>2. CASE settler'[s].cur = settler[s].cur
    BY <1>2, <2>1, <2>2, ClaimsStay DEF WorkIsClaimed
  <2>3. CASE ClaimPayout(settler'[s].cur)
    BY <2>1, <2>3 DEF ClaimPayout, TypeOK, SettlementTypeOK
  <2> QED
    BY <1>2, <2>2, <2>3, SettlerMoves
<1>3. ASSUME NEW t \in Tx, txFor'[t] # NoInvoice
      PROVE  payClaimed'[txFor'[t]]
  <2>1. txFor'[t] \in Invoice
    BY <1>3 DEF TypeOK, SettlementTypeOK
  <2>2. txFor'[t] = txFor[t] \/ \E s \in Settler : txFor'[t] = settler[s].cur
    BY NetworkMoves DEF TypeOK, SettlementTypeOK
  <2> QED
    BY <1>3, <2>1, <2>2, ClaimsStay DEF WorkIsClaimed
<1>4. ASSUME NEW c \in Confirmer
      PROVE  /\ \A r \in confirmer'[c].todo : payClaimed'[r[1]]
             /\ confirmer'[c].pc # "next" =>
                  confirmer'[c].row \in Row /\ payClaimed'[confirmer'[c].row[1]]
  <2>1. confirmer[c] \in ConfirmerState
    BY DEF TypeOK, SettlementTypeOK
  <2>2. \A r \in confirmer[c].todo : r \in Row /\ payClaimed'[r[1]]
    BY <2>1, ClaimsStay DEF WorkIsClaimed, ConfirmerState, Row
  <2>3. \A r \in SubmittedPayouts : r \in Row /\ payClaimed'[r[1]]
    BY ClaimsStay DEF WorkIsClaimed, SubmittedPayouts, Row
  <2>4. confirmer[c].pc # "next" =>
          confirmer[c].row \in Row /\ payClaimed'[confirmer[c].row[1]]
    BY ClaimsStay DEF WorkIsClaimed, Row
  <2> QED
    BY <2>2, <2>3, <2>4, ConfirmerMoves
<1>5. ASSUME NEW k \in Retrier, NEW row \in retrier'[k]
      PROVE  payClaimed'[row[1]]
  <2>1. row[1] \in Invoice
    BY DEF TypeOK, SettlementTypeOK
  <2>2. row \in retrier[k] \/ payStatus[row[1]] = "failed"
    <3>1. retrier \in [Retrier -> SUBSET (Invoice \X Nat)]
      BY DEF TypeOK, SettlementTypeOK
    <3>2. ASSUME NEW j \in Retrier, RetrierStep(j) \/ RetrierDies(j)
          PROVE  row \in retrier[k] \/ payStatus[row[1]] = "failed"
      BY <3>1, <3>2 DEF RetrierStep, StartRetry, RetryRow, SkipRow, PassedRow, RetrierDies
    <3> QED
      BY <3>2, OwnState
  <2> QED
    BY <2>1, <2>2, ClaimsStay DEF WorkIsClaimed
<1>6. ASSUME NEW o \in Operator, operator'[o] # NoInvoice
      PROVE  payClaimed'[operator'[o]]
  <2>1. operator'[o] \in Invoice
    BY <1>6 DEF TypeOK, SettlementTypeOK
  <2>2. operator'[o] = operator[o] \/
          payStatus[operator'[o]] \in {"dead_lettered", "failed"}
    <3>1. operator \in [Operator -> Invoice \cup {NoInvoice}]
      BY DEF TypeOK, SettlementTypeOK
    <3> QED
      BY <1>6, <3>1, OwnState DEF ReplayPayout, CheckReplayable
  <2> QED
    BY <1>6, <2>1, <2>2, ClaimsStay DEF WorkIsClaimed
<1> QED
  BY <1>1, <1>2, <1>3, <1>4, <1>5, <1>6 DEF WorkIsClaimed


\* The second transaction of a payout would be built by a run past its claim,
\* which knows that there is none yet.
LEMMA OneTxPerPayoutStep ==
  ASSUME TypeOK, SettlerKnows, OneTxPerPayout, [SettlementNext]_vars
  PROVE  OneTxPerPayout'
<1>1. /\ txFor \in [Tx -> Invoice \cup {NoInvoice}]
      /\ txState \in [Tx -> TxState]
  BY DEF TypeOK, SettlementTypeOK
<1>2. CASE UNCHANGED networkVars
  BY <1>2 DEF OneTxPerPayout
<1>3. ASSUME NEW s \in Settler, NEW t \in Tx,
             settler[s].pc = "submit", txState[t] = "unused",
             txFor' = [txFor EXCEPT ![t] = settler[s].cur],
             txState' = [txState EXCEPT ![t] = "inflight"]
      PROVE  OneTxPerPayout'
  <2>1. settler[s].cur # NoInvoice /\ \A u \in Tx : txFor[u] # settler[s].cur
    BY <1>3 DEF SettlerKnows, TxsOf
  <2> QED
    BY <1>1, <1>3, <2>1 DEF OneTxPerPayout
<1>4. ASSUME NEW t \in Tx, txState[t] = "inflight", UNCHANGED txFor,
             NEW verdict \in {"success", "failed", "expired"},
             txState' = [txState EXCEPT ![t] = verdict]
      PROVE  OneTxPerPayout'
  BY <1>1, <1>4 DEF OneTxPerPayout
<1> QED
  BY <1>2, <1>3, <1>4, NetworkMoves

\* A transaction, once built for a payout, stays its own, and a success stays one.
LEMMA TxsStay ==
  ASSUME TypeOK, OneTxPerPayout, [SettlementNext]_vars, NEW t \in Tx
  PROVE  /\ txFor[t] # NoInvoice => txFor'[t] = txFor[t]
         /\ txState[t] = "success" => txState'[t] = "success"
<1>1. /\ txFor \in [Tx -> Invoice \cup {NoInvoice}]
      /\ txState \in [Tx -> TxState]
  BY DEF TypeOK, SettlementTypeOK
<1> QED
  BY <1>1, NetworkMoves DEF OneTxPerPayout

\* Nobody but the run that holds a payout builds a transaction for it.
LEMMA SettlerKnowsStep ==
  ASSUME TypeOK, TypeOK', WorkIsClaimed, ClaimExclusive, SettlerKnows, OneTxPerPayout,
         [SettlementNext]_vars
  PROVE  SettlerKnows'
<1> USE SettlementAssumption
<1> SUFFICES ASSUME NEW s \in Settler
             PROVE  /\ settler'[s].pc = "next" <=> settler'[s].cur = NoInvoice
                    /\ settler'[s].pc \in {"claimed", "submit"} =>
                         \A t \in Tx : txFor'[t] # settler'[s].cur
                    /\ settler'[s].pc = "record" =>
                         /\ settler'[s].tx \in Tx
                         /\ txFor'[settler'[s].tx] = settler'[s].cur
  BY DEF SettlerKnows, TxsOf
<1>1. /\ settler[s].pc = "next" <=> settler[s].cur = NoInvoice
      /\ settler[s].pc \in {"claimed", "submit"} => \A t \in Tx : txFor[t] # settler[s].cur
      /\ settler[s].pc = "record" =>
           settler[s].tx \in Tx /\ txFor[settler[s].tx] = settler[s].cur
  BY DEF SettlerKnows, TxsOf
<1>2. settler'[s].pc = "next" <=> settler'[s].cur = NoInvoice
  BY <1>1, SettlerMoves
<1>3. ASSUME settler'[s].pc \in {"claimed", "submit"}, NEW t \in Tx,
             txFor'[t] = settler'[s].cur
      PROVE  FALSE
  <2>1. CASE settler'[s].cur = settler[s].cur /\ settler[s].pc \in {"claimed", "submit"}
    <3>1. txFor[t] # settler[s].cur
      BY <1>1, <2>1
    <3>2. PICK r \in Settler : /\ settler[r].pc = "submit"
                               /\ settler'[r].pc \in {"record", "failing"}
                               /\ txFor'[t] = settler[r].cur
      BY <1>3, <2>1, <3>1, NetworkMoves DEF TypeOK, SettlementTypeOK
    <3>3. r = s
      BY <1>1, <1>3, <2>1, <3>2 DEF ClaimExclusive
    <3> QED
      BY <1>3, <3>2, <3>3
  <2>2. CASE settler'[s].cur \in Invoice /\ ClaimPayout(settler'[s].cur)
    <3>1. ~payClaimed[settler'[s].cur]
      BY <2>2 DEF ClaimPayout
    <3>2. txFor[t] # settler'[s].cur
      BY <2>2, <3>1 DEF WorkIsClaimed
    <3>3. \A r \in Settler : settler[r].cur # settler'[s].cur
      BY <2>2, <3>1 DEF WorkIsClaimed
    <3> QED
      BY <1>3, <3>2, <3>3, NetworkMoves DEF TypeOK, SettlementTypeOK
  <2> QED
    BY <1>1, <1>2, <1>3, <2>1, <2>2, SettlerMoves
<1>4. ASSUME settler'[s].pc = "record"
      PROVE  settler'[s].tx \in Tx /\ txFor'[settler'[s].tx] = settler'[s].cur
  BY <1>1, <1>4, SettlerMoves, TxsStay
<1> QED
  BY <1>2, <1>3, <1>4


\* What may become of the hash and of the invoice of a payout.
LEMMA PayoutBooksMove ==
  ASSUME TypeOK, [SettlementNext]_vars, NEW i \in Invoice
  PROVE  \/ payTx'[i] = payTx[i] /\ invStatus'[i] = invStatus[i]
         \/ \E s \in Settler :
              /\ settler[s].pc = "record" /\ settler[s].cur = i
              /\ payTx'[i] = settler[s].tx /\ invStatus'[i] = invStatus[i]
         \/ \E c \in Confirmer :
              /\ confirmer[c].pc = "confirmed" /\ confirmer[c].row[1] = i
              /\ payTx'[i] = confirmer[c].row[2]
<1>1. payTx \in [Invoice -> Tx \cup {NoTx}] /\ invStatus \in [Invoice -> InvoiceStatus]
  BY DEF TypeOK, LedgerTypeOK, SettlementTypeOK
<1>2. ASSUME NEW s \in Settler, RecordSubmission(s)
      PROVE  \/ payTx'[i] = payTx[i] /\ invStatus'[i] = invStatus[i]
             \/ /\ settler[s].pc = "record" /\ settler[s].cur = i
                /\ payTx'[i] = settler[s].tx /\ invStatus'[i] = invStatus[i]
  BY <1>1, <1>2 DEF RecordSubmission, MarkPayoutSubmitted
<1>3. ASSUME NEW c \in Confirmer, RecordVerdict(c)
      PROVE  \/ payTx'[i] = payTx[i] /\ invStatus'[i] = invStatus[i]
             \/ /\ confirmer[c].pc = "confirmed" /\ confirmer[c].row[1] = i
                /\ payTx'[i] = confirmer[c].row[2]
  BY <1>1, <1>3 DEF RecordVerdict, MarkPayoutSettled, MarkPayoutFailed
<1> QED
  BY SharedState, <1>2, <1>3

\* Hashes travel with the payout they were built for.
LEMMA HashesAreOwnStep ==
  ASSUME TypeOK, WorkIsClaimed, SettlerKnows, OneTxPerPayout, HashesAreOwn,
         [SettlementNext]_vars
  PROVE  HashesAreOwn'
<1> USE SettlementAssumption
<1>1. payTx \in [Invoice -> Tx \cup {NoTx}] /\ confirmer \in [Confirmer -> ConfirmerState]
  BY DEF TypeOK, SettlementTypeOK
<1>2. ASSUME NEW r \in Row, txFor[r[2]] = r[1]
      PROVE  txFor'[r[2]] = r[1]
  BY <1>2, TxsStay DEF Row
<1>3. ASSUME NEW i \in Invoice, payTx'[i] # NoTx
      PROVE  txFor'[payTx'[i]] = i
  <2>1. CASE payTx'[i] = payTx[i]
    BY <1>1, <1>3, <2>1, TxsStay DEF HashesAreOwn
  <2>2. ASSUME NEW s \in Settler, settler[s].pc = "record", settler[s].cur = i,
               payTx'[i] = settler[s].tx
        PROVE  txFor'[payTx'[i]] = i
    BY <2>2, TxsStay DEF SettlerKnows
  <2>3. ASSUME NEW c \in Confirmer, confirmer[c].pc = "confirmed",
               confirmer[c].row[1] = i, payTx'[i] = confirmer[c].row[2]
        PROVE  txFor'[payTx'[i]] = i
    BY <1>2, <2>3 DEF HashesAreOwn, WorkIsClaimed
  <2> QED
    BY <2>1, <2>2, <2>3, PayoutBooksMove
<1>4. ASSUME NEW c \in Confirmer
      PROVE  /\ \A r \in confirmer'[c].todo : txFor'[r[2]] = r[1]
             /\ confirmer'[c].pc # "next" =>
                  txFor'[confirmer'[c].row[2]] = confirmer'[c].row[1]
             /\ confirmer'[c].pc = "confirmed" =>
                  txState'[confirmer'[c].row[2]] = "success"
  <2>1. confirmer[c].todo \subseteq Row
    BY <1>1 DEF ConfirmerState
  <2>2. \A r \in confirmer[c].todo : r \in Row /\ txFor'[r[2]] = r[1]
    BY <1>2, <2>1 DEF HashesAreOwn
  <2>3. ASSUME NEW r \in SubmittedPayouts
        PROVE  txFor'[r[2]] = r[1]
    <3>1. r \in Row /\ payTx[r[1]] = r[2] /\ r[1] \in Invoice /\ r[2] \in Tx
      BY DEF SubmittedPayouts, Row
    <3>2. txFor[r[2]] = r[1]
      BY <3>1 DEF HashesAreOwn
    <3> QED
      BY <1>2, <3>1, <3>2
  <2>4. CASE confirmer'[c] = confirmer[c]
    <3>1. confirmer[c].pc # "next" => txFor'[confirmer[c].row[2]] = confirmer[c].row[1]
      BY <1>2 DEF HashesAreOwn, WorkIsClaimed
    <3>2. confirmer[c].pc = "confirmed" => txState'[confirmer[c].row[2]] = "success"
      BY TxsStay DEF HashesAreOwn, WorkIsClaimed, Row
    <3> QED
      BY <2>2, <2>4, <3>1, <3>2
  <2>5. CASE /\ confirmer'[c].pc = "next"
             /\ confirmer'[c].todo \subseteq confirmer[c].todo \cup SubmittedPayouts
    BY <2>2, <2>3, <2>5
  <2>6. CASE /\ confirmer'[c].todo \subseteq confirmer[c].todo
             /\ confirmer'[c].row \in confirmer[c].todo
             /\ confirmer'[c].pc = Verdict(confirmer'[c].row[2])
    <3>1. confirmer'[c].pc = "confirmed" => txState[confirmer'[c].row[2]] = "success"
      BY <2>6 DEF Verdict
    <3>2. confirmer'[c].row[2] \in Tx
      BY <2>1, <2>6 DEF Row
    <3> QED
      BY <2>2, <2>6, <3>1, <3>2, TxsStay
  <2> QED
    BY <2>4, <2>5, <2>6, ConfirmerMoves
<1> QED
  BY <1>3, <1>4 DEF HashesAreOwn

\* The books call an invoice settled with a hash that succeeded, and any hash
\* written over it later is the same one.
LEMMA SettledIsTransferredStep ==
  ASSUME TypeOK, WorkIsClaimed, SettlerKnows, OneTxPerPayout, HashesAreOwn,
         SettledIsTransferred, [SettlementNext]_vars
  PROVE  SettledIsTransferred'
<1> USE SettlementAssumption
<1> SUFFICES ASSUME NEW i \in Invoice, invStatus'[i] = "settled"
             PROVE  \E t \in Tx : /\ payTx'[i] = t /\ txFor[t] = i
                                  /\ txState[t] = "success"
  BY TxsStay DEF SettledIsTransferred, TxsOf
<1>1. invStatus[i] = "settled" =>
        payTx[i] \in Tx /\ txFor[payTx[i]] = i /\ txState[payTx[i]] = "success"
  BY DEF SettledIsTransferred, TxsOf
<1>2. CASE payTx'[i] = payTx[i] /\ invStatus'[i] = invStatus[i]
  BY <1>1, <1>2
<1>3. ASSUME NEW s \in Settler, settler[s].pc = "record", settler[s].cur = i,
             payTx'[i] = settler[s].tx, invStatus'[i] = invStatus[i]
      PROVE  payTx'[i] = payTx[i]
  <2>1. settler[s].tx \in Tx /\ txFor[settler[s].tx] = i
    BY <1>3 DEF SettlerKnows
  <2> QED
    BY <1>1, <1>3, <2>1 DEF OneTxPerPayout
<1>4. ASSUME NEW c \in Confirmer, confirmer[c].pc = "confirmed",
             confirmer[c].row[1] = i, payTx'[i] = confirmer[c].row[2]
      PROVE  \E t \in Tx : payTx'[i] = t /\ txFor[t] = i /\ txState[t] = "success"
  BY <1>4 DEF HashesAreOwn, WorkIsClaimed, Row
<1> QED
  BY <1>1, <1>2, <1>3, <1>4, PayoutBooksMove

-----------------------------------------------------------------------------
(* The theorems.                                                           *)

\* The invariant holds before anything ran.
LEMMA InitInv == Init => SettlementInv
<1> SUFFICES ASSUME Init PROVE SettlementInv
  OBVIOUS
<1> USE SettlementAssumption DEF Init, SettlementStart, IdleSettler, IdleConfirmer, NoRow
<1>1. TypeOK
  BY DEF TypeOK, LedgerTypeOK, SettlementTypeOK, InvoiceStatus, PayoutStatus,
         TxState, SettlerState, ConfirmerState
<1>2. WorkIsClaimed
  BY DEF WorkIsClaimed
<1>3. ClaimExclusive
  BY DEF ClaimExclusive
<1>4. SettlerKnows
  BY DEF SettlerKnows
<1>5. OneTxPerPayout
  BY DEF OneTxPerPayout
<1>6. HashesAreOwn
  BY DEF HashesAreOwn
<1>7. SettledIsTransferred
  BY DEF SettledIsTransferred
<1> QED
  BY <1>1, <1>2, <1>3, <1>4, <1>5, <1>6, <1>7 DEF SettlementInv

\* Every step keeps it.
LEMMA NextInv == SettlementInv /\ [SettlementNext]_vars => SettlementInv'
BY TypeStep, WorkIsClaimedStep, ClaimExclusiveStep, SettlerKnowsStep,
   OneTxPerPayoutStep, HashesAreOwnStep, SettledIsTransferredStep
   DEF SettlementInv

\* The strengthened invariant of the settlement processes.
THEOREM SettlementInvariant == Spec => []SettlementInv
BY InitInv, NextInv, PTL DEF Spec

\* Type correctness of the payout tables and of every process that works on them.
THEOREM TypeCorrect == Spec => []TypeOK
<1>1. SettlementInv => TypeOK
  BY DEF SettlementInv
<1> QED
  BY <1>1, SettlementInvariant, PTL

\* Claiming is exclusive: claimPayout keeps overlapping settle runs off each
\* other's payouts, for any number of runs.
THEOREM ClaimIsExclusive == Spec => []ClaimExclusive
<1>1. SettlementInv => ClaimExclusive
  BY DEF SettlementInv
<1> QED
  BY <1>1, SettlementInvariant, PTL

\* No merchant is paid twice: whatever fails, is retried or replayed, at most one
\* transaction of a payout is in the network or has succeeded.
THEOREM NoDoubleTransfer == Spec => []AtMostOneTransfer
<1>1. SettlementInv => AtMostOneTransfer
  BY SettlementAssumption
     DEF SettlementInv, OneTxPerPayout, AtMostOneTransfer, LiveTxsOf, TxsOf
<1> QED
  BY <1>1, SettlementInvariant, PTL

\* A settled invoice names a transaction the network executed for its payout.
THEOREM SettledMeansTransferred == Spec => []SettledIsTransferred
<1>1. SettlementInv => SettledIsTransferred
  BY DEF SettlementInv
<1> QED
  BY <1>1, SettlementInvariant, PTL

-----------------------------------------------------------------------------
(* Where each payout is on its way, if no write is committed and reported   *)
(* lost.                                                                   *)

\* Everything that can become of one payout in one step.
LEMMA RowMoves ==
  ASSUME TypeOK, [SettlementNext]_vars, "write_unacked" \notin Faults, NEW i \in Invoice
  PROVE  \/ /\ payStatus'[i] = payStatus[i] /\ payTx'[i] = payTx[i]
            /\ invStatus'[i] = invStatus[i] /\ settledEvents'[i] = settledEvents[i]
         \/ \E s \in Settler :
              /\ settler[s].cur = i /\ settler'[s].cur = NoInvoice
              /\ invStatus'[i] = invStatus[i] /\ settledEvents'[i] = settledEvents[i]
              /\ \/ /\ settler[s].pc = "record" /\ payStatus'[i] = "submitted"
                    /\ payTx'[i] = settler[s].tx
                 \/ payStatus'[i] = "failed" /\ payTx'[i] = payTx[i]
         \/ \E c \in Confirmer :
              /\ confirmer[c].pc = "confirmed" /\ confirmer[c].row[1] = i
              /\ payStatus'[i] = "settled" /\ payTx'[i] = confirmer[c].row[2]
              /\ invStatus'[i] = "settled" /\ settledEvents'[i] = settledEvents[i] + 1
              /\ confirmer'[c].pc = "next" /\ confirmer'[c].todo = confirmer[c].todo
         \/ \E c \in Confirmer :
              /\ confirmer[c].pc = "failed" /\ confirmer[c].row[1] = i
              /\ payStatus'[i] = "failed" /\ payTx'[i] = payTx[i]
              /\ invStatus'[i] = invStatus[i] /\ settledEvents'[i] = settledEvents[i]
         \/ /\ Retried(i)
            /\ payStatus'[i] \in {"queued", "dead_lettered"} /\ payTx'[i] = payTx[i]
            /\ invStatus'[i] = invStatus[i] /\ settledEvents'[i] = settledEvents[i]
<1>1. /\ invStatus \in [Invoice -> InvoiceStatus] /\ payStatus \in [Invoice -> PayoutStatus]
      /\ payTx \in [Invoice -> Tx \cup {NoTx}] /\ settledEvents \in [Invoice -> Nat]
      /\ settler \in [Settler -> SettlerState]
  BY DEF TypeOK, LedgerTypeOK, SettlementTypeOK
<1> DEFINE Rests == /\ payStatus'[i] = payStatus[i] /\ payTx'[i] = payTx[i]
                    /\ invStatus'[i] = invStatus[i] /\ settledEvents'[i] = settledEvents[i]
<1>2. ASSUME NEW s \in Settler, RecordSubmission(s) \/ RecordFailure(s)
      PROVE  \/ Rests
             \/ /\ settler[s].cur = i /\ settler'[s].cur = NoInvoice
                /\ invStatus'[i] = invStatus[i] /\ settledEvents'[i] = settledEvents[i]
                /\ \/ /\ settler[s].pc = "record" /\ payStatus'[i] = "submitted"
                      /\ payTx'[i] = settler[s].tx
                   \/ payStatus'[i] = "failed" /\ payTx'[i] = payTx[i]
  <2>1. SettlerContinues(s) => settler'[s].cur = NoInvoice
    <3>1. settler[s] \in SettlerState
      BY <1>1
    <3> QED
      BY <1>1, <3>1 DEF SettlerContinues, SettlerGoes, SettlerState
  <2>2. CASE MarkPayoutSubmitted(settler[s].cur, settler[s].tx) /\ SettlerContinues(s)
             /\ settler[s].pc = "record"
    BY <1>1, <2>1, <2>2 DEF MarkPayoutSubmitted
  <2>3. CASE MarkPayoutFailed(settler[s].cur) /\ SettlerContinues(s)
    BY <1>1, <2>1, <2>3 DEF MarkPayoutFailed
  <2>4. CASE UNCHANGED <<ledgerVars, payoutVars>>
    BY <2>4
  <2> QED
    BY <1>2, <2>2, <2>3, <2>4 DEF RecordSubmission, RecordFailure
<1>3. ASSUME NEW c \in Confirmer, RecordVerdict(c)
      PROVE  \/ Rests
             \/ /\ confirmer[c].pc = "confirmed" /\ confirmer[c].row[1] = i
                /\ payStatus'[i] = "settled" /\ payTx'[i] = confirmer[c].row[2]
                /\ invStatus'[i] = "settled" /\ settledEvents'[i] = settledEvents[i] + 1
                /\ confirmer'[c].pc = "next" /\ confirmer'[c].todo = confirmer[c].todo
             \/ /\ confirmer[c].pc = "failed" /\ confirmer[c].row[1] = i
                /\ payStatus'[i] = "failed" /\ payTx'[i] = payTx[i]
                /\ invStatus'[i] = invStatus[i] /\ settledEvents'[i] = settledEvents[i]
  <2>1. /\ confirmer'[c].pc = "next" /\ confirmer'[c].todo = confirmer[c].todo
    <3>1. confirmer \in [Confirmer -> ConfirmerState] /\ confirmer[c] \in ConfirmerState
      BY DEF TypeOK, SettlementTypeOK
    <3> QED
      BY <1>3, <3>1 DEF RecordVerdict, ConfirmerGoes, ConfirmerState
  <2> QED
    BY <1>1, <1>3, <2>1 DEF RecordVerdict, MarkPayoutSettled, MarkPayoutFailed
<1>4. ASSUME NEW k \in Retrier, NEW row \in retrier[k], RetryRow(k, row)
      PROVE  \/ Rests
             \/ /\ Retried(i)
                /\ payStatus'[i] \in {"queued", "dead_lettered"} /\ payTx'[i] = payTx[i]
                /\ invStatus'[i] = invStatus[i] /\ settledEvents'[i] = settledEvents[i]
  BY <1>1, <1>4 DEF RetryRow, RequeueFailed, DeadLetter, Retried
<1>5. ASSUME NEW o \in Operator, ReplayPayout(o)
      PROVE  \/ Rests
             \/ /\ Retried(i)
                /\ payStatus'[i] \in {"queued", "dead_lettered"} /\ payTx'[i] = payTx[i]
                /\ invStatus'[i] = invStatus[i] /\ settledEvents'[i] = settledEvents[i]
  BY <1>1, <1>5 DEF ReplayPayout, Retried
<1>6. CASE UNCHANGED <<ledgerVars, payTx, settledEvents>>
  BY <1>6
<1>7. ASSUME NEW s \in Settler,
             StartSettle(s) \/ ClaimNext(s) \/ InspectClaimed(s) \/ Submit(s) \/ SettlerDies(s)
      PROVE  UNCHANGED <<ledgerVars, payTx, settledEvents>>
  BY <1>7 DEF StartSettle, ClaimNext, InspectClaimed, Submit, SettlerDies
<1>8. ASSUME NEW c \in Confirmer, StartConfirm(c) \/ CheckTx(c) \/ ConfirmerDies(c)
      PROVE  UNCHANGED <<ledgerVars, payTx, settledEvents>>
  BY <1>8 DEF StartConfirm, CheckTx, ConfirmerDies
<1>9. ASSUME NEW k \in Retrier,
             StartRetry(k) \/ (\E row \in retrier[k] : SkipRow(k, row)) \/ RetrierDies(k)
      PROVE  UNCHANGED <<ledgerVars, payTx, settledEvents>>
  BY <1>9 DEF StartRetry, SkipRow, RetrierDies
<1>10. CASE \/ \E o \in Operator, j \in Invoice : CheckReplayable(o, j)
            \/ \E j \in Invoice : ClaimEndpoint(j)
            \/ \E t \in Tx : NetworkDecides(t)
            \/ UNCHANGED vars
  BY <1>10 DEF CheckReplayable, ClaimEndpoint, NetworkDecides, vars
<1> QED
  BY <1>2, <1>3, <1>4, <1>5, <1>6, <1>7, <1>8, <1>9, <1>10
     DEF SettlementNext, SettlerStep, ConfirmerStep, RetrierStep

\* Only failed and dead-lettered payouts come to be retried.
LEMMA RetriedMoves ==
  ASSUME TypeOK, [SettlementNext]_vars, NEW i \in Invoice, Retried(i)'
  PROVE  Retried(i) \/ payStatus[i] \in {"failed", "dead_lettered"}
<1>1. /\ retrier \in [Retrier -> SUBSET (Invoice \X Nat)]
      /\ operator \in [Operator -> Invoice \cup {NoInvoice}]
  BY DEF TypeOK, SettlementTypeOK
<1>2. ASSUME NEW k \in Retrier, NEW row \in retrier'[k], row[1] = i
      PROVE  row \in retrier[k] \/ payStatus[i] = "failed"
  <2>1. ASSUME NEW j \in Retrier, RetrierStep(j) \/ RetrierDies(j)
        PROVE  row \in retrier[k] \/ payStatus[i] = "failed"
    BY <1>1, <1>2, <2>1 DEF RetrierStep, StartRetry, RetryRow, SkipRow, PassedRow, RetrierDies
  <2> QED
    BY <2>1, OwnState
<1>3. ASSUME NEW o \in Operator, operator'[o] = i
      PROVE  operator[o] = i \/ payStatus[i] \in {"dead_lettered", "failed"}
  BY <1>1, <1>3, OwnState, SettlementAssumption DEF ReplayPayout, CheckReplayable
<1> QED
  BY <1>2, <1>3 DEF Retried

\* A failed transaction stays failed.
LEMMA FailuresStay ==
  ASSUME TypeOK, [SettlementNext]_vars, NEW t \in Tx, txState[t] = "failed"
  PROVE  txState'[t] = "failed"
<1>1. txState \in [Tx -> TxState]
  BY DEF TypeOK, SettlementTypeOK
<1> QED
  BY <1>1, NetworkMoves

\* Who acts on a payout that moves, and what the books say of it then.
LEMMA MoverKnows ==
  ASSUME BooksInv, NEW i \in Invoice
  PROVE  /\ \A s \in Settler : settler[s].cur = i =>
              payStatus[i] = "queued" /\ payTx[i] = NoTx /\ ~Retried(i)
         /\ \A c \in Confirmer : confirmer[c].pc # "next" /\ confirmer[c].row[1] = i =>
              /\ payTx[i] = confirmer[c].row[2] /\ payTx[i] \in Tx
              /\ confirmer[c].pc = "confirmed" =>
                   /\ txState[payTx[i]] = "success"
                   /\ payStatus[i] \in {"submitted", "settled"} /\ ~Retried(i)
              /\ confirmer[c].pc = "failed" => txState[payTx[i]] = "failed"
         /\ Retried(i) =>
              /\ payStatus[i] \notin {"submitted", "settled"}
              /\ payTx[i] # NoTx => txState[payTx[i]] = "failed"
<1> USE SettlementAssumption
<1>1. \A s \in Settler : settler[s].cur = i =>
        payStatus[i] = "queued" /\ payTx[i] = NoTx /\ ~Retried(i)
  BY DEF BooksInv, HeldIsFresh
<1>2. ASSUME NEW c \in Confirmer, confirmer[c].pc # "next", confirmer[c].row[1] = i
      PROVE  /\ payTx[i] = confirmer[c].row[2] /\ payTx[i] \in Tx
             /\ confirmer[c].pc = "confirmed" => txState[payTx[i]] = "success"
             /\ confirmer[c].pc = "failed" => txState[payTx[i]] = "failed"
  BY <1>2 DEF BooksInv, SettlementInv, WatchedIsRecorded, WorkIsClaimed, HashesAreOwn, Row
<1>3. \A c \in Confirmer : confirmer[c].pc = "confirmed" /\ confirmer[c].row[1] = i =>
        payStatus[i] \in {"submitted", "settled"} /\ ~Retried(i)
  BY <1>2 DEF BooksInv, StatusFollowsTx
<1>4. Retried(i) => /\ payStatus[i] \notin {"submitted", "settled"}
                    /\ payTx[i] # NoTx => txState[payTx[i]] = "failed"
  BY DEF BooksInv, StatusFollowsTx
<1> QED
  BY <1>1, <1>2, <1>3, <1>4

\* A hash on record is not replaced.
LEMMA RecordedStays ==
  ASSUME BooksInv, [SettlementNext]_vars, "write_unacked" \notin Faults,
         NEW i \in Invoice, payTx[i] # NoTx
  PROVE  payTx'[i] = payTx[i]
BY RowMoves, MoverKnows DEF BooksInv, SettlementInv

LEMMA HeldIsFreshStep ==
  ASSUME BooksInv, TypeOK', [SettlementNext]_vars, "write_unacked" \notin Faults
  PROVE  HeldIsFresh'
<1> USE SettlementAssumption
<1> SUFFICES ASSUME NEW s \in Settler, NEW i \in Invoice, settler'[s].cur = i
             PROVE  payStatus'[i] = "queued" /\ payTx'[i] = NoTx /\ ~Retried(i)'
  <2>1. \A r \in Settler : settler'[r].cur # NoInvoice => settler'[r].cur \in Invoice
    BY DEF TypeOK, SettlementTypeOK, SettlerState
  <2> QED
    BY <2>1 DEF HeldIsFresh, Retried
<1>1. TypeOK /\ WorkIsClaimed /\ ClaimExclusive /\ HashesAreOwn
  BY DEF BooksInv, SettlementInv
<1>2. payStatus[i] = "queued" /\ payTx[i] = NoTx /\ ~Retried(i)
  <2>1. CASE settler[s].cur = i
    BY <2>1, MoverKnows
  <2>2. CASE ClaimPayout(i)
    <3>1. payStatus[i] = "queued" /\ ~payClaimed[i]
      BY <2>2 DEF ClaimPayout
    <3>2. ~Retried(i)
      BY <1>1, <3>1 DEF WorkIsClaimed, Retried
    <3>3. payTx[i] = NoTx
      <4>1. payTx[i] # NoTx => payTx[i] \in Tx /\ txFor[payTx[i]] = i
        BY <1>1 DEF HashesAreOwn, TypeOK, SettlementTypeOK
      <4> QED
        BY <1>1, <3>1, <4>1 DEF WorkIsClaimed
    <3> QED
      BY <3>1, <3>2, <3>3
  <2> QED
    BY <1>1, <2>1, <2>2, SettlerMoves
<1>3. ~Retried(i)'
  BY <1>1, <1>2, RetriedMoves
<1>4. \A r \in Settler : settler[r].cur = i /\ settler'[r].cur = NoInvoice => FALSE
  <2>1. ASSUME NEW r \in Settler, settler[r].cur = i, settler'[r].cur = NoInvoice
        PROVE  FALSE
    <3>1. r # s
      BY <2>1
    <3>2. settler[s].cur = i \/ ~payClaimed[i]
      BY <1>1, SettlerMoves DEF ClaimPayout
    <3>3. payClaimed[i]
      BY <1>1, <2>1 DEF WorkIsClaimed
    <3> QED
      BY <1>1, <2>1, <3>1, <3>2, <3>3 DEF ClaimExclusive
  <2> QED
    BY <2>1
<1>5. payStatus'[i] = payStatus[i] /\ payTx'[i] = payTx[i]
  BY <1>1, <1>2, <1>4, RowMoves, MoverKnows
<1> QED
  BY <1>2, <1>3, <1>5

LEMMA WatchedIsRecordedStep ==
  ASSUME BooksInv, [SettlementNext]_vars, "write_unacked" \notin Faults
  PROVE  WatchedIsRecorded'
<1> SUFFICES ASSUME NEW c \in Confirmer
             PROVE  /\ \A r \in confirmer'[c].todo : payTx'[r[1]] = r[2]
                    /\ confirmer'[c].pc # "next" =>
                         payTx'[confirmer'[c].row[1]] = confirmer'[c].row[2]
                    /\ confirmer'[c].pc = "failed" =>
                         txState'[confirmer'[c].row[2]] = "failed"
  BY DEF WatchedIsRecorded
<1>1. TypeOK /\ WorkIsClaimed
  BY DEF BooksInv, SettlementInv
<1>2. confirmer[c] \in ConfirmerState
  BY <1>1 DEF TypeOK, SettlementTypeOK
<1>3. ASSUME NEW r \in Row, payTx[r[1]] = r[2]
      PROVE  payTx'[r[1]] = r[2]
  BY <1>3, RecordedStays, SettlementAssumption DEF Row
<1>4. \A r \in confirmer[c].todo : r \in Row /\ payTx'[r[1]] = r[2]
  BY <1>2, <1>3 DEF BooksInv, WatchedIsRecorded, ConfirmerState
<1>5. \A r \in SubmittedPayouts : payTx'[r[1]] = r[2]
  BY <1>3 DEF SubmittedPayouts
<1>6. CASE confirmer'[c] = confirmer[c]
  <2>1. confirmer[c].pc # "next" =>
          confirmer[c].row \in Row /\ payTx[confirmer[c].row[1]] = confirmer[c].row[2]
    BY <1>1 DEF BooksInv, WatchedIsRecorded, WorkIsClaimed
  <2>2. confirmer[c].pc = "failed" => txState'[confirmer[c].row[2]] = "failed"
    BY <1>1, <2>1, FailuresStay DEF BooksInv, WatchedIsRecorded, Row
  <2> QED
    BY <1>3, <1>4, <1>6, <2>1, <2>2
<1>7. CASE /\ confirmer'[c].pc = "next"
           /\ confirmer'[c].todo \subseteq confirmer[c].todo \cup SubmittedPayouts
  BY <1>4, <1>5, <1>7
<1>8. CASE /\ confirmer'[c].todo \subseteq confirmer[c].todo
           /\ confirmer'[c].row \in confirmer[c].todo
           /\ confirmer'[c].pc = Verdict(confirmer'[c].row[2])
  <2>1. confirmer'[c].row[2] \in Tx
    BY <1>4, <1>8 DEF Row
  <2>2. confirmer'[c].pc = "failed" => txState[confirmer'[c].row[2]] = "failed"
    BY <1>8 DEF Verdict
  <2> QED
    BY <1>1, <1>4, <1>8, <2>1, <2>2, FailuresStay
<1> QED
  BY <1>1, <1>6, <1>7, <1>8, ConfirmerMoves

LEMMA StatusFollowsTxStep ==
  ASSUME BooksInv, [SettlementNext]_vars, "write_unacked" \notin Faults
  PROVE  StatusFollowsTx'
<1> USE SettlementAssumption
<1> SUFFICES ASSUME NEW i \in Invoice
             PROVE  /\ payStatus'[i] \in {"submitted", "settled"} =>
                         payTx'[i] # NoTx /\ ~Retried(i)'
                    /\ payTx'[i] # NoTx /\ txState'[payTx'[i]] # "failed" =>
                         payStatus'[i] \in {"submitted", "settled"}
                    /\ payStatus'[i] = "settled" => txState'[payTx'[i]] = "success"
  BY DEF StatusFollowsTx, Retried
<1>1. TypeOK /\ SettlerKnows /\ OneTxPerPayout /\ payTx \in [Invoice -> Tx \cup {NoTx}]
  BY DEF BooksInv, SettlementInv, TypeOK, SettlementTypeOK
<1>2. /\ payStatus[i] \in {"submitted", "settled"} => payTx[i] # NoTx /\ ~Retried(i)
      /\ payTx[i] # NoTx /\ txState[payTx[i]] # "failed" =>
           payStatus[i] \in {"submitted", "settled"}
      /\ payStatus[i] = "settled" => txState[payTx[i]] = "success"
  BY DEF BooksInv, StatusFollowsTx
<1>3. payTx[i] # NoTx => /\ payTx[i] \in Tx
                         /\ txState[payTx[i]] = "success" => txState'[payTx[i]] = "success"
                         /\ txState[payTx[i]] = "failed" => txState'[payTx[i]] = "failed"
  BY <1>1, TxsStay, FailuresStay
<1>4. Retried(i)' => Retried(i) \/ payStatus[i] \in {"failed", "dead_lettered"}
  BY <1>1, RetriedMoves
<1>5. CASE payStatus'[i] = payStatus[i] /\ payTx'[i] = payTx[i]
  BY <1>2, <1>3, <1>4, <1>5
<1>6. ASSUME NEW s \in Settler, settler[s].cur = i, settler[s].pc = "record",
             payStatus'[i] = "submitted", payTx'[i] = settler[s].tx
      PROVE  payTx'[i] # NoTx /\ ~Retried(i)'
  BY <1>1, <1>4, <1>6, MoverKnows DEF SettlerKnows
<1>7. ASSUME NEW s \in Settler, settler[s].cur = i,
             payStatus'[i] = "failed", payTx'[i] = payTx[i]
      PROVE  payTx'[i] = NoTx
  BY <1>7, MoverKnows
<1>8. ASSUME NEW c \in Confirmer, confirmer[c].pc = "confirmed", confirmer[c].row[1] = i,
             payStatus'[i] = "settled", payTx'[i] = confirmer[c].row[2]
      PROVE  /\ payTx'[i] # NoTx /\ ~Retried(i)'
             /\ txState'[payTx'[i]] = "success"
  BY <1>3, <1>4, <1>8, MoverKnows
<1>9. ASSUME NEW c \in Confirmer, confirmer[c].pc = "failed", confirmer[c].row[1] = i,
             payStatus'[i] = "failed", payTx'[i] = payTx[i]
      PROVE  txState'[payTx'[i]] = "failed"
  BY <1>3, <1>9, MoverKnows
<1>10. ASSUME Retried(i), payStatus'[i] \in {"queued", "dead_lettered"},
              payTx'[i] = payTx[i], payTx'[i] # NoTx
       PROVE  txState'[payTx'[i]] = "failed"
  BY <1>3, <1>10, MoverKnows
<1> QED
  BY <1>1, <1>5, <1>6, <1>7, <1>8, <1>9, <1>10, RowMoves

\* Nothing moves a settled payout, or settles an invoice without its payout.
LEMMA SettledStays ==
  ASSUME BooksInv, [SettlementNext]_vars, "write_unacked" \notin Faults, NEW i \in Invoice
  PROVE  /\ payStatus[i] = "settled" => payStatus'[i] = "settled"
         /\ invStatus'[i] = invStatus[i] \/ invStatus'[i] = payStatus'[i]
         /\ invStatus[i] = "settled" => invStatus'[i] = "settled"
<1>1. payStatus[i] = "settled" => txState[payTx[i]] = "success" /\ payTx[i] # NoTx
  BY DEF BooksInv, StatusFollowsTx
<1> QED
  BY <1>1, RowMoves, MoverKnows DEF BooksInv, SettlementInv

LEMMA BooksStep ==
  ASSUME "write_unacked" \notin Faults
  PROVE  BooksInv /\ [SettlementNext]_vars => BooksInv'
<1> SUFFICES ASSUME BooksInv, [SettlementNext]_vars PROVE BooksInv'
  OBVIOUS
<1>1. SettlementInv' /\ TypeOK'
  BY NextInv DEF BooksInv, SettlementInv
<1>2. HeldIsFresh' /\ WatchedIsRecorded' /\ StatusFollowsTx'
  BY <1>1, HeldIsFreshStep, WatchedIsRecordedStep, StatusFollowsTxStep
<1>3. InvoiceFollowsPayout'
  <2>1. ASSUME NEW i \in Invoice
        PROVE  \/ invStatus'[i] = "paid"
               \/ invStatus'[i] = "settled" /\ payStatus'[i] = "settled"
    <3>1. \/ invStatus[i] = "paid"
          \/ invStatus[i] = "settled" /\ payStatus[i] = "settled"
      BY DEF BooksInv, InvoiceFollowsPayout
    <3>2. \/ invStatus'[i] = invStatus[i]
          \/ invStatus'[i] = "settled" /\ payStatus'[i] = "settled"
      BY RowMoves DEF BooksInv, SettlementInv
    <3> QED
      BY <3>1, <3>2, SettledStays
  <2> QED
    BY <2>1 DEF InvoiceFollowsPayout
<1> QED
  BY <1>1, <1>2, <1>3 DEF BooksInv

\* Without unacknowledged writes the status of a payout follows its transaction.
THEOREM BooksInvariant ==
  ASSUME "write_unacked" \notin Faults PROVE Spec => []BooksInv
<1>1. Init => BooksInv
  <2> SUFFICES ASSUME Init PROVE BooksInv
    OBVIOUS
  <2>1. HeldIsFresh /\ WatchedIsRecorded /\ StatusFollowsTx /\ InvoiceFollowsPayout
    BY DEF Init, SettlementStart, IdleSettler, IdleConfirmer, HeldIsFresh,
           WatchedIsRecorded, StatusFollowsTx, InvoiceFollowsPayout
  <2> QED
    BY <2>1, InitInv DEF BooksInv
<1>2. BooksInv /\ [SettlementNext]_vars => BooksInv'
  BY BooksStep
<1> QED
  BY <1>1, <1>2, PTL DEF Spec

\* Settled is final for a payout and its invoice, although no UPDATE that could
\* move them away looks at the status; only a write that was committed and
\* reported lost undoes it (settle_doubts.cfg).
THEOREM SettledForGood ==
  ASSUME "write_unacked" \notin Faults PROVE Spec => SettledIsFinal
<1> DEFINE Final == \A i \in Invoice :
              /\ payStatus[i] = "settled" => payStatus'[i] = "settled"
              /\ invStatus[i] = "settled" => invStatus'[i] = "settled"
<1>1. BooksInv /\ [SettlementNext]_vars => [Final]_vars
  BY SettledStays
<1> QED
  BY <1>1, BooksInvariant, PTL DEF Spec, SettledIsFinal

\* A submitted payout is given up, or called settled, only once the network has
\* decided its transaction that way.
THEOREM VerdictsAreTrue ==
  ASSUME "write_unacked" \notin Faults PROVE Spec => SubmittedWaitsForVerdict
<1> DEFINE Waits == \A i \in Invoice :
              payStatus[i] = "submitted" /\ payStatus'[i] # "submitted" =>
                txState[payTx[i]] =
                  (IF payStatus'[i] = "settled" THEN "success" ELSE "failed")
<1>1. ASSUME BooksInv, [SettlementNext]_vars PROVE [Waits]_vars
  BY <1>1, RowMoves, MoverKnows DEF BooksInv, SettlementInv
<1> QED
  BY <1>1, BooksInvariant, PTL DEF Spec, SubmittedWaitsForVerdict

-----------------------------------------------------------------------------
(* How often a settlement is recorded.                                     *)

\* The row a reconcile run takes up has left its list.
LEMMA RowLeavesList ==
  ASSUME TypeOK, [SettlementNext]_vars, NEW c \in Confirmer
  PROVE  \/ confirmer'[c] = confirmer[c]
         \/ confirmer'[c].pc = "next"
         \/ confirmer'[c].row \notin confirmer'[c].todo
<1> USE DEF ConfirmerGoes
<1>1. confirmer \in [Confirmer -> ConfirmerState] /\ confirmer[c] \in ConfirmerState
  BY DEF TypeOK, SettlementTypeOK
<1>2. ASSUME NEW d \in Confirmer \ {c}, ConfirmerStep(d) \/ ConfirmerDies(d)
      PROVE  confirmer'[c] = confirmer[c]
  BY <1>1, <1>2 DEF ConfirmerStep, StartConfirm, CheckTx, RecordVerdict, ConfirmerDies
<1>3. CASE StartConfirm(c)
  BY <1>1, <1>3 DEF StartConfirm, IdleConfirmer
<1>4. CASE CheckTx(c)
  BY <1>1, <1>4 DEF CheckTx
<1>5. CASE RecordVerdict(c)
  BY <1>1, <1>5 DEF RecordVerdict, ConfirmerState
<1>6. CASE ConfirmerDies(c)
  BY <1>1, <1>6 DEF ConfirmerDies, IdleConfirmer
<1> QED
  BY OwnState, <1>2, <1>3, <1>4, <1>5, <1>6 DEF ConfirmerStep

\* Only submitted payouts are listed anew.
LEMMA HoldersMove ==
  ASSUME TypeOK, [SettlementNext]_vars, NEW c \in Confirmer, NEW i \in Invoice,
         HoldsRow(c, i)'
  PROVE  HoldsRow(c, i) \/ payStatus[i] = "submitted"
<1>1. \A r \in SubmittedPayouts : payStatus[r[1]] = "submitted"
  BY DEF SubmittedPayouts
<1> QED
  BY <1>1, ConfirmerMoves DEF HoldsRow

LEMMA EventsStep ==
  ASSUME "write_unacked" \notin Faults, IsFiniteSet(Confirmer),
         BooksInv, EventsAreCounted, [SettlementNext]_vars
  PROVE  EventsAreCounted'
<1>1. TypeOK /\ TypeOK' /\ BooksInv'
  BY BooksStep DEF BooksInv, SettlementInv
<1>2. ASSUME NEW c \in Confirmer, confirmer'[c].pc # "next", NEW r \in confirmer'[c].todo
      PROVE  r[1] # confirmer'[c].row[1]
  <2>1. confirmer'[c].row \in Row /\ r \in Row
    BY <1>1, <1>2 DEF BooksInv, SettlementInv, WorkIsClaimed, TypeOK, SettlementTypeOK,
                      ConfirmerState
  <2>2. payTx'[r[1]] = r[2] /\ payTx'[confirmer'[c].row[1]] = confirmer'[c].row[2]
    BY <1>1, <1>2 DEF BooksInv, WatchedIsRecorded
  <2>3. r[1] = confirmer'[c].row[1] => r = confirmer'[c].row
    BY <2>1, <2>2 DEF Row
  <2>4. CASE confirmer'[c] = confirmer[c]
    BY <1>2, <2>4 DEF EventsAreCounted
  <2> QED
    BY <1>1, <1>2, <2>3, <2>4, RowLeavesList
<1> DEFINE Holders(i) == {c \in Confirmer : HoldsRow(c, i)}
           HoldersNext(i) == {c \in Confirmer : HoldsRow(c, i)'}
<1>3. ASSUME NEW i \in Invoice
      PROVE  /\ payStatus'[i] # "settled" => settledEvents'[i] = 0
             /\ payStatus'[i] = "settled" =>
                  settledEvents'[i] + Cardinality(HoldersNext(i)) <= Cardinality(Confirmer)
  <2>1. /\ settledEvents[i] \in Nat
        /\ payStatus[i] # "settled" => settledEvents[i] = 0
        /\ payStatus[i] = "settled" =>
             settledEvents[i] + Cardinality(Holders(i)) <= Cardinality(Confirmer)
    BY <1>1 DEF EventsAreCounted, TypeOK, SettlementTypeOK
  <2>2. /\ IsFiniteSet(Holders(i)) /\ Cardinality(Holders(i)) \in Nat
        /\ IsFiniteSet(HoldersNext(i)) /\ Cardinality(HoldersNext(i)) \in Nat
        /\ Cardinality(Confirmer) \in Nat
    <3>1. Holders(i) \subseteq Confirmer /\ HoldersNext(i) \subseteq Confirmer
      OBVIOUS
    <3> QED
      BY <3>1, FS_Subset, FS_CardinalityType
  <2>3. payStatus[i] = "settled" => HoldersNext(i) \subseteq Holders(i)
    BY <1>1, HoldersMove
  <2>4. CASE settledEvents'[i] = settledEvents[i] /\
               (payStatus'[i] = "settled" => payStatus[i] = "settled")
    <3>1. payStatus'[i] = "settled" => Cardinality(HoldersNext(i)) <= Cardinality(Holders(i))
      BY <2>2, <2>3, <2>4, FS_Subset
    <3>2. payStatus'[i] # "settled" => payStatus[i] # "settled"
      BY SettledStays
    <3> HIDE DEF Holders, HoldersNext
    <3> QED
      BY <2>1, <2>2, <2>4, <3>1, <3>2
  <2>5. ASSUME NEW c \in Confirmer, confirmer[c].pc = "confirmed", confirmer[c].row[1] = i,
               payStatus'[i] = "settled", settledEvents'[i] = settledEvents[i] + 1,
               confirmer'[c].pc = "next", confirmer'[c].todo = confirmer[c].todo
        PROVE  settledEvents'[i] + Cardinality(HoldersNext(i)) <= Cardinality(Confirmer)
    <3>1. c \in Holders(i)
      BY <2>5 DEF HoldsRow
    <3>2. c \notin HoldersNext(i)
      BY <2>5 DEF HoldsRow, EventsAreCounted
    <3>3. CASE payStatus[i] = "settled"
      <4>1. HoldersNext(i) \subseteq Holders(i) \ {c}
        BY <2>3, <3>2, <3>3
      <4>2. /\ Cardinality(Holders(i) \ {c}) = Cardinality(Holders(i)) - 1
            /\ IsFiniteSet(Holders(i) \ {c})
        BY <2>2, <3>1, FS_RemoveElement
      <4>3. Cardinality(HoldersNext(i)) <= Cardinality(Holders(i)) - 1
        BY <4>1, <4>2, FS_Subset
      <4> HIDE DEF Holders, HoldersNext
      <4> QED
        BY <2>1, <2>2, <2>5, <3>3, <4>3
    <3>4. CASE payStatus[i] # "settled"
      <4>1. HoldersNext(i) \subseteq Confirmer \ {c}
        BY <3>2
      <4>2. /\ Cardinality(Confirmer \ {c}) = Cardinality(Confirmer) - 1
            /\ IsFiniteSet(Confirmer \ {c})
        BY FS_RemoveElement
      <4>3. Cardinality(HoldersNext(i)) <= Cardinality(Confirmer) - 1
        BY <4>1, <4>2, FS_Subset
      <4> HIDE DEF Holders, HoldersNext
      <4> QED
        BY <2>1, <2>2, <2>5, <3>4, <4>3
    <3> QED
      BY <3>3, <3>4
  <2> HIDE DEF Holders, HoldersNext
  <2> QED
    BY <1>1, <2>4, <2>5, RowMoves
<1> QED
  BY <1>2, <1>3 DEF EventsAreCounted

\* A settled payout has no more merchant_settled events than reconcile runs overlap.
LEMMA EventsInvariant ==
  ASSUME "write_unacked" \notin Faults, IsFiniteSet(Confirmer)
  PROVE  Spec => []EventsAreCounted
<1>1. Init => EventsAreCounted
  BY DEF Init, SettlementStart, IdleConfirmer, EventsAreCounted
<1>2. BooksInv /\ EventsAreCounted /\ [SettlementNext]_vars => EventsAreCounted'
  BY EventsStep
<1> QED
  BY <1>1, <1>2, BooksInvariant, PTL DEF Spec

\* Whenever a settlement is recorded, validate_settle_transition, which nobody calls,
\* allows it, the guard against a payout that is already settled included; except that
\* reconcile runs that overlap may repeat it, hash and all, once each.
THEOREM SettledByTheRule ==
  ASSUME "write_unacked" \notin Faults, IsFiniteSet(Confirmer)
  PROVE  Spec => SettlesByTheRule
<1> DEFINE ByTheRule == \A i \in Invoice :
       settledEvents'[i] > settledEvents[i] =>
         \/ ValidateSettleTransition(invStatus[i], payStatus[i], payTx'[i]) = "Ok"
         \/ RepeatsSettlement(i)
<1>1. ASSUME BooksInv, EventsAreCounted, [SettlementNext]_vars PROVE [ByTheRule]_vars
  <2>1. TypeOK /\ settledEvents \in [Invoice -> Nat]
    BY <1>1 DEF BooksInv, SettlementInv, TypeOK, SettlementTypeOK
  <2>2. ASSUME NEW i \in Invoice, settledEvents'[i] > settledEvents[i]
        PROVE  \/ ValidateSettleTransition(invStatus[i], payStatus[i], payTx'[i]) = "Ok"
               \/ RepeatsSettlement(i)
    <3>1. settledEvents'[i] # settledEvents[i]
      <4>1. settledEvents[i] \in Nat
        BY <2>1
      <4> QED
        BY <2>2, <4>1
    <3>2. /\ payStatus[i] \in {"submitted", "settled"} /\ payTx'[i] \in Tx
          /\ payTx'[i] = payTx[i] /\ payStatus'[i] = "settled"
      BY <1>1, <2>1, <3>1, RowMoves, MoverKnows
    <3>3. CASE payStatus[i] = "submitted"
      <4>1. invStatus[i] = "paid"
        BY <1>1, <3>3 DEF BooksInv, InvoiceFollowsPayout
      <4> QED
        BY <3>2, <3>3, <4>1, SettlementAssumption
           DEF ValidateSettleTransition, KnownInvoiceStatus, KnownPayoutStatus
    <3>4. CASE payStatus[i] = "settled"
      <4>1. EventsAreCounted' /\ TypeOK'
        BY <1>1, EventsStep, BooksStep DEF BooksInv, SettlementInv
      <4>2. PICK n \in Nat : settledEvents'[i] + n <= Cardinality(Confirmer)
        <5> DEFINE Held == {c \in Confirmer : HoldsRow(c, i)'}
        <5>1. settledEvents'[i] + Cardinality(Held) <= Cardinality(Confirmer)
          BY <3>2, <4>1 DEF EventsAreCounted
        <5>2. Held \subseteq Confirmer
          OBVIOUS
        <5>3. Cardinality(Held) \in Nat
          BY <5>2, FS_Subset, FS_CardinalityType
        <5> QED
          BY <5>1, <5>3
      <4>3. settledEvents'[i] \in Nat /\ Cardinality(Confirmer) \in Nat
        BY <4>1, FS_CardinalityType DEF TypeOK, SettlementTypeOK
      <4>4. settledEvents'[i] <= Cardinality(Confirmer)
        BY <4>2, <4>3
      <4> QED
        BY <3>2, <3>4, <4>4 DEF RepeatsSettlement
    <3> QED
      BY <3>2, <3>3, <3>4
  <2> QED
    BY <2>2
<1> QED
  BY <1>1, BooksInvariant, EventsInvariant, PTL DEF Spec, SettlesByTheRule
=============================================================================
