----------------------------- MODULE Settlement -----------------------------
(***************************************************************************)
(* How a queued payout becomes a transfer to the merchant.  Four kinds of  *)
(* process share the payouts table, each reading first and writing later,  *)
(* in statements of their own:                                             *)
(*   Settler   GET /api/cron/settle, the Next.js route that signs and      *)
(*             submits;                                                    *)
(*   Confirmer GET /api/cron/reconcile, its first step, which asks Horizon *)
(*             about submitted transactions;                               *)
(*   Retrier   GET /api/cron/settle of the Rust service, which requeues or *)
(*             dead-letters failed payouts;                                *)
(*   Operator  POST /api/cron/payouts/{id}/replay.                         *)
(* A process stands for one slot of overlapping invocations: when a run    *)
(* ends, or dies, the slot may start the next one.                         *)
(***************************************************************************)
EXTENDS Ledger

CONSTANTS
  Settler, Confirmer, Retrier, Operator,
  Tx,                   \* settlement transactions that can ever be built
  BatchSize,            \* SETTLE_BATCH_SIZE
  DeadLetterThreshold,  \* PAYOUT_DEAD_LETTER_THRESHOLD
  BadDestination,       \* payouts whose stored key the settle route rejects
  DryRunValues,         \* the ?dry_run= values callers use
  Faults,               \* what may go wrong, a subset of FaultKinds
  NoTx, NoInvoice

FaultKinds ==
  {"crash",             \* a run is cut off (maxDuration) or a call throws
   "submit_timeout",    \* submitTransaction throws, the network has the tx
   "write_lost",        \* markPayoutSubmitted throws, nothing was written
   "write_unacked",     \* markPayoutSubmitted throws after it was committed
   "claim_only"}        \* a caller of the claim endpoint does nothing more

ASSUME SettlementAssumption ==
  /\ BatchSize \in Nat \ {0}
  /\ DeadLetterThreshold \in Nat \ {0}
  /\ BadDestination \subseteq Invoice
  /\ DryRunValues \subseteq BOOLEAN
  /\ Faults \subseteq FaultKinds
  /\ NoTx \notin Tx
  /\ NoInvoice \notin Invoice

VARIABLES
  payClaimed,           \* payouts.processing_worker_id IS NOT NULL
  payTx,                \* payouts.transaction_hash
  failures,             \* payouts.failure_count
  deadLetters,          \* rows of payout_dead_letters
  settledEvents,        \* merchant_settled rows of payment_events
  txFor, txState,       \* external: the Stellar network's view of each tx
  settler, confirmer, retrier, operator

payoutVars   == <<payClaimed, payTx, failures, deadLetters, settledEvents>>
networkVars  == <<txFor, txState>>
processVars  == <<settler, confirmer, retrier, operator>>
settlementVars == <<payoutVars, networkVars, processVars>>

Row == Invoice \X Tx

\* Built and sent to the network; included, and executed or failed there; or never
\* included, and too old to be.
TxState == {"unused", "inflight", "success", "failed", "expired"}

SettlerState ==
  [pc : {"next", "claimed", "submit", "record", "failing"},
   todo : SUBSET Invoice, cur : Invoice \cup {NoInvoice},
   tx : Tx \cup {NoTx}, dry : BOOLEAN]

ConfirmerState ==
  [pc : {"next", "confirmed", "failed"},
   todo : SUBSET Row,
   row : (Invoice \cup {NoInvoice}) \X (Tx \cup {NoTx})]

SettlementTypeOK ==
  /\ payClaimed \in [Invoice -> BOOLEAN]
  /\ payTx \in [Invoice -> Tx \cup {NoTx}]
  /\ failures \in [Invoice -> Nat]
  /\ deadLetters \subseteq Invoice
  /\ settledEvents \in [Invoice -> Nat]
  /\ txFor \in [Tx -> Invoice \cup {NoInvoice}]
  /\ txState \in [Tx -> TxState]
  /\ settler \in [Settler -> SettlerState]
  /\ confirmer \in [Confirmer -> ConfirmerState]
  /\ retrier \in [Retrier -> SUBSET (Invoice \X Nat)]
  /\ operator \in [Operator -> Invoice \cup {NoInvoice}]

IdleSettler ==
  [pc |-> "next", todo |-> {}, cur |-> NoInvoice, tx |-> NoTx, dry |-> FALSE]

NoRow == <<NoInvoice, NoTx>>

IdleConfirmer == [pc |-> "next", todo |-> {}, row |-> NoRow]

\* No run in progress, no payout touched yet.
SettlementStart ==
  /\ payClaimed = [i \in Invoice |-> FALSE]
  /\ payTx = [i \in Invoice |-> NoTx]
  /\ failures = [i \in Invoice |-> 0]
  /\ deadLetters = {}
  /\ settledEvents = [i \in Invoice |-> 0]
  /\ txFor = [t \in Tx |-> NoInvoice]
  /\ txState = [t \in Tx |-> "unused"]
  /\ settler = [s \in Settler |-> IdleSettler]
  /\ confirmer = [c \in Confirmer |-> IdleConfirmer]
  /\ retrier = [k \in Retrier |-> {}]
  /\ operator = [o \in Operator |-> NoInvoice]

-----------------------------------------------------------------------------
(* The statements of lib/data.ts, each one atomic in Postgres.             *)

\* A bug this could have: forgetting AND processing_worker_id IS NULL.
ClaimPayout_AnyHolder(i) ==
  /\ payStatus[i] = "queued"
  /\ payClaimed' = [payClaimed EXCEPT ![i] = TRUE]

ClaimPayout(i) ==
  /\ payStatus[i] = "queued"
  /\ ~payClaimed[i]
  /\ payClaimed' = [payClaimed EXCEPT ![i] = TRUE]

MarkPayoutSubmitted(i, t) ==
  /\ payStatus' = [payStatus EXCEPT ![i] = "submitted"]
  /\ payTx' = [payTx EXCEPT ![i] = t]
  /\ UNCHANGED <<invStatus, payClaimed, failures, deadLetters, settledEvents>>

MarkPayoutSettled(i, t) ==
  /\ payStatus' = [payStatus EXCEPT ![i] = "settled"]
  /\ payTx' = [payTx EXCEPT ![i] = t]
  /\ invStatus' = [invStatus EXCEPT ![i] = "settled"]
  /\ settledEvents' = [settledEvents EXCEPT ![i] = @ + 1]
  /\ UNCHANGED <<payClaimed, failures, deadLetters>>

MarkPayoutFailed(i) ==
  /\ payStatus' = [payStatus EXCEPT ![i] = "failed"]
  /\ failures' = [failures EXCEPT ![i] = @ + 1]
  /\ UNCHANGED <<invStatus, payClaimed, payTx, deadLetters, settledEvents>>

\* A bug this could have: ORDER BY created_at DESC.
QueuedPayouts_NewestFirst ==
  LET rows == {i \in Invoice : payStatus[i] \in {"queued", "failed"}} IN
  {i \in rows : Cardinality({j \in rows : j > i}) < BatchSize}

\* SELECT ... WHERE payouts.status IN ('queued','failed') ORDER BY created_at
QueuedPayouts ==
  OldestRows({i \in Invoice : payStatus[i] \in {"queued", "failed"}}, BatchSize)

\* A bug this could have: every payout with a hash listed, whatever its status.
SubmittedPayouts_AnyStatus == {r \in Row : payTx[r[1]] = r[2]}

\* SELECT ... WHERE status = 'submitted' AND transaction_hash IS NOT NULL
SubmittedPayouts ==
  {r \in Row : payStatus[r[1]] = "submitted" /\ payTx[r[1]] = r[2]}

-----------------------------------------------------------------------------
(* GET /api/cron/settle of the Next.js service.                            *)

SettlerGoes(s, next) == settler' = [settler EXCEPT ![s] = next]

\* On to the next payout of the list; cur and tx are locals of the loop body.
SettlerContinues(s) ==
  SettlerGoes(s, [settler[s] EXCEPT !.pc = "next", !.cur = NoInvoice, !.tx = NoTx])

SettlerOnly == UNCHANGED <<confirmer, retrier, operator>>

StartSettle(s) ==
  /\ settler[s].pc = "next" /\ settler[s].todo = {}
  /\ QueuedPayouts # {}
  /\ \E dry \in DryRunValues :
       SettlerGoes(s, [IdleSettler EXCEPT !.todo = QueuedPayouts, !.dry = dry])
  /\ SettlerOnly
  /\ UNCHANGED <<ledgerVars, payoutVars, networkVars>>

\* The claim comes before every other check, the dry-run one included.
ClaimNext(s) ==
  /\ settler[s].pc = "next"
  /\ \E i \in Invoice :
       /\ IsOldest(i, settler[s].todo)
       /\ \/ /\ ClaimPayout(i)
             /\ SettlerGoes(s, [settler[s] EXCEPT !.pc = "claimed", !.cur = i,
                                                  !.todo = @ \ {i}])
          \/ /\ payStatus[i] # "queued" \/ payClaimed[i]
             /\ SettlerGoes(s, [settler[s] EXCEPT !.todo = @ \ {i}])
             /\ UNCHANGED payClaimed
  /\ SettlerOnly
  /\ UNCHANGED <<ledgerVars, payTx, failures, deadLetters, settledEvents,
                 networkVars>>

\* Destination check, invoice read, dry-run check: only a real run of a paid
\* invoice goes on, and whoever does not go on keeps the claim.
InspectClaimed(s) ==
  LET i == settler[s].cur IN
  /\ settler[s].pc = "claimed"
  /\ \/ /\ i \in BadDestination /\ ~settler[s].dry
        /\ SettlerGoes(s, [settler[s] EXCEPT !.pc = "failing"])
     \/ /\ i \notin BadDestination /\ invStatus[i] = "paid" /\ ~settler[s].dry
        /\ SettlerGoes(s, [settler[s] EXCEPT !.pc = "submit"])
     \/ /\ settler[s].dry \/ (i \notin BadDestination /\ invStatus[i] # "paid")
        /\ SettlerContinues(s)
  /\ SettlerOnly
  /\ UNCHANGED <<ledgerVars, payoutVars, networkVars>>

\* Building, signing and submitting: accepted, refused, or unknown to us.
Submit(s) ==
  LET i == settler[s].cur IN
  /\ settler[s].pc = "submit"
  /\ \/ /\ SettlerGoes(s, [settler[s] EXCEPT !.pc = "failing"])
        /\ UNCHANGED networkVars
     \/ \E t \in Tx :
          /\ txState[t] = "unused"
          /\ txFor' = [txFor EXCEPT ![t] = i]
          /\ txState' = [txState EXCEPT ![t] = "inflight"]
          /\ \/ SettlerGoes(s, [settler[s] EXCEPT !.pc = "record", !.tx = t])
             \/ /\ "submit_timeout" \in Faults
                /\ SettlerGoes(s, [settler[s] EXCEPT !.pc = "failing"])
  /\ SettlerOnly
  /\ UNCHANGED <<ledgerVars, payoutVars>>

RecordSubmission(s) ==
  LET i == settler[s].cur IN
  /\ settler[s].pc = "record"
  /\ \/ /\ MarkPayoutSubmitted(i, settler[s].tx)
        /\ SettlerContinues(s)
     \/ /\ "write_unacked" \in Faults
        /\ MarkPayoutSubmitted(i, settler[s].tx)
        /\ SettlerGoes(s, [settler[s] EXCEPT !.pc = "failing"])
     \/ /\ "write_lost" \in Faults
        /\ SettlerGoes(s, [settler[s] EXCEPT !.pc = "failing"])
        /\ UNCHANGED <<ledgerVars, payoutVars>>
  /\ SettlerOnly
  /\ UNCHANGED networkVars

RecordFailure(s) ==
  /\ settler[s].pc = "failing"
  /\ MarkPayoutFailed(settler[s].cur)
  /\ SettlerContinues(s)
  /\ SettlerOnly
  /\ UNCHANGED networkVars

\* The run is cut off, or a query throws: nothing releases the claim.
SettlerDies(s) ==
  /\ "crash" \in Faults
  /\ settler[s] # IdleSettler
  /\ SettlerGoes(s, IdleSettler)
  /\ SettlerOnly
  /\ UNCHANGED <<ledgerVars, payoutVars, networkVars>>

\* POST /api/cron/payouts/{id}/claim
ClaimEndpoint(i) ==
  /\ "claim_only" \in Faults
  /\ ClaimPayout(i)
  /\ UNCHANGED <<ledgerVars, payTx, failures, deadLetters, settledEvents,
                 networkVars, processVars>>

-----------------------------------------------------------------------------
(* First step of GET /api/cron/reconcile of the Next.js service.           *)

ConfirmerGoes(c, next) == confirmer' = [confirmer EXCEPT ![c] = next]

ConfirmerOnly == UNCHANGED <<settler, retrier, operator>>

StartConfirm(c) ==
  /\ confirmer[c] = IdleConfirmer
  /\ SubmittedPayouts # {}
  /\ ConfirmerGoes(c, [IdleConfirmer EXCEPT !.todo = SubmittedPayouts])
  /\ ConfirmerOnly
  /\ UNCHANGED <<ledgerVars, payoutVars, networkVars>>

\* Bugs this could have: a transaction Horizon does not know yet taken for a
\* confirmed one, or for a failed one; a failed one taken for an unknown one.
Verdict_UnknownConfirmed(t) == IF txState[t] = "failed" THEN "failed" ELSE "confirmed"
Verdict_UnknownFailed(t) == IF txState[t] = "success" THEN "confirmed" ELSE "failed"
Verdict_FailedUnknown(t) == IF txState[t] = "success" THEN "confirmed" ELSE "next"

\* What checkPayoutTxConfirmed answers, and where that leads.  Horizon answers 404
\* for a transaction that is not in a ledger yet and for one that never will be:
\* both are pending, and left for the next run.
Verdict(t) == CASE txState[t] = "success" -> "confirmed"
                [] txState[t] = "failed"  -> "failed"
                [] OTHER                  -> "next"

CheckTx(c) ==
  /\ confirmer[c].pc = "next"
  /\ \E r \in confirmer[c].todo :
       /\ \A q \in confirmer[c].todo : r[1] <= q[1]
       /\ ConfirmerGoes(c,
            [pc |-> Verdict(r[2]), todo |-> confirmer[c].todo \ {r},
             row |-> IF Verdict(r[2]) = "next" THEN NoRow ELSE r])
  /\ ConfirmerOnly
  /\ UNCHANGED <<ledgerVars, payoutVars, networkVars>>

\* The verdict is written whatever the payout has become since it was read.
RecordVerdict(c) ==
  LET r == confirmer[c].row IN
  /\ \/ confirmer[c].pc = "confirmed" /\ MarkPayoutSettled(r[1], r[2])
     \/ confirmer[c].pc = "failed" /\ MarkPayoutFailed(r[1])
  /\ ConfirmerGoes(c, [confirmer[c] EXCEPT !.pc = "next", !.row = NoRow])
  /\ ConfirmerOnly
  /\ UNCHANGED networkVars

ConfirmerDies(c) ==
  /\ "crash" \in Faults
  /\ confirmer[c] # IdleConfirmer
  /\ ConfirmerGoes(c, IdleConfirmer)
  /\ ConfirmerOnly
  /\ UNCHANGED <<ledgerVars, payoutVars, networkVars>>

-----------------------------------------------------------------------------
(* GET /api/cron/settle of the Rust service: retry or dead-letter.         *)

RetrierOnly == UNCHANGED <<settler, confirmer, operator>>

\* One page of failed payouts, failure_count as the SELECT saw it.
StartRetry(k) ==
  /\ retrier[k] = {}
  /\ \E i \in Invoice : payStatus[i] = "failed"
  /\ retrier' = [retrier EXCEPT ![k] =
       {<<i, failures[i]>> : i \in {j \in Invoice : payStatus[j] = "failed"}}]
  /\ RetrierOnly
  /\ UNCHANGED <<ledgerVars, payoutVars, networkVars>>

\* A bug this could have: handing the row back to the settle cron, claim and
\* all, when the fate of the previous submission is not known.
RequeueFailed_ReleasesClaim(i, count) ==
  /\ payStatus' = [payStatus EXCEPT ![i] = "queued"]
  /\ failures' = [failures EXCEPT ![i] = count]
  /\ payClaimed' = [payClaimed EXCEPT ![i] = FALSE]
  /\ UNCHANGED <<invStatus, payTx, deadLetters, settledEvents>>

RequeueFailed(i, count) ==
  /\ payStatus' = [payStatus EXCEPT ![i] = "queued"]
  /\ failures' = [failures EXCEPT ![i] = count]
  /\ UNCHANGED <<invStatus, payClaimed, payTx, deadLetters, settledEvents>>

\* A bug this could have: a status the CHECK of migration 005 does not list.
DeadLetter_OtherSpelling(i, count) ==
  /\ payStatus' = [payStatus EXCEPT ![i] = "dead_letter"]
  /\ failures' = [failures EXCEPT ![i] = count]
  /\ deadLetters' = deadLetters \cup {i}
  /\ UNCHANGED <<invStatus, payClaimed, payTx, settledEvents>>

DeadLetter(i, count) ==
  /\ payStatus' = [payStatus EXCEPT ![i] = "dead_lettered"]
  /\ failures' = [failures EXCEPT ![i] = count]
  /\ deadLetters' = deadLetters \cup {i}
  /\ UNCHANGED <<invStatus, payClaimed, payTx, settledEvents>>

PassedRow(k, row) ==
  /\ row \in retrier[k]
  /\ retrier' = [retrier EXCEPT ![k] = @ \ {row}]
  /\ RetrierOnly
  /\ UNCHANGED networkVars

\* Both UPDATEs say WHERE id = $1 and nothing about the status.
RetryRow(k, row) ==
  /\ PassedRow(k, row)
  /\ IF row[2] + 1 >= DeadLetterThreshold
     THEN DeadLetter(row[1], row[2] + 1)
     ELSE RequeueFailed(row[1], row[2] + 1)

\* The backoff window of the new count has not elapsed.
SkipRow(k, row) ==
  /\ PassedRow(k, row)
  /\ row[2] + 1 < DeadLetterThreshold
  /\ UNCHANGED <<ledgerVars, payoutVars>>

RetrierDies(k) ==
  /\ "crash" \in Faults
  /\ retrier[k] # {}
  /\ retrier' = [retrier EXCEPT ![k] = {}]
  /\ RetrierOnly
  /\ UNCHANGED <<ledgerVars, payoutVars, networkVars>>

-----------------------------------------------------------------------------
(* POST /api/cron/payouts/{id}/replay: check the status, then reset.       *)

\* A bug this could have: every terminal status taken for a replayable one.
CheckReplayable_Terminal(o, i) ==
  /\ operator[o] = NoInvoice
  /\ payStatus[i] \in {"dead_lettered", "failed", "settled"}
  /\ operator' = [operator EXCEPT ![o] = i]
  /\ UNCHANGED <<ledgerVars, payoutVars, networkVars,
                 settler, confirmer, retrier>>

CheckReplayable(o, i) ==
  /\ operator[o] = NoInvoice
  /\ payStatus[i] \in {"dead_lettered", "failed"}
  /\ operator' = [operator EXCEPT ![o] = i]
  /\ UNCHANGED <<ledgerVars, payoutVars, networkVars,
                 settler, confirmer, retrier>>

ReplayPayout(o) ==
  LET i == operator[o] IN
  /\ i # NoInvoice
  /\ payStatus' = [payStatus EXCEPT ![i] = "queued"]
  /\ failures' = [failures EXCEPT ![i] = 0]
  /\ operator' = [operator EXCEPT ![o] = NoInvoice]
  /\ UNCHANGED <<invStatus, payClaimed, payTx, deadLetters, settledEvents,
                 networkVars, settler, confirmer, retrier>>

-----------------------------------------------------------------------------
(* External: a transaction the network holds is included in a ledger, where *)
(* it succeeds or fails, or its 180 s pass first.                          *)

NetworkDecides(t) ==
  /\ txState[t] = "inflight"
  /\ \E verdict \in {"success", "failed", "expired"} :
       txState' = [txState EXCEPT ![t] = verdict]
  /\ UNCHANGED <<ledgerVars, payoutVars, txFor, processVars>>

-----------------------------------------------------------------------------
SettlerStep(s) ==
  \/ StartSettle(s) \/ ClaimNext(s) \/ InspectClaimed(s) \/ Submit(s)
  \/ RecordSubmission(s) \/ RecordFailure(s)

ConfirmerStep(c) == StartConfirm(c) \/ CheckTx(c) \/ RecordVerdict(c)

RetrierStep(k) ==
  StartRetry(k) \/ \E row \in retrier[k] : RetryRow(k, row) \/ SkipRow(k, row)

SettlementNext ==
  \/ \E s \in Settler : SettlerStep(s) \/ SettlerDies(s)
  \/ \E c \in Confirmer : ConfirmerStep(c) \/ ConfirmerDies(c)
  \/ \E k \in Retrier : RetrierStep(k) \/ RetrierDies(k)
  \/ \E o \in Operator : ReplayPayout(o) \/ \E i \in Invoice : CheckReplayable(o, i)
  \/ \E i \in Invoice : ClaimEndpoint(i)
  \/ \E t \in Tx : NetworkDecides(t)

vars == <<ledgerVars, settlementVars>>

\* Detection has done its work: every invoice is paid, every payout queued.
Init ==
  /\ invStatus = [i \in Invoice |-> "paid"]
  /\ payStatus = [i \in Invoice |-> "queued"]
  /\ SettlementStart

Spec == Init /\ [][SettlementNext]_vars

(***************************************************************************)
(* vercel.json fires the two Next.js crons for ever, a run that is not cut *)
(* off takes its next step, and the network decides every transaction or   *)
(* lets it expire (setTimeout(180)).  Nothing schedules the retry cron of  *)
(* the Rust service, and nothing obliges an operator to act: both may, at  *)
(* any time, and need never.                                               *)
(***************************************************************************)
Fairness ==
  /\ \A s \in Settler : WF_vars(SettlerStep(s))
  /\ \A c \in Confirmer : WF_vars(ConfirmerStep(c))
  /\ \A t \in Tx : WF_vars(NetworkDecides(t))

FairSpec == Spec /\ Fairness

-----------------------------------------------------------------------------
(* Safety.                                                                 *)

TypeOK == LedgerTypeOK /\ SettlementTypeOK

\* The transactions built for payout i, and those that moved or may move money.
TxsOf(i) == {t \in Tx : txFor[t] = i}
LiveTxsOf(i) == {t \in TxsOf(i) : txState[t] \in {"inflight", "success"}}

\* A merchant is never paid twice for an invoice, however settle runs, crashes,
\* submission timeouts, retries and replays interleave: at most one transaction
\* of a payout is in the network or has succeeded.
AtMostOneTransfer ==
  \A i \in Invoice : \A t, u \in LiveTxsOf(i) : t = u

\* Two settle runs are never past the claim of the same payout at once
\* (claimPayout is the only mutual exclusion between overlapping crons).
ClaimExclusive ==
  \A r, s \in Settler :
    settler[r].cur = settler[s].cur /\ settler[r].cur # NoInvoice => r = s

\* The books say settled only for money that arrived: a settled invoice names a
\* settlement transaction that the network executed for this very payout.
SettledIsTransferred ==
  \A i \in Invoice :
    invStatus[i] = "settled" =>
      /\ payTx[i] \in TxsOf(i)
      /\ txState[payTx[i]] = "success"

\* Each merchant_settled event stands for one settlement of the invoice.
OneSettledEvent == \A i \in Invoice : settledEvents[i] <= 1

\* What payout-health reports as deadLettered is the number of payouts that
\* are dead-lettered.
HealthCountsDeadLettered ==
  deadLetters = {i \in Invoice : payStatus[i] = "dead_lettered"}

-----------------------------------------------------------------------------
(* Why the two safety properties above hold: an inductive invariant.  A     *)
(* claim, once taken, is never given back, so that whoever holds a payout,  *)
(* or acts on a list that names it, acts on a claimed one.                  *)

\* Work on a payout, of any kind, only happens to claimed payouts.
WorkIsClaimed ==
  /\ \A i \in Invoice : payStatus[i] \notin {"none", "queued"} => payClaimed[i]
  /\ \A s \in Settler : settler[s].cur # NoInvoice => payClaimed[settler[s].cur]
  /\ \A t \in Tx : txFor[t] # NoInvoice => payClaimed[txFor[t]]
  /\ \A c \in Confirmer : \A r \in confirmer[c].todo : payClaimed[r[1]]
  /\ \A c \in Confirmer :
       confirmer[c].pc # "next" =>
         confirmer[c].row \in Row /\ payClaimed[confirmer[c].row[1]]
  /\ \A k \in Retrier : \A row \in retrier[k] : payClaimed[row[1]]
  /\ \A o \in Operator : operator[o] # NoInvoice => payClaimed[operator[o]]

\* What a settle run knows at each point of its loop body.
SettlerKnows ==
  \A s \in Settler :
    /\ settler[s].pc = "next" <=> settler[s].cur = NoInvoice
    /\ settler[s].pc \in {"claimed", "submit"} => TxsOf(settler[s].cur) = {}
    /\ settler[s].pc = "record" =>
         settler[s].tx \in Tx /\ txFor[settler[s].tx] = settler[s].cur

\* A payout never has a second transaction, not even after the first failed.
OneTxPerPayout ==
  /\ \A t \in Tx : txState[t] = "unused" <=> txFor[t] = NoInvoice
  /\ \A t, u \in Tx : txFor[t] = txFor[u] /\ txFor[t] # NoInvoice => t = u

\* Every hash the books or a reconcile run carry belongs to that very payout.
HashesAreOwn ==
  /\ \A i \in Invoice : payTx[i] # NoTx => txFor[payTx[i]] = i
  /\ \A c \in Confirmer : \A r \in confirmer[c].todo : txFor[r[2]] = r[1]
  /\ \A c \in Confirmer :
       confirmer[c].pc # "next" => txFor[confirmer[c].row[2]] = confirmer[c].row[1]
  /\ \A c \in Confirmer :
       confirmer[c].pc = "confirmed" => txState[confirmer[c].row[2]] = "success"

SettlementInv ==
  /\ TypeOK
  /\ WorkIsClaimed
  /\ ClaimExclusive
  /\ SettlerKnows
  /\ OneTxPerPayout
  /\ HashesAreOwn
  /\ SettledIsTransferred

(***************************************************************************)
(* As long as no write is committed and reported lost, the books also say  *)
(* where each payout is on its way, although no UPDATE looks at them.      *)
(***************************************************************************)

\* A retry run or an operator has listed payout i and will write to it.
Retried(i) ==
  \/ \E k \in Retrier : \E row \in retrier[k] : row[1] = i
  \/ \E o \in Operator : operator[o] = i

\* What a settle run holds is queued, was never submitted, and nobody retries it.
HeldIsFresh ==
  \A s \in Settler :
    LET i == settler[s].cur IN
    i # NoInvoice => payStatus[i] = "queued" /\ payTx[i] = NoTx /\ ~Retried(i)

\* What a reconcile run asks about, or is about to write, is still on record, and
\* a failure it is about to write happened.
WatchedIsRecorded ==
  \A c \in Confirmer :
    /\ \A r \in confirmer[c].todo : payTx[r[1]] = r[2]
    /\ confirmer[c].pc # "next" => payTx[confirmer[c].row[1]] = confirmer[c].row[2]
    /\ confirmer[c].pc = "failed" => txState[confirmer[c].row[2]] = "failed"

\* A payout is submitted or settled exactly until its transaction is known to have
\* failed; nobody retries it meanwhile, and settled means it has succeeded.
StatusFollowsTx ==
  \A i \in Invoice :
    /\ payStatus[i] \in {"submitted", "settled"} => payTx[i] # NoTx /\ ~Retried(i)
    /\ payTx[i] # NoTx /\ txState[payTx[i]] # "failed" =>
         payStatus[i] \in {"submitted", "settled"}
    /\ payStatus[i] = "settled" => txState[payTx[i]] = "success"

\* The invoice waits for the payout.
InvoiceFollowsPayout ==
  \A i \in Invoice :
    invStatus[i] = "paid" \/ (invStatus[i] = "settled" /\ payStatus[i] = "settled")

BooksInv ==
  /\ SettlementInv
  /\ HeldIsFresh /\ WatchedIsRecorded /\ StatusFollowsTx /\ InvoiceFollowsPayout

\* A reconcile run is still going to write to payout i, or may be.
HoldsRow(c, i) ==
  \/ \E r \in confirmer[c].todo : r[1] = i
  \/ confirmer[c].pc # "next" /\ confirmer[c].row[1] = i

\* Only a run that listed the payout while it was submitted settles it, and none
\* does so twice: the events of a settled payout, and the runs that may add one
\* more, are together no more than the reconcile runs that overlap.
EventsAreCounted ==
  /\ \A c \in Confirmer :
       confirmer[c].pc # "next" =>
         \A r \in confirmer[c].todo : r[1] # confirmer[c].row[1]
  /\ \A i \in Invoice :
       /\ payStatus[i] # "settled" => settledEvents[i] = 0
       /\ payStatus[i] = "settled" =>
            settledEvents[i] + Cardinality({c \in Confirmer : HoldsRow(c, i)})
              <= Cardinality(Confirmer)

-----------------------------------------------------------------------------
(* What a step may never do.                                               *)

\* Settled is final for the payout and for its invoice, although none of the
\* UPDATEs that could move them away looks at the current status.
SettledIsFinal ==
  [][\A i \in Invoice :
       /\ payStatus[i] = "settled" => payStatus'[i] = "settled"
       /\ invStatus[i] = "settled" => invStatus'[i] = "settled"]_vars

\* A submitted payout is only given up, or called settled, once the network has
\* decided its transaction that way: a 404 from Horizon decides nothing.
SubmittedWaitsForVerdict ==
  [][\A i \in Invoice :
       payStatus[i] = "submitted" /\ payStatus'[i] # "submitted" =>
         txState[payTx[i]] =
           (IF payStatus'[i] = "settled" THEN "success" ELSE "failed")]_vars

\* A dry run of the settle cron changes no payout row.
DryRunIsPure ==
  [][\A s \in Settler :
       settler[s].dry /\ settler'[s] # settler[s] =>
         UNCHANGED <<payStatus, payClaimed, payTx, failures>>]_vars

\* A replayed payout starts its clean attempt from a failure count of zero, so
\* only a failed attempt may raise it, by one, and not a run that read it before.
CleanReplay ==
  [][\A i \in Invoice :
       payStatus[i] = "queued" /\ failures[i] = 0 => failures'[i] <= 1]_vars

-----------------------------------------------------------------------------
(* Liveness, under Fairness.                                               *)

\* A payout waits for its first attempt.
Waiting(i) == payStatus[i] = "queued" /\ ~payClaimed[i]

\* A whole batch of older payouts is listed before payout i, none of which any run
\* can claim.
Blocked(i) ==
  BatchSize <= Cardinality({j \in Invoice :
    j < i /\ payStatus[j] \in {"queued", "failed"} /\ payClaimed[j]})

\* A payout nobody has claimed is claimed in the end, unless a whole batch of older
\* rows that failed, or were requeued with their claim, stays listed before it for
\* ever: nothing else keeps a queued payout from its attempt.
QueuedIsAttempted ==
  \A i \in Invoice : []<>~Waiting(i) \/ <>[]Blocked(i)

\* Its transaction has expired, and Horizon will never know of it.
HasExpired(i) == payTx[i] \in Tx /\ txState[payTx[i]] = "expired"

\* Every submitted payout is eventually confirmed or given up, unless its
\* transaction expired outside every ledger: that one is asked about for ever.
SubmittedIsResolved ==
  \A i \in Invoice :
    payStatus[i] = "submitted" ~> payStatus[i] # "submitted" \/ HasExpired(i)

-----------------------------------------------------------------------------
(* The same promises without the exceptions, as the code's comments put     *)
(* them; none of them holds (settle_stuck.cfg).                            *)

\* Every queued payout nobody has claimed is claimed by some settle run.
QueuedIsAlwaysAttempted == \A i \in Invoice : Waiting(i) ~> ~Waiting(i)

\* A submitted payout does not stay submitted: what Horizon does not know is still
\* propagating (stellar.ts), so that a later run learns its fate.
SubmittedIsAlwaysResolved ==
  \A i \in Invoice : payStatus[i] = "submitted" ~> payStatus[i] # "submitted"

\* A payout put back to queued, by the retry cron or by an operator, is
\* attempted again.
RequeuedIsAttempted ==
  \A i \in Invoice : payStatus[i] = "queued" ~> payStatus[i] # "queued"
=============================================================================
