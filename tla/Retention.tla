----------------------------- MODULE Retention ------------------------------
(***************************************************************************)
(* The life of an invoice row from its creation to the archive, the events *)
(* that are kept of it, and what the orphan report makes of the treasury's *)
(* payments.  How an invoice becomes paid and settled is Detection's and   *)
(* Settlement's matter: here each is one step.  Time is counted in days.   *)
(***************************************************************************)
EXTENDS Integers, FiniteSets, SequencesExt

CONSTANTS
  Invoice,
  Hash,                 \* transactions in which buyers pay the treasury
  PayoutHash,           \* PayoutHash[i]: the transaction that pays out invoice i
  Archiver,             \* slots of overlapping archive runs
  ArchiveAfter,         \* archive_retention_days
  RetentionRow,         \* retention_config row of payment_events, or Missing
  ParamAccepted,        \* does the driver send archive's i64 as the int4 it is cast
                        \* to?  FALSE with tokio-postgres; TRUE: the archive as meant
  OrphanLimit,          \* payments one orphan report looks at
  LastDay,              \* bound: the clock stops here
  NoHash, NoRow, Missing, Idle

Day == 0..LastDay
Row == [status : {"pending", "paid", "settled"}, hash : Hash \cup {NoHash},
        paidOn : Day, settledOn : Day]
Event == [of : Invoice, day : Day]
Operation == [hash : Hash \cup Range(PayoutHash), incoming : BOOLEAN]

ASSUME RetentionAssumption ==
  /\ Invoice \subseteq Nat
  /\ PayoutHash \in [Invoice -> STRING] /\ NoHash \notin Hash
  /\ ArchiveAfter \in Nat /\ LastDay \in Nat /\ OrphanLimit \in Nat
  /\ RetentionRow \in Nat \ {0} \/ RetentionRow = Missing
  /\ ParamAccepted \in BOOLEAN
  /\ NoRow \notin Row

VARIABLES
  today,
  live, archived,       \* rows of invoices and of archived_invoices
  payouts, archivedPayouts,   \* by invoice: rows of payouts, archived_payouts
  events, archivedEvents,     \* rows of payment_events, archived_payment_events
  archiver,             \* the invoices an open archive transaction has moved
  treasury,             \* payment operations of the treasury, oldest first
  scan, report          \* what an orphan report has fetched; the last report

archiveVars == <<archived, archivedPayouts, archivedEvents, archiver>>
rowVars == <<live, payouts, events>>
reportVars == <<scan, report>>
retentionVars == <<today, rowVars, archiveVars, treasury, reportVars>>

RetentionTypeOK ==
  /\ today \in Day
  /\ live \in [Invoice -> Row \cup {NoRow}]
  /\ archived \in [Invoice -> Row \cup {NoRow}]
  /\ payouts \subseteq Invoice /\ archivedPayouts \subseteq Invoice
  /\ events \subseteq Event /\ archivedEvents \subseteq Event
  /\ archiver \in [Archiver -> SUBSET Invoice]
  /\ treasury \in Seq(Operation)
  /\ scan = Idle \/ scan \subseteq Operation
  /\ report \subseteq Operation

RetentionInit ==
  /\ today = 0
  /\ live = [i \in Invoice |-> NoRow] /\ archived = live
  /\ payouts = {} /\ archivedPayouts = {}
  /\ events = {} /\ archivedEvents = {}
  /\ archiver = [a \in Archiver |-> {}]
  /\ treasury = <<>>
  /\ scan = Idle /\ report = {}

-----------------------------------------------------------------------------
Exists(i) == live[i] # NoRow
Has(i, status) == Exists(i) /\ live[i].status = status
Used(i) == Exists(i) \/ archived[i] # NoRow

\* The answer of GET /api/invoices/{id}/status.
GetStatus(i) == IF Exists(i) THEN live[i].status ELSE "not found"

\* A bug this could have: a status the schema does not know.
NewRow_Open == [status |-> "open", hash |-> NoHash, paidOn |-> 0, settledOn |-> 0]

NewRow == [status |-> "pending", hash |-> NoHash, paidOn |-> 0, settledOn |-> 0]

\* create_invoice: an INSERT, and an UPDATE that adds the links for the buyer, which
\* are left out here.
CreateInvoice(i) ==
  /\ ~Used(i) /\ \A j \in Invoice : j < i => Used(j)
  /\ live' = [live EXCEPT ![i] = NewRow]
  /\ UNCHANGED <<today, payouts, events, archiveVars, treasury, reportVars>>

\* A buyer pays the treasury.
BuyerPays(h) ==
  /\ \A n \in DOMAIN treasury : treasury[n].hash # h
  /\ treasury' = Append(treasury, [hash |-> h, incoming |-> TRUE])
  /\ UNCHANGED <<today, rowVars, archiveVars, reportVars>>

\* The unique index on transaction_hash only knows the live table.
HashTaken(h) == \E i \in Invoice : Exists(i) /\ live[i].hash = h

\* mark_invoice_paid_and_queue_payout
MarkPaid(i, h) ==
  /\ Has(i, "pending")
  /\ [hash |-> h, incoming |-> TRUE] \in Range(treasury)
  /\ ~HashTaken(h)
  /\ live' = [live EXCEPT ![i] = [@ EXCEPT !.status = "paid", !.hash = h,
                                           !.paidOn = today]]
  /\ payouts' = payouts \cup {i}
  /\ events' = events \cup {[of |-> i, day |-> today]}
  /\ UNCHANGED <<today, archiveVars, treasury, reportVars>>

\* The payout of an invoice arrives, and markPayoutSettled records it.
MarkSettled(i) ==
  /\ Has(i, "paid")
  /\ live' = [live EXCEPT ![i] = [@ EXCEPT !.status = "settled",
                                           !.settledOn = today]]
  /\ events' = events \cup {[of |-> i, day |-> today]}
  /\ treasury' = Append(treasury, [hash |-> PayoutHash[i], incoming |-> FALSE])
  /\ UNCHANGED <<today, payouts, archiveVars, reportVars>>

NewDay ==
  /\ today < LastDay
  /\ today' = today + 1
  /\ UNCHANGED <<rowVars, archiveVars, treasury, reportVars>>

-----------------------------------------------------------------------------
(* GET /api/cron/archive: one transaction.  Its first statement deletes the*)
(* rows and inserts them elsewhere; the schema's ON DELETE CASCADE takes   *)
(* what refers to them; then it copies what is left of that.               *)

Eligible(i) == Has(i, "settled") /\ live[i].settledOn + ArchiveAfter < today

Moved(a) == archiver[a]

\* The DELETE waits for another run that holds one of its rows.  A run that finds
\* nothing changes nothing.
BeginArchive(a) ==
  LET ids == {i \in Invoice : Eligible(i)}
  IN /\ ParamAccepted
     /\ archiver[a] = {} /\ ids # {}
     /\ \A b \in Archiver : Moved(b) \cap ids = {}
     /\ archiver' = [archiver EXCEPT ![a] = ids]
     /\ UNCHANGED <<today, rowVars, archived, archivedPayouts, archivedEvents,
                    treasury, reportVars>>

\* What the transaction still sees of payouts and payment_events after the DELETE.
PayoutsAfterDelete(ids) == payouts \ ids
EventsAfterDelete(ids) == {e \in events : e.of \notin ids}

CommitArchive(a) ==
  LET ids == Moved(a)
  IN /\ ids # {}
     /\ live' = [i \in Invoice |-> IF i \in ids THEN NoRow ELSE live[i]]
     /\ archived' = [i \in Invoice |-> IF i \in ids THEN live[i] ELSE archived[i]]
     /\ payouts' = PayoutsAfterDelete(ids)
     /\ events' = EventsAfterDelete(ids)
     /\ archivedPayouts' = archivedPayouts \cup (PayoutsAfterDelete(ids) \cap ids)
     /\ archivedEvents' =
          archivedEvents \cup {e \in EventsAfterDelete(ids) : e.of \in ids}
     /\ archiver' = [archiver EXCEPT ![a] = {}]
     /\ UNCHANGED <<today, treasury, reportVars>>

\* A bug this could have: no transaction around the statements, and the rows
\* deleted before they are inserted.
ArchiverDies_NoTransaction(a) ==
  /\ Moved(a) # {}
  /\ live' = [i \in Invoice |-> IF i \in Moved(a) THEN NoRow ELSE live[i]]
  /\ archiver' = [archiver EXCEPT ![a] = {}]
  /\ UNCHANGED <<today, payouts, events, archived, archivedPayouts, archivedEvents,
                 treasury, reportVars>>

\* A statement fails or the connection goes: rollback.
ArchiverDies(a) ==
  /\ Moved(a) # {}
  /\ archiver' = [archiver EXCEPT ![a] = {}]
  /\ UNCHANGED <<today, rowVars, archived, archivedPayouts, archivedEvents,
                 treasury, reportVars>>

-----------------------------------------------------------------------------
\* retention_config, read at every run; 365 without a row.
RetainDays == IF RetentionRow = Missing THEN 365 ELSE RetentionRow

\* A bug this could have: one day too many is removed.
PurgePaymentEvents_OneDayMore ==
  /\ events' = {e \in events : e.day > today - RetainDays}
  /\ events' # events
  /\ UNCHANGED <<today, live, payouts, archiveVars, treasury, reportVars>>

\* GET /api/cron/purge-payment-events
PurgePaymentEvents ==
  /\ events' = {e \in events : e.day >= today - RetainDays}
  /\ events' # events
  /\ UNCHANGED <<today, live, payouts, archiveVars, treasury, reportVars>>

-----------------------------------------------------------------------------
(* GET /api/cron/orphan-payments: Horizon first, then the database.        *)

\* order=desc&limit=n, in both directions; those of another asset are filtered out
\* afterwards and are left out here.
RecentOperations ==
  {treasury[n] : n \in {k \in DOMAIN treasury : k > Len(treasury) - OrphanLimit}}

FetchTreasuryPayments ==
  /\ scan = Idle
  /\ scan' = RecentOperations
  /\ UNCHANGED <<today, rowVars, archiveVars, treasury, report>>

Known(op) == HashTaken(op.hash)

ReportOrphans ==
  /\ scan # Idle
  /\ report' = {op \in scan : ~Known(op)}
  /\ scan' = Idle
  /\ UNCHANGED <<today, rowVars, archiveVars, treasury>>

-----------------------------------------------------------------------------
RetentionNext ==
  \/ \E i \in Invoice :
       \/ CreateInvoice(i) \/ MarkSettled(i)
       \/ \E h \in Hash : MarkPaid(i, h)
  \/ \E h \in Hash : BuyerPays(h)
  \/ \E a \in Archiver : BeginArchive(a) \/ CommitArchive(a) \/ ArchiverDies(a)
  \/ PurgePaymentEvents
  \/ FetchTreasuryPayments \/ ReportOrphans
  \/ NewDay

RetentionSpec == RetentionInit /\ [][RetentionNext]_retentionVars

\* For the one question whether anything is archived at all: days pass, and somebody
\* calls the archive again and again, a run of which may be cut off, but not every
\* one.  Nothing in the repository schedules that call: vercel.json lists the two
\* crons of the Next.js application only.
RetentionFairness ==
  /\ WF_retentionVars(NewDay)
  /\ WF_retentionVars(\E a \in Archiver : BeginArchive(a))
  /\ \A a \in Archiver : SF_retentionVars(CommitArchive(a))

RetentionFairSpec == RetentionSpec /\ RetentionFairness

-----------------------------------------------------------------------------
\* The archive neither loses an invoice nor keeps it twice, nor takes one early,
\* whatever runs overlap or die: the status a buyer polls goes forward, and ends
\* only when a row of that very content is in the archive, the retention days
\* after its settlement.
StatusEndsInArchive ==
  [][\A i \in Invoice :
       GetStatus(i) # GetStatus(i)' =>
         \/ <<GetStatus(i), GetStatus(i)'>> \in
              {<<"not found", "pending">>, <<"pending", "paid">>, <<"paid", "settled">>}
              /\ archived[i] = NoRow
         \/ /\ GetStatus(i) = "settled" /\ GetStatus(i)' = "not found"
            /\ today > live[i].settledOn + ArchiveAfter
            /\ archived'[i] = live[i]]_retentionVars

\* Why: a row is live or archived and not both, and what an open archive transaction
\* has moved is its own and as old as it was when the DELETE found it.
OneRowEach == \A i \in Invoice : Exists(i) => archived[i] = NoRow

MovedAreEligible ==
  \A a \in Archiver :
    /\ \A i \in Moved(a) : Eligible(i)
    /\ \A b \in Archiver \ {a} : Moved(a) \cap Moved(b) = {}

RetentionInv == RetentionTypeOK /\ OneRowEach /\ MovedAreEligible

\* While an invoice is live and younger than the retention of payment_events, the
\* event that says it was paid is there, whatever else is purged or archived.
HistoryIsKept ==
  \A i \in Invoice :
    /\ Exists(i) /\ live[i].status # "pending"
    /\ today - live[i].paidOn <= (IF RetentionRow = Missing THEN 365 ELSE RetentionRow)
    => [of |-> i, day |-> live[i].paidOn] \in events

-----------------------------------------------------------------------------
(* What documents and comments say and the code does not do.               *)

\* A settled invoice is archived some time after its retention, if it was settled
\* early enough for the clock of the instance and the archive is called at all.
OldIsArchived ==
  \A i \in Invoice :
    Has(i, "settled") /\ live[i].settledOn + ArchiveAfter < LastDay ~>
      archived[i] # NoRow

\* What is archived of an invoice includes its payout.
PayoutIsArchivedToo ==
  \A i \in Invoice : archived[i] # NoRow => i \in archivedPayouts

\* One payment is named by one invoice, live or archived.
HashNamesOneInvoice ==
  \A i, j \in Invoice :
    Exists(i) /\ archived[j] # NoRow /\ live[i].hash # NoHash =>
      live[i].hash # archived[j].hash

\* An orphan payment is one no invoice names, live or archived.
NamedIsNoOrphan ==
  [][ReportOrphans =>
       \A op \in report', i \in Invoice :
         /\ Exists(i) => live[i].hash # op.hash
         /\ archived[i] # NoRow => archived[i].hash # op.hash]_retentionVars

\* An orphan payment is one that arrived.
OrphansArrived == \A op \in report : op.incoming
=============================================================================
