-------------------------- MODULE Retention_proofs ---------------------------
(***************************************************************************)
(* What the archive, the purge of events and the orphan report do to the   *)
(* rows of an invoice, for any number of invoices, payments and runs, and  *)
(* any retention.                                                          *)
(***************************************************************************)
EXTENDS Retention, TLAPS

USE RetentionAssumption
    DEF retentionVars, archiveVars, rowVars, reportVars

\* What a step does to the row of an invoice: nothing, or one of four things.
Same(i) == live'[i] = live[i] /\ archived'[i] = archived[i]

Created(i) == ~Used(i) /\ live'[i] = NewRow /\ archived'[i] = archived[i]

Paid(i) ==
  \E h \in Hash :
    /\ Has(i, "pending") /\ archived'[i] = archived[i]
    /\ live'[i] = [live[i] EXCEPT !.status = "paid", !.hash = h, !.paidOn = today]

Settled(i) ==
  /\ Has(i, "paid") /\ archived'[i] = archived[i]
  /\ live'[i] = [live[i] EXCEPT !.status = "settled", !.settledOn = today]

Archived(i) ==
  /\ \E a \in Archiver : i \in Moved(a) /\ archiver' = [archiver EXCEPT ![a] = {}]
  /\ live'[i] = NoRow /\ archived'[i] = live[i]

LEMMA RowMoves ==
  ASSUME RetentionInv, [RetentionNext]_retentionVars, NEW i \in Invoice
  PROVE  \/ Same(i)
         \/ /\ Created(i) \/ Paid(i) \/ Settled(i)
            /\ UNCHANGED <<today, archiver>>
         \/ Archived(i) /\ UNCHANGED today
<1> USE DEF RetentionInv, RetentionTypeOK
<1>1. ASSUME NEW j \in Invoice, CreateInvoice(j)
      PROVE  Same(i) \/ (Created(i) /\ UNCHANGED <<today, archiver>>)
  BY <1>1 DEF CreateInvoice, Same, Created
<1>2. ASSUME NEW j \in Invoice, NEW h \in Hash, MarkPaid(j, h)
      PROVE  Same(i) \/ (Paid(i) /\ UNCHANGED <<today, archiver>>)
  <2>1. CASE i = j
    BY <1>2, <2>1 DEF MarkPaid, Paid
  <2>2. CASE i # j
    BY <1>2, <2>2 DEF MarkPaid, Same
  <2> QED
    BY <2>1, <2>2
<1>3. ASSUME NEW j \in Invoice, MarkSettled(j)
      PROVE  Same(i) \/ (Settled(i) /\ UNCHANGED <<today, archiver>>)
  <2>1. CASE i = j
    BY <1>3, <2>1 DEF MarkSettled, Settled
  <2>2. CASE i # j
    BY <1>3, <2>2 DEF MarkSettled, Same
  <2> QED
    BY <2>1, <2>2
<1>4. ASSUME NEW a \in Archiver, CommitArchive(a)
      PROVE  Same(i) \/ (Archived(i) /\ UNCHANGED today)
  BY <1>4 DEF CommitArchive, Same, Archived, Moved
<1>5. ASSUME NEW a \in Archiver, BeginArchive(a) \/ ArchiverDies(a)
      PROVE  Same(i)
  BY <1>5 DEF BeginArchive, ArchiverDies, Same
<1>6. ASSUME \/ NewDay \/ PurgePaymentEvents \/ FetchTreasuryPayments \/ ReportOrphans
             \/ (\E h \in Hash : BuyerPays(h)) \/ UNCHANGED retentionVars
      PROVE  Same(i)
  BY <1>6 DEF NewDay, PurgePaymentEvents, FetchTreasuryPayments, ReportOrphans,
              BuyerPays, Same
<1> QED
  BY <1>1, <1>2, <1>3, <1>4, <1>5, <1>6, Zenon DEF RetentionNext

\* A row of the right form is a row.
LEMMA RowForms ==
  ASSUME NEW r \in Row, NEW h \in Hash \cup {NoHash}, NEW d \in Day
  PROVE  /\ [r EXCEPT !.status = "paid", !.hash = h, !.paidOn = d] \in Row
         /\ [r EXCEPT !.status = "settled", !.settledOn = d] \in Row
         /\ r # NoRow
BY DEF Row

LEMMA NewRowIsRow == NewRow \in Row /\ NewRow # NoRow
BY DEF NewRow, Row, Day

\* The two tables keep their form.
LEMMA TablesStep ==
  ASSUME RetentionInv, [RetentionNext]_retentionVars
  PROVE  /\ live' \in [Invoice -> Row \cup {NoRow}]
         /\ archived' \in [Invoice -> Row \cup {NoRow}]
<1>0. /\ live \in [Invoice -> Row \cup {NoRow}]
      /\ archived \in [Invoice -> Row \cup {NoRow}]
      /\ today \in Day
  BY DEF RetentionInv, RetentionTypeOK
<1>1. ASSUME NEW i \in Invoice
      PROVE  live'[i] \in Row \cup {NoRow} /\ archived'[i] \in Row \cup {NoRow}
  <2>1. CASE Same(i)
    BY <1>0, <2>1 DEF Same
  <2>2. CASE Created(i)
    BY <1>0, <2>2, NewRowIsRow DEF Created
  <2>3. CASE Paid(i)
    <3>1. live[i] \in Row
      BY <1>0, <2>3 DEF Paid, Has, Exists
    <3> QED
      <4>1. PICK h \in Hash :
              live'[i] = [live[i] EXCEPT !.status = "paid", !.hash = h, !.paidOn = today]
        BY <2>3 DEF Paid
      <4>2. archived'[i] = archived[i]
        BY <2>3 DEF Paid
      <4>3. live'[i] \in Row
        BY <1>0, <3>1, <4>1 DEF Row
      <4> QED
        BY <1>0, <4>2, <4>3
  <2>4. CASE Settled(i)
    <3>1. live[i] \in Row
      BY <1>0, <2>4 DEF Settled, Has, Exists
    <3> QED
      BY <1>0, <2>4, <3>1, RowForms DEF Settled
  <2>5. CASE Archived(i)
    BY <1>0, <2>5 DEF Archived
  <2> QED
    BY <2>1, <2>2, <2>3, <2>4, <2>5, RowMoves
<1>2. live' = [i \in Invoice |-> live'[i]] /\ archived' = [i \in Invoice |-> archived'[i]]
  <2>1. ASSUME NEW i \in Invoice, NEW r, live' = [live EXCEPT ![i] = r]
        PROVE  live' = [j \in Invoice |-> live'[j]]
    BY <1>0, <2>1
  <2>2. ASSUME NEW i \in Invoice,
               CreateInvoice(i) \/ MarkSettled(i) \/ (\E h \in Hash : MarkPaid(i, h))
        PROVE  live' = [j \in Invoice |-> live'[j]] /\ UNCHANGED archived
    <3>1. CASE CreateInvoice(i)
      BY <2>1, <3>1 DEF CreateInvoice
    <3>2. CASE MarkSettled(i)
      BY <1>0, <3>2 DEF MarkSettled
    <3>3. CASE \E h \in Hash : MarkPaid(i, h)
      BY <1>0, <3>3 DEF MarkPaid
    <3> QED
      BY <2>2, <3>1, <3>2, <3>3
  <2>3. ASSUME NEW a \in Archiver, CommitArchive(a)
        PROVE  /\ live' = [j \in Invoice |-> live'[j]]
               /\ archived' = [j \in Invoice |-> archived'[j]]
    BY <2>3 DEF CommitArchive
  <2>4. ASSUME \/ \E a \in Archiver : BeginArchive(a) \/ ArchiverDies(a)
               \/ \E h \in Hash : BuyerPays(h)
               \/ NewDay \/ PurgePaymentEvents \/ FetchTreasuryPayments \/ ReportOrphans
               \/ UNCHANGED retentionVars
        PROVE  UNCHANGED <<live, archived>>
    BY <2>4 DEF BeginArchive, ArchiverDies, BuyerPays, NewDay, PurgePaymentEvents,
                FetchTreasuryPayments, ReportOrphans
  <2> QED
    BY <1>0, <2>2, <2>3, <2>4 DEF RetentionNext
<1> QED
  BY <1>1, <1>2

\* The rest keeps its type.
LEMMA RestStep ==
  ASSUME RetentionInv, [RetentionNext]_retentionVars
  PROVE  /\ today' \in Day
         /\ payouts' \subseteq Invoice /\ archivedPayouts' \subseteq Invoice
         /\ events' \subseteq Event /\ archivedEvents' \subseteq Event
         /\ archiver' \in [Archiver -> SUBSET Invoice]
         /\ scan' = Idle \/ scan' \subseteq Operation
         /\ report' \subseteq Operation
<1> USE DEF RetentionInv, RetentionTypeOK
<1> DEFINE Typed ==
      /\ today' \in Day
      /\ payouts' \subseteq Invoice /\ archivedPayouts' \subseteq Invoice
      /\ events' \subseteq Event /\ archivedEvents' \subseteq Event
      /\ archiver' \in [Archiver -> SUBSET Invoice]
      /\ scan' = Idle \/ scan' \subseteq Operation
      /\ report' \subseteq Operation
<1>1. ASSUME NEW i \in Invoice, CreateInvoice(i) PROVE Typed
  BY <1>1 DEF CreateInvoice
<1>2. ASSUME NEW i \in Invoice, MarkSettled(i) PROVE Typed
  BY <1>2 DEF MarkSettled, Event
<1>3. ASSUME NEW i \in Invoice, NEW h \in Hash, MarkPaid(i, h) PROVE Typed
  BY <1>3 DEF MarkPaid, Event
<1>4. ASSUME NEW h \in Hash, BuyerPays(h) PROVE Typed
  BY <1>4 DEF BuyerPays
<1>5. ASSUME NEW a \in Archiver, BeginArchive(a) PROVE Typed
  BY <1>5 DEF BeginArchive
<1>6. ASSUME NEW a \in Archiver, CommitArchive(a) PROVE Typed
  BY <1>6 DEF CommitArchive, PayoutsAfterDelete, EventsAfterDelete, Moved
<1>7. ASSUME NEW a \in Archiver, ArchiverDies(a) PROVE Typed
  BY <1>7 DEF ArchiverDies
<1>8. ASSUME PurgePaymentEvents PROVE Typed
  BY <1>8 DEF PurgePaymentEvents
<1>9. ASSUME FetchTreasuryPayments PROVE Typed
  <2>1. RecentOperations \subseteq Operation
    BY DEF RecentOperations, Range
  <2> QED
    BY <1>9, <2>1 DEF FetchTreasuryPayments
<1>10. ASSUME ReportOrphans PROVE Typed
  BY <1>10 DEF ReportOrphans
<1>11. ASSUME NewDay PROVE Typed
  BY <1>11 DEF NewDay, Day
<1>12. ASSUME UNCHANGED retentionVars PROVE Typed
  BY <1>12
<1> HIDE DEF Typed, RetentionInv, RetentionTypeOK
<1>13. Typed
  BY <1>1, <1>2, <1>3, <1>4, <1>5, <1>6, <1>7, <1>8, <1>9, <1>10, <1>11, <1>12, Zenon
  DEF RetentionNext
<1> QED
  BY <1>13 DEF Typed

\* The payments stay a sequence of operations.
LEMMA TreasuryStep ==
  ASSUME RetentionInv, [RetentionNext]_retentionVars
  PROVE  treasury' \in Seq(Operation)
<1>0. treasury \in Seq(Operation)
  BY DEF RetentionInv, RetentionTypeOK
<1>1. ASSUME NEW h \in Hash, BuyerPays(h)
      PROVE  treasury' \in Seq(Operation)
  <2>1. [hash |-> h, incoming |-> TRUE] \in Operation
    BY DEF Operation
  <2> QED
    BY <1>0, <1>1, <2>1 DEF BuyerPays
<1>2. ASSUME NEW i \in Invoice, MarkSettled(i)
      PROVE  treasury' \in Seq(Operation)
  <2>1. PayoutHash[i] \in Range(PayoutHash)
    BY DEF Range
  <2>2. [hash |-> PayoutHash[i], incoming |-> FALSE] \in Operation
    BY <2>1 DEF Operation
  <2> QED
    BY <1>0, <1>2, <2>2 DEF MarkSettled
<1>3. ASSUME NEW i \in Invoice, CreateInvoice(i) \/ (\E h \in Hash : MarkPaid(i, h))
      PROVE  UNCHANGED treasury
  BY <1>3 DEF CreateInvoice, MarkPaid
<1>4. ASSUME NEW a \in Archiver, BeginArchive(a) \/ CommitArchive(a) \/ ArchiverDies(a)
      PROVE  UNCHANGED treasury
  BY <1>4 DEF BeginArchive, CommitArchive, ArchiverDies
<1>5. ASSUME \/ NewDay \/ PurgePaymentEvents \/ FetchTreasuryPayments \/ ReportOrphans
             \/ UNCHANGED retentionVars
      PROVE  UNCHANGED treasury
  BY <1>5 DEF NewDay, PurgePaymentEvents, FetchTreasuryPayments, ReportOrphans
<1> QED
  BY <1>0, <1>1, <1>2, <1>3, <1>4, <1>5 DEF RetentionNext

\* A row is made where none is, and its place in the archive is filled as it goes.
LEMMA OneRowEachStep ==
  ASSUME RetentionInv, [RetentionNext]_retentionVars
  PROVE  OneRowEach'
<1> SUFFICES ASSUME NEW i \in Invoice, live'[i] # NoRow
             PROVE  archived'[i] = NoRow
  BY DEF OneRowEach, Exists
<1>1. OneRowEach
  BY DEF RetentionInv
<1> QED
  BY <1>1, RowMoves DEF OneRowEach, Exists, Same, Created, Paid, Settled, Archived, Has,
                        Used

\* What a step does to the archivers: one begins with rows nobody holds, or one ends.
LEMMA ArchiverMoves ==
  ASSUME RetentionInv, [RetentionNext]_retentionVars
  PROVE  \/ UNCHANGED archiver
         \/ \E a \in Archiver :
              /\ \A b \in Archiver : Moved(b) \cap {i \in Invoice : Eligible(i)} = {}
              /\ archiver' = [archiver EXCEPT ![a] = {i \in Invoice : Eligible(i)}]
              /\ UNCHANGED <<live, today>>
         \/ \E a \in Archiver : archiver' = [archiver EXCEPT ![a] = {}]
<1>1. ASSUME NEW i \in Invoice,
             CreateInvoice(i) \/ MarkSettled(i) \/ (\E h \in Hash : MarkPaid(i, h))
      PROVE  UNCHANGED archiver
  BY <1>1 DEF CreateInvoice, MarkSettled, MarkPaid
<1>2. ASSUME NEW a \in Archiver, CommitArchive(a) \/ ArchiverDies(a)
      PROVE  archiver' = [archiver EXCEPT ![a] = {}]
  BY <1>2 DEF CommitArchive, ArchiverDies
<1>3. ASSUME NEW a \in Archiver, BeginArchive(a)
      PROVE  /\ \A b \in Archiver : Moved(b) \cap {i \in Invoice : Eligible(i)} = {}
             /\ archiver' = [archiver EXCEPT ![a] = {i \in Invoice : Eligible(i)}]
             /\ UNCHANGED <<live, today>>
  BY <1>3 DEF BeginArchive
<1>4. ASSUME \/ NewDay \/ PurgePaymentEvents \/ FetchTreasuryPayments \/ ReportOrphans
             \/ (\E h \in Hash : BuyerPays(h)) \/ UNCHANGED retentionVars
      PROVE  UNCHANGED archiver
  BY <1>4 DEF NewDay, PurgePaymentEvents, FetchTreasuryPayments, ReportOrphans, BuyerPays
<1> QED
  BY <1>1, <1>2, <1>3, <1>4, Zenon DEF RetentionNext

\* No step turns the clock back.
LEMMA DaysStep ==
  ASSUME [RetentionNext]_retentionVars
  PROVE  today' = today \/ today' = today + 1
<1>1. ASSUME NEW i \in Invoice,
             CreateInvoice(i) \/ MarkSettled(i) \/ (\E h \in Hash : MarkPaid(i, h))
      PROVE  UNCHANGED today
  BY <1>1 DEF CreateInvoice, MarkSettled, MarkPaid
<1>2. ASSUME NEW a \in Archiver, BeginArchive(a) \/ CommitArchive(a) \/ ArchiverDies(a)
      PROVE  UNCHANGED today
  BY <1>2 DEF BeginArchive, CommitArchive, ArchiverDies
<1>3. ASSUME \/ PurgePaymentEvents \/ FetchTreasuryPayments \/ ReportOrphans
             \/ (\E h \in Hash : BuyerPays(h)) \/ UNCHANGED retentionVars
      PROVE  UNCHANGED today
  BY <1>3 DEF PurgePaymentEvents, FetchTreasuryPayments, ReportOrphans, BuyerPays
<1>4. NewDay => today' = today + 1
  BY DEF NewDay
<1> QED
  BY <1>1, <1>2, <1>3, <1>4, Zenon DEF RetentionNext

\* Only the run that has moved a row touches it.
LEMMA HeldRowsStand ==
  ASSUME RetentionInv, [RetentionNext]_retentionVars, NEW a \in Archiver,
         NEW i \in Moved(a), i \in Moved(a)'
  PROVE  live'[i] = live[i] /\ today' >= today
<1>0. /\ i \in Invoice /\ Has(i, "settled") /\ today \in Nat
      /\ archiver \in [Archiver -> SUBSET Invoice]
  BY DEF RetentionInv, RetentionTypeOK, MovedAreEligible, Eligible, Moved, Day
<1>1. ~Created(i) /\ ~Paid(i) /\ ~Settled(i)
  BY <1>0 DEF Created, Paid, Settled, Has, Used
<1>2. ~Archived(i)
  <2> SUFFICES ASSUME NEW b \in Archiver, i \in Moved(b),
                      archiver' = [archiver EXCEPT ![b] = {}]
               PROVE  FALSE
    BY DEF Archived
  <2>1. b = a
    BY <1>0 DEF RetentionInv, MovedAreEligible
  <2> QED
    BY <1>0, <2>1 DEF Moved
<1>3. today' >= today
  BY <1>0, DaysStep
<1> QED
  BY <1>0, <1>1, <1>2, <1>3, RowMoves DEF Same

LEMMA MovedAreEligibleStep ==
  ASSUME RetentionInv, [RetentionNext]_retentionVars
  PROVE  MovedAreEligible'
<1>0. /\ archiver \in [Archiver -> SUBSET Invoice]
      /\ live \in [Invoice -> Row \cup {NoRow}]
      /\ today \in Nat /\ today' \in Nat
  BY RestStep DEF RetentionInv, RetentionTypeOK, Day
<1>1. /\ \A a \in Archiver : \A i \in Moved(a) : Eligible(i)
      /\ \A a \in Archiver : \A b \in Archiver \ {a} : Moved(a) \cap Moved(b) = {}
  BY DEF RetentionInv, MovedAreEligible
<1>2. ASSUME NEW a \in Archiver, NEW i \in Moved(a), i \in Moved(a)'
      PROVE  Eligible(i)'
  <2>1. Eligible(i)
    BY <1>1
  <2>2. live'[i] = live[i] /\ today' >= today
    BY <1>2, HeldRowsStand
  <2>3. live[i] \in Row
    BY <1>0, <1>2, <2>1 DEF Eligible, Has, Exists, Moved
  <2>4. live[i].settledOn \in Nat
    BY <2>3 DEF Row, Day
  <2> QED
    BY <1>0, <2>1, <2>2, <2>4 DEF Eligible, Has, Exists
<1>3. CASE \/ UNCHANGED archiver
           \/ \E a \in Archiver : archiver' = [archiver EXCEPT ![a] = {}]
  <2>1. ASSUME NEW a \in Archiver
        PROVE  Moved(a)' \subseteq Moved(a)
    BY <1>0, <1>3 DEF Moved
  <2>2. \A a \in Archiver : \A i \in Moved(a)' : Eligible(i)'
    BY <1>2, <2>1
  <2>3. \A a \in Archiver : \A b \in Archiver \ {a} : Moved(a)' \cap Moved(b)' = {}
    BY <1>1, <2>1
  <2> QED
    BY <2>2, <2>3 DEF MovedAreEligible
<1>4. ASSUME NEW a \in Archiver,
             \A b \in Archiver : Moved(b) \cap {i \in Invoice : Eligible(i)} = {},
             archiver' = [archiver EXCEPT ![a] = {i \in Invoice : Eligible(i)}],
             UNCHANGED <<live, today>>
      PROVE  MovedAreEligible'
  <2>1. /\ Moved(a)' = {i \in Invoice : Eligible(i)}
        /\ \A b \in Archiver \ {a} : Moved(b)' = Moved(b)
    BY <1>0, <1>4 DEF Moved
  <2>2. \A i \in Invoice : Eligible(i)' = Eligible(i)
    BY <1>4 DEF Eligible, Has, Exists
  <2>3. \A b \in Archiver : \A i \in Moved(b)' : Eligible(i)'
    BY <1>0, <1>1, <2>1, <2>2 DEF Moved
  <2>4. \A b \in Archiver : \A c \in Archiver \ {b} : Moved(b)' \cap Moved(c)' = {}
    BY <1>1, <1>4, <2>1
  <2> QED
    BY <2>3, <2>4 DEF MovedAreEligible
<1> QED
  BY <1>3, <1>4, ArchiverMoves

LEMMA RetentionStart ==
  ASSUME RetentionInit
  PROVE  RetentionInv
BY DEF RetentionInit, RetentionInv, RetentionTypeOK, OneRowEach, MovedAreEligible, Moved,
       Exists, Day

LEMMA RetentionStep ==
  ASSUME RetentionInv, [RetentionNext]_retentionVars
  PROVE  RetentionInv'
BY TablesStep, RestStep, TreasuryStep, OneRowEachStep, MovedAreEligibleStep
DEF RetentionInv, RetentionTypeOK

-----------------------------------------------------------------------------
\* A row is live or archived and not both, and what an open archive transaction has
\* moved is its own and old enough.
THEOREM RetentionInvariant == RetentionSpec => []RetentionInv
BY RetentionStart, RetentionStep, PTL DEF RetentionSpec

\* The model's variables keep their types.
THEOREM RetentionTypes == RetentionSpec => []RetentionTypeOK
<1>1. RetentionInv => RetentionTypeOK
  BY DEF RetentionInv
<1> QED
  BY <1>1, RetentionInvariant, PTL

\* What a change of the answer of GET /api/invoices/{id}/status tells.
LEMMA AnswersStep ==
  ASSUME RetentionInv, [RetentionNext]_retentionVars, NEW i \in Invoice,
         GetStatus(i) # GetStatus(i)'
  PROVE  \/ <<GetStatus(i), GetStatus(i)'>> \in
              {<<"not found", "pending">>, <<"pending", "paid">>, <<"paid", "settled">>}
            /\ archived[i] = NoRow
         \/ /\ GetStatus(i) = "settled" /\ GetStatus(i)' = "not found"
            /\ today > live[i].settledOn + ArchiveAfter
            /\ archived'[i] = live[i]
<1>0. /\ live[i] \in Row \cup {NoRow} /\ today \in Nat /\ today \in Day
      /\ Exists(i) => archived[i] = NoRow
      /\ \A a \in Archiver : i \in Moved(a) => Eligible(i)
  BY DEF RetentionInv, RetentionTypeOK, OneRowEach, MovedAreEligible, Day
<1>1. ~Same(i)
  BY DEF Same, GetStatus, Exists
<1>2. CASE Created(i)
  <2>1. GetStatus(i) = "not found" /\ archived[i] = NoRow
    BY <1>2 DEF Created, Used, GetStatus
  <2>2. GetStatus(i)' = "pending"
    BY <1>2, NewRowIsRow DEF Created, GetStatus, Exists, NewRow
  <2> QED
    BY <2>1, <2>2
<1>3. CASE Paid(i)
  <2>1. GetStatus(i) = "pending" /\ live[i] \in Row /\ archived[i] = NoRow
    BY <1>0, <1>3 DEF Paid, Has, GetStatus, Exists
  <2>2. PICK h \in Hash :
          live'[i] = [live[i] EXCEPT !.status = "paid", !.hash = h, !.paidOn = today]
    BY <1>3 DEF Paid
  <2>3. live'[i] \in Row /\ live'[i].status = "paid"
    BY <1>0, <2>1, <2>2 DEF Row
  <2>4. GetStatus(i)' = "paid"
    BY <2>3 DEF GetStatus, Exists
  <2> QED
    BY <2>1, <2>4
<1>4. CASE Settled(i)
  <2>1. GetStatus(i) = "paid" /\ live[i] \in Row /\ archived[i] = NoRow
    BY <1>0, <1>4 DEF Settled, Has, GetStatus, Exists
  <2>2. live'[i] \in Row /\ live'[i].status = "settled"
    BY <1>0, <1>4, <2>1 DEF Settled, Row
  <2>3. GetStatus(i)' = "settled"
    BY <2>2 DEF GetStatus, Exists
  <2> QED
    BY <2>1, <2>3
<1>5. CASE Archived(i)
  <2>1. Eligible(i)
    BY <1>0, <1>5 DEF Archived
  <2>2. GetStatus(i) = "settled" /\ live[i] \in Row
    BY <1>0, <2>1 DEF Eligible, Has, GetStatus, Exists
  <2>3. live[i].settledOn \in Nat
    BY <2>2 DEF Row, Day
  <2>4. today > live[i].settledOn + ArchiveAfter
    BY <1>0, <2>1, <2>3 DEF Eligible
  <2>5. GetStatus(i)' = "not found" /\ archived'[i] = live[i]
    BY <1>5 DEF Archived, GetStatus, Exists
  <2> QED
    BY <2>2, <2>4, <2>5
<1> QED
  BY <1>1, <1>2, <1>3, <1>4, <1>5, RowMoves

\* The archive neither loses an invoice nor keeps it twice, nor takes one early,
\* whatever runs overlap or die: the status a buyer polls goes forward, and ends only
\* when a row of that content is in the archive.
THEOREM ArchiveKeepsRows == RetentionSpec => StatusEndsInArchive
<1>1. RetentionInv /\ [RetentionNext]_retentionVars =>
        [\A i \in Invoice :
           GetStatus(i) # GetStatus(i)' =>
             \/ <<GetStatus(i), GetStatus(i)'>> \in
                  {<<"not found", "pending">>, <<"pending", "paid">>,
                   <<"paid", "settled">>}
                /\ archived[i] = NoRow
             \/ /\ GetStatus(i) = "settled" /\ GetStatus(i)' = "not found"
                /\ today > live[i].settledOn + ArchiveAfter
                /\ archived'[i] = live[i]]_retentionVars
  BY AnswersStep
<1> QED
  BY <1>1, RetentionInvariant, PTL DEF RetentionSpec, StatusEndsInArchive

\* Nothing but the purge, which keeps the young ones, and the archive, which takes the
\* row along, removes an event.
LEMMA EventsStand ==
  ASSUME RetentionInv, [RetentionNext]_retentionVars, NEW e \in events,
         today - e.day <= RetainDays, e.of \in Invoice, live'[e.of] # NoRow
  PROVE  e \in events'
<1>0. today \in Int /\ e.day \in Int /\ RetainDays \in Int
  <2>1. events \subseteq Event /\ today \in Day
    BY DEF RetentionInv, RetentionTypeOK
  <2> QED
    BY <2>1 DEF Event, Day, RetainDays
<1>1. ASSUME NEW i \in Invoice, CreateInvoice(i)
      PROVE  e \in events'
  BY <1>1 DEF CreateInvoice
<1>2. ASSUME NEW i \in Invoice, MarkSettled(i) \/ (\E h \in Hash : MarkPaid(i, h))
      PROVE  e \in events'
  BY <1>2 DEF MarkSettled, MarkPaid
<1>3. ASSUME NEW a \in Archiver, BeginArchive(a) \/ ArchiverDies(a)
      PROVE  e \in events'
  BY <1>3 DEF BeginArchive, ArchiverDies
<1>4. ASSUME NEW a \in Archiver, CommitArchive(a)
      PROVE  e \in events'
  BY <1>4 DEF CommitArchive, EventsAfterDelete
<1>5. CASE PurgePaymentEvents
  BY <1>0, <1>5 DEF PurgePaymentEvents
<1>6. ASSUME \/ NewDay \/ FetchTreasuryPayments \/ ReportOrphans
             \/ (\E h \in Hash : BuyerPays(h)) \/ UNCHANGED retentionVars
      PROVE  e \in events'
  BY <1>6 DEF NewDay, FetchTreasuryPayments, ReportOrphans, BuyerPays
<1> QED
  BY <1>1, <1>2, <1>3, <1>4, <1>5, <1>6 DEF RetentionNext

LEMMA HistoryStep ==
  ASSUME RetentionInv, HistoryIsKept, [RetentionNext]_retentionVars
  PROVE  HistoryIsKept'
<1> DEFINE kept == IF RetentionRow = Missing THEN 365 ELSE RetentionRow
           event(i) == [of |-> i, day |-> live[i].paidOn]
<1> SUFFICES ASSUME NEW i \in Invoice, live'[i] # NoRow, live'[i].status # "pending",
                    today' - live'[i].paidOn <= kept
             PROVE  [of |-> i, day |-> live'[i].paidOn] \in events'
  BY DEF HistoryIsKept, Exists
<1>0. /\ live[i] \in Row \cup {NoRow} /\ today \in Day /\ today \in Int /\ kept \in Int
      /\ today' = today \/ today' = today + 1
  BY DaysStep DEF RetentionInv, RetentionTypeOK, Day
<1>1. CASE live'[i].paidOn = live[i].paidOn /\ Exists(i) /\ live[i].status # "pending"
  <2>1. live[i].paidOn \in Int
    BY <1>0, <1>1 DEF Exists, Row, Day
  <2>2. today - live[i].paidOn <= kept
    BY <1>0, <1>1, <2>1
  <2>3. event(i) \in events
    BY <1>1, <2>2 DEF HistoryIsKept
  <2>4. event(i) \in events'
    BY <2>2, <2>3, EventsStand DEF RetainDays
  <2> QED
    BY <1>1, <2>4
<1>2. CASE Same(i)
  BY <1>1, <1>2 DEF Same, Exists
<1>3. CASE Settled(i)
  <2>1. live[i] \in Row /\ live[i].status = "paid"
    BY <1>0, <1>3 DEF Settled, Has, Exists
  <2>2. live'[i].paidOn = live[i].paidOn
    BY <1>3, <2>1 DEF Settled, Row
  <2> QED
    BY <1>1, <2>1, <2>2 DEF Exists
<1>4. ~Created(i)
  BY DEF Created, NewRow
<1>5. ~Archived(i)
  BY DEF Archived
<1>6. CASE ~Same(i) /\ Paid(i)
  <2>1. PICK h \in Hash : MarkPaid(i, h)
    <3>1. live[i].status = "pending" /\ Exists(i)
      BY <1>6 DEF Paid, Has
    <3>2. ASSUME NEW j \in Invoice, CreateInvoice(j) \/ MarkSettled(j)
          PROVE  FALSE
      <4>1. CASE j = i
        BY <3>1, <3>2, <4>1 DEF CreateInvoice, MarkSettled, Has, Used
      <4>2. CASE j # i
        BY <1>6, <3>2, <4>2 DEF CreateInvoice, MarkSettled, Same, RetentionInv,
                                RetentionTypeOK
      <4> QED
        BY <4>1, <4>2
    <3>3. ASSUME NEW a \in Archiver, CommitArchive(a)
          PROVE  FALSE
      BY <1>6, <3>3 DEF CommitArchive, Same
    <3>4. ASSUME \/ \E a \in Archiver : BeginArchive(a) \/ ArchiverDies(a)
                 \/ NewDay \/ PurgePaymentEvents \/ FetchTreasuryPayments
                 \/ ReportOrphans \/ (\E h \in Hash : BuyerPays(h))
                 \/ UNCHANGED retentionVars
          PROVE  FALSE
      BY <1>6, <3>4 DEF BeginArchive, ArchiverDies, NewDay, PurgePaymentEvents,
         FetchTreasuryPayments, ReportOrphans, BuyerPays, Same
    <3>5. ASSUME NEW j \in Invoice, NEW h \in Hash, MarkPaid(j, h)
          PROVE  j = i
      BY <1>6, <3>5 DEF MarkPaid, Same, RetentionInv, RetentionTypeOK
    <3> QED
      BY <3>2, <3>3, <3>4, <3>5 DEF RetentionNext
  <2>2. live'[i].paidOn = today
    <3>1. live[i] \in Row
      BY <1>0, <1>6 DEF Paid, Has, Exists
    <3>2. live'[i] = [live[i] EXCEPT !.status = "paid", !.hash = h, !.paidOn = today]
      BY <2>1 DEF MarkPaid, RetentionInv, RetentionTypeOK
    <3> QED
      BY <3>1, <3>2 DEF Row
  <2> QED
    BY <2>1, <2>2 DEF MarkPaid
<1> QED
  BY <1>2, <1>3, <1>4, <1>5, <1>6, RowMoves

\* While an invoice is live and younger than the retention of payment_events, the event
\* that says it was paid is there, whatever else is purged or archived.
THEOREM HistoryStands == RetentionSpec => []HistoryIsKept
<1>1. RetentionInit => HistoryIsKept
  BY DEF RetentionInit, HistoryIsKept, Exists
<1> QED
  BY <1>1, HistoryStep, RetentionInvariant, PTL DEF RetentionSpec
=============================================================================
