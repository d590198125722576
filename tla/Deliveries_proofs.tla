-------------------------- MODULE Deliveries_proofs --------------------------
(***************************************************************************)
(* The replay window of the Next.js webhook lets each id in once, for any  *)
(* window, any number of requests and any timing of the DELETEs that       *)
(* nobody waits for.                                                       *)
(***************************************************************************)
EXTENDS Deliveries, TLAPS

USE DeliveriesAssumption DEF deliveriesVars, requestVars

\* What a step does to the requests: one takes a message in, goes on or ends.
Places == {"idle", "record", "check", "read", "mark", "count"}

CallMoves(c, x) ==
  /\ call' = [call EXCEPT ![c] = x]
  /\ x \in [pc : Places, msg : Message \cup {NoMessage}, purging : BOOLEAN]
  /\ x.pc # "idle" => x.msg \in Message
  /\ x.pc = "record" => x.msg.id \in Id

LEMMA CallFields ==
  ASSUME DeliveriesTypeOK, NEW c \in Call
  PROVE  call[c] \in [pc : Places, msg : Message \cup {NoMessage}, purging : BOOLEAN]
BY DEF DeliveriesTypeOK, Places

LEMMA CallGoes ==
  ASSUME DeliveriesTypeOK, RequestsCarryMessages, NEW c \in Call, NEW pc \in Places,
         ~At(c, "idle"), pc # "record", Goto(c, pc)
  PROVE  \E x : CallMoves(c, x)
<1> DEFINE x == [call[c] EXCEPT !.pc = pc]
<1>1. Msg(c) \in Message
  BY DEF RequestsCarryMessages
<1>2. x \in [pc : Places, msg : Message \cup {NoMessage}, purging : BOOLEAN]
      /\ x.pc = pc /\ x.msg = Msg(c)
  BY CallFields DEF Msg
<1>3. call' = [call EXCEPT ![c] = x]
  BY DEF Goto, DeliveriesTypeOK
<1> HIDE DEF x
<1> QED
  BY <1>1, <1>2, <1>3 DEF CallMoves

LEMMA CallEnds ==
  ASSUME DeliveriesTypeOK, NEW c \in Call, Finish(c)
  PROVE  \E x : CallMoves(c, x)
<1> DEFINE x == [call[c] EXCEPT !.pc = "idle", !.msg = NoMessage]
<1>1. /\ x \in [pc : Places, msg : Message \cup {NoMessage}, purging : BOOLEAN]
      /\ x.pc = "idle"
  BY CallFields DEF Places
<1>2. call' = [call EXCEPT ![c] = x]
  BY DEF Finish, DeliveriesTypeOK
<1> HIDE DEF x
<1> QED
  BY <1>1, <1>2 DEF CallMoves

LEMMA DeliveriesSteps ==
  ASSUME DeliveriesInv, [DeliveriesNext]_deliveriesVars
  PROVE  UNCHANGED call \/ \E c \in Call : \E x : CallMoves(c, x)
<1> USE DEF DeliveriesInv
<1>1. ASSUME NEW c \in Call, NEW m \in Message, Deliver(c, m)
      PROVE  \E x : CallMoves(c, x)
  <2> DEFINE x == [pc |-> IF m.id = NoId THEN "check" ELSE "record",
                   msg |-> m, purging |-> m.id # NoId]
  <2>1. /\ x \in [pc : Places, msg : Message \cup {NoMessage}, purging : BOOLEAN]
        /\ x.msg = m /\ (x.pc = "record" => m.id \in Id)
    BY DEF Places
  <2>2. call' = [call EXCEPT ![c] = x]
    BY <1>1 DEF Deliver
  <2> HIDE DEF x
  <2> QED
    BY <2>1, <2>2 DEF CallMoves
<1>2. ASSUME NEW c \in Call, PurgeDeliveries(c) \/ PurgeFails(c)
      PROVE  \E x : CallMoves(c, x)
  <2> DEFINE x == [call[c] EXCEPT !.purging = FALSE]
  <2>1. /\ x \in [pc : Places, msg : Message \cup {NoMessage}, purging : BOOLEAN]
        /\ x.pc = call[c].pc /\ x.msg = call[c].msg
    BY CallFields
  <2>2. call' = [call EXCEPT ![c] = x]
    BY <1>2 DEF PurgeDeliveries, PurgeFails, DeliveriesTypeOK
  <2>3. /\ x.pc # "idle" => x.msg \in Message
        /\ x.pc = "record" => x.msg.id \in Id
    BY <2>1 DEF RequestsCarryMessages, At, Msg
  <2> HIDE DEF x
  <2> QED
    BY <2>1, <2>2, <2>3 DEF CallMoves
<1>3. ASSUME NEW c \in Call, CallStep(c) \/ CallDies(c)
      PROVE  \E x : CallMoves(c, x)
  <2>1. \/ Finish(c)
        \/ /\ ~At(c, "idle")
           /\ Goto(c, "check") \/ Goto(c, "read") \/ Goto(c, "mark") \/ Goto(c, "count")
    BY <1>3 DEF CallStep, CallDies, RecordDelivery, CheckHash, ReadInvoice, MarkPaid,
                CountResolved, At
  <2> QED
    BY <2>1, CallGoes, CallEnds DEF Places
<1> QED
  BY <1>1, <1>2, <1>3 DEF DeliveriesNext, ExpireInvoice, Tick

\* Ages stay ages.
LEMMA OlderIsAge ==
  ASSUME NEW age \in Age \cup {Never}
  PROVE  /\ Older(age) \in Age \cup {Never}
         /\ age = Never <=> Older(age) = Never
         /\ age \in Nat /\ age > ReplayWindow =>
              Older(age) \in Nat /\ Older(age) > ReplayWindow
BY DEF Older, Age

LEMMA RequestsCarryMessagesStep ==
  ASSUME DeliveriesInv, [DeliveriesNext]_deliveriesVars
  PROVE  /\ call' \in [Call -> [pc : Places, msg : Message \cup {NoMessage},
                                purging : BOOLEAN]]
         /\ RequestsCarryMessages'
<1> USE DEF DeliveriesInv
<1>0. call \in [Call -> [pc : Places, msg : Message \cup {NoMessage},
                         purging : BOOLEAN]]
  BY DEF DeliveriesTypeOK, Places
<1>1. CASE UNCHANGED call
  BY <1>0, <1>1 DEF RequestsCarryMessages, At, Msg
<1>2. ASSUME NEW c \in Call, NEW x, CallMoves(c, x)
      PROVE  /\ call' \in [Call -> [pc : Places, msg : Message \cup {NoMessage},
                                    purging : BOOLEAN]]
             /\ RequestsCarryMessages'
  <2>1. call' \in [Call -> [pc : Places, msg : Message \cup {NoMessage},
                            purging : BOOLEAN]]
    BY <1>0, <1>2 DEF CallMoves
  <2>2. ASSUME NEW d \in Call
        PROVE  /\ call'[d].pc # "idle" => call'[d].msg \in Message
               /\ call'[d].pc = "record" => call'[d].msg.id \in Id
    <3>1. CASE d = c
      <4>1. call'[d] = x
        BY <1>0, <1>2, <3>1 DEF CallMoves
      <4> QED
        BY <1>2, <4>1 DEF CallMoves
    <3>2. CASE d # c
      <4>1. call'[d] = call[d]
        BY <1>0, <1>2, <3>2 DEF CallMoves
      <4> QED
        BY <4>1 DEF RequestsCarryMessages, At, Msg
    <3> QED
      BY <3>1, <3>2
  <2> QED
    BY <2>1, <2>2 DEF RequestsCarryMessages, At, Msg
<1> QED
  BY <1>1, <1>2, DeliveriesSteps

\* What a step does to the rows of webhook_deliveries, and the history beside them.
LEMMA RowsStep ==
  ASSUME DeliveriesInv, [DeliveriesNext]_deliveriesVars
  PROVE  \/ UNCHANGED <<received, admitted>>
         \/ \E c \in Call :
              /\ At(c, "record") /\ received[Msg(c).id] = Never
              /\ received' = [received EXCEPT ![Msg(c).id] = 0]
              /\ admitted' = [admitted EXCEPT ![Msg(c).id] = 0]
              /\ Goto(c, "check")
         \/ /\ received' = [d \in Id |-> IF Expired(d) THEN Never ELSE received[d]]
            /\ UNCHANGED admitted
         \/ /\ received' = [d \in Id |-> Older(received[d])]
            /\ admitted' = [d \in Id |-> Older(admitted[d])]
            /\ UNCHANGED call
<1>1. CASE UNCHANGED deliveriesVars
  BY <1>1
<1>2. ASSUME NEW c \in Call, NEW m \in Message, Deliver(c, m)
      PROVE  UNCHANGED <<received, admitted>>
  BY <1>2 DEF Deliver
<1>3. ASSUME NEW c \in Call, CallStep(c), ~RecordDelivery(c)
      PROVE  UNCHANGED <<received, admitted>>
  BY <1>3 DEF CallStep, CheckHash, ReadInvoice, MarkPaid, CountResolved
<1>4. ASSUME NEW c \in Call, PurgeFails(c) \/ CallDies(c)
      PROVE  UNCHANGED <<received, admitted>>
  BY <1>4 DEF PurgeFails, CallDies
<1>5. ASSUME NEW i \in Invoice, ExpireInvoice(i)
      PROVE  UNCHANGED <<received, admitted>>
  BY <1>5 DEF ExpireInvoice
<1>6. ASSUME NEW c \in Call, RecordDelivery(c)
      PROVE  \/ UNCHANGED <<received, admitted>>
             \/ /\ At(c, "record") /\ received[Msg(c).id] = Never
                /\ received' = [received EXCEPT ![Msg(c).id] = 0]
                /\ admitted' = [admitted EXCEPT ![Msg(c).id] = 0]
                /\ Goto(c, "check")
  BY <1>6 DEF RecordDelivery
<1>7. ASSUME NEW c \in Call, PurgeDeliveries(c)
      PROVE  /\ received' = [d \in Id |-> IF Expired(d) THEN Never ELSE received[d]]
             /\ UNCHANGED admitted
  BY <1>7 DEF PurgeDeliveries
<1>8. CASE Tick
  BY <1>8 DEF Tick
<1> QED
  BY <1>1, <1>2, <1>3, <1>4, <1>5, <1>6, <1>7, <1>8, Zenon DEF DeliveriesNext

\* A row stays as old as the last admission of its id: the INSERT starts both ages
\* anew, only an INSERT that finds no row does so, and a row goes when it is past the
\* window, which the admission then is as well.
LEMMA RowsAreAdmissionsStep ==
  ASSUME DeliveriesInv, [DeliveriesNext]_deliveriesVars
  PROVE  /\ received' \in [Id -> Age \cup {Never}]
         /\ admitted' \in [Id -> Age \cup {Never}]
         /\ RowsAreAdmissions'
<1> USE DEF DeliveriesInv
<1>0. /\ received \in [Id -> Age \cup {Never}]
      /\ admitted \in [Id -> Age \cup {Never}]
      /\ 0 \in Age /\ Never \notin Age
  BY DEF DeliveriesTypeOK, Age
<1>1. CASE UNCHANGED <<received, admitted>>
  BY <1>0, <1>1 DEF RowsAreAdmissions
<1>2. ASSUME NEW c \in Call, At(c, "record"),
             received' = [received EXCEPT ![Msg(c).id] = 0],
             admitted' = [admitted EXCEPT ![Msg(c).id] = 0]
      PROVE  /\ received' \in [Id -> Age \cup {Never}]
             /\ admitted' \in [Id -> Age \cup {Never}]
             /\ RowsAreAdmissions'
  BY <1>0, <1>2 DEF RequestsCarryMessages, RowsAreAdmissions
<1>3. CASE /\ received' = [d \in Id |-> IF Expired(d) THEN Never ELSE received[d]]
           /\ UNCHANGED admitted
  BY <1>0, <1>3 DEF RowsAreAdmissions, Expired
<1>4. CASE /\ received' = [d \in Id |-> Older(received[d])]
           /\ admitted' = [d \in Id |-> Older(admitted[d])]
  <2>1. /\ received' \in [Id -> Age \cup {Never}]
        /\ admitted' \in [Id -> Age \cup {Never}]
    BY <1>0, <1>4, OlderIsAge
  <2>2. ASSUME NEW d \in Id
        PROVE  /\ received'[d] # Never => received'[d] = admitted'[d]
               /\ received'[d] = Never =>
                    admitted'[d] = Never \/ admitted'[d] > ReplayWindow
    <3>1. received'[d] = Older(received[d]) /\ admitted'[d] = Older(admitted[d])
      BY <1>4
    <3>2. CASE received[d] # Never
      BY <3>1, <3>2 DEF RowsAreAdmissions
    <3>3. CASE received[d] = Never
      <4>1. received'[d] = Never
        BY <3>1, <3>3 DEF Older
      <4>2. CASE admitted[d] = Never
        BY <3>1, <4>1, <4>2 DEF Older
      <4>3. CASE admitted[d] # Never
        <5>1. admitted[d] \in Nat /\ admitted[d] > ReplayWindow
          BY <1>0, <3>3, <4>3 DEF RowsAreAdmissions, Age
        <5> QED
          BY <1>0, <3>1, <4>1, <5>1, OlderIsAge
      <4> QED
        BY <4>2, <4>3
    <3> QED
      BY <3>2, <3>3
  <2> QED
    BY <2>1, <2>2 DEF RowsAreAdmissions
<1> QED
  BY <1>1, <1>2, <1>3, <1>4, RowsStep

\* The invoices, and the count of faults.
LEMMA InvoicesStep ==
  ASSUME DeliveriesInv, [DeliveriesNext]_deliveriesVars
  PROVE  /\ status' \in [Invoice -> {"pending", "paid", "expired"}]
         /\ hash' \in [Invoice -> Hash \cup {NoHash}]
         /\ faults' \in 0..MostFaults
<1> USE DEF DeliveriesInv
<1>1. ASSUME NEW c \in Call, MarkPaid(c)
      PROVE  /\ status' \in [Invoice -> {"pending", "paid", "expired"}]
             /\ hash' \in [Invoice -> Hash \cup {NoHash}]
             /\ UNCHANGED faults
  <2>1. Msg(c) \in Message
    BY <1>1 DEF MarkPaid, RequestsCarryMessages, At
  <2>2. Msg(c).of \in Invoice /\ Msg(c).hash \in Hash
    BY <2>1
  <2> QED
    BY <1>1, <2>2 DEF MarkPaid, DeliveriesTypeOK
<1>2. ASSUME NEW i \in Invoice, ExpireInvoice(i)
      PROVE  /\ status' \in [Invoice -> {"pending", "paid", "expired"}]
             /\ UNCHANGED <<hash, faults>>
  BY <1>2 DEF ExpireInvoice, DeliveriesTypeOK
<1>3. ASSUME NEW c \in Call, PurgeFails(c) \/ CallDies(c)
      PROVE  UNCHANGED <<status, hash>> /\ faults' \in 0..MostFaults
  <2>1. faults \in 0..MostFaults
    BY DEF DeliveriesTypeOK
  <2>2. UNCHANGED <<status, hash>> /\ faults < MostFaults /\ faults' = faults + 1
    BY <1>3 DEF PurgeFails, CallDies
  <2> QED
    BY <2>1, <2>2
<1>4. ASSUME NEW c \in Call, NEW m \in Message, Deliver(c, m)
      PROVE  UNCHANGED <<status, hash, faults>>
  BY <1>4 DEF Deliver
<1>5. ASSUME NEW c \in Call, CallStep(c), ~MarkPaid(c)
      PROVE  UNCHANGED <<status, hash, faults>>
  BY <1>5 DEF CallStep, RecordDelivery, CheckHash, ReadInvoice, CountResolved
<1>6. ASSUME NEW c \in Call, PurgeDeliveries(c)
      PROVE  UNCHANGED <<status, hash, faults>>
  BY <1>6 DEF PurgeDeliveries
<1>7. ASSUME UNCHANGED deliveriesVars \/ Tick
      PROVE  UNCHANGED <<status, hash, faults>>
  BY <1>7 DEF Tick
<1>8. /\ status \in [Invoice -> {"pending", "paid", "expired"}]
      /\ hash \in [Invoice -> Hash \cup {NoHash}]
      /\ faults \in 0..MostFaults
  BY DEF DeliveriesTypeOK
<1> QED
  BY <1>1, <1>2, <1>3, <1>4, <1>5, <1>6, <1>7, <1>8 DEF DeliveriesNext

LEMMA DeliveriesStart ==
  ASSUME DeliveriesInit
  PROVE  DeliveriesInv
BY DEF DeliveriesInit, DeliveriesInv, DeliveriesTypeOK, RequestsCarryMessages,
       RowsAreAdmissions, At, Msg, Age

LEMMA DeliveriesStep ==
  ASSUME DeliveriesInv, [DeliveriesNext]_deliveriesVars
  PROVE  DeliveriesInv'
<1>1. DeliveriesTypeOK'
  BY RequestsCarryMessagesStep, RowsAreAdmissionsStep, InvoicesStep
  DEF DeliveriesTypeOK, Places
<1> QED
  BY <1>1, RequestsCarryMessagesStep, RowsAreAdmissionsStep DEF DeliveriesInv

\* A row of webhook_deliveries is as old as the last admission of its id, and an id
\* without a row was admitted more than a window ago, if ever.
THEOREM DeliveriesInvariant == DeliveriesSpec => []DeliveriesInv
BY DeliveriesStart, DeliveriesStep, PTL DEF DeliveriesSpec

\* The model's variables keep their types.
THEOREM DeliveriesTypes == DeliveriesSpec => []DeliveriesTypeOK
<1>1. DeliveriesInv => DeliveriesTypeOK
  BY DEF DeliveriesInv
<1> QED
  BY <1>1, DeliveriesInvariant, PTL

\* Only recordDelivery takes a request from "record" to "check", and only without a row.
LEMMA AdmissionStep ==
  ASSUME DeliveriesInv, [DeliveriesNext]_deliveriesVars, NEW c \in Call,
         At(c, "record"), call'[c].pc = "check"
  PROVE  admitted[Msg(c).id] = Never \/ admitted[Msg(c).id] > ReplayWindow
<1> USE DEF DeliveriesInv
<1>0. call \in [Call -> [pc : Places, msg : Message \cup {NoMessage},
                         purging : BOOLEAN]]
  BY DEF DeliveriesTypeOK, Places
<1>1. Msg(c).id \in Id
  BY DEF RequestsCarryMessages
<1>2. received[Msg(c).id] = Never
  <2>1. ASSUME NEW e \in Call, e # c, NEW x, call' = [call EXCEPT ![e] = x]
        PROVE  call'[c].pc = "record"
    BY <1>0, <2>1 DEF At
  <2>2. ASSUME NEW e \in Call, e # c,
               Finish(e) \/ (\E pc \in Places : Goto(e, pc))
        PROVE  call'[c].pc = "record"
    BY <1>0, <2>2 DEF At, Finish, Goto
  <2>3. ASSUME NEW e \in Call, NEW m \in Message, Deliver(e, m)
        PROVE  call'[c].pc = "record"
    BY <1>0, <2>3, <2>1 DEF Deliver, At
  <2>4. ASSUME NEW e \in Call, PurgeDeliveries(e) \/ PurgeFails(e)
        PROVE  call'[c].pc = "record"
    BY <1>0, <2>4 DEF PurgeDeliveries, PurgeFails, At
  <2>5. ASSUME NEW e \in Call, e # c, CallStep(e) \/ CallDies(e)
        PROVE  call'[c].pc = "record"
    BY <2>2, <2>5 DEF CallStep, RecordDelivery, CheckHash, ReadInvoice, MarkPaid,
                      CountResolved, CallDies, Places
  <2>6. CASE CallDies(c)
    BY <1>0, <2>6 DEF CallDies, Finish
  <2>7. CASE CallStep(c)
    <3>1. RecordDelivery(c)
      BY <2>7 DEF CallStep, CheckHash, ReadInvoice, MarkPaid, CountResolved, At
    <3>2. Finish(c) => call'[c].pc = "idle"
      BY <1>0 DEF Finish
    <3> QED
      BY <3>1, <3>2 DEF RecordDelivery
  <2>8. CASE UNCHANGED call
    BY <2>8 DEF At
  <2>9. call'[c].pc # "record"
    OBVIOUS
  <2> QED
    BY <2>3, <2>4, <2>5, <2>6, <2>7, <2>8, <2>9 DEF DeliveriesNext, ExpireInvoice, Tick
<1> QED
  BY <1>1, <1>2 DEF RowsAreAdmissions

\* recordDelivery lets an id in once per replay window, whatever the requests and the
\* DELETEs of old ids do meanwhile.
THEOREM AdmittedOnce == DeliveriesSpec => WindowAdmitsOnce
<1>1. DeliveriesInv /\ [DeliveriesNext]_deliveriesVars =>
        [\A c \in Call :
           At(c, "record") /\ call'[c].pc = "check" =>
             LET age == admitted[Msg(c).id] IN age = Never \/ age > ReplayWindow]_deliveriesVars
  BY AdmissionStep
<1> QED
  BY <1>1, DeliveriesInvariant, PTL DEF DeliveriesSpec, WindowAdmitsOnce
=============================================================================
