----------------------------- MODULE Deliveries -----------------------------
(***************************************************************************)
(* The Next.js webhook as the relay sees it: a delivery carries an id, a   *)
(* repeated id is refused for a time, and a relay that got no answer sends *)
(* again.  The id is recorded before the delivery is processed, and old    *)
(* ids are removed by a statement nobody waits for.  Ages are counted in   *)
(* ticks, up to one more than the window.                                  *)
(***************************************************************************)
EXTENDS Integers, FiniteSets

CONSTANTS
  Invoice, Hash, Id,
  Message,              \* what the relay has to say: [id, of, hash]
  Call,                 \* requests being served at once
  ReplayWindow,         \* WEBHOOK_REPLAY_WINDOW_SECS
  MostFaults,           \* bound: requests cut off and DELETEs lost
  NoId, NoHash, NoMessage, Never

ASSUME DeliveriesAssumption ==
  /\ Message \subseteq [id : Id \cup {NoId}, of : Invoice, hash : Hash]
  /\ ReplayWindow \in Nat /\ MostFaults \in Nat /\ Never \notin Nat
  /\ NoId \notin Id /\ NoHash \notin Hash /\ NoMessage \notin Message

VARIABLES
  status, hash,         \* by invoice
  received,             \* webhook_deliveries: the age of each id's row, or Never
  call,                 \* what each request is at; purging: its DELETE is under way
  admitted,             \* history: the age of the last admission of each id
  faults                \* how many there have been

requestVars == <<received, call, admitted>>
deliveriesVars == <<status, hash, requestVars, faults>>

Age == 0..(ReplayWindow + 1)

DeliveriesTypeOK ==
  /\ status \in [Invoice -> {"pending", "paid", "expired"}]
  /\ hash \in [Invoice -> Hash \cup {NoHash}]
  /\ received \in [Id -> Age \cup {Never}]
  /\ call \in [Call -> [pc : {"idle", "record", "check", "read", "mark", "count"},
                        msg : Message \cup {NoMessage}, purging : BOOLEAN]]
  /\ admitted \in [Id -> Age \cup {Never}]
  /\ faults \in 0..MostFaults

DeliveriesInit ==
  /\ status = [i \in Invoice |-> "pending"]
  /\ hash = [i \in Invoice |-> NoHash]
  /\ received = [d \in Id |-> Never] /\ admitted = received
  /\ call = [c \in Call |-> [pc |-> "idle", msg |-> NoMessage, purging |-> FALSE]]
  /\ faults = 0

-----------------------------------------------------------------------------
HashTaken(h) == \E i \in Invoice : hash[i] = h
Goto(c, pc) == call' = [call EXCEPT ![c].pc = pc]
Finish(c) == call' = [call EXCEPT ![c] = [@ EXCEPT !.pc = "idle", !.msg = NoMessage]]
At(c, pc) == call[c].pc = pc
Msg(c) == call[c].msg

\* An authorized POST arrives.  With an id, the DELETE of old ids starts here.
Deliver(c, m) ==
  /\ At(c, "idle") /\ ~call[c].purging
  /\ call' = [call EXCEPT ![c] =
       [pc |-> IF m.id = NoId THEN "check" ELSE "record",
        msg |-> m, purging |-> m.id # NoId]]
  /\ UNCHANGED <<status, hash, received, admitted, faults>>

\* A bug this could have: a duplicate that starts the window anew.
RecordDelivery_Refreshes(c) ==
  LET d == Msg(c).id IN
  /\ At(c, "record")
  /\ received' = [received EXCEPT ![d] = 0]
  /\ IF received[d] = Never
     THEN admitted' = [admitted EXCEPT ![d] = 0] /\ Goto(c, "check")
     ELSE Finish(c) /\ UNCHANGED admitted
  /\ UNCHANGED <<status, hash, faults>>

\* INSERT ... ON CONFLICT (delivery_id) DO NOTHING: without a row the delivery is a
\* duplicate.
RecordDelivery(c) ==
  LET d == Msg(c).id IN
  /\ At(c, "record")
  /\ IF received[d] = Never
     THEN /\ received' = [received EXCEPT ![d] = 0]
          /\ admitted' = [admitted EXCEPT ![d] = 0]
          /\ Goto(c, "check")
     ELSE /\ Finish(c)
          /\ UNCHANGED <<received, admitted>>
  /\ UNCHANGED <<status, hash, faults>>

\* A bug this could have: rows removed when they reach the age of the window.
Expired_Early(d) == received[d] \in Nat /\ received[d] >= ReplayWindow

Expired(d) == received[d] \in Nat /\ received[d] > ReplayWindow

\* DELETE ... WHERE received_at < NOW() - window, not awaited: before the INSERT or
\* long after it.
PurgeDeliveries(c) ==
  /\ call[c].purging
  /\ received' = [d \in Id |-> IF Expired(d) THEN Never ELSE received[d]]
  /\ call' = [call EXCEPT ![c].purging = FALSE]
  /\ UNCHANGED <<status, hash, admitted, faults>>

PurgeFails(c) ==
  /\ call[c].purging
  /\ faults < MostFaults /\ faults' = faults + 1
  /\ call' = [call EXCEPT ![c].purging = FALSE]
  /\ UNCHANGED <<status, hash, received, admitted>>

\* isTransactionHashAlreadyProcessed
CheckHash(c) ==
  /\ At(c, "check")
  /\ IF HashTaken(Msg(c).hash) THEN Finish(c) ELSE Goto(c, "read")
  /\ UNCHANGED <<status, hash, received, admitted, faults>>

\* getInvoiceByPublicId
ReadInvoice(c) ==
  /\ At(c, "read")
  /\ IF status[Msg(c).of] = "pending" THEN Goto(c, "mark") ELSE Finish(c)
  /\ UNCHANGED <<status, hash, received, admitted, faults>>

\* A bug this could have: the outcome written into the invoice.
MarkPaid_Resolved(c) ==
  /\ At(c, "mark")
  /\ status' = [status EXCEPT ![Msg(c).of] = IF @ = "pending" THEN "resolved" ELSE @]
  /\ Goto(c, "count")
  /\ UNCHANGED <<hash, received, admitted, faults>>

\* markInvoicePaid: an invoice that is not pending any more and a hash that is taken
\* by now change nothing and are no error.
MarkPaid(c) ==
  LET m == Msg(c) IN
  /\ At(c, "mark")
  /\ IF status[m.of] = "pending" /\ ~HashTaken(m.hash)
     THEN /\ status' = [status EXCEPT ![m.of] = "paid"]
          /\ hash' = [hash EXCEPT ![m.of] = m.hash]
     ELSE UNCHANGED <<status, hash>>
  /\ Goto(c, "count")
  /\ UNCHANGED <<received, admitted, faults>>

\* recordWebhookOutcome('resolved'), which counts or fails in silence.
CountResolved(c) ==
  /\ At(c, "count")
  /\ Finish(c)
  /\ UNCHANGED <<status, hash, received, admitted, faults>>

\* A request is cut off; its DELETE may still arrive.
CallDies(c) ==
  /\ ~At(c, "idle")
  /\ faults < MostFaults /\ faults' = faults + 1
  /\ Finish(c)
  /\ UNCHANGED <<status, hash, received, admitted>>

\* A reconcile run closes an overdue invoice.
ExpireInvoice(i) ==
  /\ status[i] = "pending"
  /\ status' = [status EXCEPT ![i] = "expired"]
  /\ UNCHANGED <<hash, requestVars, faults>>

Older(age) == IF age = Never \/ age = ReplayWindow + 1 THEN age ELSE age + 1

Tick ==
  /\ received' = [d \in Id |-> Older(received[d])]
  /\ admitted' = [d \in Id |-> Older(admitted[d])]
  /\ UNCHANGED <<status, hash, call, faults>>

CallStep(c) ==
  \/ RecordDelivery(c) \/ CheckHash(c) \/ ReadInvoice(c) \/ MarkPaid(c)
  \/ CountResolved(c)

DeliveriesNext ==
  \/ \E c \in Call :
       \/ \E m \in Message : Deliver(c, m)
       \/ CallStep(c) \/ PurgeDeliveries(c)
       \/ PurgeFails(c) \/ CallDies(c)
  \/ \E i \in Invoice : ExpireInvoice(i)
  \/ Tick

DeliveriesSpec == DeliveriesInit /\ [][DeliveriesNext]_deliveriesVars

\* Time passes, requests and DELETEs that are not cut off come to their end, and the
\* relay goes on sending what it has not seen applied.
DeliveriesFairness ==
  /\ WF_deliveriesVars(Tick)
  /\ \A c \in Call :
       WF_deliveriesVars(CallStep(c)) /\ WF_deliveriesVars(PurgeDeliveries(c))
  /\ \A m \in Message :
       SF_deliveriesVars(\E c \in Call : status[m.of] = "pending" /\ Deliver(c, m))

DeliveriesFairSpec == DeliveriesSpec /\ DeliveriesFairness

-----------------------------------------------------------------------------
\* Within the replay window an id is let in once, however its deliveries and the
\* DELETEs nobody waits for overlap.
WindowAdmitsOnce ==
  [][\A c \in Call :
       At(c, "record") /\ call'[c].pc = "check" =>
         LET age == admitted[Msg(c).id] IN age = Never \/ age > ReplayWindow]_deliveriesVars

\* Why: a row of webhook_deliveries is as old as the last admission of its id, and an
\* id without a row was admitted more than a window ago, if ever.
RequestsCarryMessages ==
  \A c \in Call :
    /\ ~At(c, "idle") => Msg(c) \in Message
    /\ At(c, "record") => Msg(c).id \in Id

RowsAreAdmissions ==
  \A d \in Id :
    /\ received[d] # Never => received[d] = admitted[d]
    /\ received[d] = Never => admitted[d] = Never \/ admitted[d] > ReplayWindow

DeliveriesInv == DeliveriesTypeOK /\ RequestsCarryMessages /\ RowsAreAdmissions

\* A relay that keeps sending under one id gets through in the end, though a run that
\* died has left the id behind and the retries within the window are refused.
RetriedIsApplied ==
  \A m \in Message : <>(status[m.of] # "pending" \/ HashTaken(m.hash))

\* What is refused as a duplicate was processed.
DuplicateWasProcessed ==
  [][\A c \in Call :
       At(c, "record") /\ call'[c].pc = "idle" /\ faults' = faults =>
         status[Msg(c).of] # "pending" \/ HashTaken(Msg(c).hash)]_deliveriesVars

\* A delivery is counted as "resolved" if its invoice is paid.
ResolvedIsPaid == \A c \in Call : At(c, "count") => status[Msg(c).of] = "paid"
=============================================================================
