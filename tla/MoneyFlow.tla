----------------------------- MODULE MoneyFlow -----------------------------
(***************************************************************************)
(* What ASTROpay promises about one buyer's money, whatever services,      *)
(* crons, webhooks and operators do: an invoice is accepted or expires,    *)
(* once; the merchant of an accepted invoice is sent the money by one      *)
(* transaction at a time, and by no other once one has arrived; the        *)
(* invoice is called settled only after that.  Whether anything is ever    *)
(* sent, or called settled, is not promised.                               *)
(***************************************************************************)
CONSTANTS Invoice, Tx

VARIABLES
  book,                 \* what the books say of each invoice
  moving, arrived       \* its transfers in the network, and those executed

moneyVars == <<book, moving, arrived>>

Init ==
  /\ book = [i \in Invoice |-> "pending"]
  /\ moving = [i \in Invoice |-> {}]
  /\ arrived = [i \in Invoice |-> {}]

Book(i, from, to) ==
  /\ book[i] = from
  /\ book' = [book EXCEPT ![i] = to]
  /\ UNCHANGED <<moving, arrived>>

Accept(i) == Book(i, "pending", "paid")
Expire(i) == Book(i, "pending", "expired")
Settle(i) == arrived[i] # {} /\ Book(i, "paid", "settled")

Send(i, t) ==
  /\ book[i] = "paid"
  /\ moving[i] = {} /\ arrived[i] = {}
  /\ moving' = [moving EXCEPT ![i] = {t}]
  /\ UNCHANGED <<book, arrived>>

Fail(i, t) ==
  /\ t \in moving[i]
  /\ moving' = [moving EXCEPT ![i] = @ \ {t}]
  /\ UNCHANGED <<book, arrived>>

Arrive(i, t) ==
  /\ t \in moving[i]
  /\ moving' = [moving EXCEPT ![i] = @ \ {t}]
  /\ arrived' = [arrived EXCEPT ![i] = @ \cup {t}]
  /\ UNCHANGED book

Next ==
  \E i \in Invoice :
    \/ Accept(i) \/ Expire(i) \/ Settle(i)
    \/ \E t \in Tx : Send(i, t) \/ Fail(i, t) \/ Arrive(i, t)

Spec == Init /\ [][Next]_moneyVars
=============================================================================
