--------------------------- MODULE MCPaymentFlow ---------------------------
(* A small instance of PaymentFlow for TLC.                                *)
EXTENDS PaymentFlow, TLC

\* Two invoices of the same amount: only the memo tells their payments apart.
Prices == [i \in Invoice |-> 10]

\* What the buyer of each invoice is asked to send.
Exact == {[memo |-> i, amount |-> Prices[i], usdc |-> TRUE] : i \in Invoice}

Symmetry == Permutations(Tx) \cup Permutations(Hook) \cup Permutations(Settler)
=============================================================================
