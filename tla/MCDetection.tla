---------------------------- MODULE MCDetection -----------------------------
(* Small instances of Detection for TLC.                                   *)
EXTENDS Detection, TLC

\* Every invoice has a price of its own, or all have the same.
DistinctPrices == [i \in Invoice |-> 10 * i]
EqualPrices    == [i \in Invoice |-> 10]

\* What the buyer of each invoice is asked to send.
Exact(price) ==
  {[memo |-> i, amount |-> price[i], usdc |-> TRUE] : i \in Invoice}

ExactDistinct == Exact(DistinctPrices)
ExactEqual    == Exact(EqualPrices)

\* Somebody also sends the amount of invoice 1 in some other asset.
WithOtherAsset ==
  ExactDistinct \cup {[memo |-> 1, amount |-> 10, usdc |-> FALSE]}

\* Concurrent deliveries are interchangeable.
Symmetry == Permutations(Hook)
=============================================================================
