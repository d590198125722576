---------------------------- MODULE MCDeliveries ----------------------------
(* A small instance of Deliveries for TLC.                                 *)
EXTENDS Deliveries

\* One payment under one id; another reported under an id and without one.
Messages ==
  {[id |-> "d1", of |-> 1, hash |-> "h1"], [id |-> "d2", of |-> 2, hash |-> "h2"],
   [id |-> NoId, of |-> 2, hash |-> "h2"]}
=============================================================================
