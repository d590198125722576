---------------------------- MODULE MCRetention -----------------------------
(* Small instances of Retention for TLC.                                   *)
EXTENDS Retention, TLC

PayoutHashes == <<"p1", "p2">>

\* Payments are interchangeable, and so are the slots of archive runs.
Symmetry == Permutations(Hash) \cup Permutations(Archiver)
=============================================================================
