---------------------------- MODULE MCSettlement ----------------------------
(* Small instances of Settlement for TLC.                                  *)
EXTENDS SettleRules, TLC

\* Slots of a kind are interchangeable, and so are the transactions; invoices
\* are not, for the settle cron takes them in the order of created_at.
Symmetry ==
  Permutations(Settler) \cup Permutations(Confirmer) \cup Permutations(Tx)
=============================================================================
