---------------------------- MODULE MCDeployment ----------------------------
(* A small instance of Deployment for TLC.                                 *)
EXTENDS Deployment

\* 001_init, 007_invoice_transaction_hash_unique, 016_invoice_public_id_format;
\* 017_invoice_paid_at_not_before_created_at refuses the paid rows as 016 does;
\* 018_business_name_constraint says ADD CONSTRAINT IF NOT EXISTS, which Postgres
\* does not accept.
Files == {1, 7, 16, 18}

\* A pending and a paid invoice of the first demo merchant, a paid one of the second:
\* no public_id has the format 016 asks for, and both paid ones name the same hash.
Rows ==
  {[no |-> 1, hash |-> NoHash, breaks |-> {16}],
   [no |-> 2, hash |-> "aaaa", breaks |-> {16}],
   [no |-> 3, hash |-> "aaaa", breaks |-> {16}]}
=============================================================================
