----------------------------- MODULE Deployment -----------------------------
(***************************************************************************)
(* Bringing a database up: the migration runner of the Rust service (one   *)
(* transaction per file under an advisory lock), that of the Next.js       *)
(* application (no lock), both over the same files and the same table      *)
(* schema_migrations, and the seed program.  A runner is one run of a      *)
(* deploy; runs overlap and may be killed.                                 *)
(***************************************************************************)
EXTENDS Integers, FiniteSets

CONSTANTS
  RustRunner, NextRunner, Seeder,
  Migration,            \* the files, numbered in the order of their names
  Broken,               \* files whose SQL Postgres does not accept
  BaseSchema,           \* the file that creates merchants and invoices
  HashIndex,            \* the file that makes invoices.transaction_hash unique
  Merchant,             \* the demo merchants of the seed
  Demo,                 \* its invoices: [no, hash, breaks], breaks the files whose
                        \* CHECK the row violates; inserted in the order of no
  NoHash, Free

ASSUME DeploymentAssumption ==
  /\ Migration \subseteq Nat
  /\ {BaseSchema, HashIndex} \subseteq Migration
  /\ RustRunner \cap NextRunner = {}
  /\ Free \notin RustRunner
  /\ \A row \in Demo : row.no \in Nat

VARIABLES
  tableExists,          \* does schema_migrations exist?
  appliedBy,            \* schema_migrations.applied_by, "none" without a row
  effects,              \* history: how often the SQL of a file was committed
  lock,                 \* who holds pg_advisory_xact_lock
  runner, seeder,
  merchants, invoices   \* the demo rows there are

schemaVars == <<tableExists, appliedBy, effects, lock>>
dataVars   == <<merchants, invoices>>
deploymentVars == <<schemaVars, dataVars, runner, seeder>>

Runner == RustRunner \cup NextRunner
Applied == {m \in Migration : appliedBy[m] # "none"}

FirstFile(files) == CHOOSE m \in files : \A n \in files : m <= n
FirstRow(rows)   == CHOOSE r \in rows : \A q \in rows : r.no <= q.no

DeploymentTypeOK ==
  /\ tableExists \in BOOLEAN
  /\ appliedBy \in [Migration -> {"none", "rust", "nextjs"}]
  /\ effects \in [Migration -> Nat]
  /\ lock \in RustRunner \cup {Free}
  /\ runner \in [Runner ->
       [pc : {"start", "creating", "next", "locked", "apply",
              "raced", "collided", "rejected", "killed"},
        todo : SUBSET Migration]]
  /\ seeder \in [Seeder ->
       [pc : {"idle", "merchants", "invoices", "failed"},
        todo : (SUBSET Merchant) \cup (SUBSET Demo)]]
  /\ merchants \subseteq Merchant
  /\ invoices \subseteq Demo

DeploymentInit ==
  /\ tableExists = FALSE
  /\ appliedBy = [m \in Migration |-> "none"]
  /\ effects = [m \in Migration |-> 0]
  /\ lock = Free
  /\ runner = [r \in Runner |-> [pc |-> "start", todo |-> Migration]]
  /\ seeder = [s \in Seeder |-> [pc |-> "idle", todo |-> {}]]
  /\ merchants = {} /\ invoices = {}

-----------------------------------------------------------------------------
(* The migration runners.                                                  *)

Current(r) == FirstFile(runner[r].todo)
Goto(r, pc) == runner' = [runner EXCEPT ![r].pc = pc]
Advance(r) ==
  runner' = [runner EXCEPT ![r] = [pc |-> "next", todo |-> @.todo \ {Current(r)}]]

\* A bug this could have: a session lock that nothing gives back.
Release_Kept(r) == UNCHANGED lock

\* The lock of a transaction ends with it.
Release(r) == lock' = IF lock = r THEN Free ELSE lock

\* CREATE TABLE IF NOT EXISTS looks, then creates; of two runs that create the
\* table at once one gets a unique violation from the catalogue.
LookForTable(r) ==
  /\ runner[r].pc = "start"
  /\ Goto(r, IF tableExists THEN "next" ELSE "creating")
  /\ UNCHANGED <<schemaVars, dataVars, seeder>>

CreateTable(r) ==
  /\ runner[r].pc = "creating"
  /\ Goto(r, IF tableExists THEN "raced" ELSE "next")
  /\ tableExists' = TRUE
  /\ UNCHANGED <<appliedBy, effects, lock, dataVars, seeder>>

\* A bug this could have: the existence check of the other runner, which never waits.
TakeLock_NoWait(r) ==
  /\ r \in RustRunner
  /\ runner[r].pc = "next" /\ runner[r].todo # {}
  /\ lock' = r
  /\ Goto(r, "locked")
  /\ UNCHANGED <<tableExists, appliedBy, effects, dataVars, seeder>>

\* BEGIN; SELECT pg_advisory_xact_lock(...)
TakeLock(r) ==
  /\ r \in RustRunner
  /\ runner[r].pc = "next" /\ runner[r].todo # {}
  /\ lock = Free
  /\ lock' = r
  /\ Goto(r, "locked")
  /\ UNCHANGED <<tableExists, appliedBy, effects, dataVars, seeder>>

\* SELECT 1 FROM schema_migrations WHERE id = ...: under the lock (Rust), or before
\* the transaction (Next.js).
CheckApplied(r) ==
  /\ runner[r].todo # {}
  /\ runner[r].pc = IF r \in RustRunner THEN "locked" ELSE "next"
  /\ IF Current(r) \in Applied
     THEN Advance(r) /\ Release(r)
     ELSE Goto(r, "apply") /\ UNCHANGED lock
  /\ UNCHANGED <<tableExists, appliedBy, effects, dataVars, seeder>>

SharedHash(rows) ==
  \E p, q \in rows : p # q /\ p.hash = q.hash /\ p.hash # NoHash

\* A bug this could have: a constraint that is not validated against old rows.
SqlFails_NotValid(m) == m \in Broken

\* The SQL of file m is not accepted, or the rows there are do not satisfy it.
SqlFails(m) ==
  \/ m \in Broken
  \/ \E row \in invoices : m \in row.breaks
  \/ m = HashIndex /\ SharedHash(invoices)

\* A bug this could have: the SQL commits on its own and is recorded afterwards.
ApplyFile_NoTransaction(r) ==
  LET m == Current(r) IN
  /\ runner[r].pc = "apply"
  /\ effects' = [effects EXCEPT ![m] = @ + 1]
  /\ IF m \in Applied
     THEN Goto(r, "collided") /\ UNCHANGED appliedBy
     ELSE /\ appliedBy' = [appliedBy EXCEPT ![m] =
               IF r \in RustRunner THEN "rust" ELSE "nextjs"]
          /\ Advance(r)
  /\ Release(r)
  /\ UNCHANGED <<tableExists, dataVars, seeder>>

\* A bug this could have: applied_by left to its default, 'unknown'.
ApplyFile_Unsigned(r) ==
  LET m == Current(r) IN
  /\ runner[r].pc = "apply"
  /\ m \notin Applied /\ ~SqlFails(m)
  /\ appliedBy' = [appliedBy EXCEPT ![m] = "unknown"]
  /\ effects' = [effects EXCEPT ![m] = @ + 1]
  /\ Advance(r) /\ Release(r)
  /\ UNCHANGED <<tableExists, dataVars, seeder>>

\* The SQL of the file, its row in schema_migrations and COMMIT: all or nothing.  A
\* file another run has committed since the check ends the run, as does a failure.
ApplyFile(r) ==
  LET m == Current(r) IN
  /\ runner[r].pc = "apply"
  /\ \/ m \in Applied /\ Goto(r, "collided") /\ UNCHANGED <<appliedBy, effects>>
     \/ /\ m \notin Applied /\ SqlFails(m)
        /\ Goto(r, "rejected")
        /\ UNCHANGED <<appliedBy, effects>>
     \/ /\ m \notin Applied /\ ~SqlFails(m)
        /\ appliedBy' = [appliedBy EXCEPT ![m] =
             IF r \in RustRunner THEN "rust" ELSE "nextjs"]
        /\ effects' = [effects EXCEPT ![m] = @ + 1]
        /\ Advance(r)
  /\ Release(r)
  /\ UNCHANGED <<tableExists, dataVars, seeder>>

\* A run is killed before it has seen all its files; Postgres rolls its transaction
\* back and frees its lock.
RunDies(r) ==
  /\ runner[r].pc \in {"creating", "next", "locked", "apply"}
  /\ runner[r].todo # {}
  /\ Goto(r, "killed")
  /\ Release(r)
  /\ UNCHANGED <<tableExists, appliedBy, effects, dataVars, seeder>>

RunnerStep(r) ==
  \/ LookForTable(r) \/ CreateTable(r) \/ TakeLock(r)
  \/ CheckApplied(r) \/ ApplyFile(r)

-----------------------------------------------------------------------------
(* The seed program.                                                       *)

StartSeed(s) ==
  /\ seeder[s].pc = "idle"
  /\ BaseSchema \in Applied
  /\ seeder' = [seeder EXCEPT ![s] = [pc |-> "merchants", todo |-> Merchant]]
  /\ UNCHANGED <<schemaVars, dataVars, runner>>

\* INSERT INTO merchants ... ON CONFLICT (email) DO NOTHING
SeedMerchant(s) ==
  /\ seeder[s].pc = "merchants"
  /\ \E e \in seeder[s].todo :
       /\ merchants' = merchants \cup {e}
       /\ seeder' = [seeder EXCEPT ![s] =
            IF @.todo = {e} THEN [pc |-> "invoices", todo |-> Demo]
            ELSE [pc |-> "merchants", todo |-> @.todo \ {e}]]
  /\ UNCHANGED <<schemaVars, invoices, runner>>

\* The constraints applied so far do not let the row in.
RowRefused(row) ==
  \/ \E m \in row.breaks : m \in Applied
  \/ HashIndex \in Applied /\ SharedHash(invoices \cup {row})

\* A bug this could have: an INSERT without the clause.
SeedInvoice_PlainInsert(s) ==
  /\ seeder[s].pc = "invoices" /\ seeder[s].todo # {}
  /\ LET row == FirstRow(seeder[s].todo) IN
     IF row \in invoices \/ RowRefused(row)
     THEN seeder' = [seeder EXCEPT ![s].pc = "failed"] /\ UNCHANGED invoices
     ELSE /\ invoices' = invoices \cup {row}
          /\ seeder' = [seeder EXCEPT ![s].todo = @ \ {row}]
  /\ UNCHANGED <<schemaVars, merchants, runner>>

\* INSERT INTO invoices ... ON CONFLICT (public_id) DO NOTHING: the clause covers
\* the row itself, not the other constraints; the first refusal ends the program.
SeedInvoice(s) ==
  /\ seeder[s].pc = "invoices" /\ seeder[s].todo # {}
  /\ LET row == FirstRow(seeder[s].todo) IN
     IF row \notin invoices /\ RowRefused(row)
     THEN seeder' = [seeder EXCEPT ![s].pc = "failed"] /\ UNCHANGED invoices
     ELSE /\ invoices' = invoices \cup {row}
          /\ seeder' = [seeder EXCEPT ![s].todo = @ \ {row}]
  /\ UNCHANGED <<schemaVars, merchants, runner>>

\* The program ends, or is stopped in the middle of its work, and may be run again.
SeedEnds(s) ==
  /\ seeder[s].pc # "idle"
  /\ seeder' = [seeder EXCEPT ![s] = [pc |-> "idle", todo |-> {}]]
  /\ UNCHANGED <<schemaVars, dataVars, runner>>

SeederStep(s) == StartSeed(s) \/ SeedMerchant(s) \/ SeedInvoice(s) \/ SeedEnds(s)

DeploymentNext ==
  \/ \E r \in Runner : RunnerStep(r) \/ RunDies(r)
  \/ \E s \in Seeder : SeederStep(s)

DeploymentSpec ==
  /\ DeploymentInit /\ [][DeploymentNext]_deploymentVars
  /\ \A r \in Runner : WF_deploymentVars(RunnerStep(r))

-----------------------------------------------------------------------------
\* The SQL of a file has taken effect once if the table says so and not at all if
\* it does not, whoever overlaps or is killed: files 001 and 008 could not be
\* applied twice, and half a file would never be completed.
AppliedExactlyOnce ==
  \A m \in Migration : effects[m] = IF m \in Applied THEN 1 ELSE 0

\* No file is applied before one of a lower number, though four runs share them.
AppliedInOrder ==
  \A m \in Applied, n \in Migration : n < m => n \in Applied

\* Overlapping and dying runs of both runners apply each file once, in order.
AppliedOnceInOrder == AppliedExactlyOnce /\ AppliedInOrder

\* The advisory lock does what it is for: a Rust run is cut short by another run of
\* the same file only if that one is of the other runner.
LockSparesRuns ==
  \A r \in RustRunner :
    runner[r].pc = "collided" => appliedBy[Current(r)] = "nextjs"

\* What a constraint forbids is not in the tables, whether the rows or the
\* constraint came first: a file whose constraint the seeded rows violate is not
\* recorded as applied.
SchemaHolds ==
  /\ HashIndex \in Applied => ~SharedHash(invoices)
  /\ \A row \in invoices : row.breaks \cap Applied = {}

\* The rows up to this one could not all be inserted into an empty database whose
\* schema is today's.
StopsAfresh(row) ==
  LET upTo == {q \in Demo : q.no <= row.no} IN
  \/ \E q \in upTo : q.breaks \cap Applied # {}
  \/ HashIndex \in Applied /\ SharedHash(upTo)

\* Running the seed again is as good as running it for the first time: whatever
\* earlier runs have left, complete or killed half-way, before or between the
\* migrations, a run is refused a row only where a first run, in an empty database
\* of the same schema, would have been refused this row or an earlier one.
RerunIsNoWorse ==
  \A s \in Seeder : seeder[s].pc = "failed" => StopsAfresh(FirstRow(seeder[s].todo))

\* Why these hold: what a run has left behind it is applied; a Rust run has the lock
\* from the moment it looks a file up, so that only the other runner can apply it
\* meanwhile; a row that was refused once will be refused for ever; and the demo
\* invoices there are, are the first ones of the list.
RunsSkipApplied ==
  \A r \in Runner :
    /\ Migration \ runner[r].todo \subseteq Applied
    /\ runner[r].pc \in {"locked", "apply", "collided"} => runner[r].todo # {}
    /\ runner[r].pc = "collided" => Current(r) \in Applied

LockIsHeld ==
  \A r \in RustRunner :
    /\ runner[r].pc \in {"locked", "apply"} => lock = r
    /\ runner[r].pc \in {"apply", "collided"} /\ Current(r) \in Applied =>
         appliedBy[Current(r)] = "nextjs"

SeedsProgress ==
  \A s \in Seeder :
    /\ seeder[s].pc = "merchants" => seeder[s].todo \subseteq Merchant
    /\ seeder[s].pc \in {"invoices", "failed"} => seeder[s].todo \subseteq Demo
    /\ seeder[s].pc = "invoices" => Demo \ seeder[s].todo \subseteq invoices
    /\ seeder[s].pc = "failed" =>
         LET row == FirstRow(seeder[s].todo) IN row \in Demo /\ StopsAfresh(row)

SeededInOrder == \A q \in invoices, p \in Demo : p.no < q.no => p \in invoices

DeploymentInv ==
  /\ DeploymentTypeOK /\ AppliedOnceInOrder /\ SchemaHolds
  /\ RunsSkipApplied /\ LockIsHeld /\ SeedsProgress /\ SeededInOrder

\* The files before the first one whose SQL Postgres does not accept: no run gets
\* past that one.
Reachable == {m \in Migration : \A b \in Broken : m < b}

\* However the runs of two deploys cut each other short, the files they can get to
\* are all applied in the end, and no others are, unless a run is killed or the data
\* refuses a constraint.
MigrationsComplete ==
  <>[](\/ Applied = Reachable
       \/ \E r \in Runner : runner[r].pc = "killed"
       \/ \E r \in Runner : runner[r].pc = "rejected" /\ Current(r) \in Reachable)

\* Every file can be applied.
EveryFileApplies ==
  \A r \in Runner : runner[r].pc = "rejected" => invoices # {}

\* No row that is there already, of this run or of an earlier one, ever stops the
\* seed: only a CHECK the refused row violates by itself does.
RerunIsSafe ==
  \A s \in Seeder :
    seeder[s].pc = "failed" => FirstRow(seeder[s].todo).breaks \cap Applied # {}

\* The seed fills a database that has been migrated as far as it can be.
SeedFills == \A s \in Seeder : seeder[s].pc = "failed" => Reachable \ Applied # {}
=============================================================================
