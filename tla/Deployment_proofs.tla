-------------------------- MODULE Deployment_proofs --------------------------
(***************************************************************************)
(* Overlapping migration runs of both services, killed anywhere, apply     *)
(* each file once and in order, and seeding between them neither passes a  *)
(* constraint nor is the worse for earlier runs, for any files and runs.   *)
(***************************************************************************)
EXTENDS Deployment, TLAPS, WellFoundedInduction

USE DeploymentAssumption DEF deploymentVars, schemaVars, dataVars

\* The first file of a set and the first row of a set are in it, before all others.
LEMMA FirstFiles ==
  ASSUME NEW S \in SUBSET Migration, S # {}
  PROVE  /\ FirstFile(S) \in S /\ FirstFile(S) \in Migration
         /\ \A m \in S : FirstFile(S) <= m
<1>1. IsWellFoundedOn(OpToRel(<, Nat), Nat)
  BY NatLessThanWellFounded
<1>2. \E m \in S : \A k \in S : <<k, m>> \notin OpToRel(<, Nat)
  BY <1>1, WFMin
<1>3. \A m, k \in S : <<k, m>> \notin OpToRel(<, Nat) => m <= k
  BY DEF OpToRel
<1> QED
  BY <1>2, <1>3 DEF FirstFile

LEMMA FirstRows ==
  ASSUME NEW S \in SUBSET Demo, S # {}
  PROVE  /\ FirstRow(S) \in S /\ FirstRow(S) \in Demo
         /\ \A q \in S : FirstRow(S).no <= q.no
<1> DEFINE nos == {row.no : row \in S}
<1>1. IsWellFoundedOn(OpToRel(<, Nat), Nat) /\ nos \subseteq Nat /\ nos # {}
  BY NatLessThanWellFounded
<1>2. \E m \in nos : \A k \in nos : <<k, m>> \notin OpToRel(<, Nat)
  BY <1>1, WFMin
<1>3. \A m, k \in nos : <<k, m>> \notin OpToRel(<, Nat) => m <= k
  BY <1>1 DEF OpToRel
<1>4. \E row \in S : \A q \in S : row.no <= q.no
  BY <1>2, <1>3
<1> QED
  BY <1>4 DEF FirstRow

-----------------------------------------------------------------------------
\* What a runner's step may do: go from one place to another, pass a file that is
\* applied, commit one, or stop; it takes the lock, keeps it or lets it go.
Passes(r) ==
  /\ runner[r].pc = IF r \in RustRunner THEN "locked" ELSE "next"
  /\ runner[r].todo # {} /\ Current(r) \in Applied
  /\ Advance(r) /\ Release(r)
  /\ UNCHANGED <<tableExists, appliedBy, effects, dataVars, seeder>>

Commits(r) ==
  LET m == Current(r) IN
  /\ runner[r].pc = "apply" /\ m \notin Applied /\ ~SqlFails(m)
  /\ appliedBy' = [appliedBy EXCEPT ![m] =
       IF r \in RustRunner THEN "rust" ELSE "nextjs"]
  /\ effects' = [effects EXCEPT ![m] = @ + 1]
  /\ Advance(r) /\ Release(r)
  /\ UNCHANGED <<tableExists, dataVars, seeder>>

Walks(r) ==
  \E pc \in {"creating", "next", "locked", "apply",
             "raced", "collided", "rejected", "killed"} :
    /\ Goto(r, pc)
    /\ pc = "locked" => r \in RustRunner /\ runner[r].todo # {} /\ lock = Free /\ lock' = r
    /\ pc = "apply" => /\ runner[r].todo # {} /\ Current(r) \notin Applied /\ lock' = lock
                       /\ r \in RustRunner => runner[r].pc = "locked"
    /\ pc = "collided" => runner[r].pc = "apply" /\ Current(r) \in Applied
    /\ pc \notin {"locked", "apply"} => Release(r) \/ lock' = lock
    /\ tableExists' \in {tableExists, TRUE}
    /\ UNCHANGED <<appliedBy, effects, dataVars, seeder>>

LEMMA DeploymentSteps ==
  ASSUME DeploymentTypeOK, [DeploymentNext]_deploymentVars
  PROVE  \/ \E r \in Runner : Passes(r) \/ Commits(r) \/ Walks(r)
         \/ \E s \in Seeder : SeederStep(s)
         \/ UNCHANGED deploymentVars
<1>1. ASSUME NEW r \in Runner, LookForTable(r)
      PROVE  Walks(r)
  BY <1>1 DEF LookForTable, Walks
<1>2. ASSUME NEW r \in Runner, CreateTable(r)
      PROVE  Walks(r)
  BY <1>2 DEF CreateTable, Walks
<1>3. ASSUME NEW r \in Runner, TakeLock(r)
      PROVE  Walks(r)
  BY <1>3 DEF TakeLock, Walks
<1>4. ASSUME NEW r \in Runner, CheckApplied(r)
      PROVE  Passes(r) \/ Walks(r)
  BY <1>4 DEF CheckApplied, Passes, Walks
<1>5. ASSUME NEW r \in Runner, ApplyFile(r)
      PROVE  Commits(r) \/ Walks(r)
  BY <1>5 DEF ApplyFile, Commits, Walks
<1>6. ASSUME NEW r \in Runner, RunDies(r)
      PROVE  Walks(r)
  BY <1>6 DEF RunDies, Walks
<1> QED
  BY <1>1, <1>2, <1>3, <1>4, <1>5, <1>6 DEF DeploymentNext, RunnerStep

\* The types of what a step reads, and where it leaves the others.
LEMMA RunnerFields ==
  ASSUME DeploymentTypeOK, NEW r \in Runner
  PROVE  /\ runner[r].todo \in SUBSET Migration
         /\ runner[r] = [pc |-> runner[r].pc, todo |-> runner[r].todo]
         /\ runner[r].todo # {} => Current(r) \in runner[r].todo /\ Current(r) \in Migration
BY FirstFiles DEF DeploymentTypeOK, Current

LEMMA GoesTo ==
  ASSUME DeploymentTypeOK, NEW r \in Runner, NEW pc, Goto(r, pc)
  PROVE  /\ runner'[r].pc = pc /\ runner'[r].todo = runner[r].todo
         /\ Current(r)' = Current(r)
         /\ \A q \in Runner \ {r} : runner'[q] = runner[q] /\ Current(q)' = Current(q)
BY DEF Goto, DeploymentTypeOK, Current

LEMMA AdvancesTo ==
  ASSUME DeploymentTypeOK, NEW r \in Runner, Advance(r)
  PROVE  /\ runner'[r].pc = "next" /\ runner'[r].todo = runner[r].todo \ {Current(r)}
         /\ \A q \in Runner \ {r} : runner'[q] = runner[q] /\ Current(q)' = Current(q)
BY DEF Advance, DeploymentTypeOK, Current

LEMMA DeploymentTypeStep ==
  ASSUME DeploymentTypeOK, RunsSkipApplied, SeedsProgress, [DeploymentNext]_deploymentVars
  PROVE  DeploymentTypeOK'
<1>1. ASSUME NEW r \in Runner, Passes(r)
      PROVE  DeploymentTypeOK'
  BY <1>1 DEF Passes, Advance, Release, DeploymentTypeOK
<1>2. ASSUME NEW r \in Runner, Commits(r)
      PROVE  DeploymentTypeOK'
  <2>1. Current(r) \in Migration
    BY <1>2, RunnerFields DEF Commits, RunsSkipApplied
  <2> QED
    <3>1. /\ appliedBy' \in [Migration -> {"none", "rust", "nextjs"}]
          /\ effects' \in [Migration -> Nat]
      <4> DEFINE c == Current(r)
      <4>1. /\ \E by \in {"rust", "nextjs"} : appliedBy' = [appliedBy EXCEPT ![c] = by]
            /\ effects' = [effects EXCEPT ![c] = effects[c] + 1]
        BY <1>2 DEF Commits
      <4>2. c \in Migration
        BY <2>1
      <4> HIDE DEF c
      <4> QED
        BY <4>1, <4>2 DEF DeploymentTypeOK
    <3>2. runner' \in [Runner ->
             [pc : {"start", "creating", "next", "locked", "apply",
                    "raced", "collided", "rejected", "killed"},
              todo : SUBSET Migration]]
      BY <1>2 DEF Commits, Advance, DeploymentTypeOK
    <3>3. lock' \in RustRunner \cup {Free} /\ UNCHANGED <<tableExists, dataVars, seeder>>
      BY <1>2 DEF Commits, Release, DeploymentTypeOK
    <3> QED
      BY <3>1, <3>2, <3>3 DEF DeploymentTypeOK
<1>3. ASSUME NEW r \in Runner, Walks(r)
      PROVE  DeploymentTypeOK'
  <2>1. runner' \in [Runner ->
           [pc : {"start", "creating", "next", "locked", "apply",
                  "raced", "collided", "rejected", "killed"},
            todo : SUBSET Migration]]
    BY <1>3 DEF Walks, Goto, DeploymentTypeOK
  <2>2. lock' \in RustRunner \cup {Free} /\ tableExists' \in BOOLEAN
    BY <1>3 DEF Walks, Release, DeploymentTypeOK
  <2>3. UNCHANGED <<appliedBy, effects, dataVars, seeder>>
    BY <1>3 DEF Walks
  <2> QED
    BY <2>1, <2>2, <2>3 DEF DeploymentTypeOK
<1>4. ASSUME NEW s \in Seeder, StartSeed(s)
      PROVE  DeploymentTypeOK'
  BY <1>4 DEF StartSeed, DeploymentTypeOK
<1>5. ASSUME NEW s \in Seeder, SeedMerchant(s)
      PROVE  DeploymentTypeOK'
  <2>1. PICK e \in seeder[s].todo :
          /\ merchants' = merchants \cup {e}
          /\ seeder' = [seeder EXCEPT ![s] =
               IF seeder[s].todo = {e} THEN [pc |-> "invoices", todo |-> Demo]
               ELSE [pc |-> "merchants", todo |-> seeder[s].todo \ {e}]]
    BY <1>5 DEF SeedMerchant
  <2>2. seeder[s].todo \subseteq Merchant
    BY <1>5 DEF SeedMerchant, SeedsProgress
  <2>3. [pc |-> "merchants", todo |-> seeder[s].todo \ {e}] \in
          [pc : {"idle", "merchants", "invoices", "failed"},
           todo : (SUBSET Merchant) \cup (SUBSET Demo)]
    BY <2>2 DEF DeploymentTypeOK
  <2>4. UNCHANGED <<schemaVars, invoices, runner>>
    BY <1>5 DEF SeedMerchant
  <2> QED
    BY <2>1, <2>2, <2>3, <2>4 DEF DeploymentTypeOK
<1>6. ASSUME NEW s \in Seeder, SeedInvoice(s)
      PROVE  DeploymentTypeOK'
  <2> DEFINE row == FirstRow(seeder[s].todo)
  <2>1. seeder[s].todo \subseteq Demo /\ row \in Demo
    BY <1>6, FirstRows DEF SeedInvoice, SeedsProgress
  <2>2. /\ invoices' \in {invoices, invoices \cup {row}}
        /\ \E todo \in {seeder[s].todo, seeder[s].todo \ {row}} :
             \E pc \in {"invoices", "failed"} :
               seeder' = [seeder EXCEPT ![s] = [pc |-> pc, todo |-> todo]]
    BY <1>6 DEF SeedInvoice, DeploymentTypeOK
  <2>3. UNCHANGED <<schemaVars, merchants, runner>>
    BY <1>6 DEF SeedInvoice
  <2> HIDE DEF row
  <2> QED
    BY <2>1, <2>2, <2>3 DEF DeploymentTypeOK
<1>7. ASSUME NEW s \in Seeder, SeedEnds(s)
      PROVE  DeploymentTypeOK'
  BY <1>7 DEF SeedEnds, DeploymentTypeOK
<1>8. CASE UNCHANGED deploymentVars
  BY <1>8 DEF DeploymentTypeOK
<1> QED
  BY <1>1, <1>2, <1>3, <1>4, <1>5, <1>6, <1>7, <1>8, DeploymentSteps DEF SeederStep

\* A file that is applied stays so, by whom it was; the table grows by the file that a
\* run commits, the first it has left.
LEMMA AppliedStays ==
  ASSUME DeploymentTypeOK, RunsSkipApplied, [DeploymentNext]_deploymentVars
  PROVE  /\ Applied \subseteq Applied'
         /\ \A m \in Applied : appliedBy'[m] = appliedBy[m]
<1>1. ASSUME NEW r \in Runner, Commits(r)
      PROVE  \A m \in Applied : appliedBy'[m] = appliedBy[m]
  BY <1>1 DEF Commits, Applied, DeploymentTypeOK
<1>2. \A m \in Applied : appliedBy'[m] = appliedBy[m]
  BY <1>1, DeploymentSteps
  DEF Passes, Walks, SeederStep, StartSeed, SeedMerchant, SeedInvoice, SeedEnds
<1> QED
  BY <1>2 DEF Applied

LEMMA Commit ==
  ASSUME DeploymentTypeOK, RunsSkipApplied, NEW r \in Runner, Commits(r)
  PROVE  /\ Current(r) \in Migration /\ Current(r) \notin Applied
         /\ Applied' = Applied \cup {Current(r)}
         /\ appliedBy'[Current(r)] = IF r \in RustRunner THEN "rust" ELSE "nextjs"
<1>1. Current(r) \in Migration
  BY RunnerFields DEF Commits, RunsSkipApplied
<1>2. /\ appliedBy' = [appliedBy EXCEPT ![Current(r)] =
                        IF r \in RustRunner THEN "rust" ELSE "nextjs"]
      /\ Current(r) \notin Applied
  BY DEF Commits
<1> HIDE DEF Commits
<1> QED
  BY <1>1, <1>2 DEF Applied, DeploymentTypeOK

LEMMA OnceInOrderStep ==
  ASSUME DeploymentTypeOK, RunsSkipApplied, AppliedOnceInOrder,
         [DeploymentNext]_deploymentVars
  PROVE  AppliedOnceInOrder'
<1>1. ASSUME NEW r \in Runner, Commits(r)
      PROVE  AppliedOnceInOrder'
  <2> DEFINE c == Current(r)
  <2>1. /\ c \in Migration /\ c \notin Applied /\ Applied' = Applied \cup {c}
    BY <1>1, Commit
  <2>2. effects' = [effects EXCEPT ![c] = effects[c] + 1]
    BY <1>1 DEF Commits
  <2>3. \A n \in Migration : n < c => n \in Applied
    <3>1. runner[r].todo \in SUBSET Migration /\ runner[r].todo # {}
      BY <1>1, RunnerFields DEF Commits, RunsSkipApplied
    <3>2. \A n \in runner[r].todo : c <= n
      BY <3>1, FirstFiles DEF Current
    <3>3. \A n \in Migration : n < c => n \notin runner[r].todo
      <4> HIDE DEF c
      <4>1. \A n \in Migration : n < c => ~(c <= n)
        BY <2>1
      <4> QED
        BY <3>2, <4>1, Zenon
    <3> QED
      BY <3>3 DEF RunsSkipApplied
  <2> HIDE DEF c
  <2>4. AppliedExactlyOnce'
    BY <2>1, <2>2 DEF AppliedOnceInOrder, AppliedExactlyOnce, DeploymentTypeOK
  <2>5. AppliedInOrder'
    BY <2>1, <2>3 DEF AppliedOnceInOrder, AppliedInOrder
  <2> QED
    BY <2>4, <2>5 DEF AppliedOnceInOrder
<1>2. CASE UNCHANGED <<appliedBy, effects>>
  BY <1>2 DEF AppliedOnceInOrder, AppliedExactlyOnce, AppliedInOrder, Applied
<1> QED
  BY <1>1, <1>2, DeploymentSteps
  DEF Passes, Walks, SeederStep, StartSeed, SeedMerchant, SeedInvoice, SeedEnds

LEMMA RunsStep ==
  ASSUME DeploymentTypeOK, RunsSkipApplied, [DeploymentNext]_deploymentVars
  PROVE  RunsSkipApplied'
<1> DEFINE Good(q) ==
      /\ Migration \ runner'[q].todo \subseteq Applied'
      /\ runner'[q].pc \in {"locked", "apply", "collided"} => runner'[q].todo # {}
      /\ runner'[q].pc = "collided" => Current(q)' \in Applied'
<1> SUFFICES ASSUME NEW q \in Runner
             PROVE  Good(q)
  BY DEF RunsSkipApplied
<1>1. ASSUME runner'[q] = runner[q], Current(q)' = Current(q)
      PROVE  Good(q)
  BY <1>1, AppliedStays DEF RunsSkipApplied
<1>2. ASSUME NEW r \in Runner, Passes(r) \/ Commits(r)
      PROVE  Good(q)
  <2>1. Advance(r) /\ Current(r) \in Applied'
    BY <1>2, Commit, AppliedStays DEF Passes, Commits
  <2>2. CASE q = r
    BY <2>1, <2>2, AdvancesTo, AppliedStays DEF RunsSkipApplied
  <2>3. CASE q # r
    BY <1>1, <2>1, <2>3, AdvancesTo
  <2> QED
    BY <2>2, <2>3
<1>3. ASSUME NEW r \in Runner, Walks(r)
      PROVE  Good(q)
  <2>1. PICK pc : /\ Goto(r, pc)
                  /\ pc \in {"locked", "apply"} => runner[r].todo # {}
                  /\ pc = "collided" => runner[r].pc = "apply" /\ Current(r) \in Applied
    BY <1>3 DEF Walks
  <2>2. CASE q = r
    BY <2>1, <2>2, GoesTo, AppliedStays DEF RunsSkipApplied
  <2>3. CASE q # r
    BY <1>1, <2>1, <2>3, GoesTo
  <2> QED
    BY <2>2, <2>3
<1>4. ASSUME UNCHANGED runner
      PROVE  Good(q)
  BY <1>1, <1>4 DEF Current
<1> HIDE DEF Good
<1> QED
  BY <1>2, <1>3, <1>4, DeploymentSteps
  DEF SeederStep, StartSeed, SeedMerchant, SeedInvoice, SeedEnds

LEMMA LockStep ==
  ASSUME DeploymentTypeOK, RunsSkipApplied, LockIsHeld, [DeploymentNext]_deploymentVars
  PROVE  LockIsHeld'
<1> DEFINE Good(q) ==
      /\ runner'[q].pc \in {"locked", "apply"} => lock' = q
      /\ runner'[q].pc \in {"apply", "collided"} /\ Current(q)' \in Applied' =>
           appliedBy'[Current(q)'] = "nextjs"
<1> SUFFICES ASSUME NEW q \in RustRunner
             PROVE  Good(q)
  BY DEF LockIsHeld
<1>0. q \in Runner /\ q # Free
  BY DEF Runner
<1>1. ASSUME runner'[q] = runner[q], Current(q)' = Current(q), UNCHANGED appliedBy,
             runner[q].pc \in {"locked", "apply"} => lock' = lock
      PROVE  Good(q)
  BY <1>1 DEF LockIsHeld, Applied
<1>2. ASSUME NEW r \in Runner, Passes(r)
      PROVE  Good(q)
  <2>1. CASE q = r
    BY <1>2, <2>1, AdvancesTo DEF Passes
  <2>2. CASE q # r
    <3>1. runner[q].pc \in {"locked", "apply"} => lock' = lock
      BY <1>2, <2>2 DEF Passes, Release, LockIsHeld
    <3> QED
      BY <1>0, <1>1, <1>2, <2>2, <3>1, AdvancesTo DEF Passes
  <2> QED
    BY <2>1, <2>2
<1>3. ASSUME NEW r \in Runner, Commits(r)
      PROVE  Good(q)
  <2>1. CASE q = r
    BY <1>3, <2>1, AdvancesTo DEF Commits
  <2>2. CASE q # r
    <3>1. runner'[q] = runner[q] /\ Current(q)' = Current(q)
      BY <1>0, <1>3, <2>2, AdvancesTo DEF Commits
    <3>2. runner[q].pc \in {"locked", "apply"} => lock' = q
      BY <1>3, <2>2 DEF Commits, Release, LockIsHeld
    <3>3. ASSUME runner[q].pc \in {"apply", "collided"}, Current(q) \in Applied'
          PROVE  appliedBy'[Current(q)] = "nextjs"
      <4>1. CASE Current(q) \in Applied
        BY <3>3, <4>1, AppliedStays DEF LockIsHeld
      <4>2. CASE Current(q) \notin Applied
        <5>1. Current(q) = Current(r)
          BY <1>3, <3>3, <4>2, Commit
        <5>2. runner[q].pc = "apply" /\ lock = q
          BY <1>0, <3>3, <4>2 DEF RunsSkipApplied, LockIsHeld
        <5>3. r \notin RustRunner
          BY <1>3, <2>2, <5>2 DEF Commits, LockIsHeld
        <5> QED
          BY <1>3, <5>1, <5>3, Commit
      <4> QED
        BY <4>1, <4>2
    <3> QED
      BY <3>1, <3>2, <3>3
  <2> QED
    BY <2>1, <2>2
<1>4. ASSUME NEW r \in Runner, Walks(r)
      PROVE  Good(q)
  <2>1. PICK pc :
          /\ Goto(r, pc)
          /\ pc = "locked" => lock = Free /\ lock' = r
          /\ pc = "apply" => /\ Current(r) \notin Applied /\ lock' = lock
                             /\ r \in RustRunner => runner[r].pc = "locked"
          /\ pc = "collided" => runner[r].pc = "apply" /\ Current(r) \in Applied
          /\ pc \notin {"locked", "apply"} => Release(r) \/ lock' = lock
          /\ UNCHANGED appliedBy
    BY <1>4 DEF Walks
  <2>2. CASE q = r
    <3>1. runner'[q].pc = pc /\ Current(q)' = Current(q)
      BY <2>1, <2>2, GoesTo
    <3> QED
      BY <2>1, <2>2, <3>1 DEF LockIsHeld, Applied
  <2>3. CASE q # r
    <3>1. runner[q].pc \in {"locked", "apply"} => lock' = lock
      BY <1>0, <2>1, <2>3 DEF Release, LockIsHeld
    <3> QED
      BY <1>0, <1>1, <2>1, <2>3, <3>1, GoesTo
  <2> QED
    BY <2>2, <2>3
<1>5. ASSUME UNCHANGED <<runner, appliedBy, lock>>
      PROVE  Good(q)
  BY <1>1, <1>5 DEF Current
<1> HIDE DEF Good
<1> QED
  BY <1>2, <1>3, <1>4, <1>5, DeploymentSteps
  DEF SeederStep, StartSeed, SeedMerchant, SeedInvoice, SeedEnds

-----------------------------------------------------------------------------
\* Files only come, so that what stops a run in an empty database always will.
LEMMA StopsStay ==
  ASSUME DeploymentTypeOK, RunsSkipApplied, [DeploymentNext]_deploymentVars, NEW row,
         StopsAfresh(row)
  PROVE  StopsAfresh(row)'
BY AppliedStays DEF StopsAfresh, SharedHash

\* Rows only come, too.
LEMMA RowsStay ==
  ASSUME DeploymentTypeOK, [DeploymentNext]_deploymentVars
  PROVE  invoices \subseteq invoices'
BY DeploymentSteps
DEF Passes, Commits, Walks, SeederStep, StartSeed, SeedMerchant, SeedInvoice, SeedEnds

\* The rows there are come before one that is refused, and so a run in an empty
\* database would have met them too.
LEMMA RefusedIsStopped ==
  ASSUME DeploymentTypeOK, SeededInOrder, NEW row \in Demo,
         row \notin invoices, RowRefused(row)
  PROVE  StopsAfresh(row)
<1> DEFINE upTo == {q \in Demo : q.no <= row.no}
<1>1. row \in upTo
  OBVIOUS
<1>2. invoices \subseteq upTo
  <2> SUFFICES ASSUME NEW q \in invoices PROVE q \in upTo
    OBVIOUS
  <2>1. q \in Demo /\ ~(row.no < q.no)
    BY DEF SeededInOrder, DeploymentTypeOK
  <2>2. row.no \in Nat /\ q.no \in Nat
    BY <2>1
  <2> QED
    BY <2>1, <2>2
<1>3. CASE \E m \in row.breaks : m \in Applied
  BY <1>1, <1>3 DEF StopsAfresh
<1>4. CASE HashIndex \in Applied /\ SharedHash(invoices \cup {row})
  <2>1. SharedHash(upTo)
    BY <1>1, <1>2, <1>4 DEF SharedHash
  <2> QED
    BY <1>4, <2>1 DEF StopsAfresh
<1> QED
  BY <1>3, <1>4 DEF RowRefused

LEMMA SeededStep ==
  ASSUME DeploymentTypeOK, SeedsProgress, SeededInOrder, [DeploymentNext]_deploymentVars
  PROVE  SeededInOrder'
<1>1. ASSUME NEW s \in Seeder, SeedInvoice(s)
      PROVE  SeededInOrder'
  <2> DEFINE row == FirstRow(seeder[s].todo)
  <2>1. /\ row \in Demo
        /\ \A q \in seeder[s].todo : row.no <= q.no
    BY <1>1, FirstRows DEF SeedInvoice, SeedsProgress
  <2>2. \A p \in Demo : p.no < row.no => p \in invoices
    <3> SUFFICES ASSUME NEW p \in Demo, p.no < row.no PROVE p \in invoices
      OBVIOUS
    <3>1. p.no \in Nat /\ row.no \in Nat
      BY <2>1
    <3>2. p \notin seeder[s].todo
      <4> HIDE DEF row
      <4>1. ~(row.no <= p.no)
        BY <3>1
      <4> QED
        BY <2>1, <4>1
    <3> QED
      BY <1>1, <3>2 DEF SeedInvoice, SeedsProgress
  <2>3. invoices' = invoices \/ invoices' = invoices \cup {row}
    BY <1>1 DEF SeedInvoice
  <2> HIDE DEF row
  <2> QED
    BY <2>2, <2>3 DEF SeededInOrder
<1>2. CASE UNCHANGED invoices
  BY <1>2 DEF SeededInOrder
<1> QED
  BY <1>1, <1>2, DeploymentSteps
  DEF Passes, Commits, Walks, SeederStep, StartSeed, SeedMerchant, SeedEnds

LEMMA SchemaStep ==
  ASSUME DeploymentTypeOK, RunsSkipApplied, SchemaHolds, [DeploymentNext]_deploymentVars
  PROVE  SchemaHolds'
<1>1. ASSUME NEW r \in Runner, Commits(r)
      PROVE  SchemaHolds'
  <2> DEFINE c == Current(r)
  <2>1. Applied' = Applied \cup {c} /\ ~SqlFails(c) /\ invoices' = invoices
    BY <1>1, Commit DEF Commits
  <2> HIDE DEF c
  <2> QED
    BY <2>1 DEF SchemaHolds, SqlFails, SharedHash
<1>2. ASSUME NEW s \in Seeder, SeedInvoice(s)
      PROVE  SchemaHolds'
  <2> DEFINE row == FirstRow(seeder[s].todo)
  <2>1. /\ Applied' = Applied
        /\ invoices' = invoices \/ (invoices' = invoices \cup {row} /\ ~RowRefused(row))
    BY <1>2 DEF SeedInvoice, Applied
  <2> HIDE DEF row
  <2> QED
    BY <2>1 DEF SchemaHolds, RowRefused, SharedHash
<1>3. CASE UNCHANGED <<appliedBy, invoices>>
  BY <1>3 DEF SchemaHolds, Applied, SharedHash
<1> QED
  BY <1>1, <1>2, <1>3, DeploymentSteps
  DEF Passes, Walks, SeederStep, StartSeed, SeedMerchant, SeedEnds

LEMMA SeedsStep ==
  ASSUME DeploymentTypeOK, RunsSkipApplied, SeedsProgress, SeededInOrder,
         [DeploymentNext]_deploymentVars
  PROVE  SeedsProgress'
<1> DEFINE Good(r) ==
      LET x == seeder[r] IN
      /\ x.pc = "merchants" => x.todo \subseteq Merchant
      /\ x.pc \in {"invoices", "failed"} => x.todo \subseteq Demo
      /\ x.pc = "invoices" => Demo \ x.todo \subseteq invoices
      /\ x.pc = "failed" => FirstRow(x.todo) \in Demo /\ StopsAfresh(FirstRow(x.todo))
<1>0. SUFFICES ASSUME NEW t \in Seeder
               PROVE  Good(t)'
  BY DEF SeedsProgress
<1>1. ASSUME seeder'[t] = seeder[t]
      PROVE  Good(t)'
  <2>1. ASSUME seeder'[t].pc = "failed"
        PROVE  FirstRow(seeder'[t].todo) \in Demo /\ StopsAfresh(FirstRow(seeder[t].todo))'
    <3> DEFINE row == FirstRow(seeder[t].todo)
    <3>1. row \in Demo /\ StopsAfresh(row) /\ row' = row
      BY <1>1, <2>1 DEF SeedsProgress
    <3>2. \A q \in Demo : StopsAfresh(q) => StopsAfresh(q)'
      BY StopsStay
    <3> QED
      BY <3>1, <3>2 DEF StopsAfresh
  <2> QED
    BY <1>1, <2>1, RowsStay DEF SeedsProgress
<1>2. ASSUME NEW s \in Seeder, SeedInvoice(s)
      PROVE  Good(t)'
  <2> DEFINE row == FirstRow(seeder[s].todo)
  <2>0. row \in Demo /\ seeder[s].todo \subseteq Demo
    BY <1>2, FirstRows DEF SeedInvoice, SeedsProgress
  <2>1. CASE t # s
    <3>1. seeder'[t] = seeder[t]
      BY <1>2, <2>1 DEF SeedInvoice, DeploymentTypeOK
    <3> QED
      BY <1>1, <3>1
  <2>2. CASE t = s /\ row \notin invoices /\ RowRefused(row)
    <3>1. seeder'[t].pc = "failed" /\ seeder'[t].todo = seeder[s].todo
      BY <1>2, <2>2 DEF SeedInvoice, DeploymentTypeOK
    <3>2. StopsAfresh(row)
      BY <2>0, <2>2, RefusedIsStopped
    <3>3. \A q \in Demo : StopsAfresh(q) => StopsAfresh(q)'
      BY StopsStay
    <3>4. FirstRow(seeder'[t].todo) = row
      BY <3>1
    <3> QED
      BY <2>0, <3>1, <3>2, <3>3, <3>4 DEF StopsAfresh
  <2>3. CASE t = s /\ ~(row \notin invoices /\ RowRefused(row))
    <3>1. /\ seeder' = [seeder EXCEPT ![s].todo = seeder[s].todo \ {row}]
          /\ invoices' = invoices \cup {row}
      BY <1>2, <2>3 DEF SeedInvoice
    <3>2. seeder'[t].pc = "invoices" /\ seeder'[t].todo = seeder[s].todo \ {row}
      BY <1>2, <2>3, <3>1 DEF SeedInvoice, DeploymentTypeOK
    <3>3. Demo \ seeder[s].todo \subseteq invoices
      BY <1>2 DEF SeedInvoice, SeedsProgress
    <3> HIDE DEF row
    <3> QED
      BY <2>0, <3>1, <3>2, <3>3
  <2> QED
    BY <2>1, <2>2, <2>3
<1>3. ASSUME NEW s \in Seeder, SeedMerchant(s)
      PROVE  Good(t)'
  <2>1. CASE t = s
    <3>1. PICK e \in seeder[s].todo :
            seeder' = [seeder EXCEPT ![s] =
              IF seeder[s].todo = {e} THEN [pc |-> "invoices", todo |-> Demo]
              ELSE [pc |-> "merchants", todo |-> seeder[s].todo \ {e}]]
      BY <1>3 DEF SeedMerchant
    <3>2. seeder[s].todo \subseteq Merchant
      BY <1>3 DEF SeedMerchant, SeedsProgress
    <3>3. \/ seeder'[t] = [pc |-> "invoices", todo |-> Demo]
          \/ seeder'[t] = [pc |-> "merchants", todo |-> seeder[s].todo \ {e}]
      BY <2>1, <3>1 DEF DeploymentTypeOK
    <3> QED
      BY <3>2, <3>3
  <2>2. CASE t # s
    <3>1. seeder'[t] = seeder[t] /\ UNCHANGED invoices
      BY <1>3, <2>2 DEF SeedMerchant, DeploymentTypeOK
    <3> QED
      BY <1>1, <3>1
  <2> QED
    BY <2>1, <2>2
<1>4. ASSUME NEW s \in Seeder, StartSeed(s) \/ SeedEnds(s)
      PROVE  Good(t)'
  <2>1. UNCHANGED invoices
    BY <1>4 DEF StartSeed, SeedEnds
  <2>2. CASE t = s
    <3>1. \/ seeder'[t] = [pc |-> "merchants", todo |-> Merchant]
          \/ seeder'[t] = [pc |-> "idle", todo |-> {}]
      BY <1>4, <2>2 DEF StartSeed, SeedEnds, DeploymentTypeOK
    <3> QED
      BY <3>1
  <2>3. CASE t # s
    <3>1. seeder'[t] = seeder[t]
      BY <1>4, <2>3 DEF StartSeed, SeedEnds, DeploymentTypeOK
    <3> QED
      BY <1>1, <2>1, <3>1
  <2> QED
    BY <2>2, <2>3
<1>5. ASSUME UNCHANGED seeder
      PROVE  Good(t)'
  BY <1>1, <1>5
<1> HIDE DEF Good
<1> QED
  BY <1>2, <1>3, <1>4, <1>5, DeploymentSteps DEF Passes, Commits, Walks, SeederStep

LEMMA DeploymentStart == ASSUME DeploymentInit PROVE DeploymentInv
<1>1. Applied = {}
  BY DEF DeploymentInit, Applied
<1>2. DeploymentTypeOK
  BY DEF DeploymentInit, DeploymentTypeOK
<1>3. AppliedOnceInOrder /\ SchemaHolds /\ SeededInOrder
  BY <1>1
  DEF DeploymentInit, AppliedOnceInOrder, AppliedExactlyOnce, AppliedInOrder, SchemaHolds,
      SeededInOrder
<1>4. RunsSkipApplied /\ LockIsHeld /\ SeedsProgress
  BY <1>1 DEF DeploymentInit, RunsSkipApplied, LockIsHeld, SeedsProgress, Runner
<1> QED
  BY <1>2, <1>3, <1>4 DEF DeploymentInv

LEMMA DeploymentStep ==
  ASSUME DeploymentInv, [DeploymentNext]_deploymentVars
  PROVE  DeploymentInv'
BY DeploymentTypeStep, OnceInOrderStep, RunsStep, LockStep, SchemaStep, SeedsStep,
   SeededStep
DEF DeploymentInv

-----------------------------------------------------------------------------
\* The reason for all that follows: what a run has left behind it is applied, a Rust
\* run holds the lock while it looks and applies, and refusals are for good.
THEOREM DeploymentInvariant == DeploymentSpec => []DeploymentInv
<1>1. DeploymentInit => DeploymentInv
  BY DeploymentStart
<1>2. DeploymentInv /\ [DeploymentNext]_deploymentVars => DeploymentInv'
  BY DeploymentStep
<1> QED
  BY <1>1, <1>2, PTL DEF DeploymentSpec

\* The tables, the runs and the seeders keep their types.
THEOREM DeploymentTypes == DeploymentSpec => []DeploymentTypeOK
<1>1. DeploymentInv => DeploymentTypeOK
  BY DEF DeploymentInv
<1> QED
  BY <1>1, DeploymentInvariant, PTL

\* Overlapping and dying runs of both runners apply each file once, in order.
THEOREM FilesAreAppliedOnce == DeploymentSpec => []AppliedOnceInOrder
<1>1. DeploymentInv => AppliedOnceInOrder
  BY DEF DeploymentInv
<1> QED
  BY <1>1, DeploymentInvariant, PTL

\* A Rust run is cut short by another run of the same file only if that one is of the
\* runner that takes no lock.
THEOREM OnlyNextCollides == DeploymentSpec => []LockSparesRuns
<1>1. DeploymentInv => LockSparesRuns
  BY DEF DeploymentInv, LockSparesRuns, LockIsHeld, RunsSkipApplied, Runner
<1> QED
  BY <1>1, DeploymentInvariant, PTL

\* Whether the rows or the constraint came first, what a constraint forbids is not in
\* the tables.
THEOREM SchemaIsKept == DeploymentSpec => []SchemaHolds
<1>1. DeploymentInv => SchemaHolds
  BY DEF DeploymentInv
<1> QED
  BY <1>1, DeploymentInvariant, PTL

\* A seed run is stopped only where a first run, in an empty database of the same
\* schema, would have been stopped too, at this row or before it.
THEOREM SeedingIsSafe == DeploymentSpec => []RerunIsNoWorse
<1>1. DeploymentInv => RerunIsNoWorse
  BY DEF DeploymentInv, RerunIsNoWorse, SeedsProgress
<1> QED
  BY <1>1, DeploymentInvariant, PTL
=============================================================================
