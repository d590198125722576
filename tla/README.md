# ASTROpay in TLA+

ASTROpay lets a merchant send a payment link, watches the Stellar network for
the buyer's USDC, and pays the merchant out of the platform treasury.  Two
services work on one Postgres database: the Next.js application
(`usdc-payment-link-tool`) and the Rust backend (`rust-backend`).  Both run
crons and webhooks against the same rows, nothing serialises them but single SQL
statements, and both talk to a network whose answers may be late or lost.  These
specifications say what the two services together guarantee about the money,
check it with TLC on small instances, and prove with TLAPS every invariant and
every action property those runs check.

Paths below are relative to the repository.  `T/` stands for
`usdc-payment-link-tool/` and `R/` for `rust-backend/src/`.

## 1. Inventory

| component | state it keeps | operations | model |
|---|---|---|---|
| settle cron, Next.js (`T/app/api/cron/settle/route.ts`) | `payouts.status`, `processing_worker_id`, `transaction_hash`, `failure_count` | list, claim, inspect, submit, record | `Settlement`: `Settler` |
| reconcile cron, Next.js, step 1 (`T/app/api/cron/reconcile/route.ts:34`) | `payouts.status`, `invoices.status`, `payment_events` | list submitted, ask Horizon, record the verdict | `Settlement`: `Confirmer` |
| settle cron, Rust (`R/handlers/cron.rs:386`) | `payouts.status`, `failure_count`, `payout_dead_letters` | requeue, dead-letter, skip for backoff | `Settlement`: `Retrier` |
| payout replay, payout claim (`R/handlers/cron.rs:523`, `:1188`) | the same | check and reset; claim | `Settlement`: `Operator`, `ClaimEndpoint` |
| reconcile scan and replay of an invoice, both services | `invoices.status`, `transaction_hash`, `payment_events`, `payouts` | expire, scan, mark paid, record a mismatch | `Detection`: `Scanner`, `RustScanner`, `Manual` |
| Stellar webhooks, both services | the same | check the hash, read the invoice, mark paid | `Detection`: `Hook`, `RustHook` |
| the shared tables | `invoices`, `payouts` | | `Ledger` |
| payout health, alerts, webhook metrics (`R/db.rs:130`, `R/handlers/cron.rs:1115`-`1315`) | none | count, age, sum | `Reports`, asked by `Rules` |
| archive, event purge (`R/handlers/cron.rs:266`-`383`) | moves rows to `archived_*`, deletes events | archive, purge | `Retention`: `BeginArchive`, `CommitArchive`, `PurgePaymentEvents` |
| orphan report (`R/handlers/cron.rs:598`) | none | fetch, then compare | `Retention`: `FetchTreasuryPayments`, `ReportOrphans` |
| accounts and sessions (`R/auth.rs`, `R/handlers/auth.rs`, `T/lib/auth.ts`) | `merchants`, `sessions`, the cookie in the browser | register, log in, refresh, log out, purge | `Accounts` |
| login rate limit (`R/login_rate_limit.rs`) | attempts per address, failures per email, in memory | admit, record, clear | `LoginRateLimit`, extended by `Accounts` |
| webhook deliveries (`T/lib/data.ts:324`, `T/app/api/webhooks/stellar/route.ts`) | `webhook_deliveries` | record, refuse, purge | `Deliveries` |
| migration runners, seed (`R/migrations.rs`, `T/scripts/run-migrations.mjs`, `R/bin/seed.rs`) | `schema_migrations`, an advisory lock, demo rows | check, apply, insert | `Deployment` |
| invoice creation (`R/handlers/invoices.rs`, `T/lib/data.ts:41`) | `invoices` | price, insert | `InvoiceMath` (the price), `Retention` (the row) |
| settle rules, Horizon client (`R/settle.rs`, `R/stellar.rs:22`) | none | backoff, transition rule, retries | `Backoff`, `SettleRules` |
| configuration, cron secrets, errors, redaction (`R/config.rs`, `R/auth.rs:20`, `R/error.rs`, `R/redact.rs`) | none | read, admit, classify, redact | `ServiceRules`, asked by `Rules` |
| checkout (`T/app/api/invoices/[id]/checkout`, the page) | a time stamp | build and submit the buyer's transaction | not modelled (section 5) |
| pages, components, log formats | none | render | not modelled |

How they interact.  Detection and settlement share two columns,
`invoices.status` and `payouts.status` (module `Ledger`): the transaction that
marks an invoice paid inserts its payout, which from then on the settle cron can
see.  The settle cron and the retry cron meet in `payouts.status` and
`processing_worker_id`, the settle cron and the reconcile cron in
`transaction_hash`.  No process calls another; all of it is shared rows, read in
one statement and written in a later one.

What is hard here: overlapping invocations of every cron; a run cut off at
`maxDuration` while it holds a claim; a submission whose fate is unknown; a write
that is committed and reported lost; rows read, then acted upon after someone
else changed them; a webhook delivered twice, concurrently, or for the wrong
invoice; a deadline that passes between payment and scan; batches that fill up
with rows nobody can process; a deploy killed half-way through a file; two
services that refresh, purge and drop the same session; a retry refused because
the delivery that failed is on record; an i32 that overflows.  `PROJECT.json`
lists each hazard at its line.

## 2. Modules

    Ledger         the two status columns
      Settlement   a queued payout becomes a transfer
      Detection    a pending invoice becomes paid or expires -> Detection_proofs
        PaymentFlow  both together, implements MoneyFlow     -> PaymentFlow_proofs
    MoneyFlow      the abstract promise
    SettleRules    Settlement and the transition rule of settle.rs
                                                             -> Settlement_proofs

    LoginRateLimit the two windows
      Accounts     merchants, sessions, cookies              -> Accounts_proofs
    Deployment     migration runs of both services, the seed -> Deployment_proofs
    Retention      an invoice row up to the archive; the orphan report
                                                             -> Retention_proofs
    Deliveries     the webhook as a relay sees it            -> Deliveries_proofs

    Backoff, InvoiceMath, ServiceRules, Reports   pure rules
      Rules        puts them to the question                 -> Rules_proofs

    MCSettlement, MCDetection, MCPaymentFlow, MCAccounts, MCDeployment,
    MCRetention, MCDeliveries, MCRules            instances for TLC

The modules beside the money flow take from it what they need as a single step:
`Retention` has an invoice paid and settled in one step each, because how that
happens is checked elsewhere and the archive only looks at what was committed;
`Deliveries` has its own short copy of the webhook, because `Detection` lets a
delivery come any number of times and asks about safety, while here the question
is which of the repetitions an id suppresses.

**Settlement.**  A process is one slot of overlapping invocations: idle (`pc =
"next"`, empty list), or somewhere in its loop with the local variables of the
handler (`todo`, `cur`, `tx`, `dry`).  One action is one SQL statement or one
network call with the code up to it.  The settle route is `StartSettle`
(`queuedPayouts`), `ClaimNext` (`claimPayout`), `InspectClaimed` (key check,
invoice read, dry-run check), `Submit` (`buildSettlementXdr`,
`submitTransaction`), `RecordSubmission`, `RecordFailure`, and `SettlerDies` at
any point.  `Submit` has three outcomes: accepted, refused, and thrown although
the network holds the transaction.  `RecordSubmission` may succeed, be lost, or
be committed and reported lost.  The reconcile route's first step is
`StartConfirm`, `CheckTx`, `RecordVerdict`; the Rust retry is `StartRetry`,
`RetryRow`, `SkipRow`; the replay endpoint is `CheckReplayable`, `ReplayPayout`.
None of the UPDATEs but the claim looks at the current status, and the model
writes as blindly as the code.  `txFor` and `txState` are the Stellar network.

**Detection.**  `MarkInvoicePaid` is the shared transaction of both services
(`markInvoicePaid`, `mark_invoice_paid_and_queue_payout`): compare-and-set on
`pending`, the unique index on the hash, the event, the payout or the reason for
none, and the roll-back when the payout violates its CHECK.  `MarkPaidThrows`
says when.  The Rust webhook has an operator of its own, because it performs the
compare-and-set before it calls the shared one.  A webhook is `ReceiveDelivery`
(hash check), `ReadInvoice`, `ApplyDelivery`; a scan is `StartScan` (or
`StartReplay`, a scan of one invoice), then `VisitInvoice` for each, whose result
`RecordExpiry` or `RecordPayment` writes.  `EndsScan`, `Matches` and
`ScanStopsAt` are the matching rules of `findPaymentForInvoice`.  Payments are
external: any hash may carry any transfer of `Transfer`, in the order Horizon
lists them.

**PaymentFlow** runs the two next-state relations side by side on the shared
columns, from pending invoices.  **MoneyFlow** knows three things per invoice:
what the books say, the transfers in the network, the transfers executed.  The
refinement maps `invStatus` to the books, and the transactions of a payout that
are in flight, or succeeded, to the other two.

**Accounts** and **LoginRateLimit.**  Each person has one browser, which does one
thing at a time, at either service.  A registration is `StartRegister` (the email
is looked up), `CheckKeys` (the wallet keys, Rust only), `InsertMerchant` (the
unique index decides), `FinishRegister` (`create_session`); a login is
`StartLogin` (with `check_ip` in the Rust service), `CheckPassword` (with
`record_email_failure`), `FinishLogin` (with `clear_email_failures`).  Between any
two of them other requests run, the request may die, and the answer that carries
the cookie may be lost.  `RefreshSession`, `Logout` and `PurgeSessions` are one
statement each.  A call of the limiter is atomic, as in the code, where it holds
one mutex.  `admitted` and `refused` are history: what the limiter answered, as
opposed to what it remembers.

**Deployment.**  A run is killed anywhere; Postgres then rolls back and frees the
lock.  The Rust runner checks `schema_migrations` under its lock, the Next.js one
before its transaction, so that `ApplyFile` may find the file applied
(`collided`); the SQL of a file fails if Postgres does not accept it or rows there
are violate it (`SqlFails`).  The seed inserts rows one by one, with `ON CONFLICT`
clauses that cover one constraint of several.

**Retention.**  `BeginArchive` is the DELETE with its `RETURNING` and the INSERT
into `archived_invoices`, in an open transaction that holds its rows;
`CommitArchive` gives what the later statements of the same transaction find.
The schema's `ON DELETE CASCADE` has by then removed payouts and events, which is
why `PayoutsAfterDelete` and `EventsAfterDelete` appear there.  The report of
orphans reads Horizon first and the invoices some steps later.

**Deliveries.**  The id is recorded (`RecordDelivery`) before the hash is checked,
the invoice read and marked paid; the DELETE of old ids is started with the
delivery and not awaited, so `PurgeDeliveries` happens anywhere before or after.
Ages are kept instead of dates, up to one more than the window, which makes the
state space finite without stopping the clock.

**Rules** has no system behind it: a state is one input, `ask`, a step computes
the code's answer, `reply`, and the invariants compare the two.  Every operator
asked is a translation of one function; the tables, thresholds and enumerations
are the code's, the arithmetic wraps at `2 * Half` as an i32 does at 2^32.

## 3. Runs

Every cfg is run with `tlc -config <run>.cfg <module>`.

| run | module | shows |
|---|---|---|
| `settle_safety` | `MCSettlement` | `AtMostOneTransfer`, `ClaimExclusive`, `SettledIsTransferred` with every fault, two settle and two reconcile runs, retry, replay and the claim endpoint |
| `settle_progress` | `MCSettlement` | a queued payout is attempted unless a full batch of rows that can no longer be claimed stays before it (`QueuedIsAttempted`); a submitted one is resolved unless its transaction expired (`SubmittedIsResolved`); settled is final; a submitted payout waits for the network's verdict; a settlement is recorded by the rule of `settle.rs`, which nothing calls, or repeats one (`SettlesByTheRule`) |
| `detect_safety` | `MCDetection` | paid, event and payout change together; one payment pays one invoice; the first decision stands |
| `detect_liveness` | `MCDetection` | a payment the scan can see is credited unless the deadline passes first; an overdue invoice is closed |
| `flow_money` | `MCPaymentFlow` | detection and settlement together implement `MoneyFlow`; payouts exist exactly for accepted invoices; every transfer is backed by a payment a buyer made for this invoice and no other (`TransferIsBacked`) |
| `accounts` | `MCAccounts` | a cookie belongs to the one who registered the account (`CookieIsOwn`); until it expires it works at both services (`CookieIsGood`); the login limiter keeps its windows, tells the truth in Retry-After and forgets after a success (`LimiterHolds`) |
| `deploy` | `MCDeployment` | whoever overlaps or is killed, each file takes effect once and in order (`AppliedOnceInOrder`); a Rust run that finds its file recorded by another run meanwhile met one of Next.js (`LockSparesRuns`); the files before 018, which Postgres never accepts, are all applied in the end, unless a run is killed or the data refuses a constraint (`MigrationsComplete`); no row is in the tables that a constraint in force forbids (`SchemaHolds`); a seed run is refused a row only where a first run would have been (`RerunIsNoWorse`) |
| `retention` | `MCRetention` | the archive, with the parameter as it was meant, loses and repeats no invoice row and takes none early (`StatusEndsInArchive`); the event of a payment is there while its invoice is live and its retention lasts (`HistoryIsKept`) |
| `deliveries` | `MCDeliveries` | within the window an id is let in once; a relay that keeps sending under one id gets its invoice paid, unless the deadline passes first, though a run that died has left the id behind |
| `rules` | `MCRules` | `WaitsAreRight`: the dead-letter threshold and the backoff table cut at the same count, no payout is skipped for ever, 7.5 s of throttling are sat out; `NetIsNeverNegative`: also where the multiplication overflows, at rates up to 100 %; `SecretsProtect`: no bad login limit or cron secret opens a route, what the redactions are made for stays out of the log; `OperatorsAreTold`: class and status of errors, health and alerts, metrics and their window agree |
| `rust_webhook_loses_payout` | `MCDetection` | violated: the Rust webhook pays coherently |
| `archive_never_moves` | `MCRetention` | violated: a settled invoice is archived in the end, if the archive is called again and again |

The violated properties are sentences of the repository's own documents; the
findings in `PROJECT.json` quote them.  The Rust webhook runs `UPDATE ... WHERE
status = 'pending'` and then calls a helper that runs it again and concludes that
another worker was first, so the invoice is paid and the merchant is never queued
for payment.  The archive cron sends an `i64` for `$1::int`, which the driver
refuses to serialize as an `int4`; the purge of events beside it sends an `i32`.
The run `retention` sets `ParamAccepted = TRUE` and so asks about the archive once
that is repaired, while `archive_never_moves` has the value of today's code; only
the latter asks whether anything is archived at all.

More disagreements have a configuration beside the runs, for the reader who wants
to see them.  TLC stops at the first property that fails: delete the others from
the cfg to see each.

| cfg | module | violated, and the sentence it disagrees with |
|---|---|---|
| `settle_stuck` | `MCSettlement` | `RequeuedIsAttempted`: a requeued payout keeps its claim and is refused for ever; `rust-backend/README.md:181` "for the next settlement attempt" |
| | | `QueuedIsAlwaysAttempted`: rows that failed or were requeued keep their claims and their places in the batch, oldest first, and newer payouts starve behind them; `T/lib/data.ts:234` |
| | | `SubmittedIsAlwaysResolved`: a transaction that expired is "not yet found" for ever; `T/lib/stellar.ts:146` "still propagating" |
| `settle_doubts` | `MCSettlement` | `DryRunIsPure`: a dry run claims its batch; `docs/issue-backlog/astropay-250-issues.md:772` "without mutating invoice or payout state" |
| | | `OneSettledEvent`: two overlapping reconcile runs record two `merchant_settled` events; `R/settle.rs:81` "idempotency guard" |
| | | `SettledIsFinal`: a submission recorded but reported lost has the settle run mark a settled payout failed; the same line |
| | | `CleanReplay`: the retry cron writes a count it read before an operator reset it; `R/handlers/cron.rs:552` "clean attempt" |
| | | `HealthCountsDeadLettered`: replayed payouts are counted as dead-lettered; `rust-backend/README.md:353` |
| `rust_reconcile_blind` | `MCDetection` | `VisiblePaymentIsDetected`: the Rust scan looks for fields in `#[serde(flatten)] raw` that serde has taken out of it (and compares `10.00` with Horizon's seven decimals) |
| `shadowed_never_detected` | `MCDetection` | `PaymentIsDetected`: a newer payment of the same amount hides an older one; `docs/reconciliation/webhook-assumptions.md:129` "will eventually be detected" |
| `one_cent_never_detected` | `MCDetection` | `VisiblePaymentIsDetected`: an invoice of one cent has nothing left for the payout's CHECK; the same line |
| `paid_in_time_expired` | `MCDetection` | `PaidInTimeIsNotExpired`: paid before the deadline, scanned after it; the same line |
| `deliveries_doubts` | `MCDeliveries` | `DuplicateWasProcessed`: the id of a run that died is refused; `webhook-assumptions.md:23` "already processed" |
| | | `ResolvedIsPaid`: an outcome is counted as resolved although `markInvoicePaid` changed nothing; `webhook-assumptions.md:192` |
| `retention_doubts` | `MCRetention` | `PayoutIsArchivedToo`: the cascade removes payouts and events before they are copied; `HashNamesOneInvoice`: an archived hash is free again; `OrphansArrived`: settlements the treasury sent are reported as orphans; `NamedIsNoOrphan`: so are payments whose invoice has been archived |
| `accounts_doubts` | `MCAccounts` | `LogoutEndsSession`: logging out drops the cookie and leaves the row; `rust-backend/README.md:79` "Logout still invalidates the same row" (`FirstRegistrationStands` and `ExpiredStaysExpired`, in the same cfg, hold) |
| `wallet_key_shared` | `MCAccounts` | `KeysAreUnshared`: two registrations look the keys up before either inserts |
| `migration_018_fails` | `MCDeployment` | `EveryFileApplies`: file 018 says `ADD CONSTRAINT IF NOT EXISTS`, which is no SQL of Postgres; `rust-backend/tests/clean_postgres_migrations.rs`, a test one has to opt into, expects every file to apply to a clean database |
| `seed_fails` | `MCDeployment` | `SeedFills`: on a migrated database the seed's public ids are refused; `R/bin/seed.rs:22` "Each merchant gets five invoices" |
| | | `RerunIsSafe`: the rows of a run that was killed before the unique index came refuse the next run's; `R/bin/seed.rs:9` "running it multiple times is safe" |
| `rules_doubts` | `MCRules` | `FeeIsTheRate`: where the i32 wraps, the fee is not the rate |
| | | `BackoffAsDocumented`: a row with count 1 waits 15 minutes and one with count 4 is dead-lettered at once; the table of `R/settle.rs:11` has 5 minutes and 4 hours |
| | | `DsnIsRedacted`: credentials with a `/`, or among the parameters, are not cut out of the log line; `R/redact.rs:118` "while credentials are hidden" |
| | | `SessionsHaveASecret`: an empty `SESSION_SECRET` starts the service (`R/config.rs:104`) |

### Bounds, and why they are enough

* Two invoices: every hazard relates one payout to itself or a pair of them
  (a shared hash, an older row in the way of a newer one).  In `flow_money` there
  is one payment, for either of two invoices at the same price, which a delivery
  and a scan carry at once; the relay reports what happened (`RelayTrusted`), since
  the webhook asks Horizon nothing and a relay that makes payments up is paid out
  all the same.  Two payments at once, and an untrustworthy relay, are in
  `detect_safety`, two transfers at once in `settle_safety`.
* Two slots of a kind where two invocations can race; a slot starts again when
  its run ends, so any number of runs in sequence is covered.
* Three transactions in `settle_safety`: one more than payouts, so that a second
  transfer for the same payout could be built if the code allowed it.  In
  `settle_progress` two are enough: none is ever needed twice.
* `DeadLetterThreshold` is 3 instead of 5 in the safety runs (fewer rounds to the
  same branch) and 5 in `settle_progress`.  `failures` is bounded by the code
  itself, as each payout is submitted at most once and a failed one is
  requeued, dead-lettered or replayed; no constraint cuts the state space.
* `BatchSize` is 50, that is no limit, where batches do not matter, and one, for two
  payouts, in `settle_progress`: a row nobody can claim fills the batch, and
  `QueuedIsAttempted` says that nothing less keeps the newer payout waiting.
  `ScanLimit` equals the number of invoices in `detect_liveness`: with one less both
  its properties fail, because an invoice nobody pays keeps the newer one out of the
  scan until its own deadline.  No price there is so low that nothing is left of
  it; `one_cent_never_detected` has that.
* A transaction of `settle_progress` may expire: it is then in no ledger and Horizon
  does not know it.  The run leaves out crashes and `write_unacked`, which
  `settle_safety` and `settle_doubts` have.
* Two buyer payments, of the right amount for either invoice; `detect_liveness`
  adds one in another asset, `shadowed_never_detected` gives both invoices one
  price.
* `accounts`: one email, for the questions are who gets it and whether its owner's
  sessions hold; two people, at either service; two session rows; a clock of three
  ticks, which is longer than a session (two), the address window (two) and the
  email window (one), so that each of them opens, fills and closes again.  The
  limits are 2 and 1, the least that tell "at the limit" from "above it".
* `deploy`: four files, one of each kind: the base schema, the unique index on the
  hash, a CHECK the seed's rows violate, and 018, which no run gets past; two Rust
  runs, for the lock, and one of Next.js, which has none.  The seed may start again
  whenever it ends.
* `retention`: two invoices and two payments, two archive runs; one day until the
  archive and one of retention of events, on a clock of five days, so that every
  age on both sides of each limit occurs.  A window of two payment operations is
  cut off once there are more.
* `deliveries`: two requests, two ids and a message without one, a window of one
  tick with ages up to two (inside, at the edge, beyond), one fault.
* `rules`: every failure count up to two above the threshold, at every age up to
  the longest window; connection strings of up to three tokens before the host, with
  `@` and `/` anywhere among them, and a password after it; every instant up to 10 s of throttling; prices around each
  edge of rounding and overflow.  The i32 is scaled to 12 bits (`Half = 2048`) and
  10000 basis points to 100: a product of two bounded numbers that wraps once or
  twice, a quotient, and `max(1, _)` behave alike at either scale.  Tables of up to
  three payouts and one invoice; metrics with hours of two ticks.
* `CHECK_DEADLOCK FALSE`: when everything is settled, or nobody pays, the system
  is at rest.
* Symmetry only in safety runs, and only over slots and hashes that no property
  and no action tells apart; invoices are ordered by `created_at` and are never
  permuted.

### Fairness

`T/vercel.json` schedules two routes of Next.js, reconcile every ten minutes and
settle every fifteen, so a slot of theirs that can start a run eventually does, and
an invocation that is not cut off takes its next step: weak fairness of
`SettlerStep`, `ConfirmerStep` and, for the Next.js scan of `detect_liveness`,
`ScannerStep`; a delivery that has been received is handled (`DeliveryStep`).
Nothing schedules the routes of the Rust service
(`docs/reconciliation/webhook-assumptions.md:58` keeps production settle traffic off
them, `:116` speaks of no automatic retry): its retry, its archive and its reports
may be called at any time and need never be, and no property counts on them.  The
one exception is `archive_never_moves`, which grants that the archive is called and
is violated all the same.  The liveness runs leave out the faults that cut runs off
(with a crash in every run nothing could be promised), and keep the ones that are
answers of the network.  The network decides every transaction one way or another,
for it carries a timeout of 180 s (`T/lib/stellar.ts:176`): it succeeds, fails, or
expires outside every ledger.  In these runs neither buyers, nor the relay, nor an
operator are assumed to act.

A migration run that is not killed takes its next step (weak fairness of
`RunnerStep`); one that is killed takes none, and `MigrationsComplete` excepts it.
`archive_never_moves` grants that days pass, that the archive is called, and that not
every one of its runs is cut off (strong fairness of `CommitArchive`).  In
`Deliveries`, requests and their DELETEs end unless one of the bounded faults hits
them (weak fairness of `CallStep`, `PurgeDeliveries`); that the relay goes on
sending what it has not seen applied (strong fairness of `Deliver` while the
invoice is pending) is an assumption about an external service
(`docs/reconciliation/webhook-assumptions.md:205` expects it to retry).

## 4. Proofs

Eight modules hold the theorems, one beside each component and one for the
composition.  They hold for every value of the constants that meets the named
assumptions: any number of invoices, merchants, processes, runs, deaths and
retries, any batch size, window and limit.  `PROJECT.json` lists them; the tables
below name the property each one states and where it is also model-checked.

Every invariance proof has the same three parts: the initial states satisfy an
inductive invariant, each action preserves each of its conjuncts, and the property
follows.  The inductive invariants are defined beside the properties, in the
modules of the components, and were checked by TLC on the instances of section 3
before they were proved.

| inductive invariant | module | what it adds to the properties |
|---|---|---|
| `SettlementInv`, `BooksInv` | `Settlement` | who works on a payout has claimed it; where the payout is on its way |
| `DetectionInv` | `Detection` | what a delivery or a scan has in hand |
| `FlowInv` | `PaymentFlow` | only accepted invoices have payouts, only payouts are claimed |
| `AccountsInv`, `LimiterInv` | `Accounts`, `LoginRateLimit` | who acts past the INSERT; a window is the tail of its log |
| `DeploymentInv` | `Deployment` | what a run has left behind it is applied; who holds the lock |
| `RetentionInv` | `Retention` | a row is live or archived; open transactions move disjoint rows |
| `DeliveriesInv` | `Deliveries` | a row is as old as the last admission of its id |

### Settlement (`Settlement_proofs`)

| theorem | statement |
|---|---|
| `SettlementInvariant` | `Spec => []SettlementInv` |
| `TypeCorrect` | `Spec => []TypeOK` |
| `ClaimIsExclusive` | `Spec => []ClaimExclusive` |
| `NoDoubleTransfer` | `Spec => []AtMostOneTransfer` |
| `SettledMeansTransferred` | `Spec => []SettledIsTransferred` |
| `BooksInvariant` | `Spec => []BooksInv` (*) |
| `SettledForGood` | `Spec => SettledIsFinal` (*) |
| `VerdictsAreTrue` | `Spec => SubmittedWaitsForVerdict` (*) |
| `SettledByTheRule` | `Spec => SettlesByTheRule` (*) (**) |

(*) if `"write_unacked" \notin Faults`: no write is committed and reported lost.
(**) and if `IsFiniteSet(Confirmer)`: the reconcile runs that overlap can be counted.

None of the settlement's safety properties is inductive.  "At most one transfer"
survives a retry after an unknown submission only because the retry cannot lead to
another submission, and that is so because **a claim is never given back**:
`processing_worker_id` is set by `claimPayout` and cleared by no statement that
runs.  `WorkIsClaimed` states it: every payout that is not `none` or `queued`,
that a run has in hand, that any list names or that a transaction was built for
is claimed.  From it follow `OneTxPerPayout` (a payout never gets a second
transaction, not even after the first failed, which is stronger than
`AtMostOneTransfer`), `SettlerKnows` (no transaction exists for the payout between
claim and submission; the hash in hand is the payout's), and `HashesAreOwn` (the
hash a row or a reconcile run carries belongs to that row), which carries
`SettledIsTransferred`.  The same fact is behind `settle_stuck`: the lock that
is never released is what makes double payment impossible and retries void.
Releasing the claim when a payout is requeued, without settling the fate of the
previous submission first, breaks `AtMostOneTransfer`; that is the mutant
`RequeueFailed_ReleasesClaim`.

The action properties need to know where a payout is on its way, and no UPDATE
asks.  `BooksInv` says why they still hold: what a settle run holds is queued, was
never submitted and is in nobody's retry list (`HeldIsFresh`); what a reconcile run
asks about is still on record (`WatchedIsRecorded`); a payout is submitted or
settled exactly until its transaction is known to have failed
(`StatusFollowsTx`); the invoice waits for the payout (`InvoiceFollowsPayout`).
The hypothesis (*) is needed, not convenient: with `write_unacked` a submission can
be recorded, settled, and then marked failed by the run that was told its write was
lost, which is the counterexample `settle_doubts` finds to `SettledIsFinal`.

`SettlesByTheRule` speaks of the case the rule of `settle.rs` calls its idempotency
guard: a payout that is settled already.  The code has no such guard, and overlapping
runs do repeat a settlement (`OneSettledEvent` in `settle_doubts`).  What is proved is
that this is all they do: a settlement that is not allowed by the rule repeats one of
the same transaction, and there are at most as many as there are runs
(`EventsAreCounted`: a run that may still record a settlement holds the row and has
not recorded it).

The proof has one lemma per group of actions that says what it can change
(`SettlerMoves`, `ConfirmerMoves`, `PayoutBooksMove`, `TxsStay`, `ClaimsStay`) and one
step lemma per conjunct, combined in `NextInv` and, for the books, once more.

### Detection (`Detection_proofs`)

| theorem | statement |
|---|---|
| `DetectionInvariant` | `DSpec => []DetectionInv` |
| `DetectionTypeCorrect` | `DSpec => []DTypeOK` |
| `OnePaymentPaysOneInvoice` | `DSpec => []OnePaymentOneInvoice` |
| `DecisionIsFinal` | `DSpec => FirstDecisionStands` |
| `PaidMeansBooked` | if `RustHook = {}`, `DSpec => []PaidCoherently` |

Every write is guarded by the row it writes, so that the properties are almost
inductive.  `DetectionInv` adds `RunsCarryWork` (what a delivery or a scan has in
hand is an invoice and a hash), which the typing of the books needs.  `BooksMove`
says that a step leaves the books alone, expires an invoice, or has one paid and,
unless it is the Rust webhook's, booked; the rest follows from it.
`PaidMeansBooked` assumes that no webhook is handled by the Rust service, the very
case `rust_webhook_loses_payout` shows it to fail in.

### The whole flow (`PaymentFlow_proofs`)

| theorem | statement |
|---|---|
| `FlowInvariant` | `FlowSpec => []FlowInv` |
| `SettlementSafeInFlow` | `FlowSpec => [](AtMostOneTransfer /\ ClaimExclusive /\ SettledIsTransferred)` |
| `TransfersAreBacked` | `FlowSpec => []TransferIsBacked` |
| `PayoutsMatchInvoices` | if `RustHook = {}`, `FlowSpec => []PayoutMatchesInvoice` |
| `ImplementsMoneyFlow` | `FlowSpec => KeepsMoneyFlow`, that is `Money!Spec` |

`FlowInv` takes over `SettlementInv` and detection's invariant: a step of one
service leaves the private variables of the other alone, and the two that both
write, `invStatus` and `payStatus`, are written by the other only in ways the
invariant allows (detection creates a payout that nobody has claimed; settlement
settles an invoice that is paid).  To that it adds `AcceptedByHash` (an invoice has
a payment hash exactly when it was accepted) and `PayoutIsAccepted` (only a payout
row can be claimed, and only an accepted invoice has one).  A transfer is claimed
work, so its invoice was accepted, so it has a hash, and the hash is its own.  That a
payment stands behind the hash is `PaymentsAreReal`: with a relay that reports only
what happened, a delivery carries a payment made for its invoice, a scan carries
one by its own matching rules, and an invoice records one of them.  Together that is
`TransferIsBacked`; without the trust in the relay only its first half is left,
since the webhook asks Horizon nothing (`webhook-assumptions.md:29`).

The refinement is proved step by step.  Each action of detection changes the book
of at most one invoice, as an action of `MoneyFlow` does; of settlement's, a
submission that reaches the network adds a transfer in flight, the network's
verdict moves it or drops it, a verdict recorded settles the book, and everything
else is a stutter.  The step that needs the invariant is the submission: the
settle run read the invoice's status one statement earlier, and `MoneyFlow` wants it
paid at that moment.  It still is, because settling it would take a transaction of
that payout, and there is none yet.

### Accounts and the login limiter (`Accounts_proofs`)

| theorem | statement |
|---|---|
| `AccountsInvariant` | `AccountsSpec => []AccountsInv` |
| `AccountsTypes` | `AccountsSpec => []AccountsTypeOK` |
| `LimiterIsSound` | `AccountsSpec => []LimiterHolds` |
| `CookiesAreOwn` | `AccountsSpec => []CookieIsOwn` |
| `CookiesAreGood` | `AccountsSpec => []CookieIsGood` |
| `RegistrationsStand` | `AccountsSpec => FirstRegistrationStands` |
| `SessionsStayExpired` | `AccountsSpec => ExpiredStaysExpired` |

Between its statements a request owns nothing but what it has read.
`RegistrantActs` says that one past its INSERT or its password check belongs to the
registrant of the email; `CookieNamesRow` that a cookie names a row made with it,
which outlives it and is purged only after it has expired.  `RowsLiveLifetime`
gives the refresh its monotonicity: no row expires later than a lifetime from now,
so that a refresh never shortens one.

`LimiterInv` relates what the limiter remembers to the log of what it answered:
the window is the tail of the log, everything it has forgotten is older than the
window, and no stretch of the log is crowded.  The log is in the order of the
clock, which is what makes the `retain` of the code drop a prefix.  From the tail
follow both promises: an event let in at the limit would find a full window, and
the oldest event the window holds says exactly when it opens again.

### Deployment (`Deployment_proofs`)

| theorem | statement |
|---|---|
| `DeploymentInvariant` | `DeploymentSpec => []DeploymentInv` |
| `DeploymentTypes` | `DeploymentSpec => []DeploymentTypeOK` |
| `FilesAreAppliedOnce` | `DeploymentSpec => []AppliedOnceInOrder` |
| `OnlyNextCollides` | `DeploymentSpec => []LockSparesRuns` |
| `SchemaIsKept` | `DeploymentSpec => []SchemaHolds` |
| `SeedingIsSafe` | `DeploymentSpec => []RerunIsNoWorse` |

A run takes its files in order and passes one only when it is applied
(`RunsSkipApplied`), so a file is applied only after all lower ones.  A Rust run has
the lock from the moment it looks a file up (`LockIsHeld`), so that if the file is
applied when it comes to insert the row, a run of Next.js did it.  The demo
invoices that are there, of whichever run, are the first of the list
(`SeededInOrder`), so that a row refused because of what is there would have been
refused in an empty database too, there because of the same run's own rows; and it
stays refused (`SeedsProgress`), because constraints are only added.  "The current file" and "the next row" are least elements of sets of
numbers; their existence comes from well-founded induction over sets.

### Retention (`Retention_proofs`)

| theorem | statement |
|---|---|
| `RetentionInvariant` | `RetentionSpec => []RetentionInv` |
| `RetentionTypes` | `RetentionSpec => []RetentionTypeOK` |
| `ArchiveKeepsRows` | `RetentionSpec => StatusEndsInArchive` |
| `HistoryStands` | `RetentionSpec => []HistoryIsKept` |

What two open transactions have moved is disjoint, settled and old enough
(`MovedAreEligible`), because the DELETE holds its rows until the commit; so a commit
moves rows nobody else has moved and a death moves none.  The purge
takes events by age alone, and `HistoryIsKept` holds because the day of a payment
is the day of its event.

### Deliveries (`Deliveries_proofs`)

| theorem | statement |
|---|---|
| `DeliveriesInvariant` | `DeliveriesSpec => []DeliveriesInv` |
| `DeliveriesTypes` | `DeliveriesSpec => []DeliveriesTypeOK` |
| `AdmittedOnce` | `DeliveriesSpec => WindowAdmitsOnce` |

The DELETE nobody waits for may run at any time, but it removes only what is older
than the window: a row is as old as the last admission of its id, and an id without
a row was admitted more than a window ago, if ever (`RowsAreAdmissions`).

### The pure rules (`Rules_proofs`)

| theorem | statement |
|---|---|
| `WaitsEnd` | `RulesSpec => []WaitsAreRight` |
| `MerchantsAreNotCharged` | `RulesSpec => []NetIsNeverNegative` |
| `SecretsAreKept` | `RulesSpec => []SecretsProtect` |
| `OperatorsHear` | `RulesSpec => []OperatorsAreTold` |

A state is a question and its answer, so each theorem rests on lemmas about the
operators asked and on `QuestionStands`, which says that a step answers the question
that was put.  The lemmas are about all inputs: any failure count and age for the
backoff table (`RetryRule`: the table covers every count below the threshold and no
other), any price, rate up to 100 % and width of the integers for the fee
(`WrapIsBelow`: an i32 that has wrapped is at most the product it stands for, so the
fee is at most the price), any tables, thresholds and hours for the reports.  When
Horizon answers an attempt, `Instant`, is a function on the finite set of attempts
and is unfolded there, which needs no induction.  The largest and the smallest
element of a table or of the positions in a string come from the same well-founded
induction as in `Deployment`.

### Assumptions

Each module names its own, and TLC evaluates all of them.  `InvoiceAssumption`:
invoices are numbered, for the crons order them by `created_at`.
`SettlementAssumption`, `DetectionAssumption`, `LimiterAssumption`,
`AccountsAssumption`, `DeploymentAssumption`, `DeliveriesAssumption`,
`RetentionAssumption`, `InvoiceMathAssumption`, `ReportsAssumption`: the constants
have their types, lengths of time and limits are numbers, and a null value is no
member of the set it extends.  `RulesAssumption` also says what a well-formed input
is: a rate is at most 100 % (`FullRate`; `R/config.rs:116` takes any number, and
beyond 100 % the net amount is negative), what stands before the host of a
connection string ends with an `@` (`ProperRest`), a cookie's name ends at its first `=`
(`ProperCookie`), a table is finite (`ProperTable`), and a secret is none of the
words the code prints in its place.

Two hypotheses stand in the theorems that need them: `"write_unacked" \notin Faults`
(the four marked with an asterisk), `IsFiniteSet(Confirmer)` (`SettledByTheRule`) and `RustHook = {}` (`PaidMeansBooked`,
`PayoutsMatchInvoices`).  For the first and the last a configuration of section 3 shows
what happens without it.

### What stays model-checked

The liveness properties: `QueuedIsAttempted`, `SubmittedIsResolved`,
`VisiblePaymentIsDetected`, `OverdueIsClosed`, `MigrationsComplete` and
`RetriedIsApplied`.
They hold under fairness, and neither fairness (`ENABLED`) nor an induction over the
length of a list or the number of rounds is within the prover's reach.  The
properties the code does not have, of course, are only refuted.

## 5. What the models leave out

* The scan window in hours is 0, its default, and means no window.
* Dry runs of reconcile and replay write nothing and are left out; those of settle
  write a claim and are in.
* The Rust scan never reaches its own mark-paid transaction (see
  `rust_reconcile_blind`), so `RecordPayment` is fired by the Next.js scan alone.
  `Finds` says so in one place.
* In `findPaymentForInvoice` only payments to the treasury are considered; the
  treasury's own outgoing settlements take places in the window of fifty, which
  `Window` does not count.
* Horizon prints amounts with seven decimals and the Rust scan compares them with
  two; that and the missing fields both end in a mismatch event, which
  `mismatchEvents` records without its kind.
* Raw payloads, `cron_runs` and the wording of failure reasons.  In `Detection` a
  delivery may be repeated, lost or wrong; which of its repetitions an id
  suppresses makes no difference to safety, and is the subject of `Deliveries`.
* The reading of the clock and the Horizon call of one visit are one step.
* The routes of the replay and claim endpoints are written `:payout_id` in
  `R/main.rs`, a syntax axum 0.8 does not accept; the models take the handlers as
  reachable, which is what the code intends.

* The second statement of `create_invoice`, which adds the links: no modelled step
  reads them.  Nothing repairs an invoice whose creation died between the two.
* Checkout.  The route builds a transaction for the buyer's wallet, or passes a
  signed one on, and changes one time stamp; whether the buyer then pays is
  `BuyerPays` of the models.
* Password hashing is a match or a mismatch; JWT signatures are taken to be
  unforgeable.  A restart, which empties the login windows, is left out.
* The rows the jobs write into `cron_runs`; its CHECK lists no job `archive`.
* The delay between the two clocks of a session: the row's expiry is the database's
  `NOW()`, the token's the service's `Utc::now()` a moment later; the model has one.
* Deliveries that leave no outcome (a request without authorization, the Rust
  webhook, a metric whose INSERT failed and was swallowed); `OperatorsAreTold` is
  about the outcomes that were counted.
* The default of `SESSION_SECRET` in `T/lib/env.ts:12`, for development.
* Log layers and formats, the rest of the Next.js environment, pages and components: they
  keep no state, or render it.
* `confirm_transaction` and `release_payout_from_processing` have no caller, and
  `validate_settle_transition` none but the property that asks about it.

Facts about the code met on the way, which the models carry and a reader of the
code may not expect:

* The retry cron decides with the stored count plus one, so that after one recorded
  failure the wait is 15 minutes, not five; both `markPayoutFailed` of Next.js and the retry cron
  count, so a payout gets fewer attempts than the threshold says.
* `purge_payment_events` falls back to 365 days without a row in
  `retention_config`; `docs/database/retention-policy.md:56` has it skip the table.
* The Rust service truncates a fee, the Next.js one rounds it; a debug build
  panics where a release build wraps.
* A settings value that does not parse is replaced by its default without a word;
  `RECONCILE_SCAN_LIMIT=-1` parses, and is accepted.
* Metrics asked for n hours cover between n - 1 and n of them.
* The alert about stuck payouts ages them from `created_at` and never looks at
  submitted ones.

## 6. Plan

Done: every module of section 2, with the proofs of every invariant and action
property of the passing runs and of the refinement of `MoneyFlow`.  What is left:

1. `AtMostOneTransfer` if the claim were given back: the condition a release must
   meet, as a theorem rather than as a mutant.
2. Properties of detection beside the runs: that a mismatch event is recorded
   for a payment that was not credited, and that a scan stops only where
   `ScanStopsAt` says.
3. Shorter proofs where two modules prove the same thing about least elements
   and about updates of records by key: a module of common lemmas, if a proof module
   is given up for it.
4. Checkout, if it comes to keep state.
