------------------------------- MODULE Rules --------------------------------
(***************************************************************************)
(* The pure rules of the Rust service put to the question: a state is one  *)
(* input, a step answers it, the invariants compare the answer with what   *)
(* the rule is for.                                                        *)
(***************************************************************************)
EXTENDS Backoff, InvoiceMath, ServiceRules, Reports

CONSTANTS
  Unanswered,
  MostFailures,         \* bound: failure counts that are asked about
  LongestThrottle,      \* bound: half seconds for which Horizon throttles
  Price, Rate,          \* prices (tenths of a cent) and platform_fee_bps
  Environment, Header, ConnectionString,
  CookieHeader,         \* sequences of pairs
  InvoiceTable, PayoutTable,  \* sets of rows with a status and an age
  AlertAge,             \* thresholds of alert-check
  LastMoment            \* bound: the time of the question about the metrics

\* Strings as the services meet them.  Of a connection string: an "@" ends what stands
\* before the host, a password there may hold "@" and "/", and credentials may follow
\* the host as parameters.
ProperRest(rest) ==
  /\ rest \in Seq({"credential", "@", "/", "host", "db"})
  /\ \E n \in 0..(Len(rest) - 1) :
       /\ n > 0 => rest[n] = "@"
       /\ \A k \in 1..n : rest[k] \in {"credential", "@", "/"}
       /\ rest[n + 1] = "host"
       /\ \A k \in (n + 2)..Len(rest) : rest[k] \in {"/", "db", "credential"}

\* Its credentials stand before the host and hold no "/": the form redact.rs names.
UserinfoOnly(rest) ==
  \A h \in DOMAIN rest : rest[h] = "host" =>
    \A k \in DOMAIN rest :
      (k < h => rest[k] # "/") /\ (k > h => rest[k] # "credential")

\* Of a cookie: its name ends at the first "="; without one it is all value.
ProperCookie(pair) ==
  /\ pair \in Seq({"name", "=", "credential"})
  /\ \E n \in 0..Len(pair) :
       /\ n > 0 => pair[n] = "="
       /\ \A k \in 1..(n - 1) : pair[k] = "name"
       /\ \A k \in (n + 1)..Len(pair) :
            pair[k] # "name" /\ (n = 0 => pair[k] = "credential")

\* The rows of a table are finitely many, so that one of them is the oldest.
ProperTable(rows) ==
  /\ IsFiniteSet(rows)
  /\ rows = {} \/ \E oldest \in rows : \A r \in rows : r.age \in 0..oldest.age

ASSUME RulesAssumption ==
  /\ MostFailures \in Nat /\ LongestThrottle \in Nat /\ LastMoment \in Nat
  /\ Price \subseteq Int /\ Rate \subseteq 0..FullRate
  /\ Unset \notin Secret
  /\ Secret \cap {"", "issuer", "[REDACTED]"} = {}
  /\ \A env \in Environment :
       {env.cronSecret, env.sessionSecret} \subseteq {Unset, ""} \cup Secret
  /\ \A header \in Header : header.token \notin {"Bearer ", "[REDACTED]"}
  /\ \A dsn \in ConnectionString : ProperRest(dsn.rest)
  /\ \A pairs \in CookieHeader : \A k \in DOMAIN pairs : ProperCookie(pairs[k])
  /\ \A rows \in InvoiceTable \cup PayoutTable : ProperTable(rows)
  /\ AlertAge \subseteq Int /\ NoAge \notin Int

VARIABLES ask, reply

rulesVars == <<ask, reply>>

Question ==
  [rule : {"retry"}, failures : 0..MostFailures, age : 0..240] \cup
  [rule : {"horizon"}, until : 0..LongestThrottle, then : {"ok", "unavailable"}] \cup
  [rule : {"price"}, service : {"rust", "next"}, asked : Price, bps : Rate] \cup
  [rule : {"start"}, env : Environment, header : Header] \cup
  [rule : {"error"}, error : AppErrors] \cup
  [rule : {"log"}, dsn : ConnectionString] \cup
  [rule : {"headers"}, cookies : CookieHeader, auth : Header] \cup
  [rule : {"watch"}, invoices : InvoiceTable, payouts : PayoutTable,
   pendingAge : AlertAge, queuedAge : AlertAge] \cup
  [rule : {"metrics"}, outcomes : Outcome \X Outcome, at : 0..LastMoment,
   now : 0..LastMoment, hours : {NoAge, -1, 0} \cup 1..(MostHours + 1)]

Asked(rule) == ask.rule = rule /\ reply = Unanswered
Answered(rule) == ask.rule = rule /\ reply # Unanswered

RulesInit == ask \in Question /\ reply = Unanswered

\* One failed row in the hands of the retry cron, age minutes after its failure.
AnswerRetry ==
  /\ Asked("retry")
  /\ reply' = RetryDecision(ask.failures, 0, ask.age)
  /\ UNCHANGED ask

\* One request while Horizon throttles for a time.
AnswerHorizon ==
  /\ Asked("horizon")
  /\ reply' = HorizonGet([k \in 0..MaxRetries |->
                IF Instant[k] < ask.until THEN "throttled" ELSE ask.then])
  /\ UNCHANGED ask

\* One POST /api/invoices.
AnswerPrice ==
  /\ Asked("price")
  /\ reply' \in (IF ask.service = "rust" THEN RustSplits(ask.asked, ask.bps)
                 ELSE NextSplits(ask.asked, ask.bps))
  /\ UNCHANGED ask

\* The service is started, and a cron route is called if it runs.
AnswerStart ==
  /\ Asked("start")
  /\ reply' = IF ~Starts(ask.env) THEN [runs |-> FALSE]
              ELSE LET config == FromEnv(ask.env)
                       secret == config.text.cron_secret
                   IN [runs |-> TRUE, limiter |-> LimiterSettings(config),
                       printed |-> DebugText(config.text),
                       admits |-> AuthorizeCron(secret, ask.header),
                       nextAdmits |-> NextAuthorized(secret, ask.header)]
  /\ UNCHANGED ask

\* A handler returns an error.
AnswerError == Asked("error") /\ reply' = IntoResponse(ask.error) /\ UNCHANGED ask

\* main logs where it connects to.
AnswerLog == Asked("log") /\ reply' = RedactConnectionString(ask.dsn) /\ UNCHANGED ask

\* The headers of a request are made fit for a log.
AnswerHeaders ==
  /\ Asked("headers")
  /\ reply' = [cookies |-> RedactCookieHeader(ask.cookies),
               auth |-> RedactAuthorizationHeader(ask.auth)]
  /\ UNCHANGED ask

\* payout-health and alert-check look at the same tables.
AnswerWatch ==
  /\ Asked("watch")
  /\ reply' = [health |-> PayoutQueueStats(ask.payouts, 0),
               alerts |-> AlertCheck(ask.invoices, ask.payouts,
                                     ask.pendingAge, ask.queuedAge)]
  /\ UNCHANGED ask

\* webhook-metrics is asked about a delivery, and another at the time of asking.
AnswerMetrics ==
  /\ Asked("metrics") /\ ask.at <= ask.now
  /\ reply' = WebhookMetrics(<<[outcome |-> ask.outcomes[1], at |-> ask.at],
                                [outcome |-> ask.outcomes[2], at |-> ask.now]>>,
                              ask.now, ask.hours)
  /\ UNCHANGED ask

RulesNext ==
  \/ AnswerRetry \/ AnswerHorizon \/ AnswerPrice
  \/ AnswerStart \/ AnswerError \/ AnswerLog
  \/ AnswerHeaders \/ AnswerWatch \/ AnswerMetrics

RulesSpec == RulesInit /\ [][RulesNext]_rulesVars

-----------------------------------------------------------------------------
\* Threshold and table, written down apart, agree: the retry cron dead-letters, at
\* once and whatever the age of the failure, exactly the payouts whose next count has
\* no window, so that none is skipped once 240 minutes have passed; a payout it
\* requeues has waited five minutes, and 15 once a failure is in its row's count.
NoCountIsStuck ==
  Answered("retry") =>
    /\ reply = "dead_letter" <=> BackoffMinutes(ask.failures + 1) = NoWindow
    /\ reply = "skip" => ask.age < 240
    /\ reply = "requeue" => ask.age >= (IF ask.failures = 0 THEN 5 ELSE 15)

\* A request survives 7.5 seconds of throttling, and no more: horizon_get gives up
\* on a 429 only after it has waited 500 + 1000 + 2000 + 4000 ms.
ThrottlingIsSatOut ==
  Answered("horizon") =>
    (reply = "unavailable" <=> ask.until > 15 \/ ask.then = "unavailable")

\* No merchant owes money for being paid: whatever the price, at any rate up to
\* 100 %, also where the multiplication overflows, a stored invoice is split into
\* a fee of at least a cent and a net amount that is not negative.
NetIsNeverNegative ==
  Answered("price") /\ reply # Refused =>
    /\ reply.fee >= 1 /\ reply.net >= 0
    /\ reply.gross = reply.fee + reply.net

\* A login limit or a cron secret that is missing or does not parse opens nothing: the
\* limits are off only where 0 is written, no window is empty, and a service without
\* a cron secret admits no caller, not even one with an empty token.
LimitsAndCronStayShut ==
  Answered("start") /\ reply.runs =>
    /\ reply.limiter.window >= 1
    /\ reply.limiter.ipMax = 0 <=> ask.env.ipMax = 0
    /\ reply.limiter.failMax = 0 <=> ask.env.failMax = 0
    /\ reply.admits \/ reply.nextAdmits =>
         ask.env.cronSecret \in Secret /\ ask.header.token = ask.env.cronSecret

\* Sentry hears of every failure that is the server's own or Horizon's, and of no
\* other: class and status were assigned in different places and must agree.
ServerFaultsAreReported ==
  Answered("error") => (reply.captured <=> reply.status >= 500)

\* What the log is told of a connection string keeps the host, and leaves the
\* credentials out where they stand before it and hold no "/", also if they hold an
\* "@".  It leaves all of a cookie's value out, also one with an "=", all of an
\* Authorization header's token, and of the configuration printed for debugging what
\* is secret, and keeps the cookies' names and the settings that are no secret.
CredentialsStayOut ==
  /\ Answered("start") /\ reply.runs =>
       /\ reply.printed \cap (Secret \cup {"credential"}) = {}
       /\ "issuer" \in reply.printed
  /\ Answered("log") =>
       /\ UserinfoOnly(ask.dsn.rest) => "credential" \notin Range(reply)
       /\ ask.dsn.scheme => "host" \in Range(reply)
  /\ Answered("headers") =>
       /\ ask.auth.token \notin Range(reply.auth)
       /\ \A k \in DOMAIN ask.cookies :
            /\ "credential" \notin Range(reply.cookies[k])
            /\ "name" \in Range(ask.cookies[k]) => "name" \in Range(reply.cookies[k])

\* What the two watching routes say of one moment agrees, though each has a query of
\* its own: the alert about payouts is raised exactly when the oldest queued payout
\* that payout-health shows is beyond the threshold, for no more than it counts.
WatchersAgree ==
  Answered("watch") =>
    LET alerts == {a \in reply.alerts : a.kind = "stuck_queued_payout"}
        health == reply.health
    IN /\ alerts # {} <=> health.oldestQueuedAge # NoAge
                           /\ health.oldestQueuedAge > ask.queuedAge
       /\ \A a \in alerts : a.count <= health.queued

\* The metrics of the last n hours hold every delivery of the last n - 1 hours, and
\* at the full hour of the last n, but none that is older; the present delivery
\* always counts, whatever number of hours is asked for.
MetricsCoverTheHours ==
  Answered("metrics") =>
    LET age   == ask.now - ask.at
        twice == IF ask.outcomes[1] = ask.outcomes[2] THEN 1 ELSE 0
        shown == reply.totals[ask.outcomes[1]] = 1 + twice
        full  == IF ask.now % HourLength = 0 THEN 0 ELSE 1
    IN /\ reply.totals[ask.outcomes[2]] >= 1
       /\ ask.hours \in 1..MostHours =>
            /\ age <= (ask.hours - full) * HourLength => shown
            /\ shown => age <= ask.hours * HourLength

\* Threshold and windows of the retry cron fit together, and horizon_get waits as long
\* as its delays say.
WaitsAreRight == NoCountIsStuck /\ ThrottlingIsSatOut

\* A bad login limit or cron secret opens nothing, and what the logging rules are made
\* to cut out of a line is not in it.
SecretsProtect == LimitsAndCronStayShut /\ CredentialsStayOut

\* Operators hear of every server fault, hear the same from both watching routes,
\* and see every delivery of the hours they ask about.
OperatorsAreTold == ServerFaultsAreReported /\ WatchersAgree /\ MetricsCoverTheHours

-----------------------------------------------------------------------------
(* Doubts: what one could expect, and what does not hold (rules_doubts.cfg). *)

\* The platform takes its rate, to the cent.
FeeIsTheRate ==
  Answered("price") /\ reply # Refused /\ ask.asked <= 10 * MostAsked =>
    LET exact == reply.gross * ask.bps
    IN \/ reply.fee = 1 /\ exact < FullRate
       \/ reply.fee * FullRate \in (exact - FullRate)..(exact + FullRate)

\* The table of settle.rs, which speaks of the count in the row: a failed payout waits
\* the window of that count, and is dead-lettered from five on.
BackoffAsDocumented ==
  Answered("retry") /\ ask.failures >= 1 =>
    /\ reply = "dead_letter" <=> ask.failures >= Threshold
    /\ reply = "requeue" <=> BackoffElapsed(ask.failures, 0, ask.age)

\* The log line of a connection string holds no credential, whatever its form.
DsnIsRedacted == Answered("log") => "credential" \notin Range(reply)

\* A running service signs its sessions with a secret.
SessionsHaveASecret ==
  Answered("start") /\ reply.runs => ask.env.sessionSecret \in Secret
=============================================================================
