------------------------------ MODULE Reports -------------------------------
(***************************************************************************)
(* What the Rust service tells its operators: payout-health and            *)
(* alert-check, each one query over the tables, and the webhook metrics,   *)
(* counted by the hour by the Next.js webhook and summed up over a window. *)
(***************************************************************************)
EXTENDS Integers, FiniteSets, FiniteSetsExt

CONSTANTS
  HourLength,           \* moments of an hour told apart
  MostHours,            \* 168 in the code
  UsualHours,           \* 24 in the code
  NoAge, NoRate

ASSUME ReportsAssumption ==
  HourLength \in Nat \ {0} /\ MostHours \in Nat \ {0} /\ UsualHours \in 1..MostHours

Outcome ==
  {"resolved", "duplicate", "stale", "miss", "mismatch", "auth_error", "error"}

-----------------------------------------------------------------------------
(* invoices, payouts: sets of rows with a status and an age.               *)

Aged(rows, status) == {r \in rows : r.status = status}

OldestQueued(payouts) ==
  LET queued == Aged(payouts, "queued")
  IN IF queued = {} THEN NoAge ELSE Max({r.age : r \in queued})

\* payout_queue_stats: one query, the dead letters counted in their own table.
PayoutQueueStats(payouts, deadLetters) ==
  [queued |-> Cardinality(Aged(payouts, "queued")),
   failed |-> Cardinality(Aged(payouts, "failed")),
   deadLettered |-> deadLetters,
   oldestQueuedAge |-> OldestQueued(payouts)]

Stuck(rows, status, threshold) == {r \in Aged(rows, status) : r.age > threshold}

\* alert_check: an alert for each table with a row beyond its threshold.
AlertCheck(invoices, payouts, invoiceThreshold, payoutThreshold) ==
  {alert \in
     {[kind |-> "stuck_pending_invoice",
       count |-> Cardinality(Stuck(invoices, "pending", invoiceThreshold))],
      [kind |-> "stuck_queued_payout",
       count |-> Cardinality(Stuck(payouts, "queued", payoutThreshold))]} :
   alert.count > 0}

-----------------------------------------------------------------------------
(* deliveries: a sequence of [outcome, at], counted when they were answered*)

\* date_trunc('hour', ...), under which recordWebhookOutcome counts.
WindowStart(at) == (at \div HourLength) * HourLength

\* window_hours.unwrap_or(24).clamp(1, 168)
WindowHours(asked) ==
  CASE asked = NoAge     -> UsualHours
    [] asked < 1         -> 1
    [] asked > MostHours -> MostHours
    [] OTHER             -> asked

\* webhook_correlation_metrics: the totals of the windows that start within the
\* hours asked for, and the share of the deliveries that could have resolved an
\* invoice and did.
WebhookMetrics(deliveries, now, asked) ==
  LET recent == {n \in DOMAIN deliveries :
                   WindowStart(deliveries[n].at) >= now - WindowHours(asked) * HourLength}
      total(outcome) == Cardinality({n \in recent : deliveries[n].outcome = outcome})
      attempts == total("resolved") + total("miss") + total("stale") + total("error")
  IN [totals |-> [o \in Outcome |-> total(o)],
      rate |-> IF attempts = 0 THEN NoRate ELSE <<total("resolved"), attempts>>]
=============================================================================
