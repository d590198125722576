------------------------------ MODULE Backoff -------------------------------
(***************************************************************************)
(* Two waiting rules.  settle.rs: how long a failed payout waits before    *)
(* the Rust retry cron touches it, in minutes.  stellar.rs: how horizon_get*)
(* repeats a request that Horizon throttles, in half seconds.              *)
(***************************************************************************)
EXTENDS Integers

NoWindow == -1

\* A bug this could have: the row of count 4 missing from the table.
BackoffMinutes_ShortTable(count) ==
  IF count \in 1..3 THEN <<5, 15, 60>>[count] ELSE NoWindow

\* backoff_seconds: the window of a failure count; none from 5 on, nor below 1.
BackoffMinutes(count) ==
  IF count \in 1..4 THEN <<5, 15, 60, 240>>[count] ELSE NoWindow

BackoffElapsed(count, lastFailure, now) ==
  /\ BackoffMinutes(count) # NoWindow
  /\ now >= lastFailure + BackoffMinutes(count)

\* PAYOUT_DEAD_LETTER_THRESHOLD
Threshold == 5

\* What the retry cron does with a failed row: the stored count plus one decides,
\* about the dead letter and about the window.
RetryDecision(failureCount, lastFailure, now) ==
  IF failureCount + 1 >= Threshold THEN "dead_letter"
  ELSE IF BackoffElapsed(failureCount + 1, lastFailure, now) THEN "requeue"
  ELSE "skip"

-----------------------------------------------------------------------------
MaxRetries == 4

\* Half seconds: the delay before the next attempt starts at 500 ms and doubles.
Delay(k) == 2 ^ k

\* Half seconds that have passed when attempt k is made.
Instant[k \in 0..MaxRetries] == IF k = 0 THEN 0 ELSE Instant[k - 1] + Delay(k - 1)

\* horizon_get, given what Horizon would answer at each attempt: only 429 is
\* repeated; every other failure, and the last 429, is HORIZON_UNAVAILABLE.
HorizonGet(answer) ==
  IF \E k \in 0..MaxRetries : answer[k] # "throttled"
  THEN answer[CHOOSE k \in 0..MaxRetries :
                /\ answer[k] # "throttled"
                /\ \A j \in 0..(k - 1) : answer[j] = "throttled"]
  ELSE "unavailable"
=============================================================================
