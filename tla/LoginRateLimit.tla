--------------------------- MODULE LoginRateLimit ---------------------------
(***************************************************************************)
(* The two sliding windows in front of POST /api/auth/login of the Rust    *)
(* service: attempts per client address, failed credential checks per      *)
(* email.  Both live in the memory of the process behind one mutex, so a   *)
(* call is atomic; a login makes two calls with the password check in      *)
(* between, and logins overlap.                                            *)
(***************************************************************************)
EXTENDS Integers, Sequences, FiniteSetsExt

CONSTANTS
  Ip, Email,
  IpWindow, IpMax,              \* LOGIN_RATE_IP_WINDOW_SECS, LOGIN_RATE_IP_MAX
  EmailWindow, EmailMaxFail,    \* LOGIN_RATE_EMAIL_WINDOW_SECS, _FAIL_MAX
  LongestRetry                  \* what Retry-After is clamped to (86400)

ASSUME LimiterAssumption ==
  /\ IpMax \in Nat /\ EmailMaxFail \in Nat
  /\ IpWindow \in Nat \ {0} /\ EmailWindow \in Nat \ {0}
  /\ LongestRetry \in Nat \ {0}

VARIABLES
  now,                  \* the clock, in seconds
  ipHits, emailFails,   \* Inner: times of the events a window still counts
  admitted, refused     \* history: when an address was let in, and when an
                        \* email was answered 401, since its last success

limiterVars == <<ipHits, emailFails, admitted, refused>>

LimiterTypeOK ==
  /\ now \in Nat
  /\ ipHits \in [Ip -> Seq(Nat)]
  /\ emailFails \in [Email -> Seq(Nat)]
  /\ admitted \in [Ip -> Seq(Nat)]
  /\ refused \in [Email -> Seq(Nat)]

LimiterStart ==
  /\ now = 0
  /\ ipHits = [a \in Ip |-> <<>>]
  /\ emailFails = [e \in Email |-> <<>>]
  /\ admitted = [a \in Ip |-> <<>>]
  /\ refused = [e \in Email |-> <<>>]

-----------------------------------------------------------------------------
\* A bug this could have: an event exactly one window old is forgotten.
Recent_OpenWindow(events, window, t) ==
  LET young == {k \in 1..Len(events) : events[k] > t - window}
  IN SubSeq(events, Min(young \cup {Len(events) + 1}), Len(events))

\* prune_old: the events that still count at time t.  They are pushed in the order of
\* the clock, so that what retain() keeps is the tail from the first young one.
Recent(events, window, t) ==
  LET young == {k \in 1..Len(events) : events[k] >= t - window}
  IN SubSeq(events, Min(young \cup {Len(events) + 1}), Len(events))

\* retry_after_seconds; events are pushed in the order of the clock, so that the
\* oldest is the first.
RetryAfter(events, window) ==
  LET until == events[1] + window - now
  IN CASE until < 1            -> 1
       [] until > LongestRetry -> LongestRetry
       [] OTHER                -> until

Full(events, window, most) == most > 0 /\ Len(Recent(events, window, now)) >= most

\* What a call leaves in a window: pruned, and one event longer unless it is full;
\* a limit of zero is switched off and counts nothing.
Counted(events, window, most) ==
  CASE most = 0                   -> events
    [] Full(events, window, most) -> Recent(events, window, now)
    [] OTHER                      -> Append(Recent(events, window, now), now)

\* check_ip: the attempt of address a is let in, or answered 429.
AdmitIp(a) ==
  /\ ~Full(ipHits[a], IpWindow, IpMax)
  /\ ipHits' = [ipHits EXCEPT ![a] = Counted(@, IpWindow, IpMax)]
  /\ admitted' = [admitted EXCEPT ![a] = Append(@, now)]
  /\ UNCHANGED <<emailFails, refused>>

RejectIp(a) ==
  /\ Full(ipHits[a], IpWindow, IpMax)
  /\ ipHits' = [ipHits EXCEPT ![a] = Counted(@, IpWindow, IpMax)]
  /\ UNCHANGED <<emailFails, admitted, refused>>

\* record_email_failure: the wrong guess is answered 401 and counted, or 429.
RecordEmailFailure(e) ==
  /\ emailFails' = [emailFails EXCEPT ![e] = Counted(@, EmailWindow, EmailMaxFail)]
  /\ refused' = [refused EXCEPT ![e] =
       IF Full(emailFails[e], EmailWindow, EmailMaxFail) THEN @ ELSE Append(@, now)]
  /\ UNCHANGED <<ipHits, admitted>>

\* clear_email_failures
ClearEmailFailures(e) ==
  /\ emailFails' = [emailFails EXCEPT ![e] = <<>>]
  /\ refused' = [refused EXCEPT ![e] = <<>>]
  /\ UNCHANGED <<ipHits, admitted>>

-----------------------------------------------------------------------------
\* more than `most` events within one (closed) window
Crowded(events, window, most) ==
  \E k \in 1..(Len(events) - most) : events[k + most] - events[k] <= window

\* No window of IpWindow seconds, wherever it starts, lets an address in more than
\* IpMax times, and none tells a guesser more than EmailMaxFail times that the
\* password of an email is wrong, however the attempts overlap.
WindowsHold ==
  /\ IpMax > 0 => \A a \in Ip : ~Crowded(admitted[a], IpWindow, IpMax)
  /\ EmailMaxFail > 0 =>
       \A e \in Email : ~Crowded(refused[e], EmailWindow, EmailMaxFail)

\* A client that is answered 429 is refused until Retry-After has passed and let in
\* one second later, if nobody else at its address is let in before.
RetryAfterIsExact ==
  \A a \in Ip :
    LET v    == Recent(ipHits[a], IpWindow, now)
        wait == RetryAfter(v, IpWindow)
    IN Full(ipHits[a], IpWindow, IpMax) /\ IpWindow < LongestRetry =>
         /\ \A t \in now..(now + wait - 1) : Len(Recent(v, IpWindow, t)) >= IpMax
         /\ Len(Recent(v, IpWindow, now + wait + 1)) < IpMax

\* After a success the email starts afresh: what the window counts are only the
\* failures that were answered since.
FailuresAreRecentAnswers ==
  EmailMaxFail > 0 =>
    \A e \in Email : Len(emailFails[e]) <= Len(refused[e])

\* What the limiter promises, however logins overlap: its windows hold, a client is
\* told the truth about when to come back, a success wipes the slate.
LimiterHolds == WindowsHold /\ RetryAfterIsExact /\ FailuresAreRecentAnswers

-----------------------------------------------------------------------------
\* Why they hold: at time t a window is the tail of the log of what it let in, all that
\* it has forgotten is older than the window, and it never counts more than `most`.
WindowInv(events, log, window, most, t) ==
  /\ \A j, k \in 1..Len(log) : j <= k => log[j] <= log[k]
  /\ \A k \in 1..Len(log) : log[k] <= t
  /\ most > 0 =>
       LET gone == Len(log) - Len(events) IN
       /\ gone >= 0 /\ Len(events) <= most
       /\ \A k \in 1..gone : log[k] < t - window
       /\ \A k \in 1..Len(events) : events[k] = log[gone + k]
       /\ ~Crowded(log, window, most)

LimiterInv ==
  /\ LimiterTypeOK
  /\ \A a \in Ip : WindowInv(ipHits[a], admitted[a], IpWindow, IpMax, now)
  /\ \A e \in Email :
       WindowInv(emailFails[e], refused[e], EmailWindow, EmailMaxFail, now)
=============================================================================
