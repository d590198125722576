-------------------------- MODULE Accounts_proofs --------------------------
(***************************************************************************)
(* The login limiter keeps its promises and a cookie is its owner's and    *)
(* good until it expires, for every number of people, addresses and        *)
(* sessions and every setting of the windows.                              *)
(***************************************************************************)
EXTENDS Accounts, TLAPS, WellFoundedInduction

-----------------------------------------------------------------------------
\* Every non-empty set of naturals has a least member, and Min is it.
LEMMA Least ==
  ASSUME NEW S \in SUBSET Nat, S # {}
  PROVE  Min(S) \in S /\ \A k \in S : Min(S) <= k
<1>1. IsWellFoundedOn(OpToRel(<, Nat), Nat)
  BY NatLessThanWellFounded
<1>2. \E m \in S : \A k \in S : <<k, m>> \notin OpToRel(<, Nat)
  BY <1>1, WFMin
<1>3. \A m, k \in S : <<k, m>> \notin OpToRel(<, Nat) => m <= k
  BY DEF OpToRel
<1> QED
  BY <1>2, <1>3 DEF Min

\* A tail of a sequence.
LEMMA Tails ==
  ASSUME NEW s \in Seq(Nat), NEW cut \in 0..Len(s)
  PROVE  LET rest == SubSeq(s, cut + 1, Len(s)) IN
         /\ rest \in Seq(Nat)
         /\ Len(rest) = Len(s) - cut
         /\ \A k \in 1..Len(rest) : rest[k] = s[cut + k]
  OBVIOUS

\* One more event.
LEMMA Pushed ==
  ASSUME NEW s \in Seq(Nat), NEW t \in Nat
  PROVE  LET more == Append(s, t) IN
         /\ more \in Seq(Nat) /\ Len(more) = Len(s) + 1
         /\ more[Len(s) + 1] = t
         /\ \A k \in 1..Len(s) : more[k] = s[k]
  OBVIOUS

\* prune_old keeps the tail that is young, if the events are in order.
LEMMA RecentIsSeq ==
  ASSUME NEW s \in Seq(Nat), NEW window \in Nat, NEW t \in Nat
  PROVE  \E cut \in 0..Len(s) :
           /\ Recent(s, window, t) = SubSeq(s, cut + 1, Len(s))
           /\ \A k \in 1..cut : s[k] < t - window
           /\ cut < Len(s) => s[cut + 1] >= t - window
<1> DEFINE young == {k \in 1..Len(s) : s[k] >= t - window}
           all   == young \cup {Len(s) + 1}
           cut   == Min(all) - 1
<1>1. all \in SUBSET Nat /\ all # {}
  OBVIOUS
<1>2. Min(all) \in all /\ \A k \in all : Min(all) <= k
  BY <1>1, Least
<1> HIDE DEF all
<1>3. all \subseteq 1..(Len(s) + 1)
  BY DEF all
<1>4. cut \in 0..Len(s) /\ Min(all) = cut + 1
  <2>1. Len(s) \in Nat
    OBVIOUS
  <2>2. Min(all) \in 1..(Len(s) + 1)
    BY <1>2, <1>3, Zenon
  <2> QED
    BY <2>1, <2>2
<1>5. Recent(s, window, t) = SubSeq(s, cut + 1, Len(s))
  BY <1>4 DEF Recent, all
<1>6. /\ \A k \in 1..cut : s[k] < t - window
      /\ cut < Len(s) => s[cut + 1] >= t - window
  <2>1. Len(s) \in Nat /\ \A k \in 1..Len(s) : s[k] \in Nat
    OBVIOUS
  <2>2. ASSUME NEW k \in 1..cut
        PROVE  s[k] < t - window
    <3>1. k \in 1..Len(s) /\ ~(Min(all) <= k) /\ s[k] \in Nat
      BY <1>4, <2>1
    <3>2. k \notin all
      BY <1>2, <3>1, Zenon
    <3>3. ~(s[k] >= t - window)
      BY <3>1, <3>2, Zenon DEF all
    <3> QED
      BY <3>1, <3>3
  <2>3. cut < Len(s) => s[cut + 1] >= t - window
    <3>1. cut + 1 \in all
      BY <1>2, <1>4
    <3> QED
      BY <1>4, <2>1, <3>1 DEF all
  <2> QED
    BY <2>2, <2>3
<1> QED
  BY <1>4, <1>5, <1>6

LEMMA RecentIsTail ==
  ASSUME NEW s \in Seq(Nat), NEW window \in Nat, NEW t \in Nat
  PROVE  LET rest == Recent(s, window, t) IN
         /\ rest \in Seq(Nat) /\ Len(rest) \in Nat
         /\ \E cut \in Nat :
              /\ Len(rest) + cut = Len(s)
              /\ \A k \in 1..Len(rest) : rest[k] = s[cut + k]
              /\ \A k \in 1..cut : s[k] < t - window
              /\ cut < Len(s) => s[cut + 1] >= t - window
<1>1. PICK cut \in 0..Len(s) :
        /\ Recent(s, window, t) = SubSeq(s, cut + 1, Len(s))
        /\ \A k \in 1..cut : s[k] < t - window
        /\ cut < Len(s) => s[cut + 1] >= t - window
  BY RecentIsSeq
<1> DEFINE rest == Recent(s, window, t)
<1>2. /\ rest \in Seq(Nat) /\ Len(rest) = Len(s) - cut
      /\ \A k \in 1..Len(rest) : rest[k] = s[cut + k]
  BY <1>1, Tails
<1> HIDE DEF rest
<1>3. Len(s) \in Nat /\ Len(rest) \in Nat /\ cut \in Nat
  BY <1>2
<1>4. Len(rest) + cut = Len(s)
  BY <1>2, <1>3
<1> QED
  BY <1>1, <1>2, <1>3, <1>4 DEF rest

\* The parts of WindowInv, in numbers.  The L events of a log are in the order of the
\* clock, none later than t ...
InOrder(log, L, t) ==
  /\ \A k \in 1..L : log[k] \in Nat /\ log[k] <= t
  /\ \A j, k \in 1..L : j <= k => log[j] <= log[k]

\* ... with no more than `most` of them within a window.
Spaced(log, L, window, most) ==
  \A k \in 1..(L - most) : log[k + most] - log[k] > window

\* The last E of them are those that a window counts; the others are old.
Matches(events, E, log, L, oldest) ==
  /\ \A k \in 1..(L - E) : log[k] < oldest
  /\ \A k \in 1..E : events[k] = log[L - E + k]

\* The first `cut` events are old and forgotten, R are left.
Forgets(events, rest, R, cut, oldest) ==
  /\ \A k \in 1..cut : events[k] < oldest
  /\ \A k \in 1..R : rest[k] = events[cut + k]

\* One more event, at time t.
Pushes(log, more, L, t) ==
  /\ \A k \in 1..L : more[k] = log[k]
  /\ more[L + 1] = t

\* Forgetting old events keeps a window the tail of its log, and so does an event
\* that both receive, which keeps the log in order and, if there is room, spaced.
LEMMA Forget ==
  ASSUME NEW L \in Nat, NEW E \in Nat, NEW R \in Nat, NEW cut \in Nat,
         E <= L, R + cut = E, NEW oldest \in Int,
         NEW log, NEW events, NEW rest,
         Matches(events, E, log, L, oldest), Forgets(events, rest, R, cut, oldest)
  PROVE  Matches(rest, R, log, L, oldest)
<1>1. ASSUME NEW k \in 1..(L - R)
      PROVE  log[k] < oldest
  <2>1. CASE k <= L - E
    BY <2>1 DEF Matches
  <2>2. CASE k > L - E
    <3>1. k - (L - E) \in 1..cut /\ k - (L - E) \in 1..E /\ L - E + (k - (L - E)) = k
      BY <2>2
    <3> QED
      BY <3>1 DEF Matches, Forgets
  <2> QED
    BY <2>1, <2>2
<1>2. ASSUME NEW k \in 1..R
      PROVE  rest[k] = log[L - R + k]
  <2>1. cut + k \in 1..E /\ L - E + (cut + k) = L - R + k
    OBVIOUS
  <2> QED
    BY <2>1 DEF Matches, Forgets
<1> QED
  BY <1>1, <1>2 DEF Matches

LEMMA PushInOrder ==
  ASSUME NEW L \in Nat, NEW t \in Nat, NEW log, NEW more,
         InOrder(log, L, t), Pushes(log, more, L, t)
  PROVE  InOrder(more, L + 1, t)
<1>1. \A k \in 1..(L + 1) : k \in 1..L \/ k = L + 1
  OBVIOUS
<1> QED
  BY <1>1 DEF InOrder, Pushes

LEMMA PushMatches ==
  ASSUME NEW L \in Nat, NEW R \in Nat, R <= L, NEW oldest \in Int, NEW t \in Nat,
         NEW log, NEW more, NEW rest, NEW kept,
         Matches(rest, R, log, L, oldest),
         Pushes(log, more, L, t), Pushes(rest, kept, R, t)
  PROVE  Matches(kept, R + 1, more, L + 1, oldest)
<1>1. ASSUME NEW k \in 1..(L + 1 - (R + 1))
      PROVE  more[k] < oldest
  BY DEF Matches, Pushes
<1>2. ASSUME NEW k \in 1..(R + 1)
      PROVE  kept[k] = more[L + 1 - (R + 1) + k]
  <2>1. CASE k = R + 1
    BY <2>1 DEF Pushes
  <2>2. CASE k \in 1..R
    <3>1. L + 1 - (R + 1) + k = L - R + k /\ L - R + k \in 1..L
      BY <2>2
    <3> QED
      BY <2>2, <3>1 DEF Matches, Pushes
  <2> QED
    BY <2>1, <2>2
<1> QED
  BY <1>1, <1>2 DEF Matches

LEMMA PushSpaced ==
  ASSUME NEW L \in Nat, NEW R \in Nat, R <= L, NEW most \in Nat, R < most,
         NEW window \in Nat, NEW t \in Nat, NEW log, NEW more, NEW rest,
         InOrder(log, L, t), Matches(rest, R, log, L, t - window),
         Spaced(log, L, window, most), Pushes(log, more, L, t)
  PROVE  Spaced(more, L + 1, window, most)
<1> SUFFICES ASSUME NEW k \in 1..(L + 1 - most)
             PROVE  more[k + most] - more[k] > window
  BY DEF Spaced
<1>1. CASE k + most = L + 1
  <2>1. k \in 1..(L - R) /\ k \in 1..L
    BY <1>1
  <2> QED
    BY <1>1, <2>1 DEF Matches, InOrder, Pushes
<1>2. CASE k + most # L + 1
  <2>1. k \in 1..(L - most) /\ k \in 1..L /\ k + most \in 1..L
    BY <1>2
  <2> QED
    BY <2>1 DEF Spaced, Pushes
<1> QED
  BY <1>1, <1>2

\* WindowInv is the conjunction of its parts.
LEMMA WindowParts ==
  ASSUME NEW events \in Seq(Nat), NEW log \in Seq(Nat), NEW window \in Nat,
         NEW most \in Nat, NEW t \in Nat
  PROVE  WindowInv(events, log, window, most, t) <=>
           /\ InOrder(log, Len(log), t)
           /\ most > 0 =>
                /\ Len(events) <= Len(log) /\ Len(events) <= most
                /\ Matches(events, Len(events), log, Len(log), t - window)
                /\ Spaced(log, Len(log), window, most)
<1>1. /\ Len(log) \in Nat /\ Len(events) \in Nat
      /\ \A k \in 1..Len(log) : log[k] \in Nat
  OBVIOUS
<1>2. most > 0 => (~Crowded(log, window, most) <=> Spaced(log, Len(log), window, most))
  <2> SUFFICES ASSUME most > 0, NEW k \in 1..(Len(log) - most)
               PROVE  ~(log[k + most] - log[k] <= window) <=> log[k + most] - log[k] > window
    BY DEF Crowded, Spaced
  <2>1. k \in 1..Len(log) /\ k + most \in 1..Len(log)
    BY <1>1
  <2>2. log[k] \in Nat /\ log[k + most] \in Nat
    BY <1>1, <2>1, Zenon
  <2> QED
    BY <2>2
<1>3. Len(log) - Len(events) >= 0 <=> Len(events) <= Len(log)
  BY <1>1
<1> QED
  BY <1>1, <1>2, <1>3, Zenon DEF WindowInv, InOrder, Matches

\* A call that finds a window full leaves its recent events, any other counts one
\* more; what the window knows of its log stays true.
LEMMA WindowStep ==
  ASSUME NEW events \in Seq(Nat), NEW log \in Seq(Nat),
         NEW window \in Nat, NEW most \in Nat, now \in Nat,
         WindowInv(events, log, window, most, now)
  PROVE  LET next == Counted(events, window, most) IN
         /\ next \in Seq(Nat)
         /\ Full(events, window, most) => WindowInv(next, log, window, most, now)
         /\ ~Full(events, window, most) =>
              WindowInv(next, Append(log, now), window, most, now)
<1> DEFINE more == Append(log, now)
           rest == Recent(events, window, now)
           kept == Append(rest, now)
           oldest == now - window
<1>1. /\ Len(log) \in Nat /\ Len(events) \in Nat /\ oldest \in Int
      /\ InOrder(log, Len(log), now)
      /\ most > 0 =>
           /\ Len(events) <= Len(log) /\ Len(events) <= most
           /\ Matches(events, Len(events), log, Len(log), oldest)
           /\ Spaced(log, Len(log), window, most)
  BY WindowParts
<1>2. more \in Seq(Nat) /\ Len(more) = Len(log) + 1 /\ Pushes(log, more, Len(log), now)
  BY Pushed DEF Pushes
<1>3. InOrder(more, Len(log) + 1, now)
  <2> HIDE DEF more
  <2> QED
    BY <1>1, <1>2, PushInOrder
<1>4. CASE most = 0
  <2>1. Counted(events, window, most) = events /\ ~Full(events, window, most)
    BY <1>4 DEF Counted, Full
  <2>2. WindowInv(events, more, window, most, now)
    <3> HIDE DEF more
    <3> QED
      BY <1>2, <1>3, <1>4, WindowParts
  <2> QED
    BY <2>1, <2>2
<1>5. CASE most > 0
  <2>1. /\ rest \in Seq(Nat) /\ Len(rest) \in Nat
        /\ \E cut \in Nat :
             Len(rest) + cut = Len(events) /\ Forgets(events, rest, Len(rest), cut, oldest)
    <3>1. /\ rest \in Seq(Nat) /\ Len(rest) \in Nat
          /\ \E cut \in Nat :
               /\ Len(rest) + cut = Len(events)
               /\ \A k \in 1..Len(rest) : rest[k] = events[cut + k]
               /\ \A k \in 1..cut : events[k] < oldest
      BY RecentIsTail, Zenon
    <3> HIDE DEF rest, oldest
    <3> QED
      BY <3>1 DEF Forgets
  <2>2. kept \in Seq(Nat) /\ Len(kept) = Len(rest) + 1 /\ Pushes(rest, kept, Len(rest), now)
    BY <2>1, Pushed DEF Pushes
  <2>3. /\ Full(events, window, most) => Counted(events, window, most) = rest
        /\ ~Full(events, window, most) =>
             Counted(events, window, most) = kept /\ Len(rest) < most
    BY <1>5, <2>1 DEF Counted, Full
  <2> HIDE DEF rest, kept, more, oldest
  <2>4. Len(rest) <= Len(events) /\ Len(rest) <= Len(log) /\ Len(rest) <= most
    BY <1>1, <1>5, <2>1
  <2>5. Matches(rest, Len(rest), log, Len(log), oldest)
    <3>1. PICK cut \in Nat :
            Len(rest) + cut = Len(events) /\ Forgets(events, rest, Len(rest), cut, oldest)
      BY <2>1
    <3> QED
      BY <1>1, <1>5, <2>1, <3>1, Forget
  <2>6. WindowInv(rest, log, window, most, now)
    BY <1>1, <1>5, <2>1, <2>4, <2>5, WindowParts DEF oldest
  <2>7. ASSUME ~Full(events, window, most)
        PROVE  WindowInv(kept, more, window, most, now)
    <3>1. Len(rest) < most
      BY <2>3, <2>7
    <3>2. Matches(kept, Len(rest) + 1, more, Len(log) + 1, oldest)
      BY <1>1, <1>2, <2>1, <2>2, <2>4, <2>5, PushMatches
    <3>3. Spaced(more, Len(log) + 1, window, most)
      BY <1>1, <1>2, <1>5, <2>1, <2>4, <2>5, <3>1, PushSpaced DEF oldest
    <3>4. Len(kept) <= Len(more) /\ Len(kept) <= most
      BY <1>1, <1>2, <2>1, <2>2, <2>4, <3>1
    <3> QED
      BY <1>2, <1>3, <2>2, <3>2, <3>3, <3>4, WindowParts DEF oldest
  <2> QED
    BY <2>1, <2>2, <2>3, <2>6, <2>7 DEF more
<1> QED
  BY <1>1, <1>4, <1>5

\* What the limiter says of a window whose WindowInv holds: it is spaced, Retry-After
\* is exact, and it counts no more than was let in.
LEMMA RetryAfterExact ==
  ASSUME NEW events \in Seq(Nat), NEW log \in Seq(Nat),
         NEW window \in Nat, window < LongestRetry, LongestRetry \in Nat,
         NEW most \in Nat, now \in Nat,
         WindowInv(events, log, window, most, now), Full(events, window, most)
  PROVE  LET v == Recent(events, window, now)
             wait == RetryAfter(v, window)
         IN /\ \A t \in now..(now + wait - 1) : Len(Recent(v, window, t)) >= most
            /\ Len(Recent(v, window, now + wait + 1)) < most
<1> DEFINE v == Recent(events, window, now)
           wait == RetryAfter(v, window)
<1>1. /\ Len(log) \in Nat /\ Len(events) \in Nat /\ most > 0
      /\ Len(events) <= Len(log) /\ Len(events) <= most
      /\ InOrder(log, Len(log), now)
      /\ Matches(events, Len(events), log, Len(log), now - window)
  BY WindowParts DEF Full
<1>2. /\ v \in Seq(Nat) /\ Len(v) \in Nat
      /\ \E cut \in Nat :
           /\ Len(v) + cut = Len(events)
           /\ \A k \in 1..Len(v) : v[k] = events[cut + k]
           /\ cut < Len(events) => events[cut + 1] >= now - window
  BY RecentIsTail, Zenon
<1>3. Len(v) >= most
  BY DEF Full
<1> HIDE DEF v
<1>4. PICK cut \in Nat :
        /\ Len(v) + cut = Len(events)
        /\ \A k \in 1..Len(v) : v[k] = events[cut + k]
        /\ cut < Len(events) => events[cut + 1] >= now - window
  BY <1>2
<1>5. /\ 1 \in 1..Len(v) /\ Len(v) <= most /\ cut < Len(events)
      /\ cut + 1 \in 1..Len(events)
      /\ Len(log) - Len(events) + (cut + 1) \in 1..Len(log)
  BY <1>1, <1>3, <1>4
<1>6. v[1] \in Nat /\ v[1] >= now - window /\ v[1] <= now
  BY <1>1, <1>4, <1>5 DEF Matches, InOrder
<1>7. /\ wait \in Nat /\ wait >= 1
      /\ wait - 1 <= v[1] + window - now
      /\ wait >= v[1] + window - now
  BY <1>6 DEF RetryAfter
<1> HIDE DEF wait
<1>8. ASSUME NEW t \in Nat
      PROVE  \E c \in Nat :
               /\ Len(Recent(v, window, t)) \in Nat
               /\ Len(Recent(v, window, t)) + c = Len(v)
               /\ \A k \in 1..c : v[k] < t - window
               /\ c < Len(v) => v[c + 1] >= t - window
  BY <1>2, RecentIsTail, Zenon
<1>9. ASSUME NEW t \in now..(now + wait - 1)
      PROVE  Len(Recent(v, window, t)) >= most
  <2>1. t \in Nat /\ ~(v[1] < t - window)
    BY <1>6, <1>7
  <2>2. PICK c \in Nat : /\ Len(Recent(v, window, t)) \in Nat
                         /\ Len(Recent(v, window, t)) + c = Len(v)
                         /\ \A k \in 1..c : v[k] < t - window
    BY <1>8, <2>1
  <2>3. c = 0
    BY <2>1, <2>2
  <2> QED
    BY <1>2, <1>3, <2>2, <2>3
<1>10. Len(Recent(v, window, now + wait + 1)) < most
  <2> DEFINE t == now + wait + 1
  <2>1. t \in Nat /\ ~(v[1] >= t - window)
    BY <1>6, <1>7
  <2> HIDE DEF t
  <2>2. PICK c \in Nat : /\ Len(Recent(v, window, t)) \in Nat
                         /\ Len(Recent(v, window, t)) + c = Len(v)
                         /\ c < Len(v) => v[c + 1] >= t - window
    BY <1>8, <2>1
  <2>3. c # 0
    BY <1>5, <2>1, <2>2
  <2>4. Len(Recent(v, window, t)) < most
    BY <1>2, <1>5, <2>2, <2>3
  <2> QED
    BY <2>4 DEF t
<1> QED
  BY <1>9, <1>10 DEF v, wait

LEMMA WindowLater ==
  ASSUME NEW events \in Seq(Nat), NEW log \in Seq(Nat),
         NEW window \in Nat, NEW most \in Nat, NEW t \in Nat,
         WindowInv(events, log, window, most, t)
  PROVE  WindowInv(events, log, window, most, t + 1)
<1>1. Len(log) \in Nat /\ Len(events) \in Nat
  OBVIOUS
<1>2. InOrder(log, Len(log), t) => InOrder(log, Len(log), t + 1)
  BY <1>1 DEF InOrder
<1>3. ASSUME Matches(events, Len(events), log, Len(log), t - window),
             InOrder(log, Len(log), t), Len(events) <= Len(log)
      PROVE  Matches(events, Len(events), log, Len(log), t + 1 - window)
  <2>1. \A k \in 1..(Len(log) - Len(events)) : k \in 1..Len(log)
    BY <1>1
  <2> QED
    BY <1>3, <2>1 DEF Matches, InOrder
<1>4. /\ InOrder(log, Len(log), t)
      /\ most > 0 =>
           /\ Len(events) <= Len(log) /\ Len(events) <= most
           /\ Matches(events, Len(events), log, Len(log), t - window)
           /\ Spaced(log, Len(log), window, most)
  BY WindowParts
<1> DEFINE u == t + 1
<1>5. u \in Nat /\ InOrder(log, Len(log), u)
      /\ (most > 0 => Matches(events, Len(events), log, Len(log), u - window))
  BY <1>2, <1>3, <1>4
<1> HIDE DEF u
<1>6. WindowInv(events, log, window, most, u)
  BY <1>4, <1>5, WindowParts
<1> QED
  BY <1>6 DEF u

LEMMA WindowStart ==
  ASSUME NEW window \in Nat, NEW most \in Nat, NEW t
  PROVE  WindowInv(<<>>, <<>>, window, most, t)
BY DEF WindowInv, Crowded

\* The limiter: every call keeps both kinds of windows, and so does time.
LEMMA LimiterStep ==
  ASSUME LimiterInv,
         \/ now' = now /\ UNCHANGED limiterVars
         \/ now' = now /\ \E a \in Ip : AdmitIp(a) \/ RejectIp(a)
         \/ now' = now /\ \E e \in Email : RecordEmailFailure(e) \/ ClearEmailFailures(e)
         \/ now' = now + 1 /\ UNCHANGED limiterVars
  PROVE  LimiterInv'
<1> USE LimiterAssumption
<1>1. now \in Nat /\ IpWindow \in Nat /\ IpMax \in Nat /\ EmailWindow \in Nat /\ EmailMaxFail \in Nat
  BY DEF LimiterInv, LimiterTypeOK
<1>2. ASSUME NEW a \in Ip
      PROVE  /\ ipHits[a] \in Seq(Nat) /\ admitted[a] \in Seq(Nat)
             /\ WindowInv(ipHits[a], admitted[a], IpWindow, IpMax, now)
             /\ Append(admitted[a], now) \in Seq(Nat)
  BY <1>1 DEF LimiterInv, LimiterTypeOK
<1>3. ASSUME NEW e \in Email
      PROVE  /\ emailFails[e] \in Seq(Nat) /\ refused[e] \in Seq(Nat)
             /\ WindowInv(emailFails[e], refused[e], EmailWindow, EmailMaxFail, now)
             /\ Append(refused[e], now) \in Seq(Nat)
  BY <1>1 DEF LimiterInv, LimiterTypeOK
<1>4. CASE now' = now /\ UNCHANGED limiterVars
  BY <1>4 DEF LimiterInv, LimiterTypeOK, limiterVars
<1>5. ASSUME NEW a \in Ip, now' = now, AdmitIp(a)
      PROVE  LimiterInv'
  <2>1. /\ Counted(ipHits[a], IpWindow, IpMax) \in Seq(Nat)
        /\ WindowInv(Counted(ipHits[a], IpWindow, IpMax), Append(admitted[a], now),
                     IpWindow, IpMax, now)
    BY <1>1, <1>2, <1>5, WindowStep DEF AdmitIp
  <2> QED
    BY <1>2, <1>5, <2>1 DEF LimiterInv, LimiterTypeOK, AdmitIp
<1>6. ASSUME NEW a \in Ip, now' = now, RejectIp(a)
      PROVE  LimiterInv'
  <2>1. /\ Counted(ipHits[a], IpWindow, IpMax) \in Seq(Nat)
        /\ WindowInv(Counted(ipHits[a], IpWindow, IpMax), admitted[a], IpWindow, IpMax, now)
    BY <1>1, <1>2, <1>6, WindowStep DEF RejectIp
  <2> QED
    BY <1>2, <1>6, <2>1 DEF LimiterInv, LimiterTypeOK, RejectIp
<1>7. ASSUME NEW e \in Email, now' = now, RecordEmailFailure(e)
      PROVE  LimiterInv'
  <2> DEFINE log == IF Full(emailFails[e], EmailWindow, EmailMaxFail)
                    THEN refused[e] ELSE Append(refused[e], now)
  <2>1. /\ Counted(emailFails[e], EmailWindow, EmailMaxFail) \in Seq(Nat)
        /\ log \in Seq(Nat)
        /\ WindowInv(Counted(emailFails[e], EmailWindow, EmailMaxFail), log,
                     EmailWindow, EmailMaxFail, now)
    BY <1>1, <1>3, WindowStep
  <2>2. /\ emailFails' = [emailFails EXCEPT ![e] =
               Counted(emailFails[e], EmailWindow, EmailMaxFail)]
        /\ refused' = [refused EXCEPT ![e] = log]
        /\ UNCHANGED <<ipHits, admitted>>
    BY <1>7 DEF RecordEmailFailure
  <2> HIDE DEF log
  <2> QED
    BY <1>3, <1>7, <2>1, <2>2 DEF LimiterInv, LimiterTypeOK
<1>8. ASSUME NEW e \in Email, now' = now, ClearEmailFailures(e)
      PROVE  LimiterInv'
  <2>1. /\ <<>> \in Seq(Nat) /\ WindowInv(<<>>, <<>>, EmailWindow, EmailMaxFail, now)
    BY <1>1, WindowStart
  <2> QED
    BY <1>8, <2>1 DEF LimiterInv, LimiterTypeOK, ClearEmailFailures
<1>9. CASE now' = now + 1 /\ UNCHANGED limiterVars
  <2>1. \A a \in Ip : WindowInv(ipHits[a], admitted[a], IpWindow, IpMax, now + 1)
    BY <1>1, <1>2, WindowLater
  <2>2. \A e \in Email : WindowInv(emailFails[e], refused[e], EmailWindow, EmailMaxFail, now + 1)
    BY <1>1, <1>3, WindowLater
  <2> QED
    BY <1>1, <1>9, <2>1, <2>2 DEF LimiterInv, LimiterTypeOK, limiterVars
<1> QED
  BY <1>4, <1>5, <1>6, <1>7, <1>8, <1>9

LEMMA LimiterBegins == ASSUME LimiterStart PROVE LimiterInv
<1>1. /\ WindowInv(<<>>, <<>>, IpWindow, IpMax, now)
      /\ WindowInv(<<>>, <<>>, EmailWindow, EmailMaxFail, now)
  BY LimiterAssumption, WindowStart
<1> QED
  BY <1>1 DEF LimiterStart, LimiterInv, LimiterTypeOK

LEMMA LimiterPromises == ASSUME LimiterInv PROVE LimiterHolds
<1> USE LimiterAssumption
<1>1. now \in Nat /\ IpWindow \in Nat /\ IpMax \in Nat /\ EmailWindow \in Nat /\ EmailMaxFail \in Nat
  BY DEF LimiterInv, LimiterTypeOK
<1>2. ASSUME NEW a \in Ip
      PROVE  /\ ipHits[a] \in Seq(Nat) /\ admitted[a] \in Seq(Nat)
             /\ WindowInv(ipHits[a], admitted[a], IpWindow, IpMax, now)
  BY DEF LimiterInv, LimiterTypeOK
<1>3. ASSUME NEW e \in Email
      PROVE  /\ emailFails[e] \in Seq(Nat) /\ refused[e] \in Seq(Nat)
             /\ WindowInv(emailFails[e], refused[e], EmailWindow, EmailMaxFail, now)
  BY DEF LimiterInv, LimiterTypeOK
<1>4. WindowsHold
  BY <1>2, <1>3 DEF WindowsHold, WindowInv
<1>5. RetryAfterIsExact
  BY <1>1, <1>2, RetryAfterExact DEF RetryAfterIsExact
<1>6. FailuresAreRecentAnswers
  BY <1>1, <1>3, WindowParts DEF FailuresAreRecentAnswers
<1> QED
  BY <1>4, <1>5, <1>6 DEF LimiterHolds

-----------------------------------------------------------------------------
USE LimiterAssumption, AccountsAssumption DEF accountsVars, accountVars, limiterVars

TablesOK ==
  /\ now \in Nat
  /\ merchants \in [Email -> [who : Person, keys : WalletKeys] \cup {NoMerchant}]
  /\ sessions \in [Session -> Row \cup {NoRow, Deleted}]
  /\ client \in [Person -> Request \cup {Idle}]
  /\ cookie \in [Person -> Token \cup {NoToken}]

\* A request is Idle or has the fields of one.
LEMMA Requests ==
  ASSUME TablesOK, NEW p \in Person, client[p].pc # "idle"
  PROVE  /\ client[p] \in Request /\ client[p].email \in Email
         /\ client[p].via \in Service /\ client[p].keys \in WalletKeys \cup {{}}
BY DEF TablesOK, Request, Idle

\* What a step may do to the tables: move one request on; register its person under a
\* free email; open the next session; extend the session of a cookie; drop a cookie;
\* purge; or let time pass.
Moves(p, c) == client' = [client EXCEPT ![p] = c]

MovesOn(p) ==
  /\ \E c \in Request \cup {Idle} :
       /\ Moves(p, c)
       /\ c.pc \in {"keys", "insert"} => c.keys \in WalletKeys
       /\ c.pc # "register"
       /\ c.pc = "login" => merchants[c.email].who = p
  /\ UNCHANGED <<now, merchants, sessions, cookie>>

Registers(p) ==
  /\ client[p].pc = "insert" /\ ~Registered(client[p].email)
  /\ merchants' = [merchants EXCEPT ![client[p].email] =
                     [who |-> p, keys |-> client[p].keys]]
  /\ Moves(p, [client[p] EXCEPT !.pc = "register"])
  /\ UNCHANGED <<now, sessions, cookie>>

Opens(p, s) ==
  /\ client[p].pc \in {"register", "login"}
  /\ OpenSession(p, s, client[p].email)

LEMMA AccountsSteps ==
  ASSUME TablesOK, RegistrantActs, [AccountsNext]_accountsVars
  PROVE  \/ \E p \in Person : MovesOn(p) \/ Registers(p)
         \/ \E p \in Person, s \in Session : Opens(p, s)
         \/ \E p \in Person : RefreshSession(p) \/ Logout(p)
         \/ PurgeSessions
         \/ Tick
         \/ UNCHANGED <<now, accountVars>>
<1>1. ASSUME NEW p \in Person, NEW svc \in Service, NEW e \in Email, NEW keys \in WalletKeys,
             StartRegister(p, svc, e, keys)
      PROVE  MovesOn(p)
  <2> DEFINE c == [pc |-> IF svc = "rust" THEN "keys" ELSE "insert",
                   via |-> svc, email |-> e, keys |-> keys]
  <2>1. c \in Request /\ c.pc \in {"keys", "insert"} /\ c.keys \in WalletKeys
    BY DEF Request
  <2>2. Moves(p, c)
    BY <1>1 DEF StartRegister, Moves
  <2> HIDE DEF c
  <2> QED
    BY <1>1, <2>1, <2>2 DEF StartRegister, MovesOn
<1>2. ASSUME NEW p \in Person, NEW svc \in Service, NEW e \in Email, NEW a \in Ip,
             StartLogin(p, svc, e, a)
      PROVE  MovesOn(p) \/ UNCHANGED <<now, accountVars>>
  <2> DEFINE c == [pc |-> "password", via |-> svc, email |-> e, keys |-> {}]
  <2>1. c \in Request /\ c.pc = "password"
    BY DEF Request
  <2>2. Moves(p, c) \/ UNCHANGED client
    BY <1>2 DEF StartLogin, Moves
  <2> HIDE DEF c
  <2> QED
    BY <1>2, <2>1, <2>2 DEF StartLogin, MovesOn
<1>3. ASSUME NEW p \in Person, Answer(p), UNCHANGED <<now, merchants, sessions, cookie>>
      PROVE  MovesOn(p)
  <2>1. Idle \in Request \cup {Idle} /\ Idle.pc = "idle" /\ Moves(p, Idle)
    BY <1>3 DEF Answer, Idle, Moves
  <2> QED
    BY <1>3, <2>1 DEF MovesOn
<1>4. ASSUME NEW p \in Person, CheckKeys(p)
      PROVE  MovesOn(p)
  <2>1. CASE Answer(p)
    BY <1>3, <1>4, <2>1 DEF CheckKeys
  <2>2. CASE Goto(p, "insert")
    <3> DEFINE c == [client[p] EXCEPT !.pc = "insert"]
    <3>1. client[p] \in Request /\ client[p].keys \in WalletKeys
      BY <1>4, Requests DEF CheckKeys, RegistrantActs
    <3>2. c \in Request /\ c.pc = "insert" /\ c.keys \in WalletKeys
      BY <3>1 DEF Request
    <3>3. Moves(p, c)
      BY <2>2 DEF Goto, Moves, TablesOK
    <3> HIDE DEF c
    <3> QED
      BY <1>4, <3>2, <3>3 DEF CheckKeys, MovesOn
  <2> QED
    BY <1>4, <2>1, <2>2 DEF CheckKeys
<1>5. ASSUME NEW p \in Person, InsertMerchant(p)
      PROVE  MovesOn(p) \/ Registers(p)
  <2>1. CASE Registered(client[p].email)
    BY <1>3, <1>5, <2>1 DEF InsertMerchant
  <2>2. CASE ~Registered(client[p].email)
    <3>1. Moves(p, [client[p] EXCEPT !.pc = "register"])
      BY <1>5, <2>2 DEF InsertMerchant, Goto, Moves, TablesOK
    <3> QED
      BY <1>5, <2>2, <3>1 DEF InsertMerchant, Registers
  <2> QED
    BY <2>1, <2>2
<1>6. ASSUME NEW p \in Person, CheckPassword(p)
      PROVE  MovesOn(p)
  <2>1. CASE Answer(p)
    BY <1>3, <1>6, <2>1 DEF CheckPassword
  <2>2. CASE merchants[client[p].email].who = p /\ Goto(p, "login")
    <3> DEFINE c == [client[p] EXCEPT !.pc = "login"]
    <3>1. client[p] \in Request
      BY <1>6, Requests DEF CheckPassword
    <3>2. c \in Request /\ c.pc = "login" /\ c.email = client[p].email
      BY <3>1 DEF Request
    <3>3. Moves(p, c)
      BY <2>2 DEF Goto, Moves, TablesOK
    <3> HIDE DEF c
    <3> QED
      BY <1>6, <2>2, <3>2, <3>3 DEF CheckPassword, MovesOn
  <2> QED
    BY <1>6, <2>1, <2>2 DEF CheckPassword
<1>7. ASSUME NEW p \in Person, RequestDies(p)
      PROVE  MovesOn(p)
  BY <1>3, <1>7 DEF RequestDies
<1>8. ASSUME NEW p \in Person, NEW s \in Session, FinishRegister(p, s) \/ FinishLogin(p, s)
      PROVE  Opens(p, s)
  BY <1>8 DEF FinishRegister, FinishLogin, Opens
<1> QED
  BY <1>1, <1>2, <1>4, <1>5, <1>6, <1>7, <1>8 DEF AccountsNext

LEMMA TablesStep ==
  ASSUME TablesOK, RegistrantActs, [AccountsNext]_accountsVars
  PROVE  TablesOK'
<1>1. ASSUME NEW p \in Person, MovesOn(p)
      PROVE  TablesOK'
  BY <1>1 DEF MovesOn, Moves, TablesOK
<1>2. ASSUME NEW p \in Person, Registers(p)
      PROVE  TablesOK'
  <2>1. client[p] \in Request /\ client[p].keys \in WalletKeys /\ client[p].email \in Email
    BY <1>2, Requests DEF Registers, RegistrantActs
  <2>2. [client[p] EXCEPT !.pc = "register"] \in Request
    BY <2>1 DEF Request
  <2>3. [who |-> p, keys |-> client[p].keys] \in [who : Person, keys : WalletKeys]
    BY <2>1
  <2> QED
    BY <1>2, <2>1, <2>2, <2>3 DEF Registers, Moves, TablesOK
<1>3. ASSUME NEW p \in Person, NEW s \in Session, Opens(p, s)
      PROVE  TablesOK'
  <2>1. client[p].email \in Email /\ now + Lifetime \in Nat
    BY <1>3, Requests DEF Opens, TablesOK
  <2>2. /\ [owner |-> client[p].email, expires |-> now + Lifetime] \in Row
        /\ [sid |-> s, owner |-> client[p].email, exp |-> now + Lifetime] \in Token
    BY <2>1 DEF Row, Token
  <2> QED
    BY <1>3, <2>2 DEF Opens, OpenSession, Answer, TablesOK
<1>4. ASSUME NEW p \in Person, RefreshSession(p)
      PROVE  TablesOK'
  <2> DEFINE t == cookie[p]
  <2>1. t \in Token /\ t.sid \in Session /\ sessions[t.sid] \in Row
    BY <1>4 DEF RefreshSession, CurrentMerchant, Live, TablesOK, Token
  <2>2. now + Lifetime \in Nat
    BY DEF TablesOK
  <2>3. /\ [sessions[t.sid] EXCEPT !.expires = now + Lifetime] \in Row
        /\ [t EXCEPT !.exp = now + Lifetime] \in Token
    BY <2>1, <2>2 DEF Row, Token
  <2> QED
    BY <1>4, <2>1, <2>3 DEF RefreshSession, TablesOK
<1>5. ASSUME NEW p \in Person, Logout(p)
      PROVE  TablesOK'
  BY <1>5 DEF Logout, TablesOK
<1>6. CASE PurgeSessions
  BY <1>6 DEF PurgeSessions, TablesOK
<1>7. CASE Tick
  BY <1>7 DEF Tick, TablesOK
<1>8. CASE UNCHANGED <<now, accountVars>>
  BY <1>8 DEF TablesOK
<1> QED
  BY <1>1, <1>2, <1>3, <1>4, <1>5, <1>6, <1>7, <1>8, AccountsSteps

\* A row of merchants is never written twice.
LEMMA MerchantsStand ==
  ASSUME TablesOK, RegistrantActs, [AccountsNext]_accountsVars,
         NEW e \in Email, Registered(e)
  PROVE  merchants'[e] = merchants[e]
<1>1. ASSUME NEW p \in Person, Registers(p)
      PROVE  merchants'[e] = merchants[e]
  BY <1>1 DEF Registers, Registered, TablesOK
<1> QED
  BY <1>1, AccountsSteps
  DEF MovesOn, Opens, OpenSession, RefreshSession, Logout, PurgeSessions, Tick

LEMMA RegistrantActsStep ==
  ASSUME TablesOK, RegistrantActs, [AccountsNext]_accountsVars
  PROVE  RegistrantActs'
<1> SUFFICES ASSUME NEW q \in Person
             PROVE  /\ client'[q].pc \in {"keys", "insert"} => client'[q].keys \in WalletKeys
                    /\ client'[q].pc \in {"register", "login"} =>
                         merchants'[client'[q].email].who = q
  BY DEF RegistrantActs
<1>1. ASSUME client'[q] = client[q]
      PROVE  /\ client'[q].pc \in {"keys", "insert"} => client'[q].keys \in WalletKeys
             /\ client'[q].pc \in {"register", "login"} =>
                  merchants'[client'[q].email].who = q
  <2> SUFFICES ASSUME client[q].pc \in {"register", "login"}
               PROVE  merchants'[client[q].email].who = q
    BY <1>1 DEF RegistrantActs
  <2>1. client[q].email \in Email /\ merchants[client[q].email].who = q
    BY Requests DEF RegistrantActs
  <2>2. Registered(client[q].email)
    BY <2>1 DEF Registered, NoMerchant
  <2> QED
    BY <2>1, <2>2, MerchantsStand
<1>2. ASSUME NEW p \in Person, MovesOn(p)
      PROVE  RegistrantActs'
  <2>1. PICK c \in Request \cup {Idle} :
          /\ client' = [client EXCEPT ![p] = c]
          /\ c.pc \in {"keys", "insert"} => c.keys \in WalletKeys
          /\ c.pc # "register"
          /\ c.pc = "login" => merchants[c.email].who = p
    BY <1>2 DEF MovesOn, Moves
  <2>2. merchants' = merchants /\ p \in DOMAIN client
    BY <1>2 DEF MovesOn, TablesOK
  <2> QED
    BY <2>1, <2>2 DEF RegistrantActs, TablesOK
<1>3. ASSUME NEW p \in Person, Registers(p), q = p
      PROVE  client'[q].pc = "register" /\ merchants'[client'[q].email].who = q
  <2>1. client[p] \in Request /\ client[p].email \in Email
    BY <1>3, Requests DEF Registers
  <2>2. /\ client'[p] = [client[p] EXCEPT !.pc = "register"]
        /\ merchants'[client[p].email] = [who |-> p, keys |-> client[p].keys]
    BY <1>3, <2>1 DEF Registers, Moves, TablesOK
  <2> QED
    BY <1>3, <2>1, <2>2 DEF Request
<1>4. ASSUME NEW p \in Person, Answer(p), q = p
      PROVE  client'[q].pc = "idle"
  BY <1>4 DEF Answer, Idle, TablesOK
<1>5. ASSUME NEW p \in Person, Registers(p) \/ Answer(p), q # p
      PROVE  client'[q] = client[q]
  BY <1>5 DEF Registers, Moves, Answer, TablesOK
<1> QED
  BY <1>1, <1>2, <1>3, <1>4, <1>5, AccountsSteps
  DEF Opens, OpenSession, RefreshSession, Logout, PurgeSessions, Tick, RegistrantActs

LEMMA RowsStep ==
  ASSUME TablesOK, RegistrantActs, RowsLiveLifetime, [AccountsNext]_accountsVars
  PROVE  RowsLiveLifetime'
<1>1. now \in Nat /\ \A s \in Session : sessions[s] \in Row => sessions[s].expires \in Nat
  BY DEF TablesOK, Row
<1>2. ASSUME NEW p \in Person, NEW s \in Session, Opens(p, s)
      PROVE  RowsLiveLifetime'
  BY <1>1, <1>2 DEF Opens, OpenSession, RowsLiveLifetime, TablesOK
<1>3. ASSUME NEW p \in Person, RefreshSession(p)
      PROVE  RowsLiveLifetime'
  <2> DEFINE t == cookie[p]
  <2>1. t.sid \in Session /\ sessions[t.sid] \in Row
    BY <1>3 DEF RefreshSession, CurrentMerchant, Live, TablesOK, Token
  <2>2. sessions'[t.sid].expires = now + Lifetime /\ now' = now
    BY <1>3, <2>1 DEF RefreshSession, TablesOK, Row
  <2> QED
    BY <1>1, <1>3, <2>1, <2>2 DEF RefreshSession, RowsLiveLifetime, TablesOK
<1>4. CASE PurgeSessions
  BY <1>4 DEF PurgeSessions, RowsLiveLifetime
<1>5. CASE Tick
  BY <1>1, <1>5 DEF Tick, RowsLiveLifetime
<1> QED
  BY <1>2, <1>3, <1>4, <1>5, AccountsSteps
  DEF MovesOn, Registers, Logout, RowsLiveLifetime

LEMMA CookieStep ==
  ASSUME TablesOK, RegistrantActs, RowsLiveLifetime, CookieNamesRow,
         [AccountsNext]_accountsVars
  PROVE  CookieNamesRow'
<1> SUFFICES ASSUME NEW q \in Person, cookie'[q] # NoToken
             PROVE  LET t == cookie'[q] IN
                    /\ merchants'[t.owner].who = q
                    /\ sessions'[t.sid] # NoRow
                    /\ sessions'[t.sid] = Deleted => t.exp < now'
                    /\ sessions'[t.sid] \in Row =>
                         sessions'[t.sid].owner = t.owner /\ t.exp <= sessions'[t.sid].expires
  BY DEF CookieNamesRow
<1>0. now \in Nat /\ now' \in Nat /\ TablesOK'
  BY TablesStep DEF TablesOK
<1>1. ASSUME cookie[q] # NoToken
      PROVE  /\ cookie[q].owner \in Email /\ cookie[q].sid \in Session /\ cookie[q].exp \in Nat
             /\ merchants[cookie[q].owner].who = q /\ merchants'[cookie[q].owner].who = q
             /\ sessions[cookie[q].sid] # NoRow
             /\ sessions[cookie[q].sid] = Deleted => cookie[q].exp < now
             /\ sessions[cookie[q].sid] \in Row =>
                  /\ sessions[cookie[q].sid].owner = cookie[q].owner
                  /\ sessions[cookie[q].sid].expires \in Nat
                  /\ cookie[q].exp <= sessions[cookie[q].sid].expires
                  /\ sessions[cookie[q].sid].expires <= now + Lifetime
             /\ sessions[cookie[q].sid] = Deleted \/ sessions[cookie[q].sid] \in Row
  <2>1. /\ cookie[q].owner \in Email /\ cookie[q].sid \in Session /\ cookie[q].exp \in Nat
    BY <1>1 DEF TablesOK, Token
  <2>2. merchants[cookie[q].owner].who = q
    BY <1>1 DEF CookieNamesRow
  <2>3. merchants'[cookie[q].owner] = merchants[cookie[q].owner]
    BY <2>1, <2>2, MerchantsStand DEF Registered, NoMerchant
  <2>4. /\ sessions[cookie[q].sid] # NoRow
        /\ sessions[cookie[q].sid] = Deleted => cookie[q].exp < now
        /\ sessions[cookie[q].sid] \in Row =>
             /\ sessions[cookie[q].sid].owner = cookie[q].owner
             /\ cookie[q].exp <= sessions[cookie[q].sid].expires
    BY <1>1 DEF CookieNamesRow
  <2>5. sessions[cookie[q].sid] = Deleted \/ sessions[cookie[q].sid] \in Row
    BY <2>1, <2>4 DEF TablesOK
  <2>6. sessions[cookie[q].sid] \in Row => sessions[cookie[q].sid].expires \in Nat
    BY DEF Row
  <2>7. sessions[cookie[q].sid] \in Row => sessions[cookie[q].sid].expires <= now + Lifetime
    BY <2>1 DEF RowsLiveLifetime
  <2> QED
    BY <2>1, <2>2, <2>3, <2>4, <2>5, <2>6, <2>7
<1> DEFINE Good(t) ==
      /\ merchants'[t.owner].who = q
      /\ sessions'[t.sid] # NoRow
      /\ sessions'[t.sid] = Deleted => t.exp < now'
      /\ sessions'[t.sid] \in Row =>
           sessions'[t.sid].owner = t.owner /\ t.exp <= sessions'[t.sid].expires
<1>2. ASSUME cookie'[q] = cookie[q], now' >= now,
             sessions'[cookie[q].sid] = sessions[cookie[q].sid]
      PROVE  Good(cookie'[q])
  BY <1>0, <1>1, <1>2
<1>3. ASSUME NEW p \in Person, NEW s \in Session, Opens(p, s)
      PROVE  Good(cookie'[q])
  <2>1. /\ client[p].email \in Email /\ merchants[client[p].email].who = p
        /\ merchants' = merchants /\ now' = now /\ now + Lifetime \in Nat
    BY <1>0, <1>3, Requests DEF Opens, OpenSession, RegistrantActs
  <2>2. /\ sessions[s] = NoRow
        /\ sessions'[s] = [owner |-> client[p].email, expires |-> now + Lifetime]
        /\ \A r \in Session \ {s} : sessions'[r] = sessions[r]
    BY <1>3 DEF Opens, OpenSession, TablesOK
  <2>3. CASE cookie'[q] = cookie[q]
    BY <1>0, <1>1, <1>2, <2>1, <2>2, <2>3
  <2>4. CASE cookie'[q] # cookie[q]
    <3>1. p = q /\ cookie'[q] = [sid |-> s, owner |-> client[p].email, exp |-> now + Lifetime]
      BY <1>3, <2>4 DEF Opens, OpenSession, TablesOK
    <3>2. sessions'[s] \in Row
      BY <2>1, <2>2 DEF Row
    <3> QED
      BY <2>1, <2>2, <3>1, <3>2
  <2> QED
    BY <2>3, <2>4
<1>4. ASSUME NEW p \in Person, RefreshSession(p)
      PROVE  Good(cookie'[q])
  <2> DEFINE t == cookie[p]
  <2>1. /\ t \in Token /\ t.sid \in Session /\ sessions[t.sid] \in Row
        /\ sessions[t.sid].owner = t.owner
        /\ merchants' = merchants /\ now' = now /\ now + Lifetime \in Nat
    BY <1>0, <1>4 DEF RefreshSession, CurrentMerchant, Live, TablesOK, Token
  <2>2. /\ sessions'[t.sid] \in Row /\ sessions'[t.sid].owner = t.owner
        /\ sessions'[t.sid].expires = now + Lifetime
        /\ \A r \in Session \ {t.sid} : sessions'[r] = sessions[r]
    <3>1. sessions' = [sessions EXCEPT ![t.sid] = [@ EXCEPT !.expires = now + Lifetime]]
      BY <1>4 DEF RefreshSession
    <3>2. sessions'[t.sid] = [sessions[t.sid] EXCEPT !.expires = now + Lifetime]
      BY <2>1, <3>1 DEF TablesOK
    <3>3. \A r \in Session \ {t.sid} : sessions'[r] = sessions[r]
      BY <3>1 DEF TablesOK
    <3> QED
      BY <2>1, <3>2, <3>3 DEF Row
  <2>3. CASE cookie'[q] = cookie[q]
    <3>1. cookie[q].sid = t.sid => cookie[q].owner = t.owner /\ cookie[q].exp <= now + Lifetime
      BY <1>0, <1>1, <2>1, <2>3
    <3> QED
      BY <1>0, <1>1, <1>2, <2>1, <2>2, <2>3, <3>1
  <2>4. CASE cookie'[q] # cookie[q]
    <3>1. p = q /\ cookie'[q] = [t EXCEPT !.exp = now + Lifetime]
      BY <1>4, <2>4 DEF RefreshSession, TablesOK
    <3>2. /\ cookie'[q].sid = t.sid /\ cookie'[q].owner = t.owner
          /\ cookie'[q].exp = now + Lifetime
      BY <2>1, <3>1 DEF Token
    <3>3. t # NoToken
      BY <2>1
    <3> QED
      BY <1>1, <2>1, <2>2, <3>1, <3>2, <3>3
  <2> QED
    BY <2>3, <2>4
<1>5. ASSUME NEW p \in Person, Logout(p)
      PROVE  Good(cookie'[q])
  BY <1>0, <1>2, <1>5 DEF Logout, TablesOK
<1>6. ASSUME PurgeSessions
      PROVE  Good(cookie'[q])
  <2>1. cookie' = cookie /\ now' = now
    BY <1>6 DEF PurgeSessions
  <2>2. sessions'[cookie[q].sid] = IF /\ sessions[cookie[q].sid] \in Row
                                       /\ sessions[cookie[q].sid].expires < now
                                    THEN Deleted ELSE sessions[cookie[q].sid]
    BY <1>1, <1>6, <2>1 DEF PurgeSessions
  <2> QED
    BY <1>0, <1>1, <1>2, <2>1, <2>2
<1>7. ASSUME Tick
      PROVE  Good(cookie'[q])
  BY <1>0, <1>2, <1>7 DEF Tick
<1>8. ASSUME UNCHANGED <<now, sessions, cookie>>
      PROVE  Good(cookie'[q])
  BY <1>0, <1>2, <1>8
<1>9. \/ \E p \in Person, s \in Session : Opens(p, s)
      \/ \E p \in Person : RefreshSession(p) \/ Logout(p)
      \/ PurgeSessions \/ Tick
      \/ UNCHANGED <<now, sessions, cookie>>
  BY AccountsSteps DEF MovesOn, Registers
<1> HIDE DEF Good
<1>10. Good(cookie'[q])
  BY <1>3, <1>4, <1>5, <1>6, <1>7, <1>8, <1>9, Zenon
<1> QED
  BY <1>10 DEF Good

LEMMA LimiterMoves ==
  ASSUME LimiterInv, TablesOK, [AccountsNext]_accountsVars
  PROVE  LimiterInv'
<1>1. ASSUME NEW p \in Person, NEW svc \in Service, NEW e \in Email, NEW a \in Ip,
             StartLogin(p, svc, e, a)
      PROVE  LimiterInv'
  <2>1. now' = now /\ (UNCHANGED limiterVars \/ AdmitIp(a) \/ RejectIp(a))
    BY <1>1 DEF StartLogin, AdmitIp
  <2> QED
    BY <2>1, LimiterStep
<1>2. ASSUME NEW p \in Person, NEW e \in Email, now' = now,
             RecordEmailFailure(e) \/ ClearEmailFailures(e) \/ UNCHANGED limiterVars
      PROVE  LimiterInv'
  BY <1>2, LimiterStep
<1>3. ASSUME NEW p \in Person, CheckPassword(p)
      PROVE  LimiterInv'
  <2>1. client[p].email \in Email
    BY <1>3, Requests DEF CheckPassword
  <2> QED
    BY <1>2, <1>3, <2>1 DEF CheckPassword
<1>4. ASSUME NEW p \in Person, NEW s \in Session, FinishLogin(p, s)
      PROVE  LimiterInv'
  <2>1. client[p].email \in Email
    BY <1>4, Requests DEF FinishLogin
  <2> QED
    BY <1>2, <1>4, <2>1 DEF FinishLogin, OpenSession
<1>5. ASSUME NEW p \in Person, NEW s \in Session, FinishRegister(p, s)
      PROVE  LimiterInv'
  BY <1>5, LimiterStep DEF FinishRegister, OpenSession
<1>6. ASSUME NEW p \in Person, NEW svc \in Service, NEW e \in Email, NEW keys \in WalletKeys,
             StartRegister(p, svc, e, keys)
      PROVE  LimiterInv'
  BY <1>6, LimiterStep DEF StartRegister
<1>7. ASSUME NEW p \in Person,
             \/ CheckKeys(p) \/ InsertMerchant(p) \/ RequestDies(p)
             \/ RefreshSession(p) \/ Logout(p)
      PROVE  LimiterInv'
  BY <1>7, LimiterStep DEF CheckKeys, InsertMerchant, RequestDies, RefreshSession, Logout
<1>8. CASE PurgeSessions \/ Tick \/ UNCHANGED accountsVars
  BY <1>8, LimiterStep DEF PurgeSessions, Tick
<1> QED
  BY <1>1, <1>3, <1>4, <1>5, <1>6, <1>7, <1>8 DEF AccountsNext

LEMMA AccountsStart == ASSUME AccountsInit PROVE AccountsInv
<1>1. LimiterInv
  BY LimiterBegins DEF AccountsInit
<1>2. TablesOK
  BY DEF AccountsInit, LimiterStart, TablesOK
<1>3. RegistrantActs /\ RowsLiveLifetime /\ CookieNamesRow
  BY DEF AccountsInit, Idle, RegistrantActs, RowsLiveLifetime, CookieNamesRow
<1> QED
  BY <1>1, <1>2, <1>3 DEF AccountsInv, AccountsTypeOK, TablesOK, LimiterInv

LEMMA AccountsStep ==
  ASSUME AccountsInv, [AccountsNext]_accountsVars
  PROVE  AccountsInv'
<1>1. LimiterInv /\ TablesOK /\ RegistrantActs /\ RowsLiveLifetime /\ CookieNamesRow
  BY DEF AccountsInv, AccountsTypeOK, TablesOK, LimiterInv, LimiterTypeOK
<1>2. LimiterInv' /\ TablesOK'
  BY <1>1, LimiterMoves, TablesStep
<1>3. RegistrantActs' /\ RowsLiveLifetime' /\ CookieNamesRow'
  BY <1>1, RegistrantActsStep, RowsStep, CookieStep
<1> QED
  BY <1>2, <1>3 DEF AccountsInv, AccountsTypeOK, TablesOK, LimiterInv

-----------------------------------------------------------------------------
\* The reason for all that follows: windows are tails of their logs, requests past
\* their check are the registrant's, and cookies name rows that outlive them.
THEOREM AccountsInvariant == AccountsSpec => []AccountsInv
<1>1. AccountsInit => AccountsInv
  BY AccountsStart
<1>2. AccountsInv /\ [AccountsNext]_accountsVars => AccountsInv'
  BY AccountsStep
<1> QED
  BY <1>1, <1>2, PTL DEF AccountsSpec

\* Merchants, sessions, requests, cookies and windows keep their types.
THEOREM AccountsTypes == AccountsSpec => []AccountsTypeOK
<1>1. AccountsInv => AccountsTypeOK
  BY DEF AccountsInv
<1> QED
  BY <1>1, AccountsInvariant, PTL

\* No window of either kind lets more than its limit through, Retry-After is exact and
\* a success wipes the slate, however logins overlap (login_rate_limit.rs).
THEOREM LimiterIsSound == AccountsSpec => []LimiterHolds
<1>1. AccountsInv => LimiterHolds
  BY LimiterPromises DEF AccountsInv
<1> QED
  BY <1>1, AccountsInvariant, PTL

\* Of two registrations that race for an email, only the winner gets a session.
THEOREM CookiesAreOwn == AccountsSpec => []CookieIsOwn
<1>1. AccountsInv => CookieIsOwn
  BY DEF AccountsInv, CookieNamesRow, CookieIsOwn
<1> QED
  BY <1>1, AccountsInvariant, PTL

\* No purge, refresh or logout elsewhere ends a session before its token says so.
THEOREM CookiesAreGood == AccountsSpec => []CookieIsGood
<1>1. ASSUME AccountsInv, NEW p \in Person, NEW svc \in {"rust", "next"},
             cookie[p] # NoToken, cookie[p].exp > now
      PROVE  CurrentMerchant(cookie[p], svc)
  <2>1. /\ cookie[p] \in Token /\ cookie[p].exp \in Nat /\ cookie[p].sid \in Session
        /\ now \in Nat
    BY <1>1 DEF AccountsInv, AccountsTypeOK, LimiterTypeOK, Token
  <2>2. /\ sessions[cookie[p].sid] \in Row
        /\ sessions[cookie[p].sid].owner = cookie[p].owner
        /\ cookie[p].exp <= sessions[cookie[p].sid].expires
    <3>1. sessions[cookie[p].sid] \in Row \cup {NoRow, Deleted}
      BY <1>1, <2>1 DEF AccountsInv, AccountsTypeOK
    <3>2. /\ sessions[cookie[p].sid] # NoRow
          /\ sessions[cookie[p].sid] = Deleted => cookie[p].exp < now
          /\ sessions[cookie[p].sid] \in Row =>
               /\ sessions[cookie[p].sid].owner = cookie[p].owner
               /\ cookie[p].exp <= sessions[cookie[p].sid].expires
      BY <1>1 DEF AccountsInv, CookieNamesRow
    <3> QED
      BY <1>1, <2>1, <3>1, <3>2
  <2>3. sessions[cookie[p].sid].expires \in Nat
    BY <2>2 DEF Row
  <2> QED
    BY <1>1, <2>1, <2>2, <2>3 DEF CurrentMerchant, Unexpired, Live
<1>2. AccountsInv => CookieIsGood
  BY <1>1 DEF CookieIsGood
<1> QED
  BY <1>2, AccountsInvariant, PTL

\* The first registration of an email stands, whatever other registrations do.
THEOREM RegistrationsStand == AccountsSpec => FirstRegistrationStands
<1>1. AccountsInv /\ [AccountsNext]_accountsVars =>
        [\A e \in Email : Registered(e) => merchants'[e] = merchants[e]]_accountsVars
  BY MerchantsStand
  DEF AccountsInv, AccountsTypeOK, TablesOK, LimiterTypeOK
<1> QED
  BY <1>1, AccountsInvariant, PTL DEF AccountsSpec, FirstRegistrationStands

\* A refresh extends only a session that is live: an expired one stays dead.
THEOREM SessionsStayExpired == AccountsSpec => ExpiredStaysExpired
<1>1. ASSUME TablesOK, RegistrantActs, [AccountsNext]_accountsVars,
             NEW s \in Session, sessions[s] \in Row, ~Live(s)
      PROVE  ~Live(s)'
  <2>1. now \in Nat /\ sessions[s].expires \in Nat /\ ~(sessions[s].expires > now)
    BY <1>1 DEF TablesOK, Row, Live
  <2>2. ASSUME NEW p \in Person, NEW r \in Session, Opens(p, r)
        PROVE  sessions'[s] = sessions[s] /\ now' = now
    BY <1>1, <2>2 DEF Opens, OpenSession, TablesOK
  <2>3. ASSUME NEW p \in Person, RefreshSession(p)
        PROVE  sessions'[s] = sessions[s] /\ now' = now
    BY <1>1, <2>3 DEF RefreshSession, CurrentMerchant, TablesOK
  <2>4. CASE PurgeSessions
    BY <1>1, <2>1, <2>4 DEF PurgeSessions, Live
  <2>5. CASE Tick
    BY <1>1, <2>1, <2>5 DEF Tick, Live
  <2>6. ASSUME sessions'[s] = sessions[s], now' = now
        PROVE  ~Live(s)'
    BY <1>1, <2>6 DEF Live
  <2> QED
    BY <1>1, <2>2, <2>3, <2>4, <2>5, <2>6, AccountsSteps DEF MovesOn, Registers, Logout
<1>2. AccountsInv => TablesOK /\ RegistrantActs
  BY DEF AccountsInv, AccountsTypeOK, TablesOK, LimiterTypeOK
<1>3. AccountsInv /\ [AccountsNext]_accountsVars =>
        [\A s \in Session : sessions[s] \in Row /\ ~Live(s) => ~Live(s)']_accountsVars
  BY <1>1, <1>2
<1> QED
  BY <1>3, AccountsInvariant, PTL DEF AccountsSpec, ExpiredStaysExpired
=============================================================================
