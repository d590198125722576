---------------------------- MODULE Rules_proofs ----------------------------
(***************************************************************************)
(* The pure rules, for every price, rate, setting, table and number of     *)
(* failures.  A state of Rules is one question with or without its answer, *)
(* so that each invariant is a fact about one rule, proved as a lemma.     *)
(***************************************************************************)
EXTENDS Rules, FiniteSetTheorems, WellFoundedInduction, TLAPS

-----------------------------------------------------------------------------
(* The waiting rules.                                                      *)

\* The table of windows covers every count below the threshold and no other.
LEMMA RetryRule ==
  ASSUME NEW failures \in Nat, NEW age \in Nat
  PROVE  LET decision == RetryDecision(failures, 0, age) IN
         /\ decision = "dead_letter" <=> BackoffMinutes(failures + 1) = NoWindow
         /\ decision = "skip" => age < 240
         /\ decision = "requeue" => age >= (IF failures = 0 THEN 5 ELSE 15)
<1>1. CASE failures + 1 >= Threshold
  <2>1. BackoffMinutes(failures + 1) = NoWindow
    BY <1>1 DEF Threshold, BackoffMinutes
  <2> QED
    BY <1>1, <2>1 DEF RetryDecision
<1>2. CASE failures + 1 < Threshold
  <2>1. failures \in 0..3
    BY <1>2 DEF Threshold
  <2>2. /\ BackoffMinutes(1) = 5 /\ BackoffMinutes(2) = 15
        /\ BackoffMinutes(3) = 60 /\ BackoffMinutes(4) = 240
    BY DEF BackoffMinutes
  <2>3. /\ BackoffMinutes(failures + 1) \in 5..240
        /\ failures # 0 => BackoffMinutes(failures + 1) >= 15
    BY <2>1, <2>2
  <2> QED
    <3> DEFINE window == BackoffMinutes(failures + 1)
               decision == RetryDecision(failures, 0, age)
    <3>1. /\ window \in 5..240 /\ window # NoWindow
          /\ failures # 0 => window >= 15
      BY <2>3 DEF NoWindow
    <3>2. decision = IF age >= window THEN "requeue" ELSE "skip"
      BY <1>2, <3>1 DEF RetryDecision, BackoffElapsed, Threshold
    <3> HIDE DEF window, decision
    <3>3. decision # "dead_letter" /\ (decision = "skip" => age < 240)
      BY <3>1, <3>2
    <3>4. decision = "requeue" => age >= (IF failures = 0 THEN 5 ELSE 15)
      BY <3>1, <3>2
    <3> QED
      BY <3>1, <3>3, <3>4 DEF window, decision
<1> QED
  BY <1>1, <1>2 DEF Threshold

\* The attempts are made after 0, 1, 3, 7 and 15 half seconds.
LEMMA Instants ==
  /\ Instant \in [0..4 -> Nat]
  /\ Instant[0] = 0 /\ Instant[1] = 1 /\ Instant[2] = 3 /\ Instant[3] = 7
  /\ Instant[4] = 15
<1> DEFINE f == [k \in 0..MaxRetries |-> IF k = 0 THEN 0 ELSE IF k = 1 THEN 1
                   ELSE IF k = 2 THEN 3 ELSE IF k = 3 THEN 7 ELSE 15]
           step(g) == [k \in 0..MaxRetries |->
                         IF k = 0 THEN 0 ELSE g[k - 1] + Delay(k - 1)]
<1>1. /\ Delay(0) = 1 /\ Delay(1) = 2 /\ Delay(2) = 4 /\ Delay(3) = 8
      /\ MaxRetries = 4
  BY DEF Delay, MaxRetries
<1>2. f = step(f)
  <2>1. ASSUME NEW k \in 0..MaxRetries
        PROVE  f[k] = step(f)[k]
    <3>1. k = 0 \/ k = 1 \/ k = 2 \/ k = 3 \/ k = 4
      BY <1>1
    <3> QED
      BY <1>1, <3>1
  <2> QED
    BY <2>1
<1>3. Instant = CHOOSE g : g = step(g)
  BY DEF Instant
<1> HIDE DEF f
<1>4. Instant = step(Instant)
  BY <1>2, <1>3
<1>5. /\ Instant[0] = 0 /\ Instant[1] = Instant[0] + Delay(0)
      /\ Instant[2] = Instant[1] + Delay(1) /\ Instant[3] = Instant[2] + Delay(2)
      /\ Instant[4] = Instant[3] + Delay(3) /\ DOMAIN Instant = 0..4
      /\ Instant = [k \in 0..4 |-> Instant[k]]
  BY <1>1, <1>4
<1>6. /\ Instant[0] = 0 /\ Instant[1] = 1 /\ Instant[2] = 3 /\ Instant[3] = 7
      /\ Instant[4] = 15
  BY <1>1, <1>5
<1>7. ASSUME NEW k \in 0..4
      PROVE  Instant[k] \in Nat
  <2>1. k = 0 \/ k = 1 \/ k = 2 \/ k = 3 \/ k = 4
    OBVIOUS
  <2> QED
    BY <1>6, <2>1
<1> QED
  BY <1>5, <1>6, <1>7

\* horizon_get gives up on a 429 after the last attempt only.
LEMMA HorizonRule ==
  ASSUME NEW until \in Nat, NEW last \in {"ok", "unavailable"}
  PROVE  LET answer == [k \in 0..MaxRetries |->
                          IF Instant[k] < until THEN "throttled" ELSE last]
         IN HorizonGet(answer) = "unavailable" <=> until > 15 \/ last = "unavailable"
<1> DEFINE answer == [k \in 0..MaxRetries |->
                        IF Instant[k] < until THEN "throttled" ELSE last]
<1>1. MaxRetries = 4
  BY DEF MaxRetries
<1>2. CASE until > 15
  <2>1. \A k \in 0..4 : Instant[k] <= 15
    <3> SUFFICES ASSUME NEW k \in 0..4
                 PROVE  Instant[k] <= 15
      OBVIOUS
    <3>1. k = 0 \/ k = 1 \/ k = 2 \/ k = 3 \/ k = 4
      OBVIOUS
    <3> QED
      BY <3>1, Instants
  <2>2. \A k \in 0..MaxRetries : answer[k] = "throttled"
    BY <1>1, <1>2, <2>1, Instants
  <2>3. HorizonGet(answer) = "unavailable"
    BY <2>2 DEF HorizonGet
  <2> QED
    BY <1>2, <2>3
<1>3. CASE ~(until > 15)
  <2> DEFINE First(k) == /\ answer[k] # "throttled"
                         /\ \A j \in 0..(k - 1) : answer[j] = "throttled"
  <2>1. \A k \in 0..MaxRetries : answer[k] # "throttled" => answer[k] = last
    OBVIOUS
  <2>2. answer[4] # "throttled"
    BY <1>1, <1>3, Instants
  <2>3. \E k \in 0..MaxRetries : First(k)
    <3>1. CASE answer[0] # "throttled"
      <4>1. First(0)
        BY <3>1
      <4> QED
        BY <1>1, <4>1
    <3>2. CASE answer[0] = "throttled" /\ answer[1] # "throttled"
      <4>1. First(1)
        BY <3>2
      <4> QED
        BY <1>1, <4>1
    <3>3. CASE /\ answer[0] = "throttled" /\ answer[1] = "throttled"
               /\ answer[2] # "throttled"
      <4>1. First(2)
        BY <3>3
      <4> QED
        BY <1>1, <4>1
    <3>4. CASE /\ answer[0] = "throttled" /\ answer[1] = "throttled"
               /\ answer[2] = "throttled" /\ answer[3] # "throttled"
      <4>1. First(3)
        BY <3>4
      <4> QED
        BY <1>1, <4>1
    <3>5. CASE /\ answer[0] = "throttled" /\ answer[1] = "throttled"
               /\ answer[2] = "throttled" /\ answer[3] = "throttled"
      <4>1. First(4)
        BY <2>2, <3>5
      <4> QED
        BY <1>1, <4>1
    <3> QED
      BY <3>1, <3>2, <3>3, <3>4, <3>5
  <2> DEFINE k == CHOOSE k \in 0..MaxRetries : First(k)
  <2>4. k \in 0..MaxRetries /\ First(k)
    BY <2>3
  <2>5. HorizonGet(answer) = answer[k]
    BY <1>1, <2>2 DEF HorizonGet
  <2> HIDE DEF k
  <2>6. HorizonGet(answer) = last
    BY <2>1, <2>4, <2>5
  <2> QED
    BY <1>3, <2>6
<1> QED
  BY <1>2, <1>3

-----------------------------------------------------------------------------
(* What an invoice costs.                                                  *)

LEMMA DivIsFloor ==
  ASSUME NEW n \in Nat, NEW d \in Nat \ {0}
  PROVE  n \div d \in Nat /\ (n \div d) * d <= n /\ n < (n \div d) * d + d
OBVIOUS

LEMMA DivGrows ==
  ASSUME NEW n \in Nat, NEW d \in Nat \ {0}, NEW c \in Nat, n <= c * d
  PROVE  n \div d <= c
<1> DEFINE q == n \div d
<1>1. q \in Nat /\ q * d <= n
  BY DivIsFloor
<1> HIDE DEF q
<1>2. q * d <= c * d
  BY <1>1
<1>3. q <= c
  BY <1>1, <1>2
<1> QED
  BY <1>3 DEF q

\* An i32 that has wrapped is an integer below the product it stands for.
LEMMA WrapIsBelow ==
  ASSUME NEW n \in Nat
  PROVE  Wrap(n) \in Int /\ Wrap(n) <= n
<1> DEFINE m == (n + Half) % (2 * Half)
           q == (n + Half) \div (2 * Half)
<1>1. Half \in Nat \ {0} /\ 2 * Half \in Nat \ {0}
  BY InvoiceMathAssumption
<1>2. n + Half \in Nat
  BY <1>1
<1>3. m = (n + Half) - q * (2 * Half) /\ q \in Nat /\ m \in Int
  BY <1>1, <1>2
<1> HIDE DEF m, q
<1>4. q * (2 * Half) \in Nat
  BY <1>1, <1>3
<1>5. m <= n + Half
  BY <1>1, <1>3, <1>4
<1> QED
  BY <1>1, <1>3, <1>5 DEF Wrap, m

\* At a rate of at most 100 % the fee is at most the price, also where it wrapped.
LEMMA FeesAreBounded ==
  ASSUME NEW cents \in Nat \ {0}, NEW bps \in 0..FullRate
  PROVE  RustFee(cents, bps) \in 1..cents /\ NextFee(cents, bps) \in 1..cents
<1>1. FullRate \in Nat \ {0} /\ bps \in Nat
  BY InvoiceMathAssumption
<1>2. cents * bps \in Nat /\ cents * bps <= cents * FullRate
  BY <1>1
<1>3. RustFee(cents, bps) \in 1..cents
  <2> DEFINE w == Wrap(cents * bps)
  <2>1. w \in Int /\ w <= cents * bps
    BY <1>2, WrapIsBelow
  <2> HIDE DEF w
  <2>2. CASE w >= 0
    <3>1. w \in Nat /\ w <= cents * FullRate
      BY <1>1, <1>2, <2>1, <2>2
    <3>2. w \div FullRate \in Nat /\ w \div FullRate <= cents
      BY <1>1, <3>1, DivIsFloor, DivGrows
    <3> QED
      BY <2>2, <3>2 DEF RustFee, Quotient, Larger, w
  <2>3. CASE w < 0
    <3>1. -w \in Nat
      BY <2>1, <2>3
    <3>2. (-w) \div FullRate \in Nat
      BY <1>1, <3>1, DivIsFloor
    <3>3. Quotient(w, FullRate) = -((-w) \div FullRate)
      BY <2>1, <2>3 DEF Quotient
    <3>4. RustFee(cents, bps) = 1
      BY <3>2, <3>3 DEF RustFee, Larger, w
    <3> QED
      BY <3>4
  <2> QED
    BY <2>1, <2>2, <2>3
<1>4. NextFee(cents, bps) \in 1..cents
  <2> DEFINE n == 2 * cents * bps + FullRate
             d == 2 * FullRate
  <2>1. 2 * cents * bps = 2 * (cents * bps) /\ cents * d = 2 * (cents * FullRate)
    BY <1>1
  <2>2. n \in Nat /\ d \in Nat \ {0} /\ n < cents * d + d
    BY <1>1, <1>2, <2>1
  <2> DEFINE q == n \div d
  <2> HIDE DEF n, d
  <2>3. q \in Nat /\ q * d <= n
    BY <2>2, DivIsFloor
  <2> HIDE DEF q
  <2>4. q * d < (cents + 1) * d
    BY <2>2, <2>3
  <2>5. q <= cents
    BY <2>2, <2>3, <2>4
  <2>6. NextFee(cents, bps) = Larger(1, q)
    BY DEF NextFee, n, d, q
  <2> QED
    BY <2>3, <2>5, <2>6 DEF Larger
<1> QED
  BY <1>3, <1>4

LEMMA PriceRule ==
  ASSUME NEW asked \in Int, NEW bps \in 0..FullRate,
         NEW split \in RustSplits(asked, bps) \cup NextSplits(asked, bps),
         split # Refused
  PROVE  /\ split.fee >= 1 /\ split.net >= 0
         /\ split.gross = split.fee + split.net
<1>1. ASSUME NEW cents \in Nat \ {0}, NEW fee \in 1..cents, split = Split(cents, fee)
      PROVE  /\ split.fee >= 1 /\ split.net >= 0
             /\ split.gross = split.fee + split.net
  BY <1>1 DEF Split
<1>2. CASE split \in RustSplits(asked, bps)
  <2> DEFINE cents == RustCents(asked)
  <2>1. asked > 0 /\ cents # 0 /\ split = Split(cents, RustFee(cents, bps))
    BY <1>2 DEF RustSplits
  <2>2. Half \in Nat \ {0} /\ (asked + 5) \div 10 \in Nat
    BY <2>1, DivIsFloor, InvoiceMathAssumption
  <2>3. cents \in Nat \ {0}
    BY <2>1, <2>2 DEF RustCents
  <2> HIDE DEF cents
  <2> QED
    BY <1>1, <2>1, <2>3, FeesAreBounded
<1>3. CASE split \in NextSplits(asked, bps)
  <2> DEFINE cents == NextCents(asked)
  <2>1. asked > 0 /\ cents # 0 /\ split = Split(cents, NextFee(cents, bps))
    BY <1>3 DEF NextSplits
  <2>2. cents \in Nat \ {0}
    BY <2>1, DivIsFloor DEF NextCents
  <2> HIDE DEF cents
  <2> QED
    BY <1>1, <2>1, <2>2, FeesAreBounded
<1> QED
  BY <1>2, <1>3

-----------------------------------------------------------------------------
(* What a secret protects.                                                 *)

\* A window lasts a second at least, whatever is written.
LEMMA SettingRule ==
  ASSUME NEW value, NEW default \in Nat \ {0}
  PROVE  /\ UnsignedSetting(value, default) \in Nat
         /\ UnsignedSetting(value, default) = 0 <=> value = 0
BY DEF UnsignedSetting

LEMMA LargerOfTwo ==
  ASSUME NEW n \in Nat
  PROVE  Max({1, n}) >= 1
<1> DEFINE most == IF n >= 1 THEN n ELSE 1
<1>1. most \in {1, n} /\ \A y \in {1, n} : most >= y
  OBVIOUS
<1>2. PICK x : x = Max({1, n}) /\ x \in {1, n} /\ \A y \in {1, n} : x >= y
  BY <1>1 DEF Max
<1> QED
  BY <1>2

\* Neither authorization admits without the secret.
LEMMA AdmissionRule ==
  ASSUME NEW value \in {Unset, ""} \cup Secret, NEW header,
         \/ AuthorizeCron(SecretSetting(value), header)
         \/ NextAuthorized(SecretSetting(value), header)
  PROVE  value \in Secret /\ header.token = value
<1>1. SecretSetting(value) # "" /\ header.token = SecretSetting(value)
  BY DEF AuthorizeCron, NextAuthorized
<1>2. value # Unset /\ SecretSetting(value) = value
  BY <1>1 DEF SecretSetting
<1> QED
  BY <1>1, <1>2

\* What is printed of the configuration: nothing that is wrapped.
LEMMA DebugRule ==
  ASSUME NEW env
  PROVE  DebugText(TextSettings(env)) = {"[REDACTED]", "issuer"}
<1> DEFINE text == TextSettings(env)
<1>1. /\ DOMAIN text = Wrapped \cup {"asset_issuer"}
      /\ text["asset_issuer"] = "issuer"
  BY DEF TextSettings, Wrapped
<1> HIDE DEF text
<1>2. \A f \in Wrapped : (IF f \in Wrapped THEN "[REDACTED]" ELSE text[f]) = "[REDACTED]"
  OBVIOUS
<1>3. "asset_issuer" \notin Wrapped /\ "cron_secret" \in Wrapped
  BY DEF Wrapped
<1>4. DebugText(text) =
        {IF f \in Wrapped THEN "[REDACTED]" ELSE text[f] :
           f \in Wrapped \cup {"asset_issuer"}}
  BY <1>1 DEF DebugText
<1> QED
  BY <1>1, <1>3, <1>4 DEF text

\* A bounded set of numbers has a greatest one: the distances from the bound have a
\* least one, the order of the naturals being well-founded.
LEMMA Greatest ==
  ASSUME NEW n \in Nat, NEW S \in SUBSET (0..n), S # {}
  PROVE  Max(S) \in S /\ \A k \in S : Max(S) >= k
<1> DEFINE D == {n - k : k \in S}
<1>1. D \in SUBSET Nat /\ D # {}
  <2>1. \A k \in S : n - k \in Nat
    OBVIOUS
  <2> QED
    BY <2>1
<1>2. \E m \in D : \A k \in D : <<k, m>> \notin OpToRel(<, Nat)
  BY <1>1, WFMin, NatLessThanWellFounded
<1>3. \A m, k \in D : <<k, m>> \notin OpToRel(<, Nat) => m <= k
  BY <1>1 DEF OpToRel
<1>4. PICK m \in D : \A k \in D : m <= k
  BY <1>2, <1>3
<1>5. PICK x \in S : m = n - x
  OBVIOUS
<1>6. \A k \in S : x >= k
  <2> SUFFICES ASSUME NEW k \in S
               PROVE  x >= k
    OBVIOUS
  <2>1. m <= n - k
    BY <1>4
  <2> QED
    BY <1>5, <2>1
<1> QED
  BY <1>6 DEF Max

\* A set of naturals has a least one.
LEMMA Least ==
  ASSUME NEW S \in SUBSET Nat, S # {}
  PROVE  Min(S) \in S /\ \A k \in S : Min(S) <= k
<1>1. \E m \in S : \A k \in S : <<k, m>> \notin OpToRel(<, Nat)
  BY WFMin, NatLessThanWellFounded
<1>2. \A m, k \in S : <<k, m>> \notin OpToRel(<, Nat) => m <= k
  BY DEF OpToRel
<1> QED
  BY <1>1, <1>2 DEF Min

\* The beginning and the end of a sequence, and two sequences in a row.
LEMMA Beginning ==
  ASSUME NEW S, NEW s \in Seq(S), NEW n \in 0..Len(s)
  PROVE  /\ SubSeq(s, 1, n) \in Seq(S) /\ Len(SubSeq(s, 1, n)) = n
         /\ \A k \in 1..n : SubSeq(s, 1, n)[k] = s[k]
OBVIOUS

LEMMA Ending ==
  ASSUME NEW S, NEW s \in Seq(S), NEW n \in 0..Len(s)
  PROVE  LET rest == SubSeq(s, n + 1, Len(s)) IN
         /\ rest \in Seq(S) /\ Len(rest) = Len(s) - n
         /\ \A k \in 1..(Len(s) - n) : rest[k] = s[n + k]
OBVIOUS

LEMMA RangeOfBoth ==
  ASSUME NEW S, NEW s \in Seq(S), NEW t \in Seq(S)
  PROVE  Range(s \o t) = Range(s) \cup Range(t)
<1>1. /\ s \o t \in Seq(S) /\ Len(s \o t) = Len(s) + Len(t)
      /\ Len(s) \in Nat /\ Len(t) \in Nat
      /\ \A k \in 1..Len(s) : (s \o t)[k] = s[k]
      /\ \A k \in 1..Len(t) : (s \o t)[Len(s) + k] = t[k]
  OBVIOUS
<1>2. \A u \in Seq(S) : Range(u) = {u[k] : k \in 1..Len(u)}
  BY DEF Range
<1> DEFINE st == s \o t
<1>3. st \in Seq(S) /\ Len(st) = Len(s) + Len(t)
  BY <1>1
<1>4. /\ \A k \in 1..Len(s) : st[k] = s[k]
      /\ \A k \in 1..Len(t) : st[Len(s) + k] = t[k]
  BY <1>1
<1> HIDE DEF st
<1>5. Range(st) \subseteq Range(s) \cup Range(t)
  <2> SUFFICES ASSUME NEW k \in 1..Len(st)
               PROVE  st[k] \in Range(s) \cup Range(t)
    BY <1>2, <1>3
  <2>1. CASE k <= Len(s)
    BY <1>1, <1>2, <1>3, <1>4, <2>1
  <2>2. CASE k > Len(s)
    <3>1. k - Len(s) \in 1..Len(t) /\ k = Len(s) + (k - Len(s))
      BY <1>1, <1>3, <2>2
    <3>2. st[k] = t[k - Len(s)]
      BY <1>4, <3>1
    <3> QED
      BY <1>2, <3>1, <3>2
  <2> QED
    BY <1>1, <1>3, <2>1, <2>2
<1>6. Range(s) \subseteq Range(st)
  <2> SUFFICES ASSUME NEW k \in 1..Len(s)
               PROVE  s[k] \in Range(st)
    BY <1>2
  <2>1. k \in 1..Len(st) /\ st[k] = s[k]
    BY <1>1, <1>3, <1>4
  <2> QED
    BY <1>2, <1>3, <2>1
<1>7. Range(t) \subseteq Range(st)
  <2> SUFFICES ASSUME NEW k \in 1..Len(t)
               PROVE  t[k] \in Range(st)
    BY <1>2
  <2>1. Len(s) + k \in 1..Len(st) /\ st[Len(s) + k] = t[k]
    BY <1>1, <1>3, <1>4
  <2> QED
    BY <1>2, <1>3, <2>1
<1> QED
  BY <1>5, <1>6, <1>7 DEF st

LEMMA RangeOfOne == ASSUME NEW a PROVE Range(<<a>>) = {a}
BY DEF Range

LEMMA RangeOfTwo == ASSUME NEW a, NEW b PROVE Range(<<a, b>>) = {a, b}
BY DEF Range

LEMMA AuthorizationRule ==
  ASSUME NEW header, header.token \notin {"Bearer ", "[REDACTED]"}
  PROVE  header.token \notin Range(RedactAuthorizationHeader(header))
<1>1. Range(<<"Bearer ", "[REDACTED]">>) = {"Bearer ", "[REDACTED]"}
  BY RangeOfTwo, Zenon
<1>2. Range(<<"[REDACTED]">>) = {"[REDACTED]"}
  BY RangeOfOne, Zenon
<1> QED
  BY <1>1, <1>2, Zenon DEF RedactAuthorizationHeader

\* Before the first "/" the last "@" is at most the one before the host, and is that
\* one if no "/" comes before it.
LEMMA HostPartRule ==
  ASSUME NEW rest, ProperRest(rest)
  PROVE  LET hostPart == IF Places(rest, "/") = {} THEN rest
                         ELSE SubSeq(rest, 1, Min(Places(rest, "/")) - 1)
             at == UserinfoEnd(hostPart)
         IN /\ at \in 0..(Len(rest) - 1)
            /\ \E k \in (at + 1)..Len(rest) : rest[k] = "host"
            /\ UserinfoOnly(rest) =>
                 \A k \in (at + 1)..Len(rest) : rest[k] # "credential"
<1> DEFINE hostPart == IF Places(rest, "/") = {} THEN rest
                       ELSE SubSeq(rest, 1, Min(Places(rest, "/")) - 1)
           Token == {"credential", "@", "/", "host", "db"}
           slashes == Places(rest, "/")
           ats == Places(hostPart, "@")
<1>1. rest \in Seq(Token) /\ Len(rest) \in Nat /\ DOMAIN rest = 1..Len(rest)
  BY DEF ProperRest
<1>2. PICK n \in 0..(Len(rest) - 1) :
        /\ n > 0 => rest[n] = "@"
        /\ \A k \in 1..n : rest[k] \in {"credential", "@", "/"}
        /\ rest[n + 1] = "host"
        /\ \A k \in (n + 2)..Len(rest) : rest[k] \in {"/", "db", "credential"}
  BY DEF ProperRest
<1>3. \E l \in 0..Len(rest) :
        /\ hostPart \in Seq(Token) /\ Len(hostPart) = l
        /\ \A k \in 1..l : hostPart[k] = rest[k]
        /\ l > n \/ (l + 1 \in 1..n /\ rest[l + 1] = "/")
  <2>1. CASE slashes = {}
    <3>1. hostPart = rest
      BY <2>1
    <3>2. Len(rest) \in 0..Len(rest) /\ Len(rest) > n
      BY <1>1, <1>2
    <3> HIDE DEF hostPart, Token
    <3> QED
      BY <1>1, <3>1, <3>2
  <2>2. CASE slashes # {}
    <3>1. slashes \in SUBSET (1..Len(rest)) /\ \A k \in slashes : rest[k] = "/"
      BY <1>1 DEF Places
    <3> HIDE DEF slashes
    <3>2. Min(slashes) \in slashes
      BY <2>2, <3>1, Least
    <3> DEFINE m == Min(slashes)
    <3>3. m \in 1..Len(rest) /\ rest[m] = "/"
      BY <3>1, <3>2
    <3> HIDE DEF m
    <3>4. m # n + 1 /\ m - 1 \in 0..Len(rest) /\ (m - 1) + 1 = m
      BY <1>1, <1>2, <3>3
    <3>5. m - 1 > n \/ m \in 1..n
      BY <1>1, <1>2, <3>3, <3>4
    <3>6. hostPart = SubSeq(rest, 1, m - 1)
      BY <2>2 DEF slashes, m
    <3> HIDE DEF hostPart, Token
    <3>7. /\ hostPart \in Seq(Token) /\ Len(hostPart) = m - 1
          /\ \A k \in 1..(m - 1) : hostPart[k] = rest[k]
      BY <1>1, <3>4, <3>6, Beginning
    <3> QED
      BY <3>3, <3>4, <3>5, <3>7
  <2> QED
    BY <2>1, <2>2
<1> HIDE DEF hostPart
<1>4. PICK l \in 0..Len(rest) :
        /\ hostPart \in Seq(Token) /\ Len(hostPart) = l
        /\ \A k \in 1..l : hostPart[k] = rest[k]
        /\ l > n \/ (l + 1 \in 1..n /\ rest[l + 1] = "/")
  BY <1>3
<1>5. /\ ats \in SUBSET (0..n) /\ 0 \notin ats
      /\ n > 0 /\ l > n => n \in ats
  <2>1. ats = {k \in 1..l : rest[k] = "@"}
    BY <1>4 DEF Places
  <2> HIDE DEF ats
  <2> QED
    BY <1>1, <1>2, <1>4, <2>1
<1>6. /\ UserinfoEnd(hostPart) \in 0..n
      /\ l > n => UserinfoEnd(hostPart) = n
  <2> HIDE DEF ats
  <2>1. CASE ats = {}
    BY <1>2, <1>5, <2>1 DEF UserinfoEnd, ats
  <2>2. CASE ats # {}
    <3>1. n \in Nat /\ ats \in SUBSET (0..n)
      BY <1>1, <1>2, <1>5
    <3>2. Max(ats) \in ats /\ \A k \in ats : Max(ats) >= k
      BY <2>2, <3>1, Greatest
    <3> DEFINE most == Max(ats)
    <3>3. most \in 0..n /\ (n \in ats => most >= n)
      BY <3>1, <3>2
    <3>4. UserinfoEnd(hostPart) = most
      BY <2>2 DEF UserinfoEnd, ats
    <3> HIDE DEF most
    <3> QED
      BY <1>4, <1>5, <3>1, <3>3, <3>4
  <2> QED
    BY <2>1, <2>2
<1> DEFINE at == UserinfoEnd(hostPart)
<1> HIDE DEF at
<1>7. at \in 0..n /\ (l > n => at = n)
  BY <1>6 DEF at
<1>8. at \in 0..(Len(rest) - 1) /\ n + 1 \in (at + 1)..Len(rest)
  BY <1>1, <1>2, <1>7
<1>9. ASSUME UserinfoOnly(rest), NEW k \in (at + 1)..Len(rest)
      PROVE  rest[k] # "credential"
  <2>1. n + 1 \in DOMAIN rest /\ k \in DOMAIN rest
    BY <1>1, <1>8, <1>9
  <2>2. \A j \in DOMAIN rest :
          (j < n + 1 => rest[j] # "/") /\ (j > n + 1 => rest[j] # "credential")
    BY <1>2, <1>9, <2>1 DEF UserinfoOnly
  <2>3. l > n
    BY <1>1, <1>2, <1>4, <2>2
  <2>4. k = n + 1 \/ k > n + 1
    BY <1>1, <1>2, <1>7, <1>9, <2>3
  <2> QED
    BY <1>2, <2>1, <2>2, <2>4
<1> QED
  BY <1>2, <1>8, <1>9 DEF hostPart, at

LEMMA ConnectionRule ==
  ASSUME NEW dsn, ProperRest(dsn.rest)
  PROVE  /\ UserinfoOnly(dsn.rest) =>
              "credential" \notin Range(RedactConnectionString(dsn))
         /\ dsn.scheme => "host" \in Range(RedactConnectionString(dsn))
<1> DEFINE rest == dsn.rest
           hostPart == IF Places(rest, "/") = {} THEN rest
                       ELSE SubSeq(rest, 1, Min(Places(rest, "/")) - 1)
           at == UserinfoEnd(hostPart)
           red == "[REDACTED]"
           Token == {"credential", "@", "/", "host", "db"} \cup {red}
           tail == SubSeq(rest, at + 1, Len(rest))
           plain == UserinfoOnly(rest)
<1>1. /\ at \in 0..(Len(rest) - 1) /\ \E k \in (at + 1)..Len(rest) : rest[k] = "host"
      /\ plain => \A k \in (at + 1)..Len(rest) : rest[k] # "credential"
  BY HostPartRule
<1>2. rest \in Seq(Token) /\ Len(rest) \in Nat
  BY DEF ProperRest
<1>3. RedactConnectionString(dsn) =
        IF ~dsn.scheme THEN <<red>> ELSE IF at = 0 THEN rest ELSE <<red, "@">> \o tail
  BY DEF RedactConnectionString
<1>4. red \in Token /\ "@" \in Token /\ red # "credential"
  OBVIOUS
<1> HIDE DEF red, at, rest, plain
<1>5. CASE ~dsn.scheme
  <2>1. Range(<<red>>) = {red}
    BY RangeOfOne
  <2> QED
    BY <1>3, <1>4, <1>5, <2>1
<1>6. CASE dsn.scheme /\ at = 0
  <2>1. Range(rest) = {rest[k] : k \in 1..Len(rest)}
    BY <1>2 DEF Range
  <2>2. (plain => "credential" \notin Range(rest)) /\ "host" \in Range(rest)
    BY <1>1, <1>2, <1>6, <2>1
  <2> QED
    BY <1>3, <1>6, <2>2, Zenon DEF plain, rest
<1>7. CASE dsn.scheme /\ at # 0
  <2> HIDE DEF Token
  <2>1. /\ tail \in Seq(Token) /\ Len(tail) = Len(rest) - at
        /\ \A k \in 1..(Len(rest) - at) : tail[k] = rest[at + k]
    BY <1>1, <1>2, Ending
  <2> HIDE DEF tail
  <2>2. Range(tail) = {tail[k] : k \in 1..Len(tail)}
    BY <2>1 DEF Range
  <2>3. (plain => "credential" \notin Range(tail)) /\ "host" \in Range(tail)
    <3>1. ASSUME NEW k \in 1..Len(tail)
          PROVE  at + k \in (at + 1)..Len(rest) /\ tail[k] = rest[at + k]
      BY <1>1, <1>2, <2>1
    <3>2. PICK h \in (at + 1)..Len(rest) : rest[h] = "host"
      BY <1>1
    <3>3. h - at \in 1..Len(tail) /\ at + (h - at) = h
      BY <1>1, <1>2, <2>1, <3>2
    <3>4. "host" \in Range(tail)
      BY <2>2, <3>1, <3>2, <3>3
    <3> QED
      BY <1>1, <2>2, <3>1, <3>4
  <2>4. <<red, "@">> \in Seq(Token)
    BY <1>4
  <2>5. Range(<<red, "@">> \o tail) = Range(<<red, "@">>) \cup Range(tail)
    BY <2>1, <2>4, RangeOfBoth, Zenon
  <2>6. Range(<<red, "@">>) = {red, "@"}
    BY RangeOfTwo, Zenon
  <2> QED
    <3>1. RedactConnectionString(dsn) = <<red, "@">> \o tail
      BY <1>3, <1>7
    <3>2. "credential" \notin {red, "@"}
      BY <1>4
    <3> DEFINE line == RedactConnectionString(dsn)
    <3> HIDE DEF line
    <3>3. Range(line) = {red, "@"} \cup Range(tail)
      BY <2>5, <2>6, <3>1, Zenon DEF line
    <3>4. (plain => "credential" \notin Range(line)) /\ "host" \in Range(line)
      BY <2>3, <3>2, <3>3
    <3> QED
      BY <3>4, Zenon DEF plain, rest, line
<1> QED
  BY <1>5, <1>6, <1>7

LEMMA CookieRule ==
  ASSUME NEW pair, ProperCookie(pair)
  PROVE  /\ "credential" \notin Range(RedactCookie(pair))
         /\ "name" \in Range(pair) => "name" \in Range(RedactCookie(pair))
<1> DEFINE red == "[REDACTED]"
           Token == {"name", "=", "credential"} \cup {red}
           signs == Places(pair, "=")
           name == SubSeq(pair, 1, Min(signs) - 1)
<1>1. /\ pair \in Seq(Token) /\ Len(pair) \in Nat
      /\ Range(pair) = {pair[k] : k \in 1..Len(pair)}
      /\ signs = {k \in 1..Len(pair) : pair[k] = "="}
  BY DEF ProperCookie, Range, Places
<1>2. PICK n \in 0..Len(pair) :
        /\ n > 0 => pair[n] = "="
        /\ \A k \in 1..(n - 1) : pair[k] = "name"
        /\ \A k \in (n + 1)..Len(pair) :
             pair[k] # "name" /\ (n = 0 => pair[k] = "credential")
  BY DEF ProperCookie
<1>3. RedactCookie(pair) =
        IF signs = {} THEN <<red>> ELSE name \o <<"=", red>>
  BY DEF RedactCookie, NameOf
<1>4. red \in Token /\ "=" \in Token /\ red # "credential"
  OBVIOUS
<1> HIDE DEF red, signs
<1>5. CASE n = 0
  <2>1. signs = {} /\ "name" \notin Range(pair)
    BY <1>1, <1>2, <1>5
  <2>2. Range(<<red>>) = {red}
    BY RangeOfOne
  <2> QED
    BY <1>3, <1>4, <2>1, <2>2
<1>6. CASE n > 0
  <2>1. n \in signs /\ signs \in SUBSET Nat
    BY <1>1, <1>2, <1>6
  <2>2. Min(signs) \in signs /\ Min(signs) <= n
    BY <2>1, Least
  <2>3. Min(signs) = n
    BY <1>1, <1>2, <1>6, <2>2
  <2>4. name = SubSeq(pair, 1, n - 1)
    BY <2>3
  <2>5. n - 1 \in 0..Len(pair)
    BY <1>1, <1>2, <1>6
  <2> HIDE DEF Token, name
  <2>6. /\ name \in Seq(Token) /\ Len(name) = n - 1
        /\ \A k \in 1..(n - 1) : name[k] = pair[k]
    BY <1>1, <2>4, <2>5, Beginning
  <2>7. Range(name) = {name[k] : k \in 1..Len(name)}
    BY <2>6 DEF Range
  <2>8. /\ Range(name) \subseteq {"name"}
        /\ "name" \in Range(pair) => "name" \in Range(name)
    BY <1>1, <1>2, <1>6, <2>6, <2>7
  <2>9. <<"=", red>> \in Seq(Token)
    BY <1>4
  <2>10. Range(name \o <<"=", red>>) = Range(name) \cup Range(<<"=", red>>)
    BY <2>6, <2>9, RangeOfBoth, Zenon
  <2>11. Range(<<"=", red>>) = {"=", red}
    BY RangeOfTwo, Zenon
  <2>12. RedactCookie(pair) = name \o <<"=", red>>
    BY <1>3, <2>1 DEF name
  <2> QED
    BY <1>4, <2>8, <2>10, <2>11, <2>12
<1> QED
  BY <1>2, <1>5, <1>6
-----------------------------------------------------------------------------
(* What operators are told.                                                *)

LEMMA ErrorRule ==
  ASSUME NEW error \in AppErrors
  PROVE  IntoResponse(error).captured <=> IntoResponse(error).status >= 500
<1> DEFINE Right(e) == IntoResponse(e).captured <=> IntoResponse(e).status >= 500
<1>1. ASSUME NEW code, NEW status \in Int, error = Made(code, status),
             Classify(code) # "User" <=> status >= 500
      PROVE  Right(error)
  BY <1>1 DEF IntoResponse, Made
<1>2. /\ Classify("DatabaseError") # "User" /\ Classify("Internal") # "User"
      /\ Classify("NotImplemented") # "User" /\ Classify("HorizonUnavailable") # "User"
      /\ \A code \in {"InvalidUuid", "SessionExpired", "InvalidPayload",
                      "SessionRequired", "InvalidCredentials", "CronSecretMismatch",
                      "RateLimited", "InvoiceNotFound", "DuplicateEmail"} :
           Classify(code) = "User"
  BY DEF Classify
<1> HIDE DEF Right
<1>3. Right(error)
  BY <1>1, <1>2 DEF AppErrors, Converted
<1> QED
  BY <1>3 DEF Right

\* The oldest row of a table.
LEMMA OldestRule ==
  ASSUME NEW rows, ProperTable(rows), Aged(rows, "queued") # {}
  PROVE  /\ OldestQueued(rows) \in Int
         /\ \A r \in Aged(rows, "queued") : r.age \in Int /\ r.age <= OldestQueued(rows)
         /\ \E r \in Aged(rows, "queued") : r.age = OldestQueued(rows)
<1> DEFINE queued == Aged(rows, "queued")
           ages == {r.age : r \in queued}
<1>1. queued \subseteq rows
  BY DEF Aged
<1>2. PICK oldest \in rows : \A r \in rows : r.age \in 0..oldest.age
  BY <1>1 DEF ProperTable
<1>3. oldest.age \in Nat
  BY <1>2
<1>4. ages \in SUBSET (0..oldest.age) /\ ages # {}
  BY <1>1, <1>2
<1>5. OldestQueued(rows) = Max(ages)
  BY DEF OldestQueued
<1>6. Max(ages) \in ages /\ \A k \in ages : Max(ages) >= k
  BY <1>3, <1>4, Greatest
<1> HIDE DEF queued
<1> QED
  BY <1>3, <1>4, <1>5, <1>6 DEF queued

\* How many rows are beyond a threshold, and how many there are.
LEMMA StuckRule ==
  ASSUME NEW rows, ProperTable(rows), NEW threshold \in Int
  PROVE  LET n == Cardinality(Stuck(rows, "queued", threshold)) IN
         /\ n \in Nat /\ n <= Cardinality(Aged(rows, "queued"))
         /\ n > 0 <=> /\ Aged(rows, "queued") # {}
                      /\ OldestQueued(rows) > threshold
<1> DEFINE queued == Aged(rows, "queued")
           stuck == Stuck(rows, "queued", threshold)
<1>1. queued \subseteq rows /\ stuck \subseteq queued
  BY DEF Aged, Stuck
<1>2. IsFiniteSet(queued) /\ IsFiniteSet(stuck)
  BY <1>1, FS_Subset DEF ProperTable
<1>3. /\ Cardinality(stuck) \in Nat /\ Cardinality(stuck) <= Cardinality(queued)
      /\ Cardinality(stuck) = 0 <=> stuck = {}
  BY <1>1, <1>2, FS_CardinalityType, FS_Subset, FS_EmptySet
<1>4. stuck = {r \in queued : r.age > threshold}
  BY DEF Stuck
<1>5. stuck # {} <=> queued # {} /\ OldestQueued(rows) > threshold
  <2>1. CASE queued = {}
    BY <1>1, <2>1
  <2>2. CASE queued # {}
    <3>1. /\ OldestQueued(rows) \in Int
          /\ \A r \in queued : r.age \in Int /\ r.age <= OldestQueued(rows)
          /\ \E r \in queued : r.age = OldestQueued(rows)
      BY <2>2, OldestRule
    <3> HIDE DEF queued, stuck
    <3> QED
      BY <1>4, <2>2, <3>1
  <2> QED
    BY <2>1, <2>2
<1> HIDE DEF queued, stuck
<1>6. Cardinality(stuck) > 0 <=> stuck # {}
  BY <1>3
<1> QED
  BY <1>3, <1>5, <1>6 DEF queued, stuck

LEMMA WatchRule ==
  ASSUME NEW invoices, NEW payouts, ProperTable(payouts),
         NEW pendingAge, NEW queuedAge \in Int
  PROVE  LET alerts == {a \in AlertCheck(invoices, payouts, pendingAge, queuedAge) :
                          a.kind = "stuck_queued_payout"}
             health == PayoutQueueStats(payouts, 0)
         IN /\ alerts # {} <=> health.oldestQueuedAge # NoAge
                                /\ health.oldestQueuedAge > queuedAge
            /\ \A a \in alerts : a.count <= health.queued
<1> DEFINE n == Cardinality(Stuck(payouts, "queued", queuedAge))
           alert == [kind |-> "stuck_queued_payout", count |-> n]
           alerts == {a \in AlertCheck(invoices, payouts, pendingAge, queuedAge) :
                        a.kind = "stuck_queued_payout"}
           health == PayoutQueueStats(payouts, 0)
<1>1. alerts = {a \in {alert} : a.count > 0}
  BY DEF AlertCheck
<1>2. /\ health.oldestQueuedAge = OldestQueued(payouts)
      /\ health.queued = Cardinality(Aged(payouts, "queued"))
  BY DEF PayoutQueueStats
<1>3. /\ n \in Nat /\ n <= health.queued
      /\ n > 0 <=> Aged(payouts, "queued") # {} /\ OldestQueued(payouts) > queuedAge
  BY <1>2, StuckRule
<1>4. OldestQueued(payouts) # NoAge <=> Aged(payouts, "queued") # {}
  BY OldestRule, RulesAssumption DEF OldestQueued
<1> HIDE DEF n, health
<1>5. alert.count = n
  OBVIOUS
<1> HIDE DEF alert, alerts
<1>6. alerts # {} <=> n > 0
  BY <1>1, <1>5
<1>7. \A a \in alerts : a.count = n
  BY <1>1, <1>5
<1>8. /\ alerts # {} <=> health.oldestQueuedAge # NoAge
                          /\ health.oldestQueuedAge > queuedAge
      /\ \A a \in alerts : a.count <= health.queued
  BY <1>2, <1>3, <1>4, <1>6, <1>7
<1> QED
  BY <1>8 DEF alerts, health

\* The full hour before a time.
LEMMA WindowStartRule ==
  ASSUME NEW t \in Nat
  PROVE  /\ WindowStart(t) \in Nat
         /\ WindowStart(t) <= t /\ t < WindowStart(t) + HourLength
         /\ \A q \in Int : q * HourLength <= t => q * HourLength <= WindowStart(t)
         /\ t % HourLength = 0 => WindowStart(t) = t
<1> DEFINE h == HourLength
           k == t \div h
<1>1. h \in Nat \ {0}
  BY ReportsAssumption
<1>2. k \in Nat /\ k * h <= t /\ t < k * h + h /\ t % h = t - k * h
  BY <1>1
<1>3. WindowStart(t) = k * h
  BY DEF WindowStart
<1> HIDE DEF k, h
<1>4. ASSUME NEW q \in Int, q * h <= t
      PROVE  q * h <= k * h
  <2>1. q * h < (k + 1) * h
    BY <1>1, <1>2, <1>4
  <2>2. q <= k
    BY <1>1, <1>2, <2>1
  <2> QED
    BY <1>1, <1>2, <2>2
<1>5. k * h \in Nat
  BY <1>1, <1>2
<1> QED
  BY <1>2, <1>3, <1>4, <1>5 DEF h

LEMMA HoursRule ==
  ASSUME NEW hours \in {NoAge, -1, 0} \cup 1..(MostHours + 1)
  PROVE  /\ WindowHours(hours) \in 1..MostHours
         /\ hours \in 1..MostHours => WindowHours(hours) = hours
<1>1. MostHours \in Nat \ {0} /\ UsualHours \in 1..MostHours /\ NoAge \notin Int
  BY ReportsAssumption, RulesAssumption
<1> QED
  BY <1>1 DEF WindowHours

\* How many of two deliveries there are of a kind.
LEMMA CountRule ==
  ASSUME NEW S \in SUBSET {1, 2}
  PROVE  /\ IsFiniteSet(S) /\ Cardinality(S) \in Nat
         /\ Cardinality(S) = 2 <=> S = {1, 2}
         /\ Cardinality(S) >= 1 <=> S # {}
         /\ Cardinality(S) = 1 <=> S = {1} \/ S = {2}
<1>1. S = {} \/ S = {1} \/ S = {2} \/ S = {1} \cup {2}
  OBVIOUS
<1>2. /\ Cardinality({}) = 0 /\ IsFiniteSet({})
      /\ Cardinality({1}) = 1 /\ IsFiniteSet({1})
      /\ Cardinality({2}) = 1 /\ IsFiniteSet({2})
  BY FS_EmptySet, FS_Singleton
<1>3. IsFiniteSet({1} \cup {2}) /\ Cardinality({1} \cup {2}) = 2
  <2>1. 2 \notin {1}
    OBVIOUS
  <2>2. /\ IsFiniteSet({1} \cup {2})
        /\ Cardinality({1} \cup {2}) = Cardinality({1}) + 1
    BY <1>2, <2>1, FS_AddElement, Zenon
  <2> QED
    BY <1>2, <2>2
<1>4. CASE S = {}
  BY <1>2, <1>4
<1>5. CASE S = {1}
  BY <1>2, <1>5
<1>6. CASE S = {2}
  BY <1>2, <1>6
<1>7. CASE S = {1} \cup {2}
  <2>1. S # {} /\ S # {1} /\ S # {2} /\ S = {1, 2}
    BY <1>7
  <2>2. IsFiniteSet(S) /\ Cardinality(S) = 2
    BY <1>3, <1>7
  <2> QED
    BY <2>1, <2>2
<1> QED
  BY <1>1, <1>4, <1>5, <1>6, <1>7

\* What the metrics show of a delivery and of another at the time of asking.
HoursCovered(metrics, first, second, at, now, hours) ==
  LET age   == now - at
      twice == IF first = second THEN 1 ELSE 0
      shown == metrics.totals[first] = 1 + twice
      full  == IF now % HourLength = 0 THEN 0 ELSE 1
  IN /\ metrics.totals[second] >= 1
     /\ hours \in 1..MostHours =>
          /\ age <= (hours - full) * HourLength => shown
          /\ shown => age <= hours * HourLength

LEMMA MetricsRule ==
  ASSUME NEW first \in Outcome, NEW second \in Outcome, NEW at \in Nat, NEW now \in Nat,
         at <= now, NEW hours \in {NoAge, -1, 0} \cup 1..(MostHours + 1)
  PROVE  HoursCovered(WebhookMetrics(<<[outcome |-> first, at |-> at],
                                       [outcome |-> second, at |-> now]>>, now, hours),
                      first, second, at, now, hours)
<1> DEFINE ds == <<[outcome |-> first, at |-> at], [outcome |-> second, at |-> now]>>
           w == WindowHours(hours)
           recent == {n \in DOMAIN ds : WindowStart(ds[n].at) >= now - w * HourLength}
           metrics == WebhookMetrics(ds, now, hours)
           Of(o) == {n \in recent : ds[n].outcome = o}
           twice == IF first = second THEN 1 ELSE 0
           shown == metrics.totals[first] = 1 + twice
           full == IF now % HourLength = 0 THEN 0 ELSE 1
<1>1. /\ DOMAIN ds = {1, 2} /\ ds[1].at = at /\ ds[2].at = now
      /\ ds[1].outcome = first /\ ds[2].outcome = second
  OBVIOUS
<1>2. \A o \in Outcome : metrics.totals[o] = Cardinality(Of(o))
  BY DEF WebhookMetrics
<1>3. HourLength \in Nat \ {0} /\ w \in Nat \ {0} /\ (hours \in 1..MostHours => w = hours)
  BY HoursRule, ReportsAssumption
<1>4. w * HourLength \in Nat /\ w * HourLength >= HourLength
  BY <1>3
<1> HIDE DEF ds, w, metrics
<1>5. 2 \in recent
  <2>1. WindowStart(now) \in Nat /\ now < WindowStart(now) + HourLength
    BY WindowStartRule
  <2>2. WindowStart(now) >= now - w * HourLength
    BY <1>3, <1>4, <2>1
  <2> QED
    BY <1>1, <2>2
<1>6. 1 \in recent <=> WindowStart(at) >= now - w * HourLength
  BY <1>1
<1>7. recent \in SUBSET {1, 2}
  BY <1>1
<1> HIDE DEF recent
<1>8. metrics.totals[second] >= 1
  <2>1. 2 \in Of(second) /\ Of(second) \in SUBSET {1, 2}
    BY <1>1, <1>5, <1>7
  <2> DEFINE those == Of(second)
  <2>2. metrics.totals[second] = Cardinality(those)
    BY <1>2
  <2> HIDE DEF those
  <2>3. those # {} /\ those \in SUBSET {1, 2}
    BY <2>1 DEF those
  <2>4. Cardinality(those) >= 1
    BY <2>3, CountRule
  <2> QED
    BY <2>2, <2>4
<1>9. shown <=> 1 \in recent
  <2> DEFINE those == Of(first)
  <2>0. those \in SUBSET {1, 2} /\ metrics.totals[first] = Cardinality(those)
    BY <1>2, <1>7
  <2>1. CASE first = second
    <3>1. those = {1, 2} <=> 1 \in recent
      BY <1>1, <1>5, <1>7, <2>1
    <3>2. 1 + twice = 2
      BY <2>1
    <3> HIDE DEF those
    <3>3. Cardinality(those) = 2 <=> those = {1, 2}
      BY <2>0, CountRule
    <3> QED
      BY <2>0, <3>1, <3>2, <3>3
  <2>2. CASE first # second
    <3>1. (those = {1} <=> 1 \in recent) /\ those # {2}
      BY <1>1, <1>5, <1>7, <2>2
    <3>2. 1 + twice = 1
      BY <2>2
    <3> HIDE DEF those
    <3>3. Cardinality(those) = 1 <=> those = {1} \/ those = {2}
      BY <2>0, CountRule
    <3> QED
      BY <2>0, <3>1, <3>2, <3>3
  <2> QED
    BY <2>1, <2>2
<1> HIDE DEF shown
<1>10. ASSUME hours \in 1..MostHours
       PROVE  /\ now - at <= (hours - full) * HourLength => shown
              /\ shown => now - at <= hours * HourLength
  <2>1. /\ w = hours /\ hours \in Nat /\ hours * HourLength \in Nat
        /\ WindowStart(at) \in Nat /\ WindowStart(at) <= at
        /\ at < WindowStart(at) + HourLength
    BY <1>3, <1>4, <1>10, WindowStartRule
  <2>2. shown => now - at <= hours * HourLength
    BY <1>6, <1>9, <2>1
  <2>3. CASE now % HourLength # 0
    <3>1. (hours - full) * HourLength = hours * HourLength - HourLength
      BY <1>3, <2>1, <2>3
    <3> QED
      BY <1>3, <1>6, <1>9, <2>1, <2>2, <3>1
  <2>4. CASE now % HourLength = 0 /\ now - at <= hours * HourLength
    <3> DEFINE k == now \div HourLength
    <3>1. k \in Nat /\ now = k * HourLength
      BY <1>3, <2>4 DEF WindowStart
    <3> HIDE DEF k
    <3>2. (k - hours) * HourLength = now - hours * HourLength /\ k - hours \in Int
      BY <1>3, <2>1, <3>1
    <3>3. (k - hours) * HourLength <= at
      BY <2>1, <2>4, <3>2
    <3>4. (k - hours) * HourLength <= WindowStart(at)
      BY <3>2, <3>3, WindowStartRule
    <3> QED
      BY <1>6, <1>9, <2>1, <2>2, <3>2, <3>4
  <2>5. CASE now % HourLength = 0 /\ ~(now - at <= hours * HourLength)
    <3>1. (hours - full) * HourLength = hours * HourLength
      BY <2>1, <2>5
    <3> QED
      BY <2>2, <2>5, <3>1
  <2> QED
    BY <2>3, <2>4, <2>5
<1> QED
  BY <1>8, <1>10 DEF metrics, ds, shown, HoursCovered

-----------------------------------------------------------------------------
(* The questions and their answers.                                        *)

\* What is known of a question by its rule.
LEMMA Questions ==
  ASSUME ask \in Question
  PROVE  /\ ask.rule = "retry" => ask.failures \in Nat /\ ask.age \in Nat
         /\ ask.rule = "horizon" => ask.until \in Nat /\ ask.then \in {"ok", "unavailable"}
         /\ ask.rule = "price" => ask.asked \in Price /\ ask.bps \in Rate
         /\ ask.rule = "start" => ask.env \in Environment /\ ask.header \in Header
         /\ ask.rule = "error" => ask.error \in AppErrors
         /\ ask.rule = "log" => ask.dsn \in ConnectionString
         /\ ask.rule = "headers" => ask.cookies \in CookieHeader /\ ask.auth \in Header
         /\ ask.rule = "watch" => /\ ask.payouts \in PayoutTable
                                  /\ ask.queuedAge \in AlertAge
         /\ ask.rule = "metrics" =>
              /\ ask.outcomes \in Outcome \X Outcome /\ ask.at \in Nat /\ ask.now \in Nat
              /\ ask.hours \in {NoAge, -1, 0} \cup 1..(MostHours + 1)
<1>1. MostFailures \in Nat /\ LongestThrottle \in Nat /\ LastMoment \in Nat
  BY RulesAssumption
<1>2. CASE ask \in [rule : {"retry"}, failures : 0..MostFailures, age : 0..240]
  BY <1>1, <1>2
<1>3. CASE ask \in [rule : {"horizon"}, until : 0..LongestThrottle,
                    then : {"ok", "unavailable"}]
  BY <1>1, <1>3
<1>4. CASE ask \in [rule : {"price"}, service : {"rust", "next"}, asked : Price,
                    bps : Rate]
  BY <1>4
<1>5. CASE ask \in [rule : {"start"}, env : Environment, header : Header]
  BY <1>5
<1>6. CASE ask \in [rule : {"error"}, error : AppErrors]
  BY <1>6
<1>7. CASE ask \in [rule : {"log"}, dsn : ConnectionString]
  BY <1>7
<1>8. CASE ask \in [rule : {"headers"}, cookies : CookieHeader, auth : Header]
  BY <1>8
<1>9. CASE ask \in [rule : {"watch"}, invoices : InvoiceTable, payouts : PayoutTable,
                    pendingAge : AlertAge, queuedAge : AlertAge]
  BY <1>9
<1>10. CASE ask \in [rule : {"metrics"}, outcomes : Outcome \X Outcome,
                     at : 0..LastMoment, now : 0..LastMoment,
                     hours : {NoAge, -1, 0} \cup 1..(MostHours + 1)]
  BY <1>1, <1>10
<1> QED
  BY <1>2, <1>3, <1>4, <1>5, <1>6, <1>7, <1>8, <1>9, <1>10, Zenon DEF Question

\* A step answers the question by its rule, or changes nothing.
LEMMA RulesSteps ==
  ASSUME [RulesNext]_rulesVars
  PROVE  /\ ask' = ask
         /\ reply' # reply =>
              /\ ask.rule = "retry" => AnswerRetry
              /\ ask.rule = "horizon" => AnswerHorizon
              /\ ask.rule = "price" => AnswerPrice
              /\ ask.rule = "start" => AnswerStart
              /\ ask.rule = "error" => AnswerError
              /\ ask.rule = "log" => AnswerLog
              /\ ask.rule = "headers" => AnswerHeaders
              /\ ask.rule = "watch" => AnswerWatch
              /\ ask.rule = "metrics" => AnswerMetrics
<1>1. CASE UNCHANGED rulesVars
  BY <1>1 DEF rulesVars
<1>2. AnswerRetry => ask' = ask /\ ask.rule = "retry"
  BY DEF AnswerRetry, Asked
<1>3. AnswerHorizon => ask' = ask /\ ask.rule = "horizon"
  BY DEF AnswerHorizon, Asked
<1>4. AnswerPrice => ask' = ask /\ ask.rule = "price"
  BY DEF AnswerPrice, Asked
<1>5. AnswerStart => ask' = ask /\ ask.rule = "start"
  BY DEF AnswerStart, Asked
<1>6. AnswerError => ask' = ask /\ ask.rule = "error"
  BY DEF AnswerError, Asked
<1>7. AnswerLog => ask' = ask /\ ask.rule = "log"
  BY DEF AnswerLog, Asked
<1>8. AnswerHeaders => ask' = ask /\ ask.rule = "headers"
  BY DEF AnswerHeaders, Asked
<1>9. AnswerWatch => ask' = ask /\ ask.rule = "watch"
  BY DEF AnswerWatch, Asked
<1>10. AnswerMetrics => ask' = ask /\ ask.rule = "metrics"
  BY DEF AnswerMetrics, Asked
<1> QED
  BY <1>1, <1>2, <1>3, <1>4, <1>5, <1>6, <1>7, <1>8, <1>9, <1>10 DEF RulesNext

LEMMA WaitsStep ==
  ASSUME ask \in Question, WaitsAreRight, [RulesNext]_rulesVars
  PROVE  WaitsAreRight'
<1>1. ask' = ask
  BY RulesSteps
<1>2. CASE reply' = reply
  BY <1>1, <1>2 DEF WaitsAreRight, NoCountIsStuck, ThrottlingIsSatOut, Answered
<1>3. CASE reply' # reply
  <2>1. ASSUME ask.rule = "retry"
        PROVE  NoCountIsStuck'
    <3>1. reply' = RetryDecision(ask.failures, 0, ask.age)
      BY <1>3, <2>1, RulesSteps DEF AnswerRetry
    <3> QED
      BY <1>1, <2>1, <3>1, Questions, RetryRule DEF NoCountIsStuck
  <2>2. ASSUME ask.rule = "horizon"
        PROVE  ThrottlingIsSatOut'
    <3> DEFINE answer == [k \in 0..MaxRetries |->
                            IF Instant[k] < ask.until THEN "throttled" ELSE ask.then]
    <3>1. reply' = HorizonGet(answer)
      BY <1>3, <2>2, RulesSteps DEF AnswerHorizon
    <3>2. HorizonGet(answer) = "unavailable" <=>
            ask.until > 15 \/ ask.then = "unavailable"
      BY <2>2, Questions, HorizonRule
    <3> HIDE DEF answer
    <3> QED
      BY <1>1, <3>1, <3>2 DEF ThrottlingIsSatOut
  <2> QED
    BY <1>1, <2>1, <2>2 DEF WaitsAreRight, NoCountIsStuck, ThrottlingIsSatOut, Answered
<1> QED
  BY <1>2, <1>3

LEMMA NetStep ==
  ASSUME ask \in Question, NetIsNeverNegative, [RulesNext]_rulesVars
  PROVE  NetIsNeverNegative'
<1>1. ask' = ask
  BY RulesSteps
<1>2. CASE reply' = reply
  BY <1>1, <1>2 DEF NetIsNeverNegative, Answered
<1>3. CASE reply' # reply /\ ask.rule = "price" /\ reply' # Refused
  <2>1. ask.asked \in Int /\ ask.bps \in 0..FullRate
    BY <1>3, Questions, RulesAssumption
  <2>2. reply' \in RustSplits(ask.asked, ask.bps) \cup NextSplits(ask.asked, ask.bps)
    BY <1>3, RulesSteps DEF AnswerPrice
  <2>3. /\ reply'.fee >= 1 /\ reply'.net >= 0
        /\ reply'.gross = reply'.fee + reply'.net
    BY <1>3, <2>1, <2>2, PriceRule
  <2> QED
    BY <2>3 DEF NetIsNeverNegative
<1> QED
  BY <1>1, <1>2, <1>3 DEF NetIsNeverNegative, Answered

LEMMA SettingsStep ==
  ASSUME ask \in Question, LimitsAndCronStayShut, [RulesNext]_rulesVars
  PROVE  LimitsAndCronStayShut'
<1>1. ask' = ask
  BY RulesSteps
<1>2. CASE reply' = reply
  BY <1>1, <1>2 DEF LimitsAndCronStayShut, Answered
<1>3. CASE reply' # reply /\ ask.rule = "start"
  <2> DEFINE env == ask.env
             secret == SecretSetting(env.cronSecret)
  <2>1. env \in Environment /\ env.cronSecret \in {Unset, ""} \cup Secret
    BY <1>3, Questions, RulesAssumption
  <2>2. CASE ~Starts(env)
    <3>1. reply' = [runs |-> FALSE]
      BY <1>3, <2>2, RulesSteps DEF AnswerStart
    <3> QED
      BY <3>1 DEF LimitsAndCronStayShut
  <2>3. CASE Starts(env)
    <3>1. /\ reply'.limiter = LimiterSettings(FromEnv(env))
          /\ reply'.admits = AuthorizeCron(secret, ask.header)
          /\ reply'.nextAdmits = NextAuthorized(secret, ask.header)
      <4>1. reply' = [runs |-> TRUE, limiter |-> LimiterSettings(FromEnv(env)),
                      printed |-> DebugText(FromEnv(env).text),
                      admits |-> AuthorizeCron(FromEnv(env).text.cron_secret, ask.header),
                      nextAdmits |-> NextAuthorized(FromEnv(env).text.cron_secret,
                                                    ask.header)]
        BY <1>3, <2>3, RulesSteps DEF AnswerStart
      <4>2. FromEnv(env).text.cron_secret = secret
        BY DEF FromEnv, TextSettings
      <4> QED
        BY <4>1, <4>2
    <3>2. /\ FromEnv(env).ipWindow \in Nat
          /\ FromEnv(env).ipMax = 0 <=> env.ipMax = 0
          /\ FromEnv(env).failMax = 0 <=> env.failMax = 0
      BY SettingRule DEF FromEnv
    <3>3. /\ reply'.limiter.window >= 1
          /\ reply'.limiter.ipMax = 0 <=> env.ipMax = 0
          /\ reply'.limiter.failMax = 0 <=> env.failMax = 0
      BY <3>1, <3>2, LargerOfTwo DEF LimiterSettings
    <3>4. reply'.admits \/ reply'.nextAdmits =>
            env.cronSecret \in Secret /\ ask.header.token = env.cronSecret
      BY <2>1, <3>1, AdmissionRule
    <3> QED
      BY <1>1, <3>3, <3>4 DEF LimitsAndCronStayShut
  <2> QED
    BY <2>2, <2>3
<1> QED
  BY <1>1, <1>2, <1>3 DEF LimitsAndCronStayShut, Answered

LEMMA CredentialsStep ==
  ASSUME ask \in Question, CredentialsStayOut, [RulesNext]_rulesVars
  PROVE  CredentialsStayOut'
<1>1. ask' = ask
  BY RulesSteps
<1>2. CASE reply' = reply
  BY <1>1, <1>2 DEF CredentialsStayOut, Answered
<1>3. CASE reply' # reply
  <2>1. ASSUME ask.rule = "start", reply'.runs
        PROVE  /\ reply'.printed \cap (Secret \cup {"credential"}) = {}
               /\ "issuer" \in reply'.printed
    <3>1. Starts(ask.env)
      <4>1. ~Starts(ask.env) => reply' = [runs |-> FALSE]
        BY <1>3, <2>1, RulesSteps DEF AnswerStart
      <4> QED
        BY <2>1, <4>1
    <3>2. reply'.printed = DebugText(TextSettings(ask.env))
      BY <1>3, <2>1, <3>1, RulesSteps DEF AnswerStart, FromEnv
    <3>3. reply'.printed = {"[REDACTED]", "issuer"}
      BY <3>2, DebugRule
    <3>4. Secret \cap {"", "issuer", "[REDACTED]"} = {}
      BY RulesAssumption
    <3> QED
      BY <3>3, <3>4
  <2>2. ASSUME ask.rule = "log"
        PROVE  /\ UserinfoOnly(ask.dsn.rest) => "credential" \notin Range(reply')
               /\ ask.dsn.scheme => "host" \in Range(reply')
    <3>1. reply' = RedactConnectionString(ask.dsn)
      BY <1>3, <2>2, RulesSteps DEF AnswerLog
    <3>2. ProperRest(ask.dsn.rest)
      BY <2>2, Questions, RulesAssumption
    <3> QED
      BY <3>1, <3>2, ConnectionRule
  <2>3. ASSUME ask.rule = "headers"
        PROVE  /\ ask.auth.token \notin Range(reply'.auth)
               /\ \A k \in DOMAIN ask.cookies :
                    /\ "credential" \notin Range(reply'.cookies[k])
                    /\ "name" \in Range(ask.cookies[k]) =>
                         "name" \in Range(reply'.cookies[k])
    <3>1. /\ reply'.cookies = RedactCookieHeader(ask.cookies)
          /\ reply'.auth = RedactAuthorizationHeader(ask.auth)
      BY <1>3, <2>3, RulesSteps DEF AnswerHeaders
    <3>2. ask.auth.token \notin {"Bearer ", "[REDACTED]"}
      BY <2>3, Questions, RulesAssumption
    <3>3. ASSUME NEW k \in DOMAIN ask.cookies
          PROVE  /\ ProperCookie(ask.cookies[k])
                 /\ reply'.cookies[k] = RedactCookie(ask.cookies[k])
      BY <2>3, <3>1, Questions, RulesAssumption DEF RedactCookieHeader
    <3> QED
      BY <3>1, <3>2, <3>3, AuthorizationRule, CookieRule
  <2> QED
    BY <1>1, <2>1, <2>2, <2>3 DEF CredentialsStayOut, Answered
<1> QED
  BY <1>2, <1>3

LEMMA WatchersStep ==
  ASSUME ask \in Question, WatchersAgree, [RulesNext]_rulesVars
  PROVE  WatchersAgree'
<1>1. ask' = ask
  BY RulesSteps
<1>2. CASE reply' = reply
  BY <1>1, <1>2 DEF WatchersAgree, Answered
<1>3. CASE reply' # reply /\ ask.rule = "watch"
  <2>1. ProperTable(ask.payouts) /\ ask.queuedAge \in Int
    BY <1>3, Questions, RulesAssumption
  <2>2. /\ reply'.health = PayoutQueueStats(ask.payouts, 0)
        /\ reply'.alerts = AlertCheck(ask.invoices, ask.payouts, ask.pendingAge,
                                      ask.queuedAge)
    BY <1>3, RulesSteps DEF AnswerWatch
  <2> QED
    BY <1>1, <2>1, <2>2, WatchRule DEF WatchersAgree
<1> QED
  BY <1>1, <1>2, <1>3 DEF WatchersAgree, Answered

LEMMA MetricsStep ==
  ASSUME ask \in Question, MetricsCoverTheHours, [RulesNext]_rulesVars
  PROVE  MetricsCoverTheHours'
<1>1. ask' = ask
  BY RulesSteps
<1>2. CASE reply' = reply
  BY <1>1, <1>2 DEF MetricsCoverTheHours, Answered
<1>3. CASE reply' # reply /\ ask.rule = "metrics"
  <2>1. /\ ask.outcomes[1] \in Outcome /\ ask.outcomes[2] \in Outcome
        /\ ask.at \in Nat /\ ask.now \in Nat
        /\ ask.hours \in {NoAge, -1, 0} \cup 1..(MostHours + 1)
    BY <1>3, Questions
  <2>2. /\ ask.at <= ask.now
        /\ reply' = WebhookMetrics(<<[outcome |-> ask.outcomes[1], at |-> ask.at],
                                     [outcome |-> ask.outcomes[2], at |-> ask.now]>>,
                                   ask.now, ask.hours)
    BY <1>3, RulesSteps DEF AnswerMetrics
  <2>3. HoursCovered(reply', ask.outcomes[1], ask.outcomes[2], ask.at, ask.now, ask.hours)
    BY <2>1, <2>2, MetricsRule
  <2> QED
    BY <1>1, <2>3 DEF MetricsCoverTheHours, HoursCovered
<1> QED
  BY <1>1, <1>2, <1>3 DEF MetricsCoverTheHours, Answered

LEMMA OperatorsStep ==
  ASSUME ask \in Question, OperatorsAreTold, [RulesNext]_rulesVars
  PROVE  OperatorsAreTold'
<1>1. ServerFaultsAreReported'
  <2>1. ask' = ask
    BY RulesSteps
  <2>2. CASE reply' = reply
    BY <2>1, <2>2 DEF OperatorsAreTold, ServerFaultsAreReported, Answered
  <2>3. CASE reply' # reply /\ ask.rule = "error"
    <3>1. ask.error \in AppErrors /\ reply' = IntoResponse(ask.error)
      BY <2>3, Questions, RulesSteps DEF AnswerError
    <3> QED
      BY <3>1, ErrorRule DEF ServerFaultsAreReported
  <2> QED
    BY <2>1, <2>2, <2>3 DEF ServerFaultsAreReported, Answered
<1> QED
  BY <1>1, WatchersStep, MetricsStep DEF OperatorsAreTold

\* Only questions are asked.
Asking == ask \in Question

LEMMA QuestionStands ==
  ASSUME Asking, [RulesNext]_rulesVars
  PROVE  Asking'
BY RulesSteps DEF Asking

LEMMA NothingAnswered ==
  ASSUME RulesInit
  PROVE  WaitsAreRight /\ NetIsNeverNegative /\ SecretsProtect /\ OperatorsAreTold
BY DEF RulesInit, WaitsAreRight, NoCountIsStuck, ThrottlingIsSatOut, NetIsNeverNegative,
   SecretsProtect, LimitsAndCronStayShut, CredentialsStayOut, OperatorsAreTold,
   ServerFaultsAreReported, WatchersAgree, MetricsCoverTheHours, Answered

-----------------------------------------------------------------------------
\* Whatever its count, a failed payout is dead-lettered at once if its next count has no
\* window, and is requeued after five minutes or more otherwise and not skipped once
\* 240 have passed; a request to Horizon survives exactly the throttling that four
\* doubling delays cover.
THEOREM WaitsEnd == RulesSpec => []WaitsAreRight
<1>1. RulesInit => Asking /\ WaitsAreRight
  BY NothingAnswered DEF RulesInit, Asking
<1>2. Asking /\ WaitsAreRight /\ [RulesNext]_rulesVars =>
        Asking' /\ WaitsAreRight'
  BY QuestionStands, WaitsStep DEF Asking
<1> QED
  BY <1>1, <1>2, PTL DEF RulesSpec

\* No merchant owes money for being paid: every price, every rate up to 100 %, any
\* width of the integers, also where the multiplication overflows.
THEOREM MerchantsAreNotCharged == RulesSpec => []NetIsNeverNegative
<1>1. RulesInit => Asking /\ NetIsNeverNegative
  BY NothingAnswered DEF RulesInit, Asking
<1>2. Asking /\ NetIsNeverNegative /\ [RulesNext]_rulesVars =>
        Asking' /\ NetIsNeverNegative'
  BY QuestionStands, NetStep DEF Asking
<1> QED
  BY <1>1, <1>2, PTL DEF RulesSpec

\* A missing or malformed login limit or cron secret opens nothing; the credentials of
\* a connection string that stand before its host and hold no "/", and all of a
\* cookie's value, of a token and of the secret settings, stay out of the log.
THEOREM SecretsAreKept == RulesSpec => []SecretsProtect
<1>1. RulesInit => Asking /\ SecretsProtect
  BY NothingAnswered DEF RulesInit, Asking
<1>2. Asking /\ SecretsProtect /\ [RulesNext]_rulesVars =>
        Asking' /\ SecretsProtect'
  BY QuestionStands, SettingsStep, CredentialsStep DEF SecretsProtect, Asking
<1> QED
  BY <1>1, <1>2, PTL DEF RulesSpec

\* Sentry hears of the server's faults and of no other, the two watching routes agree
\* on any table, and the metrics cover the hours they are asked for.
THEOREM OperatorsHear == RulesSpec => []OperatorsAreTold
<1>1. RulesInit => Asking /\ OperatorsAreTold
  BY NothingAnswered DEF RulesInit, Asking
<1>2. Asking /\ OperatorsAreTold /\ [RulesNext]_rulesVars =>
        Asking' /\ OperatorsAreTold'
  BY QuestionStands, OperatorsStep DEF Asking
<1> QED
  BY <1>1, <1>2, PTL DEF RulesSpec
=============================================================================
