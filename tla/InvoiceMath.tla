---------------------------- MODULE InvoiceMath -----------------------------
(***************************************************************************)
(* What an invoice of a given price costs whom: the arithmetic of          *)
(* create_invoice (Rust, i32) and createInvoice (Next.js, doubles), and    *)
(* what Postgres accepts.  Prices are asked for in tenths of a cent.       *)
(***************************************************************************)
EXTENDS Integers

CONSTANTS
  Half,                 \* 2^31 in the code: an i32 goes from -Half to Half - 1
  FullRate,             \* 10_000 basis points
  MostAsked             \* invoiceSchema: at most 1,000,000 USD, in cents

ASSUME InvoiceMathAssumption ==
  Half \in Nat \ {0} /\ FullRate \in Nat \ {0} /\ MostAsked \in 1..(Half - 1)

Larger(a, b) == IF a >= b THEN a ELSE b

\* i32 arithmetic of a release build, and its division, which truncates.
Wrap(n) == ((n + Half) % (2 * Half)) - Half
Quotient(n, d) == IF n >= 0 THEN n \div d ELSE -((-n) \div d)

\* (amount_usd * 100.0).round() as i32: the cast of a float saturates.
RustCents(asked) ==
  LET cents == (asked + 5) \div 10 IN IF cents < Half THEN cents ELSE Half - 1

\* A bug this could have: the cent that is charged at least added to every fee.
RustFee_OneMore(cents, bps) == Quotient(Wrap(cents * bps), FullRate) + 1

RustFee(cents, bps) == Larger(1, Quotient(Wrap(cents * bps), FullRate))

NextCents(asked) == (asked + 5) \div 10

\* Math.round of a non-negative quotient
NextFee(cents, bps) ==
  Larger(1, (2 * cents * bps + FullRate) \div (2 * FullRate))

Refused == [gross |-> 0, fee |-> 0, net |-> 0]
Split(cents, fee) == [gross |-> cents, fee |-> fee, net |-> cents - fee]

\* A debug build of the Rust service panics where a release build wraps.
Overflows(cents, bps) == cents * bps >= Half

\* What the two services store for a price; amount_cents must be positive, and a
\* price that is not, or is above the limit of the Next.js schema, is refused.
RustSplits(asked, bps) ==
  LET cents == RustCents(asked)
  IN IF asked <= 0 \/ cents = 0 THEN {Refused}
     ELSE {Split(cents, RustFee(cents, bps))} \cup
          (IF Overflows(cents, bps) THEN {Refused} ELSE {})

NextSplits(asked, bps) ==
  LET cents == NextCents(asked)
  IN IF asked <= 0 \/ asked > 10 * MostAsked \/ cents = 0 THEN {Refused}
     ELSE {Split(cents, NextFee(cents, bps))}
=============================================================================
