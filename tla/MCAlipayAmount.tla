--------------------------- MODULE MCAlipayAmount ---------------------------
(***************************************************************************)
(* Checks AlipayAmount over the amounts 1 .. MaxCents, one state for each. *)
(***************************************************************************)
EXTENDS AlipayAmount

CONSTANTS MaxCents,        \* largest amount tried
          ToyPrecisions    \* significand widths small enough to compute with

ASSUME MaxCentsAssumption == MaxCents \in Nat \ {0}

VARIABLE cents

Init == cents = 1

Next == cents < MaxCents /\ cents' = cents + 1

Spec == Init /\ [][Next]_cents

Toy(p) == INSTANCE AlipayAmount WITH P <- p

-----------------------------------------------------------------------------
(* Binary floating point by its definition, for a width p whose products   *)
(* fit the integers of the checker.                                        *)

\* n / 2^t rounded to the nearest integer, ties to the even one.
RoundHalfEven(n, d) ==
  LET q == n \div d
      r == n % d
  IN  IF 2 * r > d \/ (2 * r = d /\ q % 2 = 1) THEN q + 1 ELSE q

\* The shift that brings a positive n to exactly p bits.
ShiftTo(p, n) ==
  CHOOSE t \in 0 .. 30 : n \div Pow2[t] >= Pow2[p - 1] /\ n \div Pow2[t] < Pow2[p]

DirectCents(p, c) ==
  LET e       == p - 1 - YuanLog2(c)
      yuan    == RoundHalfEven(c * Pow2[e], 100)     \* times 2^-e
      t       == ShiftTo(p, 100 * yuan)
      product == RoundHalfEven(100 * yuan, Pow2[t])  \* times 2^(t-e)
  IN  (product * Pow2[t]) \div Pow2[e]

-----------------------------------------------------------------------------
\* The closed form of AlipayAmount computes what scanning, multiplying and
\* truncating in floating point compute, at every width small enough to do
\* that arithmetic literally (pay_app.go:398-400).
ClosedFormIsFloatArithmetic ==
  \A p \in ToyPrecisions : Toy(p)!AlipayCents(cents) = DirectCents(p, cents)

\* At the width of float64 an amount that is a whole number of quarter yuan
\* survives the conversion, so the callback of such an order is accepted.
QuarterYuanExact == cents % 25 = 0 => AlipayCents(cents) = cents

\* The conversion of the channel's amount gives back the cents that the
\* merchant ordered (the comment at pay_app.go:395 says that yuan are
\* converted into cents, and the design forbids floats for amounts).
CentsExact == AlipayCents(cents) = cents
=============================================================================
