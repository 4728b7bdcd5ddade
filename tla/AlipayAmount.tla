---------------------------- MODULE AlipayAmount ----------------------------
(***************************************************************************)
(* How ProcessAlipayCallback turns the channel's amount into cents         *)
(* (pay_app.go, "amountCent"): the text of c cents, that is c/100 yuan     *)
(* with two decimals, is scanned into a binary float, multiplied by 100    *)
(* and truncated to an integer.                                            *)
(*                                                                         *)
(* Both the scan and the product round to the nearest float of P           *)
(* significant bits.  Write c/100 in the binade 2^j <= c/100 < 2^(j+1):    *)
(* the nearest float is m / 2^e with e = P-1-j and m the integer nearest   *)
(* to c * 2^e / 100, so 100 times that float misses c by r / 2^e, where    *)
(* r = 100*m - c * 2^e is known from c * 2^e modulo 100 alone.  The product*)
(* is an exact c unless r is negative and reaches past the middle of the   *)
(* gap below c, and then the truncation yields c - 1.  P = 53 is Go's      *)
(* float64.  The amounts c are those below 2^(P-1), where c is a float with *)
(* an even significand; the numbers computed stay below 100 * 2^7 and c.   *)
(***************************************************************************)
EXTENDS Integers

CONSTANT P   \* bits of the significand

\* The scan keeps at least the bits that 100 needs.
ASSUME PAssumption == P \in Nat /\ P >= 8

Pow2[n \in Nat] == IF n = 0 THEN 1 ELSE 2 * Pow2[n - 1]

\* 2^n modulo 100, without ever computing 2^n.
Pow2Mod100[n \in Nat] == IF n = 0 THEN 1 ELSE (2 * Pow2Mod100[n - 1]) % 100

\* floor(log2(c)) for 1 <= c.
Log2(c) == CHOOSE k \in 0 .. 30 : Pow2[k] <= c /\ c \div 2 < Pow2[k]

\* floor(log2(c / 100)), negative below one yuan.
YuanLog2(c) ==
  IF c >= 100
  THEN Log2(c \div 100)
  ELSE CHOOSE j \in -7 .. -1 : /\ 100 <= c * Pow2[-j]
                               /\ 100 > c * Pow2[-j - 1]

\* 100*m - c*2^e for the nearest m (a tie cannot arise: it would need
\* c * 2^e = 50 modulo 100 with e >= 2, when c * 2^e is a multiple of 4).
ScanResidue(c) ==
  LET s == ((c % 100) * Pow2Mod100[P - 1 - YuanLog2(c)]) % 100
  IN  IF s < 50 THEN -s ELSE 100 - s

\* Twice the distance from c, in units of 1 / 2^e, at which a product just
\* below c no longer rounds to c: half the gap below c, and the gap below a
\* power of two is half the gap above it.  A tie rounds to the even c.
HalfGapBelow(c) ==
  LET k == Log2(c)
      g == Pow2[k - YuanLog2(c)]
  IN  IF c = Pow2[k] THEN g \div 2 ELSE g

\* Variant of AlipayCents: a product that rounding has not pushed above c is
\* taken to be below it.
FlooredCents(c) == IF c > 0 /\ ScanResidue(c) <= 0 THEN c - 1 ELSE c

\* amountCent for the text of c cents; the empty text gives 0.
AlipayCents(c) ==
  IF c = 0 THEN 0
  ELSE IF ScanResidue(c) < 0 /\ -2 * ScanResidue(c) > HalfGapBelow(c)
       THEN c - 1
       ELSE c
=============================================================================
