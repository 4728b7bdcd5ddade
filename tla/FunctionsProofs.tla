-------------------------- MODULE FunctionsProofs --------------------------
(***************************************************************************)
(* Theorems about the functions that MCFunctions checks.  Where they       *)
(* recurse, over the lines of .env and over the powers of two, induction   *)
(* is done on sets of naturals and a recursion is shown to have a solution *)
(* first: TLA+ defines a recursive function as one that satisfies its      *)
(* equation, if there is one.                                              *)
(***************************************************************************)
EXTENDS MCFunctions, FiniteSetTheorems, SequenceTheorems, TLAPS

-----------------------------------------------------------------------------
(* Induction and recursion.                                                *)

\* A set of naturals has a least element: of the intervals 0 .. n that end
\* in the set one contains no other.
LEMMA LeastNatural ==
  ASSUME NEW set \in SUBSET Nat, set # {}
  PROVE  \E n \in set : \A m \in set : n <= m
<1> DEFINE intervals == {0 .. n : n \in set}
<1>1. intervals \subseteq FiniteSubsetsOf(Nat) /\ intervals # {}
  <2>1. ASSUME NEW n \in set
        PROVE  0 .. n \in FiniteSubsetsOf(Nat)
    <3>1. IsFiniteSet(0 .. n)
      BY FS_Interval
    <3>2. QED
      BY <3>1 DEF FiniteSubsetsOf
  <2>2. QED
    BY <2>1
<1>2. \E X \in intervals : \A Y \in intervals :
        ~ (<<Y, X>> \in StrictSubsetOrdering(Nat))
  <2> HIDE DEF intervals
  <2>1. IsWellFoundedOn(StrictSubsetOrdering(Nat), FiniteSubsetsOf(Nat))
    BY FS_StrictSubsetOrderingWellFounded
  <2>2. QED
    BY <1>1, <2>1, WFMin
<1>3. PICK n \in set : \A m \in set :
        ~ (<<0 .. m, 0 .. n>> \in StrictSubsetOrdering(Nat))
  BY <1>2
<1>4. ASSUME NEW m \in set, m < n
      PROVE  FALSE
  <2>1. 0 .. m \subseteq 0 .. n /\ n \in 0 .. n /\ n \notin 0 .. m
    BY <1>4
  <2>2. 0 .. m \in SUBSET Nat /\ 0 .. n \in SUBSET Nat
    OBVIOUS
  <2>3. <<0 .. m, 0 .. n>> \in StrictSubsetOrdering(Nat)
    BY <2>1, <2>2 DEF StrictSubsetOrdering
  <2>4. QED
    BY <1>3, <2>3
<1>5. QED
  BY <1>4

\* Induction: a set that holds 0 and the successor of each of its numbers
\* holds them all.
LEMMA InductiveSet ==
  ASSUME NEW set, 0 \in set, \A n \in Nat : n \in set => n + 1 \in set
  PROVE  \A n \in Nat : n \in set
<1> SUFFICES ASSUME Nat \ set # {}
             PROVE  FALSE
  OBVIOUS
<1>1. PICK n \in Nat \ set : \A m \in Nat \ set : n <= m
  BY LeastNatural
<1>2. n # 0 /\ n - 1 \in Nat /\ (n - 1) + 1 = n
  BY <1>1
<1>3. n - 1 \in set
  BY <1>1, <1>2
<1>4. QED
  BY <1>1, <1>2, <1>3

\* The first values of a sequence that starts at one value and goes from
\* each to the next.
Values(start, step, V, n) ==
  {f \in [0 .. n -> V] :
     f[0] = start /\ \A i \in 1 .. n : f[i] = step[f[i - 1]]}

LEMMA ValuesExist ==
  ASSUME NEW V, NEW start \in V, NEW step \in [V -> V], NEW n \in Nat
  PROVE  Values(start, step, V, n) # {}
<1> DEFINE long == {k \in Nat : Values(start, step, V, k) # {}}
<1>1. 0 \in long
  <2>1. [i \in 0 .. 0 |-> start] \in Values(start, step, V, 0)
    BY DEF Values
  <2>2. QED
    BY <2>1
<1>2. ASSUME NEW k \in Nat, k \in long
      PROVE  k + 1 \in long
  <2>1. PICK f : f \in Values(start, step, V, k)
    BY <1>2
  <2>2. /\ f \in [0 .. k -> V] /\ f[0] = start
        /\ \A i \in 1 .. k : f[i] = step[f[i - 1]]
    BY <2>1 DEF Values
  <2> DEFINE g == [i \in 0 .. k + 1 |-> IF i <= k THEN f[i] ELSE step[f[k]]]
  <2>3. \A i \in 0 .. k + 1 : i \in 0 .. k \/ i = k + 1
    OBVIOUS
  <2>4. /\ \A i \in 0 .. k : i \in 0 .. k + 1 /\ g[i] = f[i]
        /\ g[k + 1] = step[f[k]] /\ k \in 0 .. k /\ 0 \in 0 .. k
    OBVIOUS
  <2>5. g \in [0 .. k + 1 -> V]
    <3>1. ASSUME NEW i \in 0 .. k + 1
          PROVE  (IF i <= k THEN f[i] ELSE step[f[k]]) \in V
      BY <2>2, <2>4
    <3>2. QED
      BY <3>1
  <2> HIDE DEF g
  <2>6. ASSUME NEW i \in 1 .. k + 1
        PROVE  g[i] = step[g[i - 1]]
    <3>1. CASE i = k + 1
      BY <2>4, <3>1
    <3>2. CASE i # k + 1
      <4>1. i \in 1 .. k /\ i \in 0 .. k /\ i - 1 \in 0 .. k
        BY <3>2
      <4>2. QED
        BY <2>2, <2>4, <4>1
    <3>3. QED
      BY <3>1, <3>2
  <2>7. g \in Values(start, step, V, k + 1)
    BY <2>2, <2>4, <2>5, <2>6 DEF Values
  <2>8. QED
    BY <2>7
<1> HIDE DEF long
<1>3. n \in long
  BY <1>1, <1>2, InductiveSet
<1>4. QED
  BY <1>3 DEF long

\* Any two agree as far as both go.
LEMMA ValuesAgree ==
  ASSUME NEW V, NEW start \in V, NEW step \in [V -> V],
         NEW m \in Nat, NEW n \in Nat,
         NEW f \in Values(start, step, V, m), NEW g \in Values(start, step, V, n)
  PROVE  \A i \in Nat : i <= m /\ i <= n => f[i] = g[i]
<1> DEFINE same == {i \in Nat : i <= m /\ i <= n => f[i] = g[i]}
<1>1. 0 \in same
  BY DEF Values
<1>2. ASSUME NEW i \in Nat, i \in same
      PROVE  i + 1 \in same
  <2> SUFFICES ASSUME i + 1 <= m, i + 1 <= n
               PROVE  f[i + 1] = g[i + 1]
    OBVIOUS
  <2>1. i + 1 \in 1 .. m /\ i + 1 \in 1 .. n /\ (i + 1) - 1 = i
    OBVIOUS
  <2>2. f[i + 1] = step[f[(i + 1) - 1]] /\ g[i + 1] = step[g[(i + 1) - 1]]
    BY <2>1 DEF Values
  <2>3. f[i] = g[i]
    BY <1>2
  <2>4. QED
    BY <2>1, <2>2, <2>3
<1> HIDE DEF same
<1>3. \A i \in Nat : i \in same
  BY <1>1, <1>2, InductiveSet
<1>4. QED
  BY <1>3 DEF same

\* The whole sequence.
Iterates(f, start, step, V) ==
  f \in [Nat -> V] /\ f[0] = start /\ \A n \in Nat : f[n + 1] = step[f[n]]

LEMMA Iteration ==
  ASSUME NEW V, NEW start \in V, NEW step \in [V -> V]
  PROVE  \E f : Iterates(f, start, step, V)
<1> DEFINE some(n) == CHOOSE g : g \in Values(start, step, V, n)
           f == [n \in Nat |-> some(n)[n]]
<1>1. \A n \in Nat : some(n) \in Values(start, step, V, n)
  BY ValuesExist
<1> HIDE DEF some
<1>2. \A n \in Nat : f[n] = some(n)[n]
  OBVIOUS
<1>3. f \in [Nat -> V]
  <2>1. ASSUME NEW n \in Nat
        PROVE  some(n)[n] \in V
    <3>1. some(n) \in [0 .. n -> V] /\ n \in 0 .. n
      BY <1>1 DEF Values
    <3>2. QED
      BY <3>1
  <2>2. QED
    BY <2>1
<1> HIDE DEF f
<1>4. f[0] = start
  BY <1>1, <1>2 DEF Values
<1>5. ASSUME NEW n \in Nat
      PROVE  f[n + 1] = step[f[n]]
  <2>1. n + 1 \in Nat /\ n + 1 \in 1 .. n + 1 /\ (n + 1) - 1 = n
    OBVIOUS
  <2>2. some(n + 1) \in Values(start, step, V, n + 1)
        /\ some(n) \in Values(start, step, V, n)
    BY <1>1, <2>1
  <2>3. some(n + 1)[n + 1] = step[some(n + 1)[(n + 1) - 1]]
    BY <2>1, <2>2 DEF Values
  <2>4. some(n + 1)[n] = some(n)[n]
    BY <2>1, <2>2, ValuesAgree
  <2>5. QED
    BY <1>2, <2>1, <2>3, <2>4
<1>6. QED
  BY <1>3, <1>4, <1>5 DEF Iterates

-----------------------------------------------------------------------------
(* Powers of two.                                                          *)

LEMMA Pow2Recursion ==
  /\ Pow2 \in [Nat -> Nat]
  /\ Pow2[0] = 1
  /\ \A n \in Nat : Pow2[n + 1] = 2 * Pow2[n]
<1> DEFINE Solves(f) == f = [n \in Nat |-> IF n = 0 THEN 1 ELSE 2 * f[n - 1]]
           double == [v \in Nat |-> 2 * v]
<1>1. PICK f \in [Nat -> Nat] :
        f[0] = 1 /\ \A n \in Nat : f[n + 1] = double[f[n]]
  <2>1. double \in [Nat -> Nat] /\ 1 \in Nat
    OBVIOUS
  <2> HIDE DEF double, Solves
  <2>2. \E f : Iterates(f, 1, double, Nat)
    BY <2>1, Iteration
  <2>3. QED
    BY <2>2 DEF Iterates
<1>2. Solves(f)
  <2>1. ASSUME NEW n \in Nat
        PROVE  f[n] = IF n = 0 THEN 1 ELSE 2 * f[n - 1]
    <3>1. CASE n = 0
      BY <1>1, <3>1
    <3>2. CASE n # 0
      <4>1. n - 1 \in Nat /\ (n - 1) + 1 = n
        BY <3>2
      <4>2. f[(n - 1) + 1] = double[f[n - 1]] /\ f[n - 1] \in Nat
        BY <1>1, <4>1
      <4>3. QED
        BY <3>2, <4>1, <4>2
    <3>3. QED
      BY <3>1, <3>2
  <2>2. QED
    BY <1>1, <2>1
<1>3. Pow2 = CHOOSE h : Solves(h)
  BY DEF Pow2
<1> HIDE DEF Solves
<1>4. Solves(Pow2)
  BY <1>2, <1>3
<1>5. /\ DOMAIN Pow2 = Nat
      /\ \A n \in Nat : Pow2[n] = IF n = 0 THEN 1 ELSE 2 * Pow2[n - 1]
      /\ Pow2 = [n \in Nat |-> Pow2[n]]
  BY <1>4 DEF Solves
<1>6. Pow2[0] = 1
  BY <1>5
<1>7. \A n \in Nat : Pow2[n + 1] = 2 * Pow2[n]
  <2>1. \A n \in Nat : n + 1 \in Nat /\ n + 1 # 0 /\ (n + 1) - 1 = n
    OBVIOUS
  <2>2. QED
    BY <1>5, <2>1
<1> DEFINE natural == {n \in Nat : Pow2[n] \in Nat}
<1>8. 0 \in natural /\ \A n \in Nat : n \in natural => n + 1 \in natural
  BY <1>6, <1>7
<1> HIDE DEF natural
<1>9. \A n \in Nat : n \in natural
  BY <1>8, InductiveSet
<1>10. \A n \in Nat : Pow2[n] \in Nat
  BY <1>9 DEF natural
<1>11. QED
  BY <1>5, <1>6, <1>7, <1>10

LEMMA Pow2Mod100Recursion ==
  /\ Pow2Mod100[0] = 1
  /\ \A n \in Nat : /\ Pow2Mod100[n] \in 0 .. 99
                    /\ Pow2Mod100[n + 1] = (2 * Pow2Mod100[n]) % 100
<1> DEFINE Solves(f) ==
             f = [n \in Nat |-> IF n = 0 THEN 1 ELSE (2 * f[n - 1]) % 100]
           double == [v \in 0 .. 99 |-> (2 * v) % 100]
<1>1. PICK f \in [Nat -> 0 .. 99] :
        f[0] = 1 /\ \A n \in Nat : f[n + 1] = double[f[n]]
  <2>1. double \in [0 .. 99 -> 0 .. 99] /\ 1 \in 0 .. 99
    OBVIOUS
  <2> HIDE DEF double, Solves
  <2>2. \E f : Iterates(f, 1, double, 0 .. 99)
    BY <2>1, Iteration
  <2>3. QED
    BY <2>2 DEF Iterates
<1>2. Solves(f)
  <2>1. ASSUME NEW n \in Nat
        PROVE  f[n] = IF n = 0 THEN 1 ELSE (2 * f[n - 1]) % 100
    <3>1. CASE n = 0
      BY <1>1, <3>1
    <3>2. CASE n # 0
      <4>1. n - 1 \in Nat /\ (n - 1) + 1 = n
        BY <3>2
      <4>2. f[(n - 1) + 1] = double[f[n - 1]] /\ f[n - 1] \in 0 .. 99
        BY <1>1, <4>1
      <4>3. QED
        BY <3>2, <4>1, <4>2
    <3>3. QED
      BY <3>1, <3>2
  <2>2. QED
    BY <1>1, <2>1
<1>3. Pow2Mod100 = CHOOSE h : Solves(h)
  BY DEF Pow2Mod100
<1> HIDE DEF Solves
<1>4. Solves(Pow2Mod100)
  BY <1>2, <1>3
<1>5. \A n \in Nat : Pow2Mod100[n] = IF n = 0 THEN 1 ELSE (2 * Pow2Mod100[n - 1]) % 100
  BY <1>4 DEF Solves
<1>6. Pow2Mod100[0] = 1
  BY <1>5
<1>7. \A n \in Nat : Pow2Mod100[n + 1] = (2 * Pow2Mod100[n]) % 100
  <2>1. \A n \in Nat : n + 1 \in Nat /\ n + 1 # 0 /\ (n + 1) - 1 = n
    OBVIOUS
  <2>2. QED
    BY <1>5, <2>1
<1> DEFINE small == {n \in Nat : Pow2Mod100[n] \in 0 .. 99}
<1>8. 0 \in small /\ \A n \in Nat : n \in small => n + 1 \in small
  BY <1>6, <1>7
<1> HIDE DEF small
<1>9. \A n \in Nat : n \in small
  BY <1>8, InductiveSet
<1>10. QED
  BY <1>6, <1>7, <1>9 DEF small

\* Pow2Mod100 is what its name says.
LEMMA Pow2Mod100IsRemainder == \A n \in Nat : Pow2Mod100[n] = Pow2[n] % 100
<1> DEFINE same == {n \in Nat : Pow2Mod100[n] = Pow2[n] % 100}
<1>1. 0 \in same
  <2>1. Pow2[0] = 1 /\ Pow2Mod100[0] = 1
    BY Pow2Recursion, Pow2Mod100Recursion
  <2>2. 1 % 100 = 1
    OBVIOUS
  <2>3. QED
    BY <2>1, <2>2
<1>2. ASSUME NEW n \in Nat, n \in same
      PROVE  n + 1 \in same
  <2>1. /\ Pow2[n] \in Nat /\ Pow2[n + 1] = 2 * Pow2[n]
        /\ Pow2Mod100[n + 1] = (2 * (Pow2[n] % 100)) % 100
    BY <1>2, Pow2Recursion, Pow2Mod100Recursion
  <2>2. \A v \in Nat : (2 * (v % 100)) % 100 = (2 * v) % 100
    OBVIOUS
  <2>3. QED
    BY <2>1, <2>2
<1> HIDE DEF same
<1>3. \A n \in Nat : n \in same
  BY <1>1, <1>2, InductiveSet
<1>4. QED
  BY <1>3 DEF same

LEMMA Pow2Positive == \A n \in Nat : Pow2[n] \in Nat \ {0}
<1> DEFINE positive == {n \in Nat : Pow2[n] \in Nat \ {0}}
<1>1. 0 \in positive /\ \A n \in Nat : n \in positive => n + 1 \in positive
  BY Pow2Recursion
<1> HIDE DEF positive
<1>2. \A n \in Nat : n \in positive
  BY <1>1, InductiveSet
<1>3. QED
  BY <1>2 DEF positive

LEMMA Pow2Sum ==
  ASSUME NEW m \in Nat, NEW n \in Nat, NEW sum, sum = m + n
  PROVE  Pow2[sum] = Pow2[m] * Pow2[n]
<1> DEFINE sums == {k \in Nat : Pow2[m + k] = Pow2[m] * Pow2[k]}
<1>1. 0 \in sums
  BY Pow2Recursion
<1>2. ASSUME NEW k \in Nat, k \in sums
      PROVE  k + 1 \in sums
  <2>1. Pow2[m + (k + 1)] = 2 * Pow2[m + k] /\ Pow2[k + 1] = 2 * Pow2[k]
    <3>1. m + (k + 1) = (m + k) + 1 /\ m + k \in Nat
      OBVIOUS
    <3>2. QED
      BY <3>1, Pow2Recursion
  <2>2. Pow2[m] \in Nat /\ Pow2[k] \in Nat /\ Pow2[m + k] = Pow2[m] * Pow2[k]
    BY <1>2, Pow2Recursion
  <2>3. \A x, y \in Nat : 2 * (x * y) = x * (2 * y)
    OBVIOUS
  <2>4. QED
    BY <2>1, <2>2, <2>3
<1> HIDE DEF sums
<1>3. n \in sums
  BY <1>1, <1>2, InductiveSet
<1>4. QED
  BY <1>3 DEF sums

\* A greater exponent at least doubles the power.
LEMMA Pow2Grows ==
  ASSUME NEW m \in Nat, NEW n \in Nat, m < n
  PROVE  2 * Pow2[m] <= Pow2[n]
<1>1. n - (m + 1) \in Nat /\ (m + 1) + (n - (m + 1)) = n /\ m + 1 \in Nat
  OBVIOUS
<1>2. Pow2[n] = Pow2[m + 1] * Pow2[n - (m + 1)] /\ Pow2[m + 1] = 2 * Pow2[m]
  <2>1. Pow2[n] = Pow2[m + 1] * Pow2[n - (m + 1)]
    BY <1>1, Pow2Sum
  <2>2. QED
    BY <2>1, Pow2Recursion
<1>3. \A x, y \in Nat : y # 0 => x <= x * y
  OBVIOUS
<1>4. Pow2[m + 1] \in Nat /\ Pow2[n - (m + 1)] \in Nat \ {0}
  BY <1>1, Pow2Positive
<1>5. QED
  BY <1>2, <1>3, <1>4

LEMMA SmallPowers ==
  /\ Pow2[0] = 1 /\ Pow2[1] = 2 /\ Pow2[2] = 4 /\ Pow2[3] = 8 /\ Pow2[4] = 16
  /\ Pow2[5] = 32 /\ Pow2[6] = 64 /\ Pow2[7] = 128 /\ Pow2[8] = 256
<1>1. \A n \in Nat : Pow2[n + 1] = 2 * Pow2[n]
  BY Pow2Recursion
<1>2. Pow2[0] = 1 /\ Pow2[0 + 1] = 2 * Pow2[0] /\ Pow2[1 + 1] = 2 * Pow2[1]
      /\ Pow2[2 + 1] = 2 * Pow2[2] /\ Pow2[3 + 1] = 2 * Pow2[3]
      /\ Pow2[4 + 1] = 2 * Pow2[4] /\ Pow2[5 + 1] = 2 * Pow2[5]
      /\ Pow2[6 + 1] = 2 * Pow2[6] /\ Pow2[7 + 1] = 2 * Pow2[7]
  BY <1>1, Pow2Recursion
<1>3. 0 + 1 = 1 /\ 1 + 1 = 2 /\ 2 + 1 = 3 /\ 3 + 1 = 4 /\ 4 + 1 = 5
      /\ 5 + 1 = 6 /\ 6 + 1 = 7 /\ 7 + 1 = 8
  OBVIOUS
<1>4. QED
  BY <1>2, <1>3

\* A power no greater than another has no greater exponent.
LEMMA Pow2Monotone ==
  ASSUME NEW m \in Nat, NEW n \in Nat
  PROVE  /\ m <= n => Pow2[m] <= Pow2[n]
         /\ Pow2[m] < Pow2[n] => m < n
<1>1. Pow2[m] \in Nat \ {0} /\ Pow2[n] \in Nat \ {0}
  BY Pow2Positive
<1>2. /\ m < n => 2 * Pow2[m] <= Pow2[n]
      /\ n < m => 2 * Pow2[n] <= Pow2[m]
  BY Pow2Grows
<1>3. m = n \/ m < n \/ n < m
  OBVIOUS
<1>4. QED
  BY <1>1, <1>2, <1>3

LEMMA Division ==
  ASSUME NEW q \in Int, NEW d \in Nat \ {0}, NEW r \in 0 .. d - 1
  PROVE  (q * d + r) \div d = q /\ (q * d + r) % d = r
OBVIOUS

-----------------------------------------------------------------------------
(* The conversion of an amount: the positive amounts that the operators'   *)
(* bounds admit, below 2^31 cents or 21 million yuan.                      *)

Amount == {c \in Nat \ {0} : c < Pow2[31]}

LEMMA Log2Is ==
  ASSUME NEW c \in Amount
  PROVE  /\ Log2(c) \in 0 .. 30
         /\ Pow2[Log2(c)] <= c /\ c < 2 * Pow2[Log2(c)]
<1> DEFINE above == {n \in Nat : c < Pow2[n]}
<1>1. c \in Nat \ {0} /\ 31 \in above
  BY DEF Amount
<1>2. PICK n \in above : \A m \in above : n <= m
  BY <1>1, LeastNatural
<1>3. n \in Nat /\ n <= 31 /\ c < Pow2[n]
  BY <1>1, <1>2
<1>4. n # 0
  BY <1>1, <1>3, Pow2Recursion
<1> DEFINE k == n - 1
<1>5. k \in 0 .. 30 /\ k \in Nat /\ k + 1 = n /\ ~ (n <= k)
  BY <1>3, <1>4
<1>6. Pow2[k] \in Nat /\ Pow2[n] = 2 * Pow2[k]
  BY <1>5, Pow2Recursion
<1>7. Pow2[k] <= c
  BY <1>1, <1>2, <1>5, <1>6
<1> HIDE DEF k
<1>8. c \div 2 < Pow2[k]
  BY <1>1, <1>3, <1>6
<1> DEFINE Fits(i) == Pow2[i] <= c /\ c \div 2 < Pow2[i]
<1>9. Log2(c) = CHOOSE i \in 0 .. 30 : Fits(i)
  BY DEF Log2
<1>10. Fits(k)
  BY <1>7, <1>8
<1> HIDE DEF Fits
<1>11. Log2(c) \in 0 .. 30 /\ Fits(Log2(c))
  BY <1>5, <1>9, <1>10
<1>12. Pow2[Log2(c)] \in Nat /\ Pow2[Log2(c)] <= c /\ c \div 2 < Pow2[Log2(c)]
  BY <1>11, Pow2Recursion DEF Fits
<1>13. \A x, y \in Nat : x \div 2 < y => x < 2 * y
  OBVIOUS
<1>14. QED
  BY <1>1, <1>11, <1>12, <1>13

\* The binade of the amount in yuan, of one yuan and more and of less.
LEMMA YuanLog2Is ==
  ASSUME NEW c \in Amount
  PROVE  \/ /\ YuanLog2(c) \in Nat
            /\ 100 * Pow2[YuanLog2(c)] <= c /\ c < 200 * Pow2[YuanLog2(c)]
         \/ /\ YuanLog2(c) \in -7 .. -1
            /\ 100 <= c * Pow2[-YuanLog2(c)] /\ c * Pow2[-YuanLog2(c)] < 200
<1>1. c \in Nat \ {0} /\ c < Pow2[31]
  BY DEF Amount
<1>2. CASE c >= 100
  <2> DEFINE q == c \div 100
             j == Log2(q)
  <2>1. q \in Nat \ {0} /\ q <= c /\ 100 * q <= c /\ c < 100 * q + 100
    BY <1>1, <1>2
  <2> HIDE DEF q
  <2>2. q \in Amount
    <3>1. Pow2[31] \in Nat
      BY Pow2Recursion
    <3>2. QED
      BY <1>1, <2>1, <3>1 DEF Amount
  <2>3. j \in Nat /\ Pow2[j] <= q /\ q < 2 * Pow2[j]
    BY <2>2, Log2Is
  <2>4. Pow2[j] \in Nat
    BY <2>3, Pow2Recursion
  <2>5. YuanLog2(c) = j
    BY <1>2 DEF YuanLog2, q
  <2> HIDE DEF j
  <2>6. 100 * Pow2[j] <= c /\ c < 200 * Pow2[j]
    BY <1>1, <2>1, <2>3, <2>4
  <2>7. QED
    BY <2>3, <2>5, <2>6
<1>3. CASE ~ (c >= 100)
  <2> DEFINE Fits(i) == 100 <= c * Pow2[-i] /\ 100 > c * Pow2[-i - 1]
  <2>1. YuanLog2(c) = CHOOSE i \in -7 .. -1 : Fits(i)
    BY <1>3 DEF YuanLog2
  <2>2. \E i \in -7 .. -1 : Fits(i)
    <3>1. CASE c = 1
      <4>1. Fits(-7)
        BY <3>1, SmallPowers
      <4>2. QED
        BY <4>1
    <3>2. CASE c \in 2 .. 3
      <4>1. Fits(-6)
        BY <3>2, SmallPowers
      <4>2. QED
        BY <4>1
    <3>3. CASE c \in 4 .. 6
      <4>1. Fits(-5)
        BY <3>3, SmallPowers
      <4>2. QED
        BY <4>1
    <3>4. CASE c \in 7 .. 12
      <4>1. Fits(-4)
        BY <3>4, SmallPowers
      <4>2. QED
        BY <4>1
    <3>5. CASE c \in 13 .. 24
      <4>1. Fits(-3)
        BY <3>5, SmallPowers
      <4>2. QED
        BY <4>1
    <3>6. CASE c \in 25 .. 49
      <4>1. Fits(-2)
        BY <3>6, SmallPowers
      <4>2. QED
        BY <4>1
    <3>7. CASE c \in 50 .. 99
      <4>1. Fits(-1)
        BY <3>7, SmallPowers
      <4>2. QED
        BY <4>1
    <3> HIDE DEF Fits
    <3>8. QED
      BY <1>1, <1>3, <3>1, <3>2, <3>3, <3>4, <3>5, <3>6, <3>7
  <2> DEFINE j == YuanLog2(c)
  <2>3. j \in -7 .. -1 /\ Fits(j)
    <3> HIDE DEF Fits
    <3>1. QED
      BY <2>1, <2>2
  <2> HIDE DEF j
  <2>4. Pow2[-j] = 2 * Pow2[-j - 1] /\ Pow2[-j - 1] \in Nat
    <3>1. -j - 1 \in Nat /\ (-j - 1) + 1 = -j
      BY <2>3
    <3>2. QED
      BY <3>1, Pow2Recursion
  <2>5. \A x, y \in Nat : x * (2 * y) = 2 * (x * y)
    OBVIOUS
  <2>6. c * Pow2[-j] = 2 * (c * Pow2[-j - 1]) /\ c * Pow2[-j - 1] \in Nat
    BY <1>1, <2>4, <2>5
  <2>7. c * Pow2[-j] < 200
    BY <2>3, <2>6
  <2>8. QED
    BY <2>3, <2>7 DEF j
<1>4. QED
  BY <1>2, <1>3

\* The gap between the floats around 100 times a float near c / 100, in units
\* of the latter's own, is 64 or 128.
LEMMA GapIs ==
  ASSUME NEW c \in Amount
  PROVE  Log2(c) - YuanLog2(c) \in {6, 7}
<1> DEFINE k == Log2(c)
           j == YuanLog2(c)
<1>1. c \in Nat \ {0} /\ k \in Nat /\ Pow2[k] <= c /\ c < 2 * Pow2[k]
      /\ Pow2[k] \in Nat \ {0}
  BY Log2Is, Pow2Positive DEF Amount
<1>2. CASE j \in Nat /\ 100 * Pow2[j] <= c /\ c < 200 * Pow2[j]
  <2> HIDE DEF k, j
  <2>1. Pow2[j] \in Nat \ {0}
    BY <1>2, Pow2Positive
  <2>2. Pow2[j + 5] = 32 * Pow2[j] /\ Pow2[j + 8] = 256 * Pow2[j]
    <3>1. Pow2[j + 5] = Pow2[j] * Pow2[5] /\ Pow2[j + 8] = Pow2[j] * Pow2[8]
      BY <1>2, Pow2Sum
    <3>2. QED
      BY <2>1, <3>1, SmallPowers
  <2>3. Pow2[j + 5] < Pow2[k] /\ Pow2[k] < Pow2[j + 8]
    BY <1>1, <1>2, <2>1, <2>2
  <2>4. j + 5 \in Nat /\ j + 8 \in Nat
    BY <1>2
  <2>5. j + 5 < k /\ k < j + 8
    BY <1>1, <2>3, <2>4, Pow2Monotone
  <2>6. k - j \in {6, 7}
    BY <1>1, <1>2, <2>5
  <2>7. QED
    BY <2>6 DEF k, j
<1>3. CASE j \in -7 .. -1 /\ 100 <= c * Pow2[-j] /\ c * Pow2[-j] < 200
  <2> HIDE DEF k, j
  <2> DEFINE i == -j
  <2>1. i \in Nat /\ Pow2[i] \in Nat \ {0} /\ k - j = k + i /\ k + i \in Nat
    BY <1>1, <1>3, Pow2Positive
  <2> HIDE DEF i
  <2>2. 100 <= c * Pow2[i] /\ c * Pow2[i] < 200
    BY <1>3 DEF i
  <2>3. \A x, y, z \in Nat : /\ x <= y => x * z <= y * z
                             /\ z # 0 /\ y < 2 * x => y * z < 2 * (x * z)
    <3>1. ASSUME NEW x \in Nat, NEW y \in Nat, NEW z \in Nat, x <= y
          PROVE  x * z <= y * z
      BY <3>1
    <3>2. ASSUME NEW x \in Nat, NEW y \in Nat, NEW z \in Nat, z # 0, y < 2 * x
          PROVE  y * z < 2 * (x * z)
      BY <3>2
    <3>3. QED
      BY <3>1, <3>2
  <2>4. Pow2[k] * Pow2[i] <= c * Pow2[i] /\ c * Pow2[i] < 2 * (Pow2[k] * Pow2[i])
    BY <1>1, <2>1, <2>3
  <2>5. Pow2[k + i] = Pow2[k] * Pow2[i] /\ Pow2[k + i] \in Nat
    BY <1>1, <2>1, Pow2Sum, Pow2Recursion
  <2>6. c * Pow2[i] \in Nat
    BY <1>1, <2>1
  <2>7. 50 < Pow2[k + i] /\ Pow2[k + i] < 200
    BY <2>2, <2>4, <2>5, <2>6
  <2>8. Pow2[5] < Pow2[k + i] /\ Pow2[k + i] < Pow2[8]
    BY <2>5, <2>7, SmallPowers
  <2>9. 5 < k + i /\ k + i < 8
    BY <2>1, <2>8, Pow2Monotone
  <2>10. k - j \in {6, 7}
    BY <2>1, <2>9
  <2>11. QED
    BY <2>10 DEF k, j
<1>4. QED
  BY <1>2, <1>3, YuanLog2Is

-----------------------------------------------------------------------------
(* Floating point by its definition.                                       *)

\* q gaps of d units and r more, or less, in whole gaps.
Rounded(q, d, r) == RoundHalfEven(q * d + r, d)

LEMMA RoundIs ==
  ASSUME NEW q \in Int, NEW d \in Nat \ {0}, NEW r \in 0 .. d - 1
  PROVE  Rounded(q, d, r) =
           IF 2 * r > d \/ (2 * r = d /\ q % 2 = 1) THEN q + 1 ELSE q
<1>1. (q * d + r) \div d = q /\ (q * d + r) % d = r
  BY Division
<1>2. QED
  BY <1>1 DEF Rounded, RoundHalfEven

\* There is one shift that leaves p bits.
LEMMA ShiftToIs ==
  ASSUME NEW p \in Nat \ {0}, NEW n \in Nat, NEW t \in 0 .. 30,
         Pow2[p - 1] * Pow2[t] <= n, n < Pow2[p] * Pow2[t]
  PROVE  ShiftTo(p, n) = t
<1> DEFINE Fits(u) == n \div Pow2[u] >= Pow2[p - 1] /\ n \div Pow2[u] < Pow2[p]
<1>1. ASSUME NEW u \in 0 .. 30
      PROVE  Fits(u) <=> Pow2[p - 1 + u] <= n /\ n < Pow2[p + u]
  <2>1. /\ Pow2[p - 1 + u] = Pow2[p - 1] * Pow2[u] /\ Pow2[p + u] = Pow2[p] * Pow2[u]
        /\ Pow2[u] \in Nat \ {0} /\ Pow2[p - 1] \in Nat /\ Pow2[p] \in Nat
    <3>1. p - 1 \in Nat /\ p \in Nat /\ u \in Nat
      OBVIOUS
    <3>2. QED
      BY <3>1, Pow2Sum, Pow2Positive
  <2>2. ASSUME NEW a \in Nat, NEW d \in Nat \ {0}
        PROVE  n \div d >= a <=> a * d <= n
    <3> DEFINE q == n \div d
               r == n % d
    <3>1. n = q * d + r /\ r \in 0 .. d - 1 /\ q \in Int
      OBVIOUS
    <3> HIDE DEF q, r
    <3>2. CASE q >= a
      <4>1. a * d <= q * d
        BY <3>1, <3>2
      <4>2. a * d \in Int /\ q * d \in Int
        BY <3>1
      <4>3. QED
        BY <3>1, <3>2, <4>1, <4>2 DEF q
    <3>3. CASE ~ (q >= a)
      <4>1. (q + 1) * d <= a * d /\ (q + 1) * d = q * d + d
        BY <3>1, <3>3
      <4>2. a * d \in Int /\ q * d \in Int
        BY <3>1
      <4>3. n < a * d
        BY <3>1, <4>1, <4>2
      <4>4. QED
        BY <3>3, <4>2, <4>3 DEF q
    <3>4. QED
      BY <3>2, <3>3
  <2>3. /\ n \div Pow2[u] >= Pow2[p - 1] <=> Pow2[p - 1] * Pow2[u] <= n
        /\ n \div Pow2[u] >= Pow2[p] <=> Pow2[p] * Pow2[u] <= n
    BY <2>1, <2>2
  <2>4. n \div Pow2[u] \in Int /\ Pow2[p] * Pow2[u] \in Int
    BY <2>1
  <2>5. QED
    BY <2>1, <2>3, <2>4
<1>2. ShiftTo(p, n) = CHOOSE u \in 0 .. 30 : Fits(u)
  BY DEF ShiftTo
<1> HIDE DEF Fits
<1>3. Pow2[p - 1 + t] <= n /\ n < Pow2[p + t]
  <2>1. p - 1 \in Nat /\ p \in Nat /\ t \in Nat
    OBVIOUS
  <2>2. QED
    BY <2>1, Pow2Sum
<1>4. Fits(t)
  BY <1>1, <1>3
<1>5. ASSUME NEW u \in 0 .. 30, Fits(u)
      PROVE  u = t
  <2>1. Pow2[p - 1 + u] <= n /\ n < Pow2[p + u]
    BY <1>1, <1>5
  <2>2. /\ p - 1 + u \in Nat /\ p + u \in Nat /\ p - 1 + t \in Nat /\ p + t \in Nat
    OBVIOUS
  <2>3. Pow2[p - 1 + u] < Pow2[p + t] /\ Pow2[p - 1 + t] < Pow2[p + u]
    <3>1. /\ Pow2[p - 1 + u] \in Nat /\ Pow2[p + u] \in Nat
          /\ Pow2[p - 1 + t] \in Nat /\ Pow2[p + t] \in Nat
      BY ONLY <2>2, Pow2Recursion
    <3>2. n \in Nat
      OBVIOUS
    <3>3. QED
      BY ONLY <1>3, <2>1, <3>1, <3>2
  <2>4. p - 1 + u < p + t /\ p - 1 + t < p + u
    BY <2>2, <2>3, Pow2Monotone
  <2>5. QED
    BY <2>4
<1>6. QED
  BY <1>2, <1>4, <1>5

\* The operators of AlipayAmount that do not depend on the width.
LEMMA SamePowers ==
  ASSUME NEW p \in Nat, NEW c
  PROVE  /\ Toy(p)!Pow2 = Pow2 /\ Toy(p)!Pow2Mod100 = Pow2Mod100
         /\ Toy(p)!Log2(c) = Log2(c) /\ Toy(p)!YuanLog2(c) = YuanLog2(c)
<1>1. Toy(p)!Pow2 = Pow2 /\ Toy(p)!Pow2Mod100 = Pow2Mod100
  BY DEF Pow2, Pow2Mod100, Toy!Pow2, Toy!Pow2Mod100
<1>2. \A n : Toy(p)!Log2(n) = Log2(n)
  BY <1>1 DEF Log2, Toy!Log2
<1>3. Toy(p)!YuanLog2(c) = YuanLog2(c)
  BY <1>1, <1>2 DEF YuanLog2, Toy!YuanLog2
<1>4. QED
  BY <1>1, <1>2, <1>3

-----------------------------------------------------------------------------
(* An amount c, a width p at which c is a float with an even significand,  *)
(* and the units that the computation is in.                               *)

\* With e = p - 1 - YuanLog2(c) the scan yields a multiple of 2^-e.  In this
\* unit c is c * Above(p, c) gaps, each of Gap(c) units.
Gap(c) == Pow2[Log2(c) - YuanLog2(c)]
Above(p, c) == Pow2[p - 1 - Log2(c)]

Width(c) == {p \in Nat : p >= 8 /\ c < Pow2[p - 1]}

LEMMA Units ==
  ASSUME NEW c \in Amount, NEW p \in Width(c)
  PROVE  /\ Gap(c) \in {64, 128}
         /\ p - 1 - YuanLog2(c) \in Nat
         /\ Pow2[p - 1 - YuanLog2(c)] = Above(p, c) * Gap(c)
         /\ Pow2[p - 1] = Pow2[Log2(c)] * Above(p, c)
         /\ Pow2[p] = 2 * Pow2[p - 1]
         /\ Pow2[p - 1] \in Nat /\ Pow2[p - 1] >= 128
         /\ \E half \in Nat \ {0} : Above(p, c) = 2 * half
<1> DEFINE k == Log2(c)
           j == YuanLog2(c)
<1>1. c \in Nat \ {0} /\ p \in Nat /\ p >= 8 /\ c < Pow2[p - 1]
  BY DEF Amount, Width
<1>2. k \in 0 .. 30 /\ Pow2[k] <= c /\ k - j \in {6, 7}
      /\ (j \in Nat \/ j \in -7 .. -1)
  BY Log2Is, GapIs, YuanLog2Is
<1> HIDE DEF k, j
<1>3. k \in Nat /\ j \in Int /\ k - j \in Nat /\ p - 1 \in Nat
  BY <1>1, <1>2
<1>4. k < p - 1
  <2>1. Pow2[k] < Pow2[p - 1]
    BY <1>1, <1>2, <1>3, Pow2Recursion
  <2>2. QED
    BY <1>3, <2>1, Pow2Monotone
<1>5. p - 1 - k \in Nat /\ p - 2 - k \in Nat /\ (p - 2 - k) + 1 = p - 1 - k
      /\ (p - 1 - k) + (k - j) = p - 1 - j /\ k + (p - 1 - k) = p - 1
      /\ (p - 1) + 1 = p
  BY <1>1, <1>3, <1>4
<1>6. Pow2[k - j] \in {64, 128}
  BY <1>2, SmallPowers
<1>7. Pow2[p - 1 - j] = Pow2[p - 1 - k] * Pow2[k - j]
      /\ Pow2[p - 1] = Pow2[k] * Pow2[p - 1 - k]
  <2> DEFINE above == p - 1 - k
             gap   == k - j
             e     == p - 1 - j
             last  == p - 1
  <2>1. above \in Nat /\ gap \in Nat /\ k \in Nat
        /\ e = above + gap /\ last = k + above
    BY <1>3, <1>5
  <2> HIDE DEF above, gap, e, last
  <2>2. Pow2[e] = Pow2[above] * Pow2[gap] /\ Pow2[last] = Pow2[k] * Pow2[above]
    BY ONLY <2>1, Pow2Sum
  <2>3. QED
    BY <2>2 DEF above, gap, e, last
<1>8. Pow2[p] = 2 * Pow2[p - 1] /\ Pow2[p - 1] \in Nat
  BY <1>3, <1>5, Pow2Recursion
<1>9. Pow2[p - 1] >= 128
  <2>1. 7 <= p - 1
    BY <1>1
  <2>2. Pow2[7] <= Pow2[p - 1]
    BY <1>3, <2>1, Pow2Monotone
  <2>3. QED
    BY <2>2, SmallPowers
<1>10. Pow2[p - 1 - k] = 2 * Pow2[p - 2 - k] /\ Pow2[p - 2 - k] \in Nat \ {0}
  BY <1>5, Pow2Recursion, Pow2Positive
<1>11. p - 1 - j \in Nat
  BY <1>3, <1>5
<1>12. QED
  BY <1>6, <1>7, <1>8, <1>9, <1>10, <1>11 DEF Gap, Above, k, j

\* The scan misses c by the residue, in units of a hundredth of 2^-e.
LEMMA Scan ==
  ASSUME NEW c \in Amount, NEW p \in Width(c)
  PROVE  LET r == Toy(p)!ScanResidue(c)
             exact == c * (Above(p, c) * Gap(c))
         IN  /\ r \in -49 .. 49
             /\ 100 * RoundHalfEven(c * Pow2[p - 1 - YuanLog2(c)], 100) = exact + r
             /\ exact % 100 = IF r > 0 THEN 100 - r ELSE -r
<1> DEFINE e == p - 1 - YuanLog2(c)
           exact == c * (Above(p, c) * Gap(c))
           s == ((c % 100) * Pow2Mod100[e]) % 100
           r == Toy(p)!ScanResidue(c)
<1>1. c \in Nat \ {0} /\ p \in Nat
  BY DEF Amount, Width
<1>2. Gap(c) \in {64, 128} /\ e \in Nat /\ Pow2[e] = Above(p, c) * Gap(c)
      /\ Above(p, c) \in Nat
  BY Units
<1>3. exact \in Nat /\ exact = c * Pow2[e] /\ exact % 4 = 0
  <2>1. \A x, y \in Nat : x * (y * 64) = 64 * (x * y) /\ x * (y * 128) = 128 * (x * y)
                          /\ x * y \in Nat
    OBVIOUS
  <2>2. \E z \in Nat : exact = 64 * z \/ exact = 128 * z
    BY <1>1, <1>2, <2>1
  <2>3. exact = c * Pow2[e]
    BY <1>2
  <2> HIDE DEF exact
  <2>4. QED
    BY <2>2, <2>3
<1>4. r = IF s < 50 THEN -s ELSE 100 - s
  BY <1>1, SamePowers DEF Toy!ScanResidue
<1>5. s = exact % 100
  <2>1. \A x, y \in Nat : (x * y) % 100 = ((x % 100) * (y % 100)) % 100
    OBVIOUS
  <2>2. Pow2[e] \in Nat /\ Pow2Mod100[e] = Pow2[e] % 100
    BY <1>2, Pow2Recursion, Pow2Mod100IsRemainder
  <2>3. QED
    BY <1>1, <1>3, <2>1, <2>2
<1> HIDE DEF s, exact, e, r
<1>6. s \in 0 .. 99 /\ s # 50
  BY <1>3, <1>5
<1> DEFINE q == exact \div 100
<1>7. q \in Nat /\ exact = q * 100 + s
  BY <1>3, <1>5
<1> HIDE DEF q
<1>8. RoundHalfEven(exact, 100) = IF s > 50 THEN q + 1 ELSE q
  <2>1. Rounded(q, 100, s) =
          IF 2 * s > 100 \/ (2 * s = 100 /\ q % 2 = 1) THEN q + 1 ELSE q
    <3>1. s \in 0 .. 100 - 1 /\ 100 \in Nat \ {0} /\ q \in Int
      BY <1>6, <1>7
    <3>2. QED
      BY <3>1, RoundIs
  <2>2. 2 * s > 100 <=> s > 50
    BY <1>6
  <2>3. 2 * s # 100
    BY <1>6
  <2>4. QED
    BY <1>7, <2>1, <2>2, <2>3 DEF Rounded
<1>9. r \in -49 .. 49 /\ 100 * RoundHalfEven(exact, 100) = exact + r
      /\ exact % 100 = IF r > 0 THEN 100 - r ELSE -r
  BY <1>4, <1>5, <1>6, <1>7, <1>8
<1>10. QED
  BY <1>3, <1>9 DEF exact, r, e

\* The quotient of what lies less than one c-th around c.
LEMMA Truncated ==
  ASSUME NEW c \in Nat \ {0}, NEW unit \in Nat \ {0}, NEW x \in Nat, x < unit
  PROVE  /\ (c * unit + x) \div unit = c
         /\ x # 0 => (c * unit - x) \div unit = c - 1
<1>1. (c * unit + x) \div unit = c
  BY Division
<1>2. ASSUME x # 0
      PROVE  (c * unit - x) \div unit = c - 1
  <2>1. unit - x \in 0 .. unit - 1 /\ c - 1 \in Int
    BY <1>2
  <2>2. ((c - 1) * unit + (unit - x)) \div unit = c - 1
    BY <2>1, Division
  <2>3. (c - 1) * unit = c * unit - unit /\ c * unit \in Int
    OBVIOUS
  <2>4. (c - 1) * unit + (unit - x) = c * unit - x
    BY <2>3
  <2>5. QED
    BY <2>2, <2>4
<1>3. QED
  BY <1>1, <1>2

\* The product is an even number of gaps and a residue.
Operands(a, g, r) ==
  /\ a \in Nat /\ a % 2 = 0 /\ a >= 2
  /\ g \in {32, 64, 128}
  /\ r \in -49 .. 49 /\ (g = 32 => r < 0)

\* Rounded to whole gaps it is the exact a gaps unless the residue is negative
\* and past half a gap.
LEMMA Product ==
  ASSUME NEW a, NEW g, NEW r, Operands(a, g, r)
  PROVE  /\ r >= 0 => Rounded(a, g, r) \in {a, a + 1}
         /\ r < 0 /\ -2 * r <= g => Rounded(a, g, r) = a
         /\ -2 * r > g => Rounded(a, g, r) \in {a - 1, a - 2}
         /\ Rounded(a, g, r) = a - 2 => g = 32
<1> USE DEF Operands
<1>1. g \in Nat \ {0} /\ a \in Int
  OBVIOUS
<1>2. CASE r >= 0
  <2>1. r \in 0 .. g - 1
    BY <1>2
  <2>2. Rounded(a, g, r) = IF 2 * r > g \/ (2 * r = g /\ a % 2 = 1) THEN a + 1 ELSE a
    BY <1>1, <2>1, RoundIs
  <2>3. QED
    BY <1>2, <2>2
<1>3. CASE r < 0 /\ g + r >= 0
  <2>1. g + r \in 0 .. g - 1 /\ a - 1 \in Int /\ (a - 1) * g + (g + r) = a * g + r
    BY <1>3
  <2>2. Rounded(a - 1, g, g + r) =
          IF 2 * (g + r) > g \/ (2 * (g + r) = g /\ (a - 1) % 2 = 1)
          THEN (a - 1) + 1 ELSE a - 1
    BY <1>1, <2>1, RoundIs
  <2>3. (a - 1) % 2 = 1
    OBVIOUS
  <2>4. Rounded(a - 1, g, g + r) = Rounded(a, g, r)
    BY <2>1 DEF Rounded
  <2>5. Rounded(a, g, r) = IF 2 * (g + r) >= g THEN a ELSE a - 1
    BY <2>2, <2>3, <2>4
  <2>6. 2 * (g + r) >= g <=> -2 * r <= g
    OBVIOUS
  <2>7. QED
    BY <1>3, <2>5, <2>6
<1>4. CASE g + r < 0
  <2>1. g = 32
    BY <1>4
  <2>2. g + g + r \in 0 .. g - 1 /\ a - 2 \in Int
        /\ (a - 2) * g + (g + g + r) = a * g + r
    BY <1>4, <2>1
  <2>3. Rounded(a - 2, g, g + g + r) \in {a - 2, (a - 2) + 1}
    BY <1>1, <2>2, RoundIs
  <2>4. Rounded(a - 2, g, g + g + r) = Rounded(a, g, r)
    BY <2>2 DEF Rounded
  <2>5. Rounded(a, g, r) \in {a - 2, a - 1}
    BY <2>3, <2>4
  <2>6. r < 0 /\ -2 * r > g
    BY <1>4, <2>1
  <2>7. QED
    BY <2>1, <2>5, <2>6
<1>5. QED
  BY <1>2, <1>3, <1>4

\* The a gaps are c units, and much less than one unit.
IsExact(c, unit, a, g) ==
  a * g = c * unit /\ g < unit /\ (g = 32 => 2 * g < unit)

\* So what is left after the truncation is c or, with such a residue, c - 1.
LEMMA Cents ==
  ASSUME NEW c \in Nat \ {0}, NEW unit \in Nat \ {0},
         NEW a, NEW g, NEW r, Operands(a, g, r), IsExact(c, unit, a, g)
  PROVE  (Rounded(a, g, r) * g) \div unit =
           IF r < 0 /\ -2 * r > g THEN c - 1 ELSE c
<1> DEFINE rounded == Rounded(a, g, r)
<1>1. /\ r >= 0 => rounded \in {a, a + 1}
      /\ r < 0 /\ -2 * r <= g => rounded = a
      /\ -2 * r > g => rounded \in {a - 1, a - 2}
      /\ rounded = a - 2 => g = 32
  BY Product
<1> HIDE DEF rounded
<1> USE DEF Operands, IsExact
<1>2. \A x \in Nat : x < unit =>
        /\ (c * unit + x) \div unit = c
        /\ x # 0 => (c * unit - x) \div unit = c - 1
  BY Truncated
<1>3. CASE rounded = a
  <2>1. rounded * g = c * unit + 0 /\ 0 < unit
    BY <1>3
  <2>2. (rounded * g) \div unit = c
    BY <1>2, <2>1
  <2>3. ~ (-2 * r > g)
    BY <1>1, <1>3
  <2>4. QED
    BY <2>2, <2>3 DEF rounded
<1>4. CASE rounded = a + 1
  <2>1. rounded * g = c * unit + g
    BY <1>4
  <2>2. (rounded * g) \div unit = c
    BY <1>2, <2>1
  <2>3. ~ (r < 0 /\ -2 * r > g)
    BY <1>1, <1>4
  <2>4. QED
    BY <2>2, <2>3 DEF rounded
<1>5. CASE rounded = a - 1 \/ rounded = a - 2
  <2>1. r < 0 /\ -2 * r > g
    BY <1>1, <1>5
  <2>2. CASE rounded = a - 1
    <3>1. rounded * g = c * unit - g /\ g \in Nat /\ g # 0 /\ g < unit
      BY <2>2
    <3>2. (rounded * g) \div unit = c - 1
      BY <1>2, <3>1
    <3>3. QED
      BY <2>1, <3>2 DEF rounded
  <2>3. CASE rounded = a - 2
    <3>1. g = 32 /\ rounded * g = c * unit - 64 /\ 64 < unit
      BY <1>1, <2>3
    <3>2. (rounded * g) \div unit = c - 1
      BY <1>2, <3>1
    <3>3. QED
      BY <2>1, <3>2 DEF rounded
  <2>4. QED
    BY <1>5, <2>2, <2>3
<1>6. QED
  BY <1>1, <1>3, <1>4, <1>5

\* At every width and for every amount the closed form is what the floating
\* point computes.
LEMMA ClosedForm ==
  ASSUME NEW c \in Amount, NEW p \in Width(c)
  PROVE  Toy(p)!AlipayCents(c) = DirectCents(p, c)
<1> DEFINE k == Log2(c)
           j == YuanLog2(c)
           g == Gap(c)
           W == Above(p, c)
           a == c * W
           r == Toy(p)!ScanResidue(c)
           unit == W * g
<1>1. /\ c \in Nat \ {0} /\ p \in Nat \ {0}
      /\ Pow2[k] \in Nat \ {0} /\ Pow2[k] <= c /\ c < 2 * Pow2[k] /\ k - j \in {6, 7}
  BY Log2Is, GapIs, Pow2Positive DEF Amount, Width
<1>2. /\ g \in {64, 128} /\ g = Pow2[k - j]
      /\ p - 1 - j \in Nat /\ Pow2[p - 1 - j] = unit
      /\ Pow2[p - 1] = Pow2[k] * W /\ Pow2[p] = 2 * Pow2[p - 1]
      /\ Pow2[p - 1] \in Nat /\ Pow2[p - 1] >= 128
  BY Units DEF Gap
<1>3. PICK half \in Nat \ {0} : W = 2 * half
  BY Units
<1>4. /\ r \in -49 .. 49
      /\ 100 * RoundHalfEven(c * unit, 100) = c * unit + r
  <2>1. c * Pow2[p - 1 - j] = c * unit
    BY <1>2
  <2>2. QED
    BY <2>1, Scan
<1> DEFINE n == c * unit + r
           t == ShiftTo(p, n)
<1>5. DirectCents(p, c) = (RoundHalfEven(n, Pow2[t]) * Pow2[t]) \div unit
  BY <1>2, <1>4 DEF DirectCents
<1>6. Toy(p)!AlipayCents(c) =
        IF r < 0 /\ -2 * r > (IF c = Pow2[k] THEN g \div 2 ELSE g) THEN c - 1 ELSE c
  BY <1>1, <1>2, SamePowers DEF Toy!AlipayCents, Toy!HalfGapBelow
<1> HIDE DEF k, j, g, W, r
<1>7. /\ a \in Nat /\ a % 2 = 0 /\ a >= 2 /\ W \in Nat /\ W >= 2
      /\ unit \in Nat \ {0} /\ a * g = c * unit
  <2>1. \A x, y \in Nat \ {0} : x * (2 * y) = 2 * (x * y) /\ x * y \in Nat \ {0}
    OBVIOUS
  <2>2. a = 2 * (c * half) /\ c * half \in Nat \ {0}
    BY <1>1, <1>3, <2>1
  <2>3. \A x, y, z \in Nat : (x * y) * z = x * (y * z)
    OBVIOUS
  <2>4. g \in Nat \ {0} /\ W \in Nat \ {0}
    BY <1>2, <1>3
  <2>5. unit \in Nat \ {0}
    BY <2>1, <2>4
  <2>6. a * g = c * unit
    BY <1>1, <2>3, <2>4
  <2>7. QED
    BY <1>3, <2>2, <2>4, <2>5, <2>6
<1>8. unit >= 2 * g
  BY <1>2, <1>7
<1>9. a < Pow2[p] /\ Pow2[p - 1] <= a /\ (c # Pow2[k] => Pow2[p - 1] + 1 <= a)
      /\ (c = Pow2[k] => a = Pow2[p - 1])
  <2>1. \A x, y, z \in Nat : /\ x <= y => x * z <= y * z
                             /\ x < y /\ z # 0 => x * z + 1 <= y * z
    <3>1. ASSUME NEW x \in Nat, NEW y \in Nat, NEW z \in Nat, x <= y
          PROVE  x * z <= y * z
      BY <3>1
    <3>2. ASSUME NEW x \in Nat, NEW y \in Nat, NEW z \in Nat, x < y, z # 0
          PROVE  x * z + 1 <= y * z
      BY <3>2
    <3>3. QED
      BY <3>1, <3>2
  <2>2. (2 * Pow2[k]) * W = Pow2[p]
    BY <1>1, <1>2, <1>7
  <2>3. c * W + 1 <= (2 * Pow2[k]) * W
    BY <1>1, <1>7, <2>1
  <2>4. Pow2[k] * W <= c * W
    BY <1>1, <1>7, <2>1
  <2>5. c # Pow2[k] => Pow2[k] * W + 1 <= c * W
    BY <1>1, <1>7, <2>1
  <2>6. QED
    BY <1>2, <1>7, <2>2, <2>3, <2>4, <2>5
<1> HIDE DEF a, unit
<1>10. n = a * g + r
  BY <1>7
<1>11. CASE c # Pow2[k] \/ r >= 0
  <2>1. n \in Nat /\ Pow2[p - 1] * g <= n /\ n < Pow2[p] * g
    BY <1>2, <1>4, <1>7, <1>9, <1>10, <1>11
  <2>2. t = k - j
    <3> HIDE DEF n
    <3>1. k - j \in 0 .. 30
      BY <1>1
    <3>2. QED
      BY <1>1, <1>2, <2>1, <3>1, ShiftToIs
  <2>3. DirectCents(p, c) = (RoundHalfEven(a * g + r, g) * g) \div unit
    BY <1>2, <1>5, <1>10, <2>2
  <2>4. (Rounded(a, g, r) * g) \div unit =
          IF r < 0 /\ -2 * r > g THEN c - 1 ELSE c
    <3>1. g \in {32, 64, 128} /\ g # 32 /\ g < unit
      BY <1>2, <1>7, <1>8
    <3>2. QED
      <4>1. Operands(a, g, r)
        BY <1>4, <1>7, <3>1 DEF Operands
      <4>2. IsExact(c, unit, a, g)
        BY <1>7, <3>1 DEF IsExact
      <4>3. QED
        BY <1>1, <1>7, <4>1, <4>2, Cents
  <2>5. r < 0 => c # Pow2[k]
    BY <1>4, <1>11
  <2>6. QED
    BY <1>6, <2>3, <2>4, <2>5 DEF Rounded
<1>12. CASE c = Pow2[k] /\ r < 0
  <2> DEFINE h == g \div 2
  <2>1. h \in {32, 64} /\ g = 2 * h
    BY <1>2
  <2>2. h = Pow2[(k - j) - 1] /\ (k - j) - 1 \in 0 .. 30
    BY <1>1, <1>2, SmallPowers
  <2> HIDE DEF h
  <2>3. (2 * a) * h = a * g /\ 2 * a \in Nat /\ (2 * a) % 2 = 0 /\ 2 * a >= 2
    BY <1>7, <2>1
  <2>4. n \in Nat /\ Pow2[p - 1] * h <= n /\ n < Pow2[p] * h
    <3>1. n = (2 * Pow2[p - 1]) * h + r
      BY <1>9, <1>10, <1>12, <2>3
    <3>2. QED
      BY <1>2, <1>4, <1>12, <2>1, <3>1
  <2>5. t = (k - j) - 1
    <3> HIDE DEF n
    <3>1. QED
      BY <1>1, <2>2, <2>4, ShiftToIs
  <2>6. DirectCents(p, c) = (Rounded(2 * a, h, r) * h) \div unit
    BY <1>5, <1>10, <2>2, <2>3, <2>5 DEF Rounded
  <2>7. (Rounded(2 * a, h, r) * h) \div unit =
          IF r < 0 /\ -2 * r > h THEN c - 1 ELSE c
    <3>1. h \in {32, 64, 128} /\ h < unit /\ 2 * h < unit
      BY <1>2, <1>7, <1>8, <2>1
    <3>2. (2 * a) * h = c * unit
      BY <1>7, <2>3
    <3> DEFINE b == 2 * a
    <3>3. b \in Nat /\ b % 2 = 0 /\ b >= 2 /\ b * h = c * unit
      BY <2>3, <3>2
    <3> HIDE DEF b
    <3>4. (Rounded(b, h, r) * h) \div unit =
            IF r < 0 /\ -2 * r > h THEN c - 1 ELSE c
      <4>1. Operands(b, h, r)
        BY <1>4, <1>12, <3>1, <3>3 DEF Operands
      <4>2. IsExact(c, unit, b, h)
        BY <3>1, <3>3 DEF IsExact
      <4>3. QED
        BY <1>1, <1>7, <4>1, <4>2, Cents
    <3>5. QED
      BY <3>4 DEF b
  <2>8. QED
    BY <1>6, <1>12, <2>6, <2>7 DEF h
<1>13. QED
  BY <1>4, <1>11, <1>12

LEMMA SameWidth ==
  ASSUME NEW c
  PROVE  /\ Toy(P)!ScanResidue(c) = ScanResidue(c)
         /\ Toy(P)!AlipayCents(c) = AlipayCents(c)
<1>1. \A n : Toy(P)!Log2(n) = Log2(n) /\ Toy(P)!YuanLog2(n) = YuanLog2(n)
  BY PAssumption, SamePowers
<1>2. Toy(P)!Pow2 = Pow2 /\ Toy(P)!Pow2Mod100 = Pow2Mod100
  BY PAssumption, SamePowers
<1>3. Toy(P)!ScanResidue(c) = ScanResidue(c)
  BY <1>1, <1>2 DEF ScanResidue, Toy!ScanResidue
<1>4. Toy(P)!HalfGapBelow(c) = HalfGapBelow(c)
  BY <1>1, <1>2 DEF HalfGapBelow, Toy!HalfGapBelow
<1>5. QED
  BY <1>3, <1>4 DEF AlipayCents, Toy!AlipayCents

\* Quarters of a yuan are binary fractions: nothing is rounded.
LEMMA QuarterExact ==
  ASSUME NEW c \in Amount, P \in Width(c), c % 25 = 0
  PROVE  AlipayCents(c) = c
<1> DEFINE r == Toy(P)!ScanResidue(c)
           exact == c * (Above(P, c) * Gap(c))
<1>1. /\ r \in -49 .. 49
      /\ exact % 100 = IF r > 0 THEN 100 - r ELSE -r
  BY Scan
<1>2. exact % 100 = 0
  <2>1. PICK q \in Nat : c = 25 * q
    <3>1. c \div 25 \in Nat /\ c = 25 * (c \div 25)
      BY DEF Amount
    <3>2. QED
      BY <3>1
  <2>2. Gap(c) \in {64, 128} /\ Above(P, c) \in Nat
    BY Units
  <2>3. PICK i \in Nat : Gap(c) = 4 * i
    BY <2>2
  <2>4. \A x, y, z \in Nat : (25 * x) * (y * (4 * z)) = 100 * (x * (y * z))
                             /\ x * (y * z) \in Nat
    OBVIOUS
  <2>5. exact = 100 * (q * (Above(P, c) * i)) /\ q * (Above(P, c) * i) \in Nat
    BY <2>1, <2>2, <2>3, <2>4
  <2>6. \A x \in Nat : (100 * x) % 100 = 0
    OBVIOUS
  <2> HIDE DEF exact
  <2>7. QED
    BY <2>5, <2>6
<1> HIDE DEF r, exact
<1>3. r = 0
  BY <1>1, <1>2
<1>4. ScanResidue(c) = 0
  BY <1>3, SameWidth DEF r
<1>5. QED
  BY <1>4 DEF AlipayCents, Amount

-----------------------------------------------------------------------------
(* Which amounts and inputs are checked.                                   *)

Inputs == [setting : Sources] \cup [question : Question]
            \cup [notice : Notice, taken : BOOLEAN]

Checked == cents \in 1 .. MaxCents /\ (input = NoInput \/ input \in Inputs)

LEMMA CheckedInputs == FunctionsSpec => []Checked
<1>1. FunctionsInit => Checked
  BY MaxCentsAssumption DEF FunctionsInit, Init, Checked
<1>2. Checked /\ [FunctionsNext]_<<cents, input>> => Checked'
  <2> SUFFICES ASSUME Checked, [FunctionsNext]_<<cents, input>>
               PROVE  Checked'
    OBVIOUS
  <2>1. CASE NextAmount
    BY <2>1, MaxCentsAssumption DEF NextAmount, Next, Checked
  <2>2. CASE ChooseSetting \/ ChooseQuestion \/ ChooseNotice
    <3>1. UNCHANGED cents /\ input' \in Inputs
      BY <2>2 DEF ChooseSetting, ChooseQuestion, ChooseNotice, Choose, Inputs
    <3>2. QED
      BY <3>1 DEF Checked
  <2>3. CASE UNCHANGED <<cents, input>>
    BY <2>3 DEF Checked
  <2>4. QED
    BY <2>1, <2>2, <2>3 DEF FunctionsNext
<1>3. QED
  BY <1>1, <1>2, PTL DEF FunctionsSpec

\* At any width at which the amounts are floats with an even significand the
\* closed form is what scanning, multiplying and truncating compute.
THEOREM ClosedFormHolds ==
  ASSUME MaxCents < Pow2[31],
         \A p \in ToyPrecisions : p \in Nat /\ p >= 8 /\ MaxCents < Pow2[p - 1]
  PROVE  FunctionsSpec => []ClosedFormIsFloatArithmetic
<1>1. Checked => ClosedFormIsFloatArithmetic
  <2> SUFFICES ASSUME Checked, NEW p \in ToyPrecisions
               PROVE  Toy(p)!AlipayCents(cents) = DirectCents(p, cents)
    BY DEF ClosedFormIsFloatArithmetic
  <2>1. cents \in Nat \ {0} /\ cents <= MaxCents /\ MaxCents \in Nat
    BY MaxCentsAssumption DEF Checked
  <2>2. p \in Nat /\ p >= 8 /\ p - 1 \in Nat
    OBVIOUS
  <2>3. Pow2[31] \in Nat /\ Pow2[p - 1] \in Nat
    BY <2>2, Pow2Recursion
  <2>4. cents \in Amount /\ p \in Width(cents)
    BY <2>1, <2>2, <2>3 DEF Amount, Width
  <2>5. QED
    BY <2>4, ClosedForm
<1>2. QED
  BY <1>1, CheckedInputs, PTL

\* A whole number of quarter yuan survives the conversion.
THEOREM QuartersAreExact ==
  ASSUME MaxCents < Pow2[31], MaxCents < Pow2[P - 1]
  PROVE  FunctionsSpec => []QuarterYuanExact
<1>1. Checked => QuarterYuanExact
  <2> SUFFICES ASSUME Checked, cents % 25 = 0
               PROVE  AlipayCents(cents) = cents
    BY DEF QuarterYuanExact
  <2>1. cents \in Nat \ {0} /\ cents <= MaxCents /\ MaxCents \in Nat
    BY MaxCentsAssumption DEF Checked
  <2>2. P \in Nat /\ P >= 8 /\ P - 1 \in Nat
    BY PAssumption
  <2>3. Pow2[31] \in Nat /\ Pow2[P - 1] \in Nat
    BY <2>2, Pow2Recursion
  <2>4. cents \in Amount /\ P \in Width(cents)
    BY <2>1, <2>2, <2>3 DEF Amount, Width
  <2>5. QED
    BY <2>4, QuarterExact
<1>2. QED
  BY <1>1, CheckedInputs, PTL

\* What ProcessAlipayCallback computes, by the definition of floating point
\* and at the width of the code, is never more than the amount, and less by
\* one cent at most; for quarters of a yuan it is the amount.
THEOREM AtMostOneCentShort ==
  ASSUME NEW c \in Amount, c < Pow2[P - 1]
  PROVE  /\ DirectCents(P, c) \in {c - 1, c}
         /\ c % 25 = 0 => DirectCents(P, c) = c
<1>1. P \in Width(c)
  BY PAssumption DEF Width
<1>2. DirectCents(P, c) = AlipayCents(c)
  BY <1>1, ClosedForm, SameWidth
<1>3. AlipayCents(c) \in {c - 1, c}
  BY DEF AlipayCents, Amount
<1>4. QED
  BY <1>1, <1>2, <1>3, QuarterExact

-----------------------------------------------------------------------------
(* Settings.                                                               *)

\* Of any number of lines that name a key only the first one counts, and that
\* only for a key that the environment does not have.
LEMMA FirstLineCounts ==
  ASSUME NEW variable, NEW n \in Nat, NEW lines, Len(lines) = n,
         \A i \in 1 .. n : lines[i] # Unset
  PROVE  LoadEnvFile(variable, lines) =
           IF variable # Unset \/ n = 0 THEN variable ELSE lines[1]
<1> DEFINE Solves(f) ==
             f = [i \in 0 .. n |->
                    IF i = 0 THEN variable ELSE SetIfMissing(f[i - 1], lines[i])]
           value(i) == IF variable # Unset \/ i = 0 THEN variable ELSE lines[1]
           g == [i \in 0 .. n |-> value(i)]
<1>1. Solves(g)
  <2>1. ASSUME NEW i \in 0 .. n
        PROVE  g[i] = IF i = 0 THEN variable ELSE SetIfMissing(g[i - 1], lines[i])
    <3>1. CASE i = 0
      BY <3>1
    <3>2. CASE i # 0
      <4>1. i \in 1 .. n /\ i - 1 \in 0 .. n /\ 1 \in 1 .. n
        BY <3>2
      <4>2. g[i] = value(i) /\ g[i - 1] = value(i - 1)
        BY <4>1
      <4>3. i - 1 = 0 <=> i = 1
        BY <4>1
      <4>4. QED
        BY <3>2, <4>1, <4>2, <4>3 DEF SetIfMissing
    <3>3. QED
      BY <3>1, <3>2
  <2> HIDE DEF value
  <2>2. QED
    BY <2>1
<1>2. LoadEnvFile(variable, lines) = (CHOOSE f : Solves(f))[n]
  BY DEF LoadEnvFile
<1> HIDE DEF g, Solves
<1> DEFINE after == CHOOSE f : Solves(f)
<1>3. Solves(after)
  BY <1>1
<1> HIDE DEF after
<1>4. ASSUME NEW f, NEW h, Solves(f), Solves(h)
      PROVE  f[n] = h[n]
  <2> DEFINE same == {i \in Nat : i <= n => f[i] = h[i]}
  <2>1. ASSUME NEW i \in 0 .. n
        PROVE  /\ f[i] = IF i = 0 THEN variable ELSE SetIfMissing(f[i - 1], lines[i])
               /\ h[i] = IF i = 0 THEN variable ELSE SetIfMissing(h[i - 1], lines[i])
    BY <1>4 DEF Solves
  <2>2. 0 \in same
    BY <2>1
  <2>3. ASSUME NEW i \in Nat, i \in same
        PROVE  i + 1 \in same
    <3> SUFFICES ASSUME i + 1 <= n
                 PROVE  f[i + 1] = h[i + 1]
      OBVIOUS
    <3>1. i + 1 \in 0 .. n /\ i + 1 # 0 /\ (i + 1) - 1 = i /\ f[i] = h[i]
      BY <2>3
    <3>2. QED
      BY <2>1, <3>1
  <2> HIDE DEF same
  <2>4. n \in same
    BY <2>2, <2>3, InductiveSet
  <2>5. QED
    BY <2>4 DEF same
<1>5. after[n] = g[n]
  BY <1>1, <1>3, <1>4
<1>6. QED
  BY <1>2, <1>5 DEF after, g

\* So a setting takes the text of the environment or, where that does not
\* have the key, of the first line, if it is usable.
LEMMA SettingIs ==
  ASSUME NEW s \in Sources
  PROVE  LET variable == IF s.environment # Unset THEN s.environment ELSE Line(s)
         IN  Setting(s) = IF Usable(s.kind, variable) THEN variable
                          ELSE LoadYAML(s.default, s.yaml)
<1> DEFINE variable == IF s.environment # Unset THEN s.environment ELSE Line(s)
<1>1. s.kind \in Kind /\ s.environment \in {Unset} \cup Text("environment")
  BY DEF Sources
<1>2. PICK n \in 0 .. MaxLines : s.dotenv \in [1 .. n -> Text("dotenv")]
  BY DEF Sources
<1>3. n \in Nat
  BY <1>2, MaxLinesAssumption
<1>4. Len(s.dotenv) = n /\ \A i \in 1 .. n : s.dotenv[i] # Unset
  <2>1. s.dotenv \in Seq(Text("dotenv")) /\ DOMAIN s.dotenv = 1 .. n
    BY <1>2, <1>3
  <2>2. Len(s.dotenv) = n
    BY <1>3, <2>1
  <2>3. \A i \in 1 .. n : s.dotenv[i] \in Text("dotenv")
    BY <1>2
  <2>4. Unset \notin Text("dotenv")
    BY DEF Text, Unset, Blank, Garbled, Hollow
  <2>5. QED
    BY <2>2, <2>3, <2>4
<1>5. Line(s) = IF n = 0 THEN Unset ELSE s.dotenv[1]
  <2>1. s.dotenv \in Seq(Text("dotenv"))
    BY <1>2, <1>3
  <2>2. s.dotenv = <<>> <=> n = 0
    BY <1>4, <2>1, EmptySeq
  <2>3. QED
    BY <2>2 DEF Line
<1>6. LoadEnvFile(s.environment, s.dotenv)
        = IF s.environment # Unset \/ n = 0 THEN s.environment ELSE s.dotenv[1]
  BY <1>3, <1>4, FirstLineCounts
<1>7. LoadEnvFile(s.environment, s.dotenv) = variable
  BY <1>5, <1>6
<1> HIDE DEF variable
<1>8. Setting(s) = IF Usable(s.kind, variable) THEN variable
                   ELSE LoadYAML(s.default, s.yaml)
  BY <1>1, <1>7 DEF Setting, LoadEnv, Usable
<1>9. QED
  BY <1>8 DEF variable

\* The primary's setting has its value.
LEMMA PrimaryIs ==
  ASSUME NEW kind \in Kind
  PROVE  Setting(Primary(kind)) = "primary"
<1>1. LoadEnvFile("primary", <<>>) = "primary"
  <2>1. Len(<<>>) = 0 /\ 1 .. 0 = {}
    OBVIOUS
  <2>2. "primary" # Unset
    BY DEF Unset
  <2>3. QED
    BY <2>1, <2>2, FirstLineCounts
<1>2. QED
  BY <1>1 DEF Setting, LoadEnv, Primary, Kind, Unset, Blank, Garbled

\* However many lines of .env name a key, its setting takes its value from the
\* highest source that gives a usable one, and the replica never uses a blank.
THEOREM SettingsRanked == FunctionsSpec => []SettingsAreRanked
<1>1. Checked => SettingsAreRanked
  <2> SUFFICES ASSUME Checked, Is("setting")
               PROVE  SettingsAreRanked
    BY DEF SettingsAreRanked
  <2> DEFINE s == input.setting
             line == IF s.environment = Unset THEN Line(s) ELSE Unset
             replica == ReplicaSetting(s, Primary(s.kind))
  <2>1. s \in Sources
    <3>1. input \in Inputs /\ "setting" \in DOMAIN input
      BY DEF Checked, Is
    <3>2. input \in [setting : Sources]
      BY <3>1 DEF Inputs
    <3>3. QED
      BY <3>2
  <2> HIDE DEF s
  <2>2. Setting(s) =
          LET variable == IF s.environment # Unset THEN s.environment ELSE Line(s)
          IN  IF Usable(s.kind, variable) THEN variable
              ELSE LoadYAML(s.default, s.yaml)
    BY <2>1, SettingIs
  <2>3. /\ Usable(s.kind, s.environment) => Setting(s) = s.environment
        /\ Usable(s.kind, line) => Setting(s) = line
        /\ s.environment = Unset /\ ~Usable(s.kind, line) =>
             Setting(s) = IF s.yaml # Unset THEN s.yaml ELSE s.default
    BY <2>2 DEF Usable, LoadYAML
  <2>4. Setting(s) # "primary"
    <3>1. /\ s.environment \in {Unset} \cup Text("environment")
          /\ s.yaml \in {Unset, Blank, Hollow, "yaml"} /\ s.default \in Defaults
      BY <2>1 DEF Sources
    <3>2. Line(s) \in {Unset} \cup Text("dotenv")
      <4>1. PICK n \in 0 .. MaxLines : s.dotenv \in [1 .. n -> Text("dotenv")]
        BY <2>1 DEF Sources
      <4>2. n \in Nat /\ s.dotenv \in Seq(Text("dotenv"))
        BY <4>1, MaxLinesAssumption
      <4>3. s.dotenv # <<>> => s.dotenv[1] \in Text("dotenv")
        BY <4>2, EmptySeq, LenProperties, ElementOfSeq
      <4>4. QED
        BY <4>3 DEF Line
    <3>3. QED
      BY <2>2, <3>1, <3>2
         DEF LoadYAML, Text, Defaults, Unset, Blank, Garbled, Hollow
  <2>5. Setting(Primary(s.kind)) = "primary"
    <3>1. s.kind \in Kind
      BY <2>1 DEF Sources
    <3>2. QED
      BY <3>1, PrimaryIs
  <2>6. /\ replica \notin {Blank, Hollow}
        /\ replica = "primary" <=> Setting(s) \in {Blank, Hollow}
    BY <2>4, <2>5 DEF ReplicaSetting, Fallback, Blank, Hollow
  <2>7. QED
    BY <2>3, <2>6 DEF SettingsAreRanked, s
<1>2. QED
  BY <1>1, CheckedInputs, PTL

-----------------------------------------------------------------------------
(* Questions and notices.                                                  *)

\* SELECT 1 in the place of a statement that was rejected never runs: it has
\* no merchant_id to be filtered by.
THEOREM RejectedUnanswered == FunctionsSpec => []RejectedIsNotAnswered
<1>1. ASSUME NEW q \in Question, q.llm, ~LooksReadOnly(q.written)
      PROVE  AskData(q) = "error"
  <2>1. Executed(GenerateSQL(q)).runs = FALSE
    BY <1>1 DEF Executed, GenerateSQL, EnforceReadOnly, EnforceMerchantScope, SelectOne
  <2>2. QED
    BY <2>1 DEF AskData
<1>2. Checked => RejectedIsNotAnswered
  <2> SUFFICES ASSUME Checked, Is("question")
               PROVE  input.question \in Question
    BY <1>1 DEF RejectedIsNotAnswered
  <2>1. input \in Inputs /\ "question" \in DOMAIN input
    BY DEF Checked, Is
  <2>2. input \in [question : Question]
    BY <2>1 DEF Inputs
  <2>3. QED
    BY <2>2
<1>3. QED
  BY <1>2, CheckedInputs, PTL

\* PayApp hears of payments only, and a payment is confirmed to the channel
\* only when PayApp took it.
THEOREM PaymentsOnly == FunctionsSpec => []OnlyPaymentsAreTaken
<1>1. Checked => OnlyPaymentsAreTaken
  <2> SUFFICES ASSUME Checked, Is("notice")
               PROVE  OnlyPaymentsAreTaken
    BY DEF OnlyPaymentsAreTaken
  <2> DEFINE n == input.notice
  <2>1. n \in Notice /\ input.taken \in BOOLEAN
    <3>1. input \in Inputs /\ "notice" \in DOMAIN input
      BY DEF Checked, Is
    <3>2. input \in [notice : Notice, taken : BOOLEAN]
      BY <3>1 DEF Inputs
    <3>3. QED
      BY <3>2
  <2> HIDE DEF n
  <2>2. n.channel \in {"wechat", "alipay"}
    BY <2>1 DEF Notice, WechatNotice, AlipayNotice
  <2> DEFINE paid == IF n.channel = "wechat"
                     THEN n.returnCode = "SUCCESS" /\ n.status = "SUCCESS"
                     ELSE n.status \in {"TRADE_SUCCESS", "TRADE_FINISHED"}
  <2>3. Processed(n) => paid
    BY <2>2 DEF Processed, Validated, ReportsPayment, WechatValidated
  <2>4. paid /\ AnswerTo(n, input.taken) = "success" => Processed(n) /\ input.taken
    <3>1. paid => ReportsPayment(n)
      BY <2>2 DEF ReportsPayment
    <3>2. AnswerTo(n, input.taken) = "success" =>
            Validated(n) /\ (ReportsPayment(n) => input.taken)
      BY DEF AnswerTo
    <3>3. QED
      BY <3>1, <3>2 DEF Processed
  <2>5. QED
    BY <2>3, <2>4 DEF OnlyPaymentsAreTaken, n
<1>2. QED
  BY <1>1, CheckedInputs, PTL
=============================================================================
