------------------------- MODULE VectorStoreProofs -------------------------
(***************************************************************************)
(* What the vector store guarantees to whoever writes cases in order, for  *)
(* any number of servers, cases and results and any size of the memory:    *)
(* its memory stays sorted and bounded, a case is lost only to as many     *)
(* later ones as the memory holds, and a search always finds something.    *)
(* VectorStore has no steps of its own; RiskAppProofs shows that its steps *)
(* write the cases in order.                                               *)
(***************************************************************************)
EXTENDS VectorStore, FiniteSetTheorems, SequenceTheorems, TLAPS

USE StoreAssumption

\* A list of cases, newest first.
Sorted(cases) ==
  /\ cases \in Seq(Nat)
  /\ \A i, j \in 1 .. Len(cases) : i < j => cases[j] < cases[i]

StoreTypes ==
  /\ StoreTypeOK
  /\ memory \in [Servers -> Seq(Nat)]
  /\ milvus \subseteq Nat
  /\ learned \in [Servers -> SUBSET Nat]

StoreInv ==
  /\ StoreTypes
  /\ \A s \in Servers : Sorted(memory[s])
  /\ CaseIsKept

\* A case that is newer than everything the server has written or remembers.
IsNewest(s, case) == \A old \in learned[s] \cup ToSet(memory[s]) : old < case

-----------------------------------------------------------------------------
(* The list of cases.                                                      *)

\* The list that UpsertCase leaves: the case, then what was there, without
\* the last one when the list was full.
LEMMA NewestOfList ==
  ASSUME NEW cases \in Seq(Nat), Len(cases) \in 1 .. MemoryLimit,
         NEW case \in Nat
  PROVE  LET kept == Newest(<<case>> \o cases)
             full == Len(cases) = MemoryLimit
         IN  /\ kept \in Seq(Nat)
             /\ Len(kept) = IF full THEN MemoryLimit ELSE Len(cases) + 1
             /\ kept[1] = case
             /\ \A i \in 2 .. Len(kept) : kept[i] = cases[i - 1]
<1> DEFINE longer == <<case>> \o cases
           n == Len(cases)
<1>1. n \in Nat /\ n >= 1 /\ n <= MemoryLimit /\ MemoryLimit \in Nat
  BY LenProperties
<1>2. <<case>> \in Seq(Nat) /\ Len(<<case>>) = 1 /\ <<case>>[1] = case
  OBVIOUS
<1>3. /\ longer \in Seq(Nat) /\ Len(longer) = n + 1
      /\ \A i \in 1 .. 1 + n : longer[i] = IF i <= 1 THEN <<case>>[i] ELSE cases[i - 1]
  <2> HIDE DEF longer, n
  <2>1. longer \in Seq(Nat) /\ Len(longer) = 1 + n
        /\ \A i \in 1 .. 1 + n : longer[i] = IF i <= 1 THEN <<case>>[i] ELSE cases[i - 1]
    BY ONLY cases \in Seq(Nat), <1>2, ConcatProperties DEF longer, n
  <2>2. QED
    BY <1>1, <2>1
<1>4. longer[1] = case /\ \A i \in 2 .. n + 1 : longer[i] = cases[i - 1]
  BY <1>1, <1>2, <1>3
<1> DEFINE kept == Newest(longer)
           full == n = MemoryLimit
<1> HIDE DEF longer
<1>5. CASE full
  <2>1. kept = SubSeq(longer, 1, n)
    BY <1>1, <1>3, <1>5 DEF Newest
  <2>2. \A i \in 1 .. n : longer[i] \in Nat
    BY <1>1, <1>3, ElementOfSeq
  <2>3. /\ SubSeq(longer, 1, n) \in Seq(Nat)
        /\ Len(SubSeq(longer, 1, n)) = IF 1 <= n THEN n - 1 + 1 ELSE 0
        /\ \A i \in 1 .. n - 1 + 1 : SubSeq(longer, 1, n)[i] = longer[1 + i - 1]
    BY <1>1, <2>2, SubSeqProperties
  <2> HIDE DEF kept, n
  <2>4. n - 1 + 1 = n /\ \A i \in 1 .. n : 1 + i - 1 = i
    BY <1>1
  <2>5. kept \in Seq(Nat) /\ Len(kept) = n /\ \A i \in 1 .. n : kept[i] = longer[i]
    BY <1>1, <2>1, <2>3, <2>4
  <2>6. 1 \in 1 .. n /\ 2 .. n \subseteq 1 .. n /\ 2 .. n \subseteq 2 .. n + 1
    BY <1>1
  <2>7. kept[1] = case /\ \A i \in 2 .. n : kept[i] = cases[i - 1]
    BY <1>4, <2>5, <2>6
  <2>8. QED
    BY <1>5, <2>5, <2>7 DEF kept, longer, n
<1>6. CASE ~ full
  <2>1. kept = longer
    BY <1>1, <1>3, <1>6 DEF Newest
  <2> HIDE DEF kept, n
  <2>2. kept \in Seq(Nat) /\ Len(kept) = n + 1
        /\ kept[1] = case /\ \A i \in 2 .. n + 1 : kept[i] = cases[i - 1]
    BY <1>3, <1>4, <2>1
  <2>3. QED
    BY <1>6, <2>2 DEF kept, longer, n
<1>7. QED
  BY <1>5, <1>6

\* A newest case leaves the list sorted; at most the oldest case of a full
\* list is gone.
LEMMA NewestKeepsOrder ==
  ASSUME NEW cases, Sorted(cases), Len(cases) \in 1 .. MemoryLimit,
         NEW case \in Nat, \A old \in ToSet(cases) : old < case
  PROVE  LET kept == Newest(<<case>> \o cases)
         IN  /\ Sorted(kept)
             /\ Len(kept) \in 1 .. MemoryLimit
             /\ Len(cases) = MemoryLimit => Len(kept) = MemoryLimit
             /\ case \in ToSet(kept)
             /\ ToSet(kept) \subseteq {case} \cup ToSet(cases)
             /\ \A old \in ToSet(cases) \ ToSet(kept) :
                  /\ Len(kept) = MemoryLimit
                  /\ \A newer \in ToSet(kept) : old < newer
<1> DEFINE kept == Newest(<<case>> \o cases)
           n == Len(cases)
<1>1. /\ cases \in Seq(Nat) /\ n \in Nat /\ n >= 1 /\ n <= MemoryLimit
      /\ MemoryLimit \in Nat /\ DOMAIN cases = 1 .. n
      /\ \A i, j \in 1 .. n : i < j => cases[j] < cases[i]
      /\ \A i \in 1 .. n : cases[i] \in Nat
  BY LenProperties, ElementOfSeq DEF Sorted
<1>2. /\ kept \in Seq(Nat)
      /\ Len(kept) = IF n = MemoryLimit THEN MemoryLimit ELSE n + 1
      /\ kept[1] = case
      /\ \A i \in 2 .. Len(kept) : kept[i] = cases[i - 1]
  BY <1>1, NewestOfList
<1>3. \A i \in 1 .. n : cases[i] \in ToSet(cases)
  BY <1>1 DEF ToSet
<1> DEFINE m == Len(kept)
<1> HIDE DEF kept, n
<1>4. DOMAIN kept = 1 .. m
  BY <1>2, LenProperties
<1>5. /\ m \in Nat /\ m \in 1 .. MemoryLimit /\ n <= m /\ m <= n + 1
      /\ n = MemoryLimit => m = MemoryLimit
  <2> HIDE DEF m
  <2>1. QED
    BY <1>1, <1>2 DEF m
<1> HIDE DEF m
<1>6. \A i \in 2 .. m : i - 1 \in 1 .. n /\ kept[i] = cases[i - 1]
  BY <1>1, <1>2, <1>5 DEF m
<1>7. \A i \in 2 .. m : kept[i] < case
  BY <1>3, <1>6
<1>8. \A i \in 1 .. m : i = 1 \/ i \in 2 .. m
  BY <1>5
<1>9. Sorted(kept)
  <2> SUFFICES ASSUME NEW i \in 1 .. m, NEW j \in 1 .. m, i < j
               PROVE  kept[j] < kept[i]
    BY <1>2 DEF Sorted, m
  <2>1. j \in 2 .. m
    BY <1>5
  <2>2. CASE i = 1
    BY <1>2, <1>7, <2>1, <2>2
  <2>3. CASE i \in 2 .. m
    <3>1. i - 1 < j - 1 /\ i - 1 \in 1 .. n /\ j - 1 \in 1 .. n
      BY <1>6, <2>1, <2>3
    <3>2. cases[j - 1] < cases[i - 1]
      BY <1>1, <3>1
    <3>3. QED
      BY <1>6, <2>1, <2>3, <3>2
  <2>4. QED
    BY <1>8, <2>2, <2>3
<1>10. case \in ToSet(kept)
  <2>1. 1 \in DOMAIN kept /\ kept[1] = case
    BY <1>2, <1>4, <1>5
  <2>2. QED
    BY <2>1 DEF ToSet
<1>11. ASSUME NEW c \in ToSet(kept)
      PROVE  c \in {case} \cup ToSet(cases)
  <2>1. PICK i \in 1 .. m : c = kept[i]
    BY <1>4, <1>11 DEF ToSet
  <2>2. QED
    BY <1>2, <1>3, <1>6, <1>8, <2>1
<1>12. ASSUME NEW old \in ToSet(cases), old \notin ToSet(kept)
      PROVE  m = MemoryLimit /\ \A newer \in ToSet(kept) : old < newer
  <2>1. PICK k \in 1 .. n : old = cases[k]
    BY <1>1 DEF ToSet
  <2>2. k + 1 \notin 2 .. m
    <3> SUFFICES ASSUME k + 1 \in 2 .. m
                 PROVE  FALSE
      OBVIOUS
    <3>1. kept[k + 1] = cases[(k + 1) - 1] /\ (k + 1) - 1 = k
      BY <1>1, <1>6
    <3>2. k + 1 \in DOMAIN kept
      BY <1>4, <1>5
    <3>3. QED
      BY <1>12, <2>1, <3>1, <3>2 DEF ToSet
  <2>3. k = n /\ m = n
    BY <1>1, <1>5, <2>2
  <2>4. m = MemoryLimit
    BY <1>1, <1>2, <2>3 DEF m
  <2>5. ASSUME NEW newer \in ToSet(kept)
        PROVE  old < newer
    <3>1. PICK i \in 1 .. m : newer = kept[i]
      BY <1>4, <2>5 DEF ToSet
    <3>2. CASE i = 1
      BY <1>2, <3>1, <3>2
    <3>3. CASE i \in 2 .. m
      <4>1. i - 1 \in 1 .. n /\ i - 1 < n /\ n \in 1 .. n
        BY <1>1, <2>3, <3>3
      <4>2. cases[n] < cases[i - 1]
        BY <1>1, <4>1
      <4>3. QED
        BY <1>6, <2>1, <2>3, <3>1, <3>3, <4>2
    <3>4. QED
      BY <1>8, <3>1, <3>2, <3>3
  <2>6. QED
    BY <2>4, <2>5
<1>13. QED
  BY <1>5, <1>9, <1>10, <1>11, <1>12 DEF kept, m, n

-----------------------------------------------------------------------------
(* The store.                                                              *)

LEMMA StoreInvInit == StoreInit => StoreInv
<1> SUFFICES ASSUME StoreInit
             PROVE  StoreInv
  OBVIOUS
<1>1. <<Sample>> \in Seq(Nat) /\ Len(<<Sample>>) = 1
  BY DEF Sample
<1>2. StoreTypes
  BY <1>1 DEF StoreInit, StoreTypes, StoreTypeOK
<1>3. \A s \in Servers : Sorted(memory[s])
  BY <1>1 DEF StoreInit, Sorted
<1>4. CaseIsKept
  BY DEF StoreInit, CaseIsKept
<1>5. QED
  BY <1>2, <1>3, <1>4 DEF StoreInv

\* A server that starts or stops begins again with the sample cases.
LEMMA ForgetKeepsStore ==
  ASSUME StoreInv, NEW s \in Servers, NewVectorStore(s) \/ CloseStore(s)
  PROVE  /\ StoreInv'
         /\ memory' = [memory EXCEPT ![s] = <<Sample>>]
         /\ learned' = [learned EXCEPT ![s] = {}]
         /\ UNCHANGED milvus
<1>1. /\ memory' = [memory EXCEPT ![s] = <<Sample>>]
      /\ learned' = [learned EXCEPT ![s] = {}]
      /\ UNCHANGED milvus
      /\ \E k \in {"memory", "milvus"} : kind' = [kind EXCEPT ![s] = k]
  BY DEF NewVectorStore, CloseStore, Forget
<1>2. <<Sample>> \in Seq(Nat) /\ Len(<<Sample>>) = 1
  BY DEF Sample
<1>3. /\ memory \in [Servers -> Seq(Nat)] /\ learned \in [Servers -> SUBSET Nat]
      /\ kind \in [Servers -> {"memory", "milvus"}]
      /\ \A t \in Servers : Len(memory[t]) \in 1 .. MemoryLimit
  BY DEF StoreInv, StoreTypes, StoreTypeOK
<1>4. \A t \in Servers :
        \/ memory'[t] = memory[t] /\ learned'[t] = learned[t]
        \/ memory'[t] = <<Sample>> /\ learned'[t] = {}
  BY <1>1, <1>3
<1>5. StoreTypes'
  <2>1. memory' \in [Servers -> Seq(Nat)] /\ learned' \in [Servers -> SUBSET Nat]
        /\ kind' \in [Servers -> {"memory", "milvus"}]
    BY <1>1, <1>2, <1>3
  <2>2. ASSUME NEW t \in Servers
        PROVE  Len(memory'[t]) \in 1 .. MemoryLimit
    <3>1. 1 \in 1 .. MemoryLimit
      OBVIOUS
    <3>2. Len(memory'[t]) = Len(memory[t]) \/ Len(memory'[t]) = 1
      BY <1>2, <1>4
    <3>3. QED
      BY <1>3, <3>1, <3>2
  <2>3. QED
    BY <1>1, <2>1, <2>2 DEF StoreInv, StoreTypes, StoreTypeOK
<1>6. ASSUME NEW t \in Servers
      PROVE  Sorted(memory[t])'
  <2>1. CASE memory'[t] = memory[t]
    BY <2>1 DEF StoreInv, Sorted
  <2>2. CASE memory'[t] = <<Sample>>
    <3>1. memory'[t] \in Seq(Nat) /\ Len(memory'[t]) = 1
      BY <1>2, <2>2
    <3>2. \A i, j \in 1 .. 1 : ~ (i < j)
      OBVIOUS
    <3>3. QED
      BY <3>1, <3>2 DEF Sorted
  <2>3. QED
    BY <1>4, <2>1, <2>2
<1>7. CaseIsKept'
  BY <1>1, <1>4 DEF StoreInv, CaseIsKept
<1>8. QED
  BY <1>1, <1>5, <1>6, <1>7 DEF StoreInv

\* What a server writes when the case is its newest: the case is kept, and of
\* the earlier ones at most the oldest of a full memory is gone from there.
LEMMA UpsertKeepsStore ==
  ASSUME StoreInv, NEW s \in Servers, NEW case \in Nat \ {Sample},
         IsNewest(s, case), UpsertCase(s, case)
  PROVE  /\ StoreInv'
         /\ learned' = [learned EXCEPT ![s] = @ \cup {case}]
         /\ milvus' \in {milvus, milvus \cup {case}}
         /\ ToSet(memory'[s]) \subseteq ToSet(memory[s]) \cup {case}
         /\ \A t \in Servers \ {s} : memory'[t] = memory[t]
<1>1. /\ memory \in [Servers -> Seq(Nat)] /\ learned \in [Servers -> SUBSET Nat]
      /\ kind \in [Servers -> {"memory", "milvus"}]
      /\ milvus \subseteq Nat /\ Sample \notin milvus
      /\ \A t \in Servers : Len(memory[t]) \in 1 .. MemoryLimit /\ Sorted(memory[t])
  BY DEF StoreInv, StoreTypes, StoreTypeOK
<1> DEFINE kept == Newest(<<case>> \o memory[s])
<1>2. /\ Sorted(kept)
      /\ Len(kept) \in 1 .. MemoryLimit
      /\ Len(memory[s]) = MemoryLimit => Len(kept) = MemoryLimit
      /\ case \in ToSet(kept)
      /\ ToSet(kept) \subseteq {case} \cup ToSet(memory[s])
      /\ \A old \in ToSet(memory[s]) \ ToSet(kept) :
           /\ Len(kept) = MemoryLimit
           /\ \A newer \in ToSet(kept) : old < newer
  BY <1>1, NewestKeepsOrder DEF IsNewest
<1>3. /\ \/ memory' = memory /\ milvus' = milvus \cup {case}
         \/ /\ memory' = [memory EXCEPT ![s] = kept]
            /\ milvus' \in {milvus, milvus \cup {case}}
      /\ learned' = [learned EXCEPT ![s] = @ \cup {case}]
      /\ UNCHANGED kind
  BY DEF UpsertCase, Remember
<1> HIDE DEF kept
<1>4. /\ \A t \in Servers \ {s} : memory'[t] = memory[t] /\ learned'[t] = learned[t]
      /\ learned'[s] = learned[s] \cup {case}
      /\ \/ memory'[s] = memory[s] /\ milvus' = milvus \cup {case}
         \/ memory'[s] = kept
      /\ milvus \subseteq milvus' /\ milvus' \in {milvus, milvus \cup {case}}
  BY <1>1, <1>3
<1>5. StoreTypes'
  <2>1. kept \in Seq(Nat)
    BY <1>2 DEF Sorted
  <2>2. memory' \in [Servers -> Seq(Nat)] /\ learned' \in [Servers -> SUBSET Nat]
    BY <1>1, <1>3, <2>1
  <2>3. \A t \in Servers : Len(memory'[t]) \in 1 .. MemoryLimit
    BY <1>1, <1>2, <1>4
  <2>4. milvus' \subseteq Nat /\ Sample \notin milvus'
    BY <1>1, <1>4
  <2>5. QED
    BY <1>1, <1>3, <2>2, <2>3, <2>4 DEF StoreTypes, StoreTypeOK
<1>6. ASSUME NEW t \in Servers
      PROVE  Sorted(memory[t])'
  <2>1. CASE memory'[t] = memory[t]
    BY <1>1, <2>1 DEF Sorted
  <2>2. CASE memory'[t] = kept
    BY <1>2, <2>2 DEF Sorted
  <2>3. QED
    BY <1>4, <2>1, <2>2
<1>7. ASSUME NEW t \in Servers, NEW c \in learned'[t]
      PROVE  \/ c \in milvus'
             \/ c \in ToSet(memory'[t])
             \/ /\ Len(memory'[t]) = MemoryLimit
                /\ \A newer \in ToSet(memory'[t]) : newer > c
  <2>1. CASE t # s
    BY <1>4, <1>7, <2>1 DEF StoreInv, CaseIsKept
  <2>2. CASE t = s /\ memory'[s] = memory[s] /\ milvus' = milvus \cup {case}
    BY <1>4, <1>7, <2>2 DEF StoreInv, CaseIsKept
  <2>3. CASE t = s /\ memory'[s] = kept
    <3>1. c = case \/ c \in learned[s]
      BY <1>4, <1>7, <2>3
    <3>2. CASE c = case
      BY <1>2, <2>3, <3>2
    <3>3. CASE c \in learned[s]
      <4>1. c \in Nat /\ c < case
        BY <1>1, <3>3 DEF IsNewest
      <4>2. \/ c \in milvus
            \/ c \in ToSet(memory[s])
            \/ /\ Len(memory[s]) = MemoryLimit
               /\ \A newer \in ToSet(memory[s]) : newer > c
        BY <3>3 DEF StoreInv, CaseIsKept
      <4>3. CASE c \in ToSet(memory[s])
        <5>1. CASE c \in ToSet(kept)
          BY <2>3, <5>1
        <5>2. CASE c \notin ToSet(kept)
          <6>1. /\ Len(kept) = MemoryLimit
                /\ \A newer \in ToSet(kept) : c < newer
            BY <1>2, <4>3, <5>2
          <6>2. \A newer \in ToSet(kept) : newer > c
            BY <6>1
          <6>3. QED
            BY <2>3, <6>1, <6>2
        <5>3. QED
          BY <5>1, <5>2
      <4>4. CASE /\ Len(memory[s]) = MemoryLimit
                 /\ \A newer \in ToSet(memory[s]) : newer > c
        <5>1. Len(kept) = MemoryLimit /\ \A newer \in ToSet(kept) : newer > c
          BY <1>2, <4>1, <4>4
        <5>2. QED
          BY <2>3, <5>1
      <4>5. QED
        BY <1>4, <4>2, <4>3, <4>4
    <3>4. QED
      BY <3>1, <3>2, <3>3
  <2>4. QED
    BY <1>4, <2>1, <2>2, <2>3
<1>8. CaseIsKept'
  BY <1>7 DEF CaseIsKept
<1>9. ToSet(memory'[s]) \subseteq ToSet(memory[s]) \cup {case}
  BY <1>2, <1>4
<1>10. QED
  BY <1>3, <1>4, <1>5, <1>6, <1>8, <1>9 DEF StoreInv

\* A search always finds a case, of Milvus or of the server's memory: the
\* memory is never empty, and an empty answer of Milvus is not used.
LEMMA MatchesAreCases ==
  ASSUME StoreInv, NEW s \in Servers, NEW cases \in Matches(s)
  PROVE  cases # {} /\ cases \subseteq milvus \cup ToSet(memory[s])
<1>1. CASE cases \in MemoryMatches(s)
  <2>1. /\ cases \subseteq ToSet(memory[s])
        /\ Cardinality(cases) = IF Len(memory[s]) < TopK THEN Len(memory[s]) ELSE TopK
    BY <1>1 DEF MemoryMatches
  <2>2. Len(memory[s]) \in 1 .. MemoryLimit
    BY DEF StoreInv, StoreTypes, StoreTypeOK
  <2>3. Cardinality(cases) # 0
    BY <2>1, <2>2
  <2>4. QED
    BY <2>1, <2>3, FS_EmptySet
<1>2. CASE cases \in MilvusMatches \ {{}}
  BY <1>2 DEF MilvusMatches
<1>3. QED
  BY <1>1, <1>2 DEF Matches
=============================================================================
