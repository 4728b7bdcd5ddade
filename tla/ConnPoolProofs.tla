--------------------------- MODULE ConnPoolProofs ---------------------------
(***************************************************************************)
(* Theorems about ConnPool for pools and numbers of requests of any size.  *)
(***************************************************************************)
EXTENDS ConnPool, FiniteSetTheorems, TLAPS

\* A request holds what its step says.
HeldAt(s) ==
  CASE s \in {"idle", "begin", "pay", "wait"} -> 0
    [] s \in {"save", "commit", "use"}         -> 1
    [] s = "insert"                            -> 2

HeldByStep ==
  /\ step \in [Requests -> CreatorSteps \cup OtherSteps]
  /\ held \in [Requests -> 0 .. 2]
  /\ \A r \in Creators : step[r] \in CreatorSteps
  /\ \A r \in Others : step[r] \in OtherSteps
  /\ \A r \in Requests : held[r] = HeldAt(step[r])

\* A request that moves, and takes or gives back what its steps differ in.
LEMMA HeldByStepMove ==
  ASSUME HeldByStep, NEW r \in Requests, NEW from, NEW to, Move(r, from, to),
         \/ UNCHANGED held /\ HeldAt(to) = HeldAt(from)
         \/ Take(r) /\ HeldAt(to) = HeldAt(from) + 1
         \/ GiveBack(r) /\ HeldAt(to) = HeldAt(from) - 1,
         HeldAt(to) \in 0 .. 2,
         r \in Creators => to \in CreatorSteps,
         r \in Others => to \in OtherSteps
  PROVE  HeldByStep'
<1>1. to \in CreatorSteps \cup OtherSteps
  BY DEF Requests
<1>2. held[r] = HeldAt(from) /\ HeldAt(from) \in 0 .. 2
  BY DEF HeldByStep, Move
<1>3. /\ step' = [step EXCEPT ![r] = to]
      /\ held' = [held EXCEPT ![r] = HeldAt(to)]
  BY <1>2 DEF HeldByStep, Move, Take, GiveBack
<1>4. QED
  BY <1>1, <1>3 DEF HeldByStep, Requests

\* What the steps of a request hold.
LEMMA HeldAtSteps ==
  /\ HeldAt("idle") = 0 /\ HeldAt("begin") = 0
  /\ HeldAt("pay") = 0 /\ HeldAt("wait") = 0
  /\ HeldAt("save") = 1 /\ HeldAt("commit") = 1 /\ HeldAt("use") = 1
  /\ HeldAt("insert") = 2
BY DEF HeldAt

LEMMA HeldByStepNext == HeldByStep /\ [Next]_vars => HeldByStep'
<1> SUFFICES ASSUME HeldByStep, [Next]_vars PROVE HeldByStep'
  OBVIOUS
<1>1. ASSUME NEW r \in Creators,
             Arrive(r) \/ Begin(r) \/ SaveBegin(r) \/ SaveEnd(r) \/ Commit(r)
             \/ GiveUp(r) \/ Pay(r) \/ PayFails(r)
      PROVE  HeldByStep'
  <2> r \in Requests /\ r \notin Others
    BY PoolAssumption DEF Requests
  <2>1. CASE Arrive(r)
    BY <2>1, HeldAtSteps, HeldByStepMove DEF Arrive, CreatorSteps
  <2>2. CASE Begin(r)
    BY <2>2, HeldAtSteps, HeldByStepMove DEF Begin, CreatorSteps
  <2>3. CASE SaveBegin(r)
    BY <2>3, HeldAtSteps, HeldByStepMove DEF SaveBegin, CreatorSteps
  <2>4. CASE SaveEnd(r)
    BY <2>4, HeldAtSteps, HeldByStepMove DEF SaveEnd, CreatorSteps
  <2>5. CASE Commit(r)
    <3>1. CASE Move(r, "commit", "pay")
      BY <2>5, <3>1, HeldAtSteps, HeldByStepMove DEF Commit, CreatorSteps
    <3>2. CASE Move(r, "commit", "idle")
      BY <2>5, <3>2, HeldAtSteps, HeldByStepMove DEF Commit, CreatorSteps
    <3>3. QED
      BY <2>5, <3>1, <3>2 DEF Commit
  <2>6. CASE GiveUp(r)
    BY <2>6, HeldAtSteps, HeldByStepMove DEF GiveUp, CreatorSteps
  <2>7. CASE Pay(r)
    BY <2>7, HeldAtSteps, HeldByStepMove DEF Pay, CreatorSteps
  <2>8. CASE PayFails(r)
    BY <2>8, HeldAtSteps, HeldByStepMove DEF PayFails, CreatorSteps
  <2>9. QED
    BY <1>1, <2>1, <2>2, <2>3, <2>4, <2>5, <2>6, <2>7, <2>8
<1>2. ASSUME NEW r \in Others, Ask(r)
      PROVE  HeldByStep'
  <2> r \in Requests /\ r \notin Creators
    BY PoolAssumption DEF Requests
  <2>1. QED
    BY <1>2, HeldAtSteps, HeldByStepMove DEF Ask, OtherSteps
<1>3. ASSUME NEW r \in Requests, Use(r) \/ Done(r)
      PROVE  HeldByStep'
  <2>1. CASE Use(r)
    BY <2>1, HeldAtSteps, HeldByStepMove DEF Use, CreatorSteps, OtherSteps
  <2>2. CASE Done(r)
    BY <2>2, HeldAtSteps, HeldByStepMove DEF Done, CreatorSteps, OtherSteps
  <2>3. QED
    BY <1>3, <2>1, <2>2
<1>4. CASE UNCHANGED vars
  BY <1>4 DEF vars, HeldByStep
<1>5. QED
  BY <1>1, <1>2, <1>3, <1>4 DEF Next

\* What requests hold follows from their steps, in every reachable state.
LEMMA HeldByStepInvariant == Spec => []HeldByStep
<1>1. Init => HeldByStep
  BY DEF Init, HeldByStep, HeldAt, CreatorSteps, OtherSteps, Requests
<1>2. QED
  BY <1>1, HeldByStepNext, PTL DEF Spec

\* The two sets whose sizes InUse adds are finite.
LEMMA HoldersAreFinite ==
  /\ IsFiniteSet({r \in Requests : held[r] >= 1})
  /\ IsFiniteSet({r \in Requests : held[r] = 2})
<1>1. IsFiniteSet(Requests)
  BY PoolAssumption, FS_Union DEF Requests
<1>2. /\ {r \in Requests : held[r] >= 1} \subseteq Requests
      /\ {r \in Requests : held[r] = 2} \subseteq Requests
  OBVIOUS
<1>3. QED
  BY <1>1, <1>2, FS_Subset

\* A connection that is taken is one more in use.
LEMMA TakeCounts ==
  ASSUME HeldByStep, HeldByStep', NEW q \in Requests, Take(q)
  PROVE  InUse' = InUse + 1
<1> DEFINE one == {r \in Requests : held[r] >= 1}
           two == {r \in Requests : held[r] = 2}
<1>1. InUse = Cardinality(one) + Cardinality(two)
      /\ InUse' = Cardinality(one') + Cardinality(two')
  BY DEF InUse
<1>2. IsFiniteSet(one) /\ IsFiniteSet(two)
      /\ Cardinality(one) \in Nat /\ Cardinality(two) \in Nat
  BY HoldersAreFinite, FS_CardinalityType
<1>3. held \in [Requests -> 0 .. 2] /\ held' \in [Requests -> 0 .. 2]
      /\ held' = [held EXCEPT ![q] = held[q] + 1]
  BY DEF HeldByStep, Take
<1>4. \/ q \notin one /\ one' = one \cup {q} /\ two' = two
      \/ q \notin two /\ two' = two \cup {q} /\ one' = one
  <2>1. CASE held[q] = 0
    BY <1>3, <2>1
  <2>2. CASE held[q] = 1
    BY <1>3, <2>2
  <2>3. held[q] \in {0, 1}
    BY <1>3
  <2>4. QED
    BY <2>1, <2>2, <2>3
<1> HIDE DEF one, two
<1>5. CASE q \notin one /\ one' = one \cup {q} /\ two' = two
  <2>1. Cardinality(one') = Cardinality(one) + 1
    BY <1>2, <1>5, FS_AddElement
  <2>2. QED
    BY <1>1, <1>2, <1>5, <2>1
<1>6. CASE q \notin two /\ two' = two \cup {q} /\ one' = one
  <2>1. Cardinality(two') = Cardinality(two) + 1
    BY <1>2, <1>6, FS_AddElement
  <2>2. QED
    BY <1>1, <1>2, <1>6, <2>1
<1>7. QED
  BY <1>4, <1>5, <1>6

\* One that is returned is one less.
LEMMA GiveBackCounts ==
  ASSUME HeldByStep, HeldByStep', NEW q \in Requests, GiveBack(q)
  PROVE  InUse' = InUse - 1
<1> DEFINE one == {r \in Requests : held[r] >= 1}
           two == {r \in Requests : held[r] = 2}
<1>1. InUse = Cardinality(one) + Cardinality(two)
      /\ InUse' = Cardinality(one') + Cardinality(two')
  BY DEF InUse
<1>2. IsFiniteSet(one) /\ IsFiniteSet(two)
      /\ Cardinality(one) \in Nat /\ Cardinality(two) \in Nat
  BY HoldersAreFinite, FS_CardinalityType
<1>3. held \in [Requests -> 0 .. 2] /\ held' \in [Requests -> 0 .. 2]
      /\ held' = [held EXCEPT ![q] = held[q] - 1]
  BY DEF HeldByStep, GiveBack
<1>4. \/ q \in one /\ one' = one \ {q} /\ two' = two
      \/ q \in two /\ two' = two \ {q} /\ one' = one
  <2>1. CASE held[q] = 1
    BY <1>3, <2>1
  <2>2. CASE held[q] = 2
    BY <1>3, <2>2
  <2>3. held[q] \in {1, 2}
    BY <1>3
  <2>4. QED
    BY <2>1, <2>2, <2>3
<1> HIDE DEF one, two
<1>5. CASE q \in one /\ one' = one \ {q} /\ two' = two
  <2>1. Cardinality(one') = Cardinality(one) - 1
    BY <1>2, <1>5, FS_RemoveElement
  <2>2. QED
    BY <1>1, <1>2, <1>5, <2>1
<1>6. CASE q \in two /\ two' = two \ {q} /\ one' = one
  <2>1. Cardinality(two') = Cardinality(two) - 1
    BY <1>2, <1>6, FS_RemoveElement
  <2>2. QED
    BY <1>1, <1>2, <1>6, <2>1
<1>7. QED
  BY <1>4, <1>5, <1>6

WithinPool == InUse <= MaxOpen

\* The pool never has more connections open than SetMaxOpenConns allows, and
\* a request never holds more than two of them.
THEOREM PoolTypeCorrect == Spec => []TypeOK
<1>1. Init => WithinPool
  <2> SUFFICES ASSUME Init
               PROVE  WithinPool
    OBVIOUS
  <2>1. /\ {r \in Requests : held[r] >= 1} = {}
        /\ {r \in Requests : held[r] = 2} = {}
    BY DEF Init
  <2>2. QED
    BY <2>1, FS_EmptySet, PoolAssumption DEF InUse, WithinPool
<1>2. WithinPool /\ HeldByStep /\ HeldByStep' /\ [Next]_vars => WithinPool'
  <2> SUFFICES ASSUME WithinPool, HeldByStep, HeldByStep', [Next]_vars
               PROVE  WithinPool'
    OBVIOUS
  <2>1. InUse \in Int
    BY HoldersAreFinite, FS_CardinalityType DEF InUse
  <2>2. ASSUME NEW r \in Requests, Take(r)
        PROVE  WithinPool'
    <3>1. InUse' = InUse + 1
      BY <2>2, TakeCounts
    <3>2. InUse < MaxOpen
      BY <2>2 DEF Take
    <3>3. QED
      BY <2>1, <3>1, <3>2, PoolAssumption DEF WithinPool
  <2>3. ASSUME NEW r \in Requests, GiveBack(r)
        PROVE  WithinPool'
    <3>1. InUse' = InUse - 1
      BY <2>3, GiveBackCounts
    <3>2. QED
      BY <2>1, <3>1, PoolAssumption DEF WithinPool
  <2>4. CASE UNCHANGED held
    BY <2>4 DEF InUse, WithinPool
  <2>5. QED
    BY <2>2, <2>3, <2>4 DEF Next, Requests, Arrive, Begin, SaveBegin, SaveEnd,
       Commit, GiveUp, Pay, PayFails, Ask, Use, Done, vars
<1>3. HeldByStep /\ WithinPool => TypeOK
  BY DEF HeldByStep, TypeOK, WithinPool
<1>4. QED
  BY <1>1, <1>2, <1>3, HeldByStepInvariant, PTL DEF Spec

\* When the pool is exhausted, either some request that holds a connection
\* goes on or every connection is held by a creation that waits for its second
\* one, for any number of creations and any size of the pool.  Requests hold
\* what their steps say (HeldByStep), so a holder that does not go on can only
\* be such a creation, and it holds one connection.
THEOREM JamsAreCreations == Spec => []OnlyCreationsJam
<1>1. HeldByStep => OnlyCreationsJam
  <2> SUFFICES ASSUME HeldByStep, InUse = MaxOpen, \A r \in Requests : ~Running(r)
               PROVE  Jammed
    BY DEF OnlyCreationsJam, NoCircularWait
  <2> DEFINE one == {r \in Requests : held[r] >= 1}
             two == {r \in Requests : held[r] = 2}
             jam == {r \in Creators : step[r] = "save"}
  <2>1. ASSUME NEW r \in Requests
        PROVE  /\ held[r] = 0 \/ (held[r] = 1 /\ step[r] = "save")
               /\ step[r] = "save" => held[r] = 1 /\ r \in Creators
    BY DEF HeldByStep, HeldAt, Running, CreatorSteps, OtherSteps, Requests
  <2>2. one = jam
    BY <2>1 DEF Requests
  <2>3. two = {}
    BY <2>1
  <2>4. /\ InUse = Cardinality(one) + Cardinality(two)
        /\ Cardinality(one) \in Nat
        /\ Cardinality(two) = 0
    BY <2>3, HoldersAreFinite, FS_CardinalityType, FS_EmptySet DEF InUse
  <2>5. QED
    BY <2>2, <2>4, PoolAssumption DEF Jammed
<1>2. QED
  BY <1>1, HeldByStepInvariant, PTL
=============================================================================
