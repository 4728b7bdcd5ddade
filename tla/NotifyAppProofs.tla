-------------------------- MODULE NotifyAppProofs --------------------------
(***************************************************************************)
(* Theorems about NotifyApp, for any number of servers and entries, any    *)
(* batch size, and with or without the pending scan: what the consumers    *)
(* keep of the abstract consumer group.  The inductive invariant adds to   *)
(* the types what a consumer's batch says at each of its steps.            *)
(***************************************************************************)
EXTENDS NotifyApp, FiniteSetTheorems, SequenceTheorems, TLAPS

USE ConstantsAssumption

\* A consumer that waits has no batch.  While it sends, its hand holds the
\* part of the batch that it has not sent, and afterwards nothing.
HandIsRest ==
  \A s \in Servers :
    /\ hand[s] \subseteq batch[s]
    /\ pc[s] \in {"down", "wait"} => batch[s] = {}
    /\ pc[s] = "send" => hand[s] # {}
    /\ pc[s] # "send" => hand[s] = {}

\* What a consumer no longer has in hand it has sent.
SentIsPosted ==
  \A s \in Servers : \A id \in batch[s] \ hand[s] : posts[id] > 0

Inv == /\ TypeOK
       /\ HandIsRest
       /\ SentIsPosted
       /\ BatchesAreDisjoint
       /\ AcknowledgedWasPosted

-----------------------------------------------------------------------------
(* Facts about the operators.                                              *)

\* XADD keeps the stream and its counters sequences of one length, leaves
\* what was there alone, and starts the counters of what it adds at zero.
LEMMA XAddTypes ==
  ASSUME NEW order \in Orders, NEW due \in BOOLEAN, NEW n \in Nat, TypeOK,
         XAdd(order, due, n)
  PROVE  /\ stream' \in Seq(Entry)
         /\ posts' \in Seq(Nat)
         /\ Len(stream') = Len(stream) + n /\ Len(posts') = Len(stream')
         /\ \A id \in Entries : posts'[id] = posts[id]
         /\ \A id \in Len(stream) + 1 .. Len(stream') : posts'[id] = 0
<1> DEFINE new == [order |-> order, due |-> due]
           entries == [i \in 1 .. n |-> new]
           zeros == [i \in 1 .. n |-> 0]
<1>1. entries \in Seq(Entry) /\ Len(entries) = n
  <2>1. new \in Entry
    BY DEF Entry
  <2> HIDE DEF new
  <2>2. QED
    BY <2>1, IsASeq
<1>2. zeros \in Seq(Nat) /\ Len(zeros) = n
  BY IsASeq
<1>3. stream \in Seq(Entry) /\ posts \in Seq(Nat) /\ Len(posts) = Len(stream)
  BY DEF TypeOK
<1>4. stream' = stream \o entries /\ posts' = posts \o zeros
  BY DEF XAdd
<1>5. \A i \in 1 .. n : zeros[i] = 0
  OBVIOUS
<1> HIDE DEF entries, zeros
<1>6. stream' \in Seq(Entry) /\ Len(stream') = Len(stream) + n
  BY <1>1, <1>3, <1>4, ConcatProperties
<1>7. /\ posts' \in Seq(Nat) /\ Len(posts') = Len(posts) + n
      /\ \A i \in 1 .. Len(posts) + n :
           posts'[i] = IF i <= Len(posts) THEN posts[i] ELSE zeros[i - Len(posts)]
  <2>1. posts \in Seq(Nat) /\ zeros \in Seq(Nat) /\ Len(zeros) = n
        /\ posts' = posts \o zeros
    BY <1>2, <1>3, <1>4
  <2>2. QED
    BY ONLY <2>1, ConcatProperties
<1>8. Len(posts) \in Nat /\ Len(stream) = Len(posts)
  BY <1>3, LenProperties
<1>9. ASSUME NEW id \in Entries
      PROVE  posts'[id] = posts[id]
  <2>1. id \in 1 .. Len(posts) + n /\ id <= Len(posts)
    BY <1>8 DEF Entries
  <2>2. QED
    BY <2>1, <1>7
<1>10. \A id \in Len(stream) + 1 .. Len(stream') : posts'[id] = 0
  <2> SUFFICES ASSUME NEW id \in Len(posts) + 1 .. Len(posts) + n
               PROVE  posts'[id] = 0
    BY <1>6, <1>8
  <2>1. id \in 1 .. Len(posts) + n /\ ~ (id <= Len(posts))
        /\ id - Len(posts) \in 1 .. n
    BY <1>8
  <2>2. QED
    BY <2>1, <1>5, <1>7
<1>11. QED
  BY <1>3, <1>6, <1>7, <1>9, <1>10

\* The head of a batch is one of its entries: of the intervals 0 .. i that end
\* in the batch one contains no other.
LEMMA FirstIsMember ==
  ASSUME NEW ids, ids \subseteq Nat, ids # {}
  PROVE  First(ids) \in ids
<1> DEFINE intervals == {0 .. i : i \in ids}
<1>1. intervals \subseteq FiniteSubsetsOf(Nat) /\ intervals # {}
  <2>1. ASSUME NEW i \in ids
        PROVE  0 .. i \in FiniteSubsetsOf(Nat)
    <3>1. IsFiniteSet(0 .. i)
      BY FS_Interval
    <3>2. QED
      BY <3>1 DEF FiniteSubsetsOf
  <2>2. QED
    BY <2>1
<1>2. IsWellFoundedOn(StrictSubsetOrdering(Nat), FiniteSubsetsOf(Nat))
  BY FS_StrictSubsetOrderingWellFounded
<1>3. \E X \in intervals : \A Y \in intervals :
        ~ (<<Y, X>> \in StrictSubsetOrdering(Nat))
  <2> HIDE DEF intervals
  <2>1. QED
    BY <1>1, <1>2, WFMin
<1>4. PICK i \in ids : \A j \in ids :
        ~ (<<0 .. j, 0 .. i>> \in StrictSubsetOrdering(Nat))
  BY <1>3
<1>5. ASSUME NEW j \in ids
      PROVE  i <= j
  <2>1. CASE j < i
    <3>1. 0 .. j \subseteq 0 .. i /\ i \in 0 .. i /\ i \notin 0 .. j
      BY <2>1
    <3>2. 0 .. j \in SUBSET Nat /\ 0 .. i \in SUBSET Nat
      OBVIOUS
    <3>3. <<0 .. j, 0 .. i>> \in StrictSubsetOrdering(Nat)
      BY <3>1, <3>2 DEF StrictSubsetOrdering
    <3>4. QED
      BY <1>4, <3>3
  <2>2. QED
    BY <2>1
<1>6. QED
  BY <1>5 DEF First

\* A read takes an interval of the stream that begins after the cursor.
LEMMA BatchIsNext ==
  ASSUME TypeOK, NextBatch # {}
  PROVE  /\ cursor + Cardinality(NextBatch) \in cursor + 1 .. Len(stream)
         /\ NextBatch = cursor + 1 .. cursor + Cardinality(NextBatch)
<1> DEFINE last == IF Len(stream) <= cursor + BatchSize THEN Len(stream)
                   ELSE cursor + BatchSize
<1>1. Len(stream) \in Nat /\ cursor \in Nat /\ cursor <= Len(stream)
  BY LenProperties DEF TypeOK
<1>2. NextBatch = cursor + 1 .. last
  BY <1>1 DEF NextBatch, Entries
<1>3. cursor < last /\ last <= Len(stream) /\ last \in Nat
  BY <1>1, <1>2
<1> HIDE DEF last
<1>4. Cardinality(NextBatch) = last - cursor
  <2>1. Cardinality(cursor + 1 .. last)
          = IF cursor + 1 > last THEN 0 ELSE last - (cursor + 1) + 1
    BY <1>1, <1>3, FS_Interval
  <2>2. QED
    BY <1>1, <1>2, <1>3, <2>1
<1>5. QED
  BY <1>1, <1>2, <1>3, <1>4

-----------------------------------------------------------------------------
(* Inv is inductive: one lemma for each action.                            *)

\* What every action below needs of the types.
LEMMA Positions ==
  ASSUME TypeOK
  PROVE  /\ Len(stream) \in Nat /\ Len(posts) = Len(stream)
         /\ cursor \in Nat /\ cursor <= Len(stream)
         /\ \A id \in Entries : posts[id] \in Nat /\ stream[id] \in Entry
         /\ \A id \in 1 .. cursor : id \in Entries
         /\ DOMAIN posts = Entries /\ DOMAIN stream = Entries
BY LenProperties, ElementOfSeq DEF TypeOK, Entries

LEMMA InvInit == Init => Inv
<1> SUFFICES ASSUME Init
             PROVE  Inv
  OBVIOUS
<1>1. TypeOK
  <2>1. <<>> \in Seq(Entry) /\ <<>> \in Seq(Nat) /\ Len(<<>>) = 0
    BY EmptySeq
  <2>2. stream \in Seq(Entry) /\ posts \in Seq(Nat) /\ Len(posts) = Len(stream)
        /\ Len(stream) = 0
    BY <2>1 DEF Init
  <2>3. cursor \in 0 .. Len(stream)
    BY <2>2 DEF Init
  <2>4. QED
    BY <2>2, <2>3 DEF Init, TypeOK
<1>2. HandIsRest /\ SentIsPosted /\ BatchesAreDisjoint
  BY DEF Init, HandIsRest, SentIsPosted, BatchesAreDisjoint
<1>3. AcknowledgedWasPosted
  BY DEF Init, AcknowledgedWasPosted
<1>4. QED
  BY <1>1, <1>2, <1>3 DEF Inv

\* A publication adds entries after the cursor, where Inv says nothing.
LEMMA XAddStep ==
  ASSUME Inv, NEW order \in Orders, NEW due \in BOOLEAN, NEW n \in Nat,
         XAdd(order, due, n),
         UNCHANGED <<group, cursor, pel, consumer, todo, received>>
  PROVE  Inv'
<1>1. /\ stream' \in Seq(Entry)
      /\ posts' \in Seq(Nat)
      /\ Len(stream') = Len(stream) + n /\ Len(posts') = Len(stream')
      /\ \A id \in Entries : posts'[id] = posts[id]
  BY XAddTypes DEF Inv
<1>2. TypeOK'
  <2>1. cursor \in 0 .. Len(stream')
    BY <1>1, Positions DEF Inv
  <2>2. QED
    BY <1>1, <2>1 DEF Inv, TypeOK, consumer
<1>3. \A id \in 1 .. cursor : posts'[id] = posts[id]
  BY <1>1, Positions DEF Inv
<1>4. HandIsRest' /\ BatchesAreDisjoint'
  BY DEF Inv, HandIsRest, BatchesAreDisjoint, consumer
<1>5. SentIsPosted'
  BY <1>3 DEF Inv, TypeOK, SentIsPosted, consumer
<1>6. AcknowledgedWasPosted'
  BY <1>3 DEF Inv, AcknowledgedWasPosted
<1>7. QED
  BY <1>2, <1>4, <1>5, <1>6 DEF Inv

LEMMA StartStep ==
  ASSUME Inv, NEW s \in Servers, Start(s)
  PROVE  Inv'
<1>1. TypeOK'
  BY DEF Inv, TypeOK, Start, merchant
<1>2. HandIsRest'
  BY DEF Inv, TypeOK, HandIsRest, Start
<1>3. SentIsPosted' /\ BatchesAreDisjoint' /\ AcknowledgedWasPosted'
  BY DEF Inv, SentIsPosted, BatchesAreDisjoint, AcknowledgedWasPosted, Start,
         merchant
<1>4. QED
  BY <1>1, <1>2, <1>3 DEF Inv

\* A stop forgets the batch, and leaves its entries pending.
LEMMA StopStep ==
  ASSUME Inv, NEW s \in Servers, Stop(s)
  PROVE  Inv'
<1>1. TypeOK'
  BY DEF Inv, TypeOK, Stop, redis, merchant
<1>2. HandIsRest'
  BY DEF Inv, TypeOK, HandIsRest, Stop
<1>3. SentIsPosted' /\ BatchesAreDisjoint'
  BY DEF Inv, TypeOK, SentIsPosted, BatchesAreDisjoint, Stop, merchant
<1>4. AcknowledgedWasPosted'
  BY DEF Inv, AcknowledgedWasPosted, Stop, redis, merchant
<1>5. QED
  BY <1>1, <1>2, <1>3, <1>4 DEF Inv

\* A read takes entries that nobody has, whether or not its reply arrives.
LEMMA ConsumeStep ==
  ASSUME Inv, NEW s \in Servers, Consume(s)
  PROVE  Inv'
<1> DEFINE end == cursor + Cardinality(NextBatch)
<1>1. end \in cursor + 1 .. Len(stream) /\ NextBatch = cursor + 1 .. end
  BY BatchIsNext DEF Inv, Consume
<1>2. cursor' = end /\ pel' = pel \cup NextBatch
  BY DEF Consume
<1> HIDE DEF end
<1>3. /\ 1 .. cursor \subseteq 1 .. cursor' /\ NextBatch \subseteq 1 .. cursor'
      /\ (1 .. cursor') \ NextBatch \subseteq 1 .. cursor
      /\ NextBatch \cap (1 .. cursor) = {}
      /\ cursor' \in 0 .. Len(stream)
  BY <1>1, <1>2, Positions DEF Inv
<1>4. \/ UNCHANGED consumer
      \/ /\ hand' = [hand EXCEPT ![s] = NextBatch]
         /\ batch' = [batch EXCEPT ![s] = NextBatch]
         /\ pc' = [pc EXCEPT ![s] = "send"]
  BY DEF Consume, TakeInHand
<1>5. UNCHANGED <<stream, group, todo, posts, received>> /\ NextBatch # {}
  BY DEF Consume, merchant
<1>6. TypeOK'
  <2>1. pel' \subseteq 1 .. cursor' /\ received' \subseteq 1 .. cursor'
        /\ todo' \in [Servers -> SUBSET (1 .. cursor')]
    BY <1>2, <1>3, <1>5 DEF Inv, TypeOK
  <2>2. /\ pc' \in [Servers -> {"down", "wait", "send", "ack"}]
        /\ hand' \in [Servers -> SUBSET (1 .. cursor')]
        /\ batch' \in [Servers -> SUBSET (1 .. cursor')]
    BY <1>3, <1>4 DEF Inv, TypeOK, consumer
  <2>3. QED
    BY <1>3, <1>5, <2>1, <2>2 DEF Inv, TypeOK
<1>7. HandIsRest'
  BY <1>4, <1>5 DEF Inv, TypeOK, HandIsRest, consumer
<1>8. SentIsPosted'
  <2>1. \A t \in Servers : (batch[t] \ hand[t])' \subseteq batch[t] \ hand[t]
    BY <1>4 DEF Inv, TypeOK, consumer
  <2>2. QED
    BY <1>5, <2>1 DEF Inv, SentIsPosted
<1>9. BatchesAreDisjoint'
  BY <1>3, <1>4 DEF Inv, TypeOK, BatchesAreDisjoint, consumer
<1>10. AcknowledgedWasPosted'
  BY <1>2, <1>3, <1>5 DEF Inv, AcknowledgedWasPosted
<1>11. QED
  BY <1>6, <1>7, <1>8, <1>9, <1>10 DEF Inv

\* A POST changes one counter, and the merchant may take the entry.
LEMMA PostTypes ==
  ASSUME TypeOK, NEW id \in 1 .. cursor, Post(id)
  PROVE  /\ posts' \in Seq(Nat) /\ Len(posts') = Len(posts)
         /\ posts'[id] > 0
         /\ \A i \in Entries : posts[i] > 0 => posts'[i] > 0
         /\ \A i \in Entries : i # id => posts'[i] = posts[i]
         /\ received' \subseteq 1 .. cursor
<1>1. /\ id \in Entries /\ DOMAIN posts = Entries
      /\ \A i \in Entries : posts[i] \in Nat
      /\ posts \in Seq(Nat) /\ Entries = 1 .. Len(posts)
  BY Positions DEF TypeOK, Entries
<1>2. posts' = [posts EXCEPT ![id] = posts[id] + 1]
  BY DEF Post
<1>3. posts' \in Seq(Nat) /\ Len(posts') = Len(posts)
  BY <1>1, <1>2, ExceptSeq
<1>4. \A i \in Entries : posts'[i] = IF i = id THEN posts[i] + 1 ELSE posts[i]
  BY <1>1, <1>2
<1>5. received' \subseteq 1 .. cursor
  BY DEF Post, TypeOK
<1>6. posts'[id] = posts[id] + 1 /\ posts'[id] > 0
  BY <1>1, <1>4
<1>7. \A i \in Entries : posts[i] > 0 => posts'[i] > 0
  BY <1>1, <1>4, <1>6
<1>8. \A i \in Entries : i # id => posts'[i] = posts[i]
  BY <1>4
<1>9. QED
  BY <1>3, <1>5, <1>6, <1>7, <1>8

LEMMA SendStep ==
  ASSUME Inv, NEW s \in Servers, Send(s)
  PROVE  Inv'
<1> DEFINE id == First(hand[s])
<1>1. id \in hand[s] /\ hand[s] \subseteq 1 .. cursor /\ id \in Entries
  <2>1. hand[s] \subseteq 1 .. cursor /\ hand[s] # {}
    BY DEF Inv, TypeOK, HandIsRest, Send
  <2>2. hand[s] \subseteq Nat
    BY <2>1
  <2>3. id \in hand[s]
    BY <2>1, <2>2, FirstIsMember
  <2>4. QED
    BY <2>1, <2>3, Positions DEF Inv
<1>2. /\ pc[s] = "send" /\ Post(id)
      /\ hand' = [hand EXCEPT ![s] = hand[s] \ {id}]
      /\ pc' = [pc EXCEPT ![s] = IF hand[s] \ {id} = {} THEN "ack" ELSE "send"]
      /\ UNCHANGED <<stream, group, cursor, pel, batch, todo>>
  BY DEF Send, redis
<1> HIDE DEF id
<1>3. /\ posts' \in Seq(Nat) /\ Len(posts') = Len(posts) /\ posts'[id] > 0
      /\ \A i \in Entries : posts[i] > 0 => posts'[i] > 0
      /\ received' \subseteq 1 .. cursor
  BY <1>1, <1>2, PostTypes DEF Inv
<1>4. TypeOK'
  BY <1>1, <1>2, <1>3 DEF Inv, TypeOK
<1>5. HandIsRest'
  BY <1>2 DEF Inv, TypeOK, HandIsRest
<1>6. SentIsPosted'
  BY <1>1, <1>2, <1>3, Positions DEF Inv, TypeOK, SentIsPosted
<1>7. BatchesAreDisjoint'
  BY <1>2 DEF Inv, BatchesAreDisjoint
<1>8. AcknowledgedWasPosted'
  BY <1>2, <1>3, Positions DEF Inv, AcknowledgedWasPosted
<1>9. QED
  BY <1>4, <1>5, <1>6, <1>7, <1>8 DEF Inv

\* The hand is empty at the acknowledgement: the whole batch was sent.
LEMMA AckStep ==
  ASSUME Inv, NEW s \in Servers, Ack(s)
  PROVE  Inv'
<1>1. /\ pc[s] = "ack" /\ hand[s] = {}
      /\ pel' \in {pel, pel \ batch[s]}
      /\ batch' = [batch EXCEPT ![s] = {}]
      /\ pc' = [pc EXCEPT ![s] = "wait"]
      /\ UNCHANGED <<stream, group, cursor, hand, todo, posts, received>>
  BY DEF Ack, merchant, Inv, HandIsRest
<1>2. TypeOK'
  BY <1>1 DEF Inv, TypeOK
<1>3. HandIsRest' /\ SentIsPosted' /\ BatchesAreDisjoint'
  BY <1>1 DEF Inv, TypeOK, HandIsRest, SentIsPosted, BatchesAreDisjoint
<1>4. AcknowledgedWasPosted'
  BY <1>1 DEF Inv, SentIsPosted, AcknowledgedWasPosted
<1>5. QED
  BY <1>2, <1>3, <1>4 DEF Inv

LEMMA ScanPendingStep ==
  ASSUME Inv, NEW s \in Servers, ScanPending(s)
  PROVE  Inv'
<1>1. /\ \E ids \in SUBSET pel : todo' = [todo EXCEPT ![s] = ids]
      /\ UNCHANGED <<stream, group, cursor, pel, pc, hand, batch, posts, received>>
  BY DEF ScanPending, redis, consumer, merchant
<1>2. TypeOK'
  BY <1>1 DEF Inv, TypeOK
<1>3. QED
  BY <1>1, <1>2 DEF Inv, HandIsRest, SentIsPosted, BatchesAreDisjoint,
                    AcknowledgedWasPosted

\* The scan acknowledges an entry only after it sent it.
LEMMA ScanSendStep ==
  ASSUME Inv, NEW s \in Servers, ScanSend(s)
  PROVE  Inv'
<1> DEFINE id == First(todo[s])
<1>1. id \in 1 .. cursor /\ id \in Entries
  <2>1. todo[s] \subseteq 1 .. cursor /\ todo[s] # {}
    BY DEF Inv, TypeOK, ScanSend
  <2>2. todo[s] \subseteq Nat
    BY <2>1
  <2>3. id \in todo[s]
    BY <2>1, <2>2, FirstIsMember
  <2>4. QED
    BY <2>1, <2>3, Positions DEF Inv
<1>2. /\ todo' = [todo EXCEPT ![s] = @ \ {id}]
      /\ \/ Post(id) /\ pel' \in {pel, pel \ {id}}
         \/ UNCHANGED <<pel, posts, received>>
      /\ UNCHANGED <<stream, group, cursor, pc, hand, batch>>
  BY DEF ScanSend, consumer, merchant
<1> HIDE DEF id
<1>3. /\ posts' \in Seq(Nat) /\ Len(posts') = Len(posts)
      /\ \A i \in Entries : posts[i] > 0 => posts'[i] > 0
      /\ pel' \subseteq pel /\ \A i \in pel \ pel' : posts'[i] > 0
      /\ received' \subseteq 1 .. cursor
  <2>1. CASE Post(id) /\ pel' \in {pel, pel \ {id}}
    BY <1>1, <2>1, PostTypes DEF Inv
  <2>2. CASE UNCHANGED <<pel, posts, received>>
    BY <2>2 DEF Inv, TypeOK
  <2>3. QED
    BY <1>2, <2>1, <2>2
<1>4. TypeOK'
  BY <1>2, <1>3 DEF Inv, TypeOK
<1>5. HandIsRest' /\ BatchesAreDisjoint'
  BY <1>2 DEF Inv, HandIsRest, BatchesAreDisjoint
<1>6. SentIsPosted'
  BY <1>2, <1>3, Positions DEF Inv, TypeOK, SentIsPosted
<1>7. AcknowledgedWasPosted'
  BY <1>2, <1>3, Positions DEF Inv, AcknowledgedWasPosted
<1>8. QED
  BY <1>4, <1>5, <1>6, <1>7 DEF Inv

LEMMA RetryTimeStep ==
  ASSUME Inv, NEW id \in Entries, RetryTime(id)
  PROVE  Inv'
<1>1. /\ stream' = [stream EXCEPT ![id].due = TRUE]
      /\ UNCHANGED <<group, cursor, pel, pc, hand, batch, todo, posts, received>>
  BY DEF RetryTime, consumer, merchant
<1>2. stream' \in Seq(Entry) /\ Len(stream') = Len(stream)
  <2>1. [stream[id] EXCEPT !.due = TRUE] \in Entry
    BY Positions DEF Inv, Entry
  <2>2. stream' = [stream EXCEPT ![id] = [stream[id] EXCEPT !.due = TRUE]]
    BY <1>1
  <2>3. stream \in Seq(Entry) /\ id \in 1 .. Len(stream)
    BY DEF Inv, TypeOK, Entries
  <2> HIDE DEF Entries
  <2>4. QED
    BY <2>1, <2>2, <2>3, ExceptSeq
<1>3. TypeOK'
  BY <1>1, <1>2 DEF Inv, TypeOK
<1>4. QED
  BY <1>1, <1>3 DEF Inv, HandIsRest, SentIsPosted, BatchesAreDisjoint,
                    AcknowledgedWasPosted

LEMMA InvStep == Inv /\ [Next]_vars => Inv'
<1> SUFFICES ASSUME Inv, [Next]_vars
             PROVE  Inv'
  OBVIOUS
<1>1. CASE \E o \in Orders : Publish(o)
  BY <1>1, XAddStep DEF Publish
<1>2. ASSUME NEW s \in Servers, Server(s) \/ Stop(s) \/ Scan(s)
      PROVE  Inv'
  BY <1>2, StartStep, ConsumeStep, SendStep, AckStep, StopStep,
     ScanPendingStep, ScanSendStep DEF Server, Scan
<1>3. ASSUME NEW id \in Entries, Requeue(id)
      PROVE  Inv'
  <2>1. stream[id].order \in Orders
    BY Positions DEF Inv, Entry
  <2>2. QED
    BY <1>3, <2>1, XAddStep DEF Requeue
<1>4. CASE \E id \in Entries : RetryTime(id)
  BY <1>4, RetryTimeStep
<1>5. CASE UNCHANGED vars
  <2>1. TypeOK'
    BY <1>5 DEF Inv, TypeOK, vars, redis, consumer, merchant
  <2>2. QED
    BY <1>5, <2>1 DEF Inv, HandIsRest, SentIsPosted, BatchesAreDisjoint,
                      AcknowledgedWasPosted, vars, redis, consumer, merchant
<1>6. QED
  BY <1>1, <1>2, <1>3, <1>4, <1>5 DEF Next, Deliver

THEOREM Invariance == Spec => []Inv
BY InvInit, InvStep, PTL DEF Spec

\* Every variable keeps its type, whatever is lost and whoever stops.
THEOREM TypeCorrect == Spec => []TypeOK
<1>1. Inv => TypeOK
  BY DEF Inv
<1>2. QED
  BY <1>1, Invariance, PTL

\* An entry that is no longer pending was sent: processMessages acknowledges
\* its batch after the loop, and the pending scan each entry after its POST.
THEOREM AcknowledgedAreSent == Spec => []AcknowledgedWasPosted
<1>1. Inv => AcknowledgedWasPosted
  BY DEF Inv
<1>2. QED
  BY <1>1, Invariance, PTL

\* The consumers of all servers read under one name, and yet no entry is in
\* two batches: a read takes what lies behind the group's cursor.
THEOREM BatchesDisjoint == Spec => []BatchesAreDisjoint
<1>1. Inv => BatchesAreDisjoint
  BY DEF Inv
<1>2. QED
  BY <1>1, Invariance, PTL

-----------------------------------------------------------------------------
(* As the code is wired, without the pending scan, nothing is sent twice.  *)

\* What is in a hand or was not handed out yet was not sent.
UnsentInHand ==
  /\ \A id \in Entries : id > cursor => posts[id] = 0
  /\ \A s \in Servers : \A id \in hand[s] : posts[id] = 0

SentAtMostOnce == \A id \in Entries : posts[id] <= 1

SentOnce == UnsentInHand /\ SentAtMostOnce

\* A publication, of any number of copies, sends nothing.
LEMMA XAddSendsNothing ==
  ASSUME Inv, SentOnce, NEW order \in Orders, NEW due \in BOOLEAN, NEW n \in Nat,
         XAdd(order, due, n), UNCHANGED <<cursor, hand>>
  PROVE  SentOnce'
<1>1. /\ Len(stream') = Len(stream) + n
      /\ \A id \in Entries : posts'[id] = posts[id]
      /\ \A id \in Len(stream) + 1 .. Len(stream') : posts'[id] = 0
  BY XAddTypes DEF Inv
<1>2. Entries' = Entries \cup (Len(stream) + 1 .. Len(stream'))
  BY <1>1, Positions DEF Inv, Entries
<1>3. \A id \in Entries' : posts'[id] <= 1 /\ (id > cursor => posts'[id] = 0)
  BY <1>1, <1>2 DEF SentOnce, UnsentInHand, SentAtMostOnce
<1>4. ASSUME NEW s \in Servers, NEW id \in hand[s]
      PROVE  posts'[id] = 0
  <2>1. id \in Entries
    BY <1>4, Positions DEF Inv, TypeOK
  <2>2. QED
    BY <1>1, <1>4, <2>1 DEF SentOnce, UnsentInHand
<1>5. QED
  BY <1>3, <1>4 DEF SentOnce, UnsentInHand, SentAtMostOnce

\* A step that sends nothing and hands out nothing.
LEMMA NothingSent ==
  ASSUME SentOnce, UNCHANGED <<cursor, posts>>, Len(stream)' = Len(stream),
         \A s \in Servers : hand'[s] \subseteq hand[s]
  PROVE  SentOnce'
BY DEF SentOnce, UnsentInHand, SentAtMostOnce, Entries

\* A read takes entries that were not sent.
LEMMA ConsumeSendsNothing ==
  ASSUME Inv, SentOnce, NEW s \in Servers, Consume(s)
  PROVE  SentOnce'
<1>1. cursor' \in cursor + 1 .. Len(stream) /\ NextBatch = cursor + 1 .. cursor'
  BY BatchIsNext DEF Inv, Consume
<1>2. cursor \in Nat /\ Len(stream) \in Nat
  BY Positions DEF Inv
<1>3. UNCHANGED <<stream, posts>>
  BY DEF Consume, merchant
<1>4. \A id \in Entries : id > cursor' => posts'[id] = 0
  BY <1>1, <1>2, <1>3 DEF SentOnce, UnsentInHand, Entries
<1>5. \A id \in NextBatch : posts'[id] = 0
  BY <1>1, <1>2, <1>3 DEF SentOnce, UnsentInHand, Entries
<1>6. \A t \in Servers : hand'[t] \in {hand[t], NextBatch}
  BY DEF Consume, TakeInHand, consumer, Inv, TypeOK
<1>7. ASSUME NEW t \in Servers, NEW id \in hand'[t]
      PROVE  posts'[id] = 0
  BY <1>3, <1>5, <1>6, <1>7 DEF SentOnce, UnsentInHand
<1>8. QED
  BY <1>3, <1>4, <1>7 DEF SentOnce, UnsentInHand, SentAtMostOnce, Entries

\* The entry that is sent leaves the only hand that it is in.
LEMMA SendSendsOnce ==
  ASSUME Inv, SentOnce, NEW s \in Servers, Send(s)
  PROVE  SentOnce'
<1> DEFINE id == First(hand[s])
<1>1. id \in hand[s] /\ id \in 1 .. cursor /\ id \in Entries
  <2>1. hand[s] \subseteq 1 .. cursor /\ hand[s] # {}
    BY DEF Inv, TypeOK, HandIsRest, Send
  <2>2. hand[s] \subseteq Nat
    BY <2>1
  <2>3. id \in hand[s]
    BY <2>1, <2>2, FirstIsMember
  <2>4. QED
    BY <2>1, <2>3, Positions DEF Inv
<1>2. /\ posts' = [posts EXCEPT ![id] = posts[id] + 1]
      /\ hand' = [hand EXCEPT ![s] = hand[s] \ {id}]
      /\ UNCHANGED <<stream, cursor>>
  BY DEF Send, Post, redis
<1> HIDE DEF id
<1>3. posts[id] = 0
  BY <1>1 DEF SentOnce, UnsentInHand
<1>4. DOMAIN posts = Entries
  BY LenProperties DEF Inv, TypeOK, Entries
<1>5. \A i \in Entries : posts'[i] = IF i = id THEN 1 ELSE posts[i]
  BY <1>1, <1>2, <1>3, <1>4
<1>6. ASSUME NEW t \in Servers, NEW i \in hand'[t]
      PROVE  i \in hand[t] /\ i # id
  <2>1. hand' = [hand EXCEPT ![s] = hand[s] \ {id}] /\ hand \in [Servers -> SUBSET (1 .. cursor)]
    BY <1>2 DEF Inv, TypeOK
  <2>2. CASE t = s
    BY <1>6, <2>1, <2>2
  <2>3. CASE t # s
    <3>1. i \in hand[t]
      BY <1>6, <2>1, <2>3
    <3>2. hand[t] \cap hand[s] = {}
      BY <2>3 DEF Inv, HandIsRest, BatchesAreDisjoint
    <3>3. QED
      BY <1>1, <3>1, <3>2
  <2>4. QED
    BY <2>2, <2>3
<1>7. ASSUME NEW t \in Servers, NEW i \in hand'[t]
      PROVE  posts'[i] = 0
  <2>1. i \in hand[t] /\ i # id
    BY <1>6
  <2>2. i \in Entries
    BY <2>1, Positions DEF Inv, TypeOK
  <2>3. QED
    BY <1>5, <2>1, <2>2 DEF SentOnce, UnsentInHand
<1>8. \A i \in Entries : i > cursor => posts'[i] = 0
  <2>1. ~ (id > cursor)
    BY <1>1, Positions DEF Inv
  <2>2. QED
    BY <1>5, <2>1 DEF SentOnce, UnsentInHand
<1>9. \A i \in Entries : posts'[i] <= 1
  BY <1>5 DEF SentOnce, SentAtMostOnce
<1>10. QED
  BY <1>2, <1>7, <1>8, <1>9 DEF SentOnce, UnsentInHand, SentAtMostOnce, Entries

LEMMA SentOnceStep ==
  ASSUME ~ScanWired, Inv, Inv', SentOnce, [Next]_vars
  PROVE  SentOnce'
<1>1. ASSUME NEW o \in Orders, Publish(o)
      PROVE  SentOnce'
  BY <1>1, XAddSendsNothing DEF Publish, consumer
<1>2. ASSUME NEW s \in Servers, Start(s) \/ Stop(s) \/ Ack(s)
      PROVE  SentOnce'
  <2>1. UNCHANGED <<stream, cursor, posts>>
    BY <1>2 DEF Start, Stop, Ack, redis, merchant
  <2>2. \A t \in Servers : hand'[t] \subseteq hand[t]
    BY <1>2 DEF Start, Stop, Ack, Inv, TypeOK
  <2>3. QED
    BY <2>1, <2>2, NothingSent
<1>3. ASSUME NEW s \in Servers, Consume(s) \/ Send(s)
      PROVE  SentOnce'
  BY <1>3, ConsumeSendsNothing, SendSendsOnce
<1>4. /\ \A s \in Servers : ~ Scan(s)
      /\ \A id \in Entries : ~ Requeue(id)
  BY DEF Scan, ScanPending, ScanSend, Requeue
<1>5. ASSUME NEW id \in Entries, RetryTime(id)
      PROVE  SentOnce'
  <2>1. UNCHANGED <<cursor, posts, hand>>
    BY <1>5 DEF RetryTime, consumer, merchant
  <2>2. Len(stream)' = Len(stream)
    <3>1. Len(posts)' = Len(posts) /\ Len(posts)' = Len(stream)'
      BY <2>1 DEF Inv, TypeOK
    <3>2. QED
      BY <3>1 DEF Inv, TypeOK
  <2>3. QED
    BY <2>1, <2>2, NothingSent
<1>6. CASE UNCHANGED vars
  BY <1>6, NothingSent DEF vars, redis, consumer, merchant
<1>7. QED
  BY <1>1, <1>2, <1>3, <1>4, <1>5, <1>6 DEF Next, Deliver, Server

\* Without the pending scan, which nothing runs, no entry is sent twice,
\* however many servers read, are stopped and lose replies.
THEOREM SentNeverTwice ==
  ASSUME ~ScanWired
  PROVE  Spec => []SentAtMostOnce
<1>1. Init => SentOnce
  <2>1. ASSUME Init
        PROVE  SentOnce
    <3>1. Entries = {}
      BY <2>1 DEF Init, Entries
    <3>2. QED
      BY <2>1, <3>1 DEF Init, SentOnce, UnsentInHand, SentAtMostOnce
  <2>2. QED
    BY <2>1
<1>2. Inv /\ Inv' /\ SentOnce /\ [Next]_vars => SentOnce'
  BY SentOnceStep
<1>3. SentOnce => SentAtMostOnce
  BY DEF SentOnce
<1>4. QED
  BY <1>1, <1>2, <1>3, Invariance, PTL DEF Spec

-----------------------------------------------------------------------------
(* NotifyApp implements ConsumerGroup.                                     *)

Handled == {id \in Entries : posts[id] > 0}

\* A publication adds to the stream alone.
LEMMA XAddMaps ==
  ASSUME Inv, NEW order \in Orders, NEW due \in BOOLEAN,
         XAdd(order, due, 1), UNCHANGED <<cursor, pel>>
  PROVE  Group!Publish
<1>1. /\ Len(stream') = Len(stream) + 1
      /\ \A id \in Entries : posts'[id] = posts[id]
      /\ \A id \in Len(stream) + 1 .. Len(stream') : posts'[id] = 0
  BY XAddTypes DEF Inv
<1>2. Handled' = Handled
  <2>1. Entries' = Entries \cup (Len(stream) + 1 .. Len(stream'))
    BY <1>1, Positions DEF Inv, Entries
  <2>2. QED
    BY <1>1, <2>1 DEF Handled
<1>3. QED
  BY <1>1, <1>2 DEF Group!Publish, Handled

\* A read hands out an interval of new entries, none of which was trimmed.
LEMMA ConsumeMaps ==
  ASSUME Inv, NEW s \in Servers, Consume(s)
  PROVE  Group!HandOut
<1>1. cursor' \in cursor + 1 .. Len(stream) /\ NextBatch = cursor + 1 .. cursor'
  BY BatchIsNext DEF Inv, Consume
<1>2. pel' = pel \cup ((cursor + 1 .. cursor') \ {})
  BY <1>1 DEF Consume
<1>3. UNCHANGED <<stream, posts>>
  BY DEF Consume, merchant
<1>4. Handled' = Handled /\ Len(stream)' = Len(stream)
  BY <1>3 DEF Handled, Entries
<1>5. \E trimmed \in SUBSET ((cursor + 1) .. (cursor' - 1)) :
        /\ FALSE \/ trimmed = {}
        /\ pel' = pel \cup (((cursor + 1) .. cursor') \ trimmed)
  BY <1>2
<1>6. QED
  BY <1>1, <1>4, <1>5 DEF Group!HandOut, Handled

\* A POST handles its entry; the pending scan may acknowledge it at once.
LEMMA PostMaps ==
  ASSUME Inv, NEW id \in 1 .. cursor, Post(id), pel' \in {pel, pel \ {id}},
         UNCHANGED <<stream, cursor>>
  PROVE  Group!Handle
<1>1. id \in Entries
  BY Positions DEF Inv
<1>2. /\ posts'[id] > 0
      /\ \A i \in Entries : i # id => posts'[i] = posts[i]
  BY PostTypes DEF Inv
<1>3. Handled' = Handled \cup {id}
  BY <1>1, <1>2 DEF Handled, Entries
<1>4. QED
  BY <1>3 DEF Group!Handle, Handled

\* At its acknowledgement everything in a batch was sent.
LEMMA AckMaps ==
  ASSUME Inv, NEW s \in Servers, Ack(s)
  PROVE  Group!Acknowledge
<1>1. /\ hand[s] = {} /\ batch[s] \subseteq 1 .. cursor
      /\ pel' \in {pel, pel \ batch[s]}
      /\ UNCHANGED <<stream, cursor, posts>>
  BY DEF Ack, merchant, Inv, HandIsRest, TypeOK
<1>2. batch[s] \subseteq Handled
  BY <1>1, Positions DEF Inv, SentIsPosted, Handled
<1>3. Handled' = Handled /\ Len(stream)' = Len(stream)
  BY <1>1 DEF Handled, Entries
<1>4. QED
  BY <1>1, <1>2, <1>3 DEF Group!Acknowledge, Handled

\* Steps that ConsumerGroup does not see.
LEMMA Stutters ==
  ASSUME Len(stream)' = Len(stream), UNCHANGED <<cursor, pel, posts>>
  PROVE  UNCHANGED Group!vars
<1>1. Handled' = Handled
  BY DEF Handled, Entries
<1>2. QED
  BY <1>1 DEF Group!vars, Handled

LEMMA StepMaps == Inv /\ Inv' /\ [Next]_vars => [Group!Next]_(Group!vars)
<1> SUFFICES ASSUME Inv, Inv', [Next]_vars
             PROVE  Group!Next \/ UNCHANGED Group!vars
  BY DEF Group!vars
<1>1. ASSUME NEW o \in Orders, Publish(o)
      PROVE  Group!Publish
  BY <1>1, XAddMaps DEF Publish
<1>2. ASSUME NEW s \in Servers, Start(s) \/ Stop(s) \/ ScanPending(s)
      PROVE  UNCHANGED Group!vars
  BY <1>2, Stutters DEF Start, Stop, ScanPending, redis, merchant
<1>3. ASSUME NEW s \in Servers, Consume(s)
      PROVE  Group!HandOut
  BY <1>3, ConsumeMaps
<1>4. ASSUME NEW s \in Servers, Send(s)
      PROVE  Group!Handle
  <2>1. hand[s] \subseteq 1 .. cursor /\ hand[s] # {}
    BY <1>4 DEF Send, Inv, TypeOK, HandIsRest
  <2>2. hand[s] \subseteq Nat
    BY <2>1
  <2>3. First(hand[s]) \in 1 .. cursor
    BY <2>1, <2>2, FirstIsMember
  <2>4. QED
    BY <1>4, <2>3, PostMaps DEF Send, redis
<1>5. ASSUME NEW s \in Servers, Ack(s)
      PROVE  Group!Acknowledge
  BY <1>5, AckMaps
<1>6. ASSUME NEW s \in Servers, ScanSend(s)
      PROVE  Group!Handle \/ UNCHANGED Group!vars
  <2> DEFINE id == First(todo[s])
  <2>1. id \in 1 .. cursor
    <3>1. todo[s] \subseteq 1 .. cursor /\ todo[s] # {}
      BY <1>6 DEF Inv, TypeOK, ScanSend
    <3>2. todo[s] \subseteq Nat
      BY <3>1
    <3>3. QED
      BY <3>1, <3>2, FirstIsMember
  <2>2. /\ \/ Post(id) /\ pel' \in {pel, pel \ {id}}
           \/ UNCHANGED <<pel, posts>>
        /\ UNCHANGED <<stream, cursor>>
    BY <1>6 DEF ScanSend, merchant
  <2> HIDE DEF id
  <2>3. QED
    BY <2>1, <2>2, PostMaps, Stutters
<1>7. ASSUME NEW id \in Entries, Requeue(id)
      PROVE  Group!Publish
  <2>1. stream[id].order \in Orders
    BY Positions DEF Inv, Entry
  <2>2. QED
    BY <1>7, <2>1, XAddMaps DEF Requeue
<1>8. ASSUME NEW id \in Entries, RetryTime(id)
      PROVE  UNCHANGED Group!vars
  <2>1. Len(stream)' = Len(stream)
    <3>1. Len(posts)' = Len(posts) /\ Len(posts)' = Len(stream)'
      BY <1>8 DEF RetryTime, merchant, Inv, TypeOK
    <3>2. QED
      BY <3>1 DEF Inv, TypeOK
  <2>2. QED
    BY <1>8, <2>1, Stutters DEF RetryTime, merchant
<1>9. CASE UNCHANGED vars
  BY <1>9, Stutters DEF vars, redis, merchant
<1>10. QED
  BY <1>1, <1>2, <1>3, <1>4, <1>5, <1>6, <1>7, <1>8, <1>9
  DEF Next, Deliver, Server, Scan, Group!Next

\* With lost replies, stopped servers and the pending scan, NotifyApp keeps
\* what a consumer group promises: in order, each entry once, and pending
\* until it was sent.
THEOREM ImplementsGroup == Spec => KeepsGroup
<1>1. Init => Group!Init
  BY DEF Init, Group!Init, Entries
<1>2. QED
  BY <1>1, StepMaps, Invariance, PTL DEF Spec, KeepsGroup, Group!Spec
=============================================================================
