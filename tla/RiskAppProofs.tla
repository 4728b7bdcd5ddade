--------------------------- MODULE RiskAppProofs ---------------------------
(***************************************************************************)
(* Theorems about RiskApp, for any number of servers and events, any batch *)
(* size and any trimming: no event is reported twice, reports are filed    *)
(* under the right trade number, and the consumers keep what the abstract  *)
(* consumer group promises.  Which past cases an analysis sees plays no    *)
(* part in these, so that their invariant leaves the vector store out.     *)
(* A second invariant on top of it says that every server writes its cases *)
(* in order, which is what the store's own theorems ask for: no case is    *)
(* lost and every analysis has precedents.                                 *)
(***************************************************************************)
EXTENDS RiskApp, VectorStoreProofs, FiniteSetTheorems, SequenceTheorems, TLAPS

USE RiskAssumption

\* A report before its score is brought into range.
Draft == [trade : Trades \cup {BlankTrade}, score : Int]

StreamTypes ==
  /\ stream \in Seq(Transactions)
  /\ reports \in Seq(Seq(Report))
  /\ Len(reports) = Len(stream)
  /\ cursor \in 0 .. Len(stream)
  /\ pel \subseteq 1 .. cursor
  /\ pc \in [Servers -> {"down", "wait", "analyze", "upsert", "save", "ack"}]
  /\ hand \in [Servers -> SUBSET (1 .. cursor)]
  /\ ackIDs \in [Servers -> SUBSET (1 .. cursor)]
  /\ draft \in [Servers -> Draft \cup {NoReport}]

\* A consumer at work has an event in hand, and what it is about to save is
\* the draft of the oldest one.
AtWork ==
  \A s \in Servers :
    /\ pc[s] \in {"analyze", "upsert", "save"} => hand[s] # {}
    /\ pc[s] \in {"upsert", "save"} =>
         /\ draft[s] \in Draft
         /\ draft[s].trade = stream[Oldest(hand[s])].trade_no

\* What is in a consumer's hand, or was not read yet, has no report and is in
\* nobody else's hand.  What a consumer will acknowledge has one.
Unreported ==
  /\ \A s \in Servers : \A id \in hand[s] : reports[id] = <<>>
  /\ \A id \in Events : id > cursor => reports[id] = <<>>
  /\ \A s, t \in Servers : s # t => hand[s] \cap hand[t] = {}
  /\ \A s \in Servers : \A id \in ackIDs[s] : reports[id] # <<>>

Inv == StreamTypes /\ AtWork /\ Unreported /\ ReportedAtMostOnce /\ FiledUnderTrade

-----------------------------------------------------------------------------
(* Facts about the operators.                                              *)

LEMMA Positions ==
  ASSUME StreamTypes
  PROVE  /\ Len(stream) \in Nat /\ cursor \in Nat /\ cursor <= Len(stream)
         /\ Events = 1 .. Len(stream) /\ Events = 1 .. Len(reports)
         /\ \A id \in 1 .. cursor : id \in Events
         /\ \A id \in Events : stream[id] \in Event /\ reports[id] \in Seq(Report)
         /\ DOMAIN stream = Events /\ DOMAIN reports = Events
<1>1. stream \in Seq(Transactions) /\ reports \in Seq(Seq(Report))
      /\ Len(reports) = Len(stream) /\ cursor \in 0 .. Len(stream)
  BY DEF StreamTypes
<1>2. Len(stream) \in Nat /\ DOMAIN stream = 1 .. Len(stream)
      /\ DOMAIN reports = 1 .. Len(reports)
  BY <1>1, LenProperties
<1>3. \A id \in 1 .. Len(stream) : stream[id] \in Transactions
  BY <1>1, ElementOfSeq
<1>4. \A id \in 1 .. Len(reports) : reports[id] \in Seq(Report)
  BY <1>1, ElementOfSeq
<1>5. QED
  BY <1>1, <1>2, <1>3, <1>4 DEF Events

\* The oldest event of a batch is one of them and the least: of the intervals
\* 0 .. i that end in the batch one contains no other.
LEMMA OldestIsMember ==
  ASSUME NEW ids, ids \subseteq Nat, ids # {}
  PROVE  Oldest(ids) \in ids /\ \A j \in ids : Oldest(ids) <= j
<1> DEFINE intervals == {0 .. i : i \in ids}
<1>1. intervals \subseteq FiniteSubsetsOf(Nat) /\ intervals # {}
  <2>1. ASSUME NEW i \in ids
        PROVE  0 .. i \in FiniteSubsetsOf(Nat)
    <3>1. IsFiniteSet(0 .. i)
      BY FS_Interval
    <3>2. QED
      BY <3>1 DEF FiniteSubsetsOf
  <2>2. QED
    BY <2>1
<1>2. IsWellFoundedOn(StrictSubsetOrdering(Nat), FiniteSubsetsOf(Nat))
  BY FS_StrictSubsetOrderingWellFounded
<1>3. \E X \in intervals : \A Y \in intervals :
        ~ (<<Y, X>> \in StrictSubsetOrdering(Nat))
  <2> HIDE DEF intervals
  <2>1. QED
    BY <1>1, <1>2, WFMin
<1>4. PICK i \in ids : \A j \in ids :
        ~ (<<0 .. j, 0 .. i>> \in StrictSubsetOrdering(Nat))
  BY <1>3
<1>5. ASSUME NEW j \in ids
      PROVE  i <= j
  <2>1. CASE j < i
    <3>1. 0 .. j \subseteq 0 .. i /\ i \in 0 .. i /\ i \notin 0 .. j
      BY <2>1
    <3>2. 0 .. j \in SUBSET Nat /\ 0 .. i \in SUBSET Nat
      OBVIOUS
    <3>3. <<0 .. j, 0 .. i>> \in StrictSubsetOrdering(Nat)
      BY <3>1, <3>2 DEF StrictSubsetOrdering
    <3>4. QED
      BY <1>4, <3>3
  <2>2. QED
    BY <2>1
<1>6. QED
  BY <1>5 DEF Oldest

\* The youngest of some events is one of them and the last one: of the
\* intervals i .. n that begin in the batch one contains no other.
LEMMA YoungestIsLast ==
  ASSUME NEW n \in Nat, NEW ids \in SUBSET (1 .. n), ids # {}
  PROVE  Youngest(ids) \in ids /\ \A j \in ids : j <= Youngest(ids)
<1> DEFINE intervals == {i .. n : i \in ids}
<1>1. intervals \subseteq FiniteSubsetsOf(Nat) /\ intervals # {}
  <2>1. ASSUME NEW i \in ids
        PROVE  i .. n \in FiniteSubsetsOf(Nat)
    <3>1. IsFiniteSet(i .. n) /\ i .. n \subseteq Nat
      BY FS_Interval
    <3>2. QED
      BY <3>1 DEF FiniteSubsetsOf
  <2>2. QED
    BY <2>1
<1>2. IsWellFoundedOn(StrictSubsetOrdering(Nat), FiniteSubsetsOf(Nat))
  BY FS_StrictSubsetOrderingWellFounded
<1>3. \E X \in intervals : \A Y \in intervals :
        ~ (<<Y, X>> \in StrictSubsetOrdering(Nat))
  <2> HIDE DEF intervals
  <2>1. QED
    BY <1>1, <1>2, WFMin
<1>4. PICK i \in ids : \A j \in ids :
        ~ (<<j .. n, i .. n>> \in StrictSubsetOrdering(Nat))
  BY <1>3
<1>5. ASSUME NEW j \in ids
      PROVE  j <= i
  <2>1. CASE i < j
    <3>1. j .. n \subseteq i .. n /\ i \in i .. n /\ i \notin j .. n
      BY <2>1
    <3>2. j .. n \in SUBSET Nat /\ i .. n \in SUBSET Nat
      OBVIOUS
    <3>3. <<j .. n, i .. n>> \in StrictSubsetOrdering(Nat)
      BY <3>1, <3>2 DEF StrictSubsetOrdering
    <3>4. QED
      BY <1>4, <3>3
  <2>2. QED
    BY <2>1
<1>6. QED
  BY <1>5 DEF Youngest

\* A read hands out new events up to its last one, the others in between
\* being trimmed or, never, skipped.
LEMMA BatchIsNew ==
  ASSUME StreamTypes, NextBatch # {}
  PROVE  /\ Youngest(NextBatch) \in cursor + 1 .. Len(stream)
         /\ Youngest(NextBatch) \in NextBatch
         /\ NextBatch \subseteq cursor + 1 .. Youngest(NextBatch)
<1>1. Len(stream) \in Nat /\ cursor \in Nat
  BY Positions
<1> DEFINE last == Youngest(NextBatch)
<1>2. NextBatch \in SUBSET (1 .. Len(stream)) /\ \A id \in NextBatch : id > cursor
  BY DEF NextBatch, Unread, Events
<1>3. last \in NextBatch /\ \A j \in NextBatch : j <= last
  BY <1>1, <1>2, YoungestIsLast
<1> HIDE DEF last
<1>4. last \in cursor + 1 .. Len(stream)
  BY <1>1, <1>2, <1>3
<1>5. NextBatch \subseteq cursor + 1 .. last
  BY <1>1, <1>2, <1>3, <1>4
<1>6. QED
  BY <1>3, <1>4, <1>5 DEF last

\* A draft becomes a report under its own trade number or else the event's.
LEMMA FiledTypes ==
  ASSUME NEW report \in Draft, NEW event \in Event
  PROVE  /\ Filed(report, event) \in Report
         /\ Filed(report, event).trade =
              IF report.trade = BlankTrade THEN event.trade ELSE report.trade
<1>1. /\ Normalize(report) \in Report
      /\ Normalize(report).trade = report.trade
  BY DEF Draft, Report, Normalize
<1>2. event.trade \in Trades
  BY DEF Event
<1> HIDE DEF Normalize
<1>3. QED
  BY <1>1, <1>2 DEF Filed, Report

-----------------------------------------------------------------------------
(* Inv is inductive: one lemma for each action.                            *)

LEMMA InvInit == Init => Inv
<1> SUFFICES ASSUME Init
             PROVE  Inv
  OBVIOUS
<1>1. /\ stream \in Seq(Transactions) /\ reports \in Seq(Seq(Report))
      /\ Len(reports) = Len(stream) /\ Len(stream) = 0
  BY EmptySeq DEF Init
<1>2. cursor \in 0 .. Len(stream)
  BY <1>1 DEF Init
<1>3. StreamTypes
  BY <1>1, <1>2 DEF Init, StreamTypes
<1>4. AtWork
  BY DEF Init, AtWork
<1>5. Events = {}
  BY <1>1 DEF Events
<1>6. Unreported /\ ReportedAtMostOnce /\ FiledUnderTrade
  BY <1>5 DEF Init, Unreported, ReportedAtMostOnce, FiledUnderTrade
<1>7. QED
  BY <1>3, <1>4, <1>6 DEF Inv

\* A publication adds an event without a report after the cursor.
LEMMA PublishStep ==
  ASSUME Inv, NEW event \in Transactions, Publish(event)
  PROVE  Inv'
<1>1. /\ stream' = Append(stream, event) /\ reports' = Append(reports, <<>>)
      /\ UNCHANGED <<cursor, pel, pc, hand, draft, ackIDs>>
  BY DEF Publish, consumer, analysis
<1>2. /\ stream \in Seq(Transactions) /\ reports \in Seq(Seq(Report))
      /\ Len(reports) = Len(stream) /\ cursor \in 0 .. Len(stream)
      /\ Len(stream) \in Nat
  BY Positions DEF Inv, StreamTypes
<1>3. /\ stream' \in Seq(Transactions) /\ Len(stream') = Len(stream) + 1
      /\ \A id \in 1 .. Len(stream) : stream'[id] = stream[id]
  BY <1>1, <1>2, AppendProperties
<1>4. /\ reports' \in Seq(Seq(Report)) /\ Len(reports') = Len(reports) + 1
      /\ \A id \in 1 .. Len(reports) : reports'[id] = reports[id]
      /\ reports'[Len(reports) + 1] = <<>>
  <2>1. <<>> \in Seq(Report)
    BY EmptySeq
  <2>2. QED
    BY <1>1, <1>2, <2>1, AppendProperties
<1>5. StreamTypes'
  <2>1. cursor \in 0 .. Len(stream') /\ Len(reports') = Len(stream')
    BY <1>2, <1>3, <1>4
  <2>2. QED
    BY <1>1, <1>3, <1>4, <2>1 DEF Inv, StreamTypes
<1>6. /\ Events' = Events \cup {Len(stream) + 1} /\ Len(stream) + 1 \notin Events
      /\ \A id \in Events : stream'[id] = stream[id] /\ reports'[id] = reports[id]
      /\ reports'[Len(stream) + 1] = <<>>
      /\ \A id \in 1 .. cursor : id \in Events
  <2> DEFINE n == Len(stream)
  <2>1. n \in Nat /\ Len(reports) = n /\ Len(stream') = n + 1 /\ cursor \in 0 .. n
    BY <1>2, <1>3
  <2> HIDE DEF n
  <2>2. Events = 1 .. n /\ Events' = 1 .. n + 1
    BY <2>1 DEF Events, n
  <2>3. Events' = Events \cup {n + 1} /\ n + 1 \notin Events
    BY <2>1, <2>2
  <2>4. \A id \in 1 .. cursor : id \in 1 .. n
    BY <2>1
  <2>5. \A id \in 1 .. n : stream'[id] = stream[id] /\ reports'[id] = reports[id]
    BY <1>3, <1>4, <2>1 DEF n
  <2>6. reports'[n + 1] = <<>>
    BY <1>4, <2>1
  <2>7. QED
    BY <2>2, <2>3, <2>4, <2>5, <2>6 DEF n
<1>7. AtWork'
  <2>1. ASSUME NEW s \in Servers, hand[s] # {}
        PROVE  Oldest(hand[s]) \in Events
    <3>1. hand[s] \subseteq 1 .. cursor
      BY DEF Inv, StreamTypes
    <3>2. hand[s] \subseteq Nat
      BY <1>2, <3>1
    <3>3. QED
      BY <1>6, <2>1, <3>1, <3>2, OldestIsMember
  <2>2. QED
    BY <1>1, <1>6, <2>1 DEF Inv, AtWork
<1>8. Unreported'
  BY <1>1, <1>6 DEF Inv, StreamTypes, Unreported
<1>9. ReportedAtMostOnce'
  <2>1. Len(<<>>) <= 1
    OBVIOUS
  <2>2. QED
    BY <1>6, <2>1 DEF Inv, ReportedAtMostOnce
<1>10. FiledUnderTrade'
  <2>1. 1 .. Len(<<>>) = {}
    OBVIOUS
  <2>2. QED
    BY <1>6, <2>1 DEF Inv, FiledUnderTrade
<1>11. QED
  BY <1>5, <1>7, <1>8, <1>9, <1>10 DEF Inv

\* Steps that leave the stream and the reports alone keep what Inv says of
\* them.
LEMMA SameReports ==
  ASSUME Inv, UNCHANGED <<stream, reports>>
  PROVE  ReportedAtMostOnce' /\ FiledUnderTrade'
BY DEF Inv, ReportedAtMostOnce, FiledUnderTrade, Events

LEMMA StartStep ==
  ASSUME Inv, NEW s \in Servers, Start(s)
  PROVE  Inv'
<1>1. /\ pc' = [pc EXCEPT ![s] = "wait"] /\ pc[s] = "down"
      /\ UNCHANGED <<stream, cursor, pel, hand, draft, ackIDs, reports>>
  BY DEF Start, analysis
<1>2. StreamTypes'
  BY <1>1 DEF Inv, StreamTypes
<1>3. AtWork' /\ Unreported'
  BY <1>1 DEF Inv, StreamTypes, AtWork, Unreported, Events
<1>4. QED
  BY <1>1, <1>2, <1>3, SameReports DEF Inv

\* A stop forgets what was in hand; it stays pending.
LEMMA StopStep ==
  ASSUME Inv, NEW s \in Servers, Stop(s)
  PROVE  Inv'
<1>1. /\ pc' = [pc EXCEPT ![s] = "down"] /\ hand' = [hand EXCEPT ![s] = {}]
      /\ draft' = [draft EXCEPT ![s] = NoReport]
      /\ ackIDs' = [ackIDs EXCEPT ![s] = {}]
      /\ UNCHANGED <<stream, cursor, pel, reports>>
  BY DEF Stop, redis
<1>2. StreamTypes'
  BY <1>1 DEF Inv, StreamTypes
<1>3. AtWork'
  BY <1>1 DEF Inv, StreamTypes, AtWork
<1>4. Unreported'
  BY <1>1 DEF Inv, StreamTypes, Unreported, Events
<1>5. QED
  BY <1>1, <1>2, <1>3, <1>4, SameReports DEF Inv

\* A read takes events that nobody has, whether or not its reply arrives.
LEMMA ConsumeStep ==
  ASSUME Inv, NEW s \in Servers, Consume(s)
  PROVE  Inv'
<1>1. /\ cursor' \in cursor + 1 .. Len(stream)
      /\ NextBatch \subseteq cursor + 1 .. cursor'
      /\ NextBatch # {} /\ pel' = pel \cup NextBatch
  BY BatchIsNew DEF Inv, Consume
<1>2. /\ pc[s] = "wait"
      /\ \/ UNCHANGED <<pc, hand>>
         \/ /\ hand' = [hand EXCEPT ![s] = NextBatch]
            /\ pc' = [pc EXCEPT ![s] = "analyze"]
      /\ UNCHANGED <<stream, draft, ackIDs, reports>>
  BY DEF Consume, TakeInHand, analysis
<1>3. cursor \in Nat /\ Len(stream) \in Nat /\ cursor <= Len(stream)
      /\ Events = 1 .. Len(stream)
  BY Positions DEF Inv
<1>4. /\ 1 .. cursor \subseteq 1 .. cursor' /\ NextBatch \subseteq 1 .. cursor'
      /\ NextBatch \cap (1 .. cursor) = {}
      /\ \A id \in NextBatch : id \in Events /\ id > cursor
      /\ cursor' \in 0 .. Len(stream) /\ cursor' > cursor
  BY <1>1, <1>3
<1>5. StreamTypes'
  <2>1. hand' \in [Servers -> SUBSET (1 .. cursor')]
    BY <1>2, <1>4 DEF Inv, StreamTypes
  <2>2. pc' \in [Servers -> {"down", "wait", "analyze", "upsert", "save", "ack"}]
    BY <1>2 DEF Inv, StreamTypes
  <2>3. pel' \subseteq 1 .. cursor' /\ ackIDs' \in [Servers -> SUBSET (1 .. cursor')]
    BY <1>1, <1>2, <1>4 DEF Inv, StreamTypes
  <2>4. QED
    BY <1>2, <1>4, <2>1, <2>2, <2>3 DEF Inv, StreamTypes
<1>6. AtWork'
  BY <1>1, <1>2 DEF Inv, StreamTypes, AtWork
<1>7. /\ hand \in [Servers -> SUBSET (1 .. cursor)]
      /\ \A t \in Servers : hand[t] \subseteq 1 .. cursor
  BY DEF Inv, StreamTypes
<1>8. Unreported'
  <2>1. ASSUME NEW t \in Servers, NEW id \in hand'[t]
        PROVE  reports'[id] = <<>>
    <3>1. reports' = reports /\ (id \in hand[t] \/ id \in NextBatch)
      BY <1>2, <1>7, <2>1
    <3>2. CASE id \in hand[t]
      BY <3>1, <3>2 DEF Inv, Unreported
    <3>3. CASE id \in NextBatch
      BY <1>4, <3>1, <3>3 DEF Inv, Unreported
    <3>4. QED
      BY <3>1, <3>2, <3>3
  <2>2. ASSUME NEW id \in Events', id > cursor'
        PROVE  reports'[id] = <<>>
    <3>1. id \in Events /\ cursor' \in Nat /\ id \in Nat
      BY <1>2, <1>3, <1>4 DEF Events
    <3>2. id > cursor
      BY <1>3, <1>4, <2>2, <3>1
    <3>3. QED
      BY <1>2, <3>1, <3>2 DEF Inv, Unreported
  <2>3. ASSUME NEW t \in Servers, NEW u \in Servers, t # u
        PROVE  hand'[t] \cap hand'[u] = {}
    <3>1. /\ hand[t] \cap hand[u] = {}
          /\ hand[t] \cap NextBatch = {} /\ hand[u] \cap NextBatch = {}
      BY <1>4, <1>7, <2>3 DEF Inv, Unreported
    <3>2. \/ hand'[t] = hand[t] /\ hand'[u] = hand[u]
          \/ hand'[t] = NextBatch /\ hand'[u] = hand[u]
          \/ hand'[t] = hand[t] /\ hand'[u] = NextBatch
      BY <1>2, <1>7, <2>3
    <3>3. QED
      BY <3>1, <3>2
  <2>4. ASSUME NEW t \in Servers, NEW id \in ackIDs'[t]
        PROVE  reports'[id] # <<>>
    <3>1. id \in ackIDs[t] /\ reports' = reports
      BY <1>2, <2>4
    <3>2. QED
      BY <3>1 DEF Inv, Unreported
  <2>5. QED
    BY <2>1, <2>2, <2>3, <2>4 DEF Unreported
<1>9. QED
  BY <1>2, <1>5, <1>6, <1>8, SameReports DEF Inv

\* The event that a consumer at work is about.
LEMMA InWork ==
  ASSUME Inv, NEW s \in Servers, pc[s] \in {"analyze", "upsert", "save"}
  PROVE  /\ Oldest(hand[s]) \in hand[s] /\ Oldest(hand[s]) \in 1 .. cursor
         /\ Oldest(hand[s]) \in Events
         /\ stream[Oldest(hand[s])] \in Event
         /\ reports[Oldest(hand[s])] = <<>>
<1>1. hand[s] \subseteq 1 .. cursor /\ hand[s] # {}
  BY DEF Inv, StreamTypes, AtWork
<1>2. hand[s] \subseteq Nat
  BY <1>1
<1>3. Oldest(hand[s]) \in hand[s]
  BY <1>1, <1>2, OldestIsMember
<1>4. QED
  BY <1>1, <1>3, Positions DEF Inv, Unreported

LEMMA AnalyzeStep ==
  ASSUME Inv, NEW s \in Servers, Analyze(s)
  PROVE  Inv'
<1> DEFINE event == stream[Oldest(hand[s])]
<1>1. pc[s] = "analyze" /\ event \in Event
  BY InWork DEF Analyze
<1>2. PICK score \in Int, next \in {"upsert", "save"} :
        /\ draft' = [draft EXCEPT ![s] = [trade |-> event.trade_no, score |-> score]]
        /\ pc' = [pc EXCEPT ![s] = next]
  <2>1. HeuristicScore(event.amount) \in Int
    <3>1. event.amount \in Nat
      BY <1>1 DEF Event
    <3>2. QED
      BY <3>1 DEF HeuristicScore
  <2>2. AnsweredScores(event) \subseteq Int
    BY <2>1 DEF AnsweredScores
  <2>3. QED
    BY <2>1, <2>2 DEF Analyze
<1>3. UNCHANGED <<stream, cursor, pel, hand, ackIDs, reports>>
  BY DEF Analyze, redis
<1>4. [trade |-> event.trade_no, score |-> score] \in Draft
  BY <1>1, <1>2 DEF Draft, Event
<1>5. StreamTypes'
  BY <1>2, <1>3, <1>4 DEF Inv, StreamTypes
<1>6. AtWork'
  <2>1. ASSUME NEW t \in Servers
        PROVE  /\ pc'[t] \in {"analyze", "upsert", "save"} => hand'[t] # {}
               /\ pc'[t] \in {"upsert", "save"} =>
                    /\ draft'[t] \in Draft
                    /\ draft'[t].trade = stream'[Oldest(hand'[t])].trade_no
    <3>1. CASE t = s
      <4>1. draft'[s] = [trade |-> event.trade_no, score |-> score]
        BY <1>2 DEF Inv, StreamTypes
      <4>2. QED
        BY <1>1, <1>3, <1>4, <3>1, <4>1 DEF Inv, AtWork
    <3>2. CASE t # s
      <4>1. draft'[t] = draft[t] /\ pc'[t] = pc[t]
        BY <1>2, <3>2 DEF Inv, StreamTypes
      <4>2. QED
        BY <1>3, <4>1 DEF Inv, AtWork
    <3>3. QED
      BY <3>1, <3>2
  <2>2. QED
    BY <2>1 DEF AtWork
<1>7. Unreported'
  BY <1>3 DEF Inv, Unreported, Events
<1>8. QED
  BY <1>3, <1>5, <1>6, <1>7, SameReports DEF Inv

LEMMA UpsertStep ==
  ASSUME Inv, NEW s \in Servers, Upsert(s)
  PROVE  Inv'
<1>1. /\ pc[s] = "upsert" /\ pc' = [pc EXCEPT ![s] = "save"]
      /\ UNCHANGED <<stream, cursor, pel, hand, draft, ackIDs, reports>>
  BY DEF Upsert, redis, analysis
<1>2. StreamTypes'
  BY <1>1 DEF Inv, StreamTypes
<1>3. AtWork' /\ Unreported'
  BY <1>1 DEF Inv, StreamTypes, AtWork, Unreported, Events
<1>4. QED
  BY <1>1, <1>2, <1>3, SameReports DEF Inv

\* What a save does: at most one report is added, about the event at work,
\* which leaves the hand and is to be acknowledged only with its report.
LEMMA SaveFacts ==
  ASSUME Inv, NEW s \in Servers, Save(s), NEW id, id = Oldest(hand[s])
  PROVE  /\ id \in hand[s] /\ id \in Events /\ reports[id] = <<>>
         /\ hand' = [hand EXCEPT ![s] = hand[s] \ {id}]
         /\ draft' = [draft EXCEPT ![s] = NoReport]
         /\ pc' = [pc EXCEPT ![s] = pc'[s]]
         /\ pc'[s] = "analyze" => hand[s] \ {id} # {}
         /\ pc'[s] \in {"analyze", "ack", "wait"}
         /\ \E saved \in SUBSET {id} :
              /\ ackIDs' = [ackIDs EXCEPT ![s] = ackIDs[s] \cup saved]
              /\ \/ UNCHANGED reports /\ saved = {}
                 \/ reports' = [reports EXCEPT ![id] =
                                  Append(<<>>, Filed(draft[s], stream[id]))]
         /\ UNCHANGED <<stream, cursor, pel>>
<1>1. /\ pc[s] = "save" /\ id \in hand[s] /\ id \in Events
      /\ reports[id] = <<>>
  BY InWork DEF Save
<1>2. PICK saved \in SUBSET {id} :
        /\ Proceed(s, saved)
        /\ \/ UNCHANGED reports /\ saved = {}
           \/ reports' = [reports EXCEPT ![id] =
                            Append(reports[id], Filed(draft[s], stream[id]))]
  BY DEF Save
<1>3. UNCHANGED <<stream, cursor, pel>>
  BY DEF Save, redis
<1>4. pc \in [Servers -> {"down", "wait", "analyze", "upsert", "save", "ack"}]
  BY DEF Inv, StreamTypes
<1>5. /\ hand' = [hand EXCEPT ![s] = hand[s] \ {id}]
      /\ draft' = [draft EXCEPT ![s] = NoReport]
      /\ ackIDs' = [ackIDs EXCEPT ![s] = ackIDs[s] \cup saved]
      /\ pc' = [pc EXCEPT ![s] = IF hand[s] \ {id} # {} THEN "analyze"
                                  ELSE IF ackIDs'[s] # {} THEN "ack" ELSE "wait"]
  BY <1>2 DEF Proceed
<1>6. /\ pc' = [pc EXCEPT ![s] = pc'[s]]
      /\ pc'[s] = "analyze" => hand[s] \ {id} # {}
      /\ pc'[s] \in {"analyze", "ack", "wait"}
  BY <1>4, <1>5
<1>7. QED
  BY <1>1, <1>2, <1>3, <1>5, <1>6

LEMMA SaveStep ==
  ASSUME Inv, NEW s \in Servers, Save(s)
  PROVE  Inv'
<1> DEFINE id == Oldest(hand[s])
           report == Filed(draft[s], stream[id])
<1>1. /\ id \in hand[s] /\ id \in Events /\ reports[id] = <<>>
      /\ hand' = [hand EXCEPT ![s] = hand[s] \ {id}]
      /\ draft' = [draft EXCEPT ![s] = NoReport]
      /\ pc' = [pc EXCEPT ![s] = pc'[s]]
      /\ pc'[s] = "analyze" => hand[s] \ {id} # {}
      /\ pc'[s] \in {"analyze", "ack", "wait"}
      /\ \E saved \in SUBSET {id} :
           /\ ackIDs' = [ackIDs EXCEPT ![s] = ackIDs[s] \cup saved]
           /\ \/ UNCHANGED reports /\ saved = {}
              \/ reports' = [reports EXCEPT ![id] = Append(<<>>, report)]
      /\ UNCHANGED <<stream, cursor, pel>>
  BY SaveFacts
<1>2. /\ draft[s] \in Draft /\ draft[s].trade = stream[id].trade_no
      /\ stream[id] \in Event
  BY InWork DEF Inv, AtWork, Save
<1>3. /\ report \in Report
      /\ report.trade = IF stream[id].trade_no = BlankTrade
                           THEN stream[id].trade ELSE stream[id].trade_no
  BY <1>2, FiledTypes
<1> HIDE DEF id, report
<1>4. /\ Append(<<>>, report) = <<report>> /\ <<report>> \in Seq(Report)
      /\ Len(<<report>>) = 1 /\ <<report>>[1] = report /\ <<report>> # <<>>
  BY <1>3
<1> DEFINE added == <<report>>
<1> HIDE DEF added
<1>5. added \in Seq(Report) /\ Len(added) = 1 /\ added[1] = report /\ added # <<>>
  BY <1>4 DEF added
<1>6. PICK saved \in SUBSET {id} :
        /\ ackIDs' = [ackIDs EXCEPT ![s] = ackIDs[s] \cup saved]
        /\ \/ UNCHANGED reports /\ saved = {}
           \/ reports' = [reports EXCEPT ![id] = added]
  BY <1>1, <1>4 DEF added
<1>7. /\ reports \in Seq(Seq(Report)) /\ id \in 1 .. Len(reports)
      /\ Events = 1 .. Len(reports) /\ DOMAIN reports = Events
  BY <1>1, Positions DEF Inv, StreamTypes
<1>8. /\ reports' \in Seq(Seq(Report)) /\ Len(reports') = Len(reports)
      /\ \A i \in Events : i # id => reports'[i] = reports[i]
      /\ saved # {} => reports'[id] = added
      /\ reports'[id] \in {<<>>, added}
  <2>1. CASE UNCHANGED reports /\ saved = {}
    BY <1>1, <1>7, <2>1
  <2>2. CASE reports' = [reports EXCEPT ![id] = added]
    BY <1>5, <1>7, <2>2, ExceptSeq
  <2>3. QED
    BY <1>6, <2>1, <2>2
<1>9. Events' = Events
  BY <1>1, <1>8, Positions DEF Events
<1>10. hand[s] \subseteq 1 .. cursor /\ id \in 1 .. cursor
       /\ \A i \in 1 .. cursor : i \in Events
  BY <1>1, Positions DEF Inv, StreamTypes
<1>11. StreamTypes'
  <2>1. /\ stream \in Seq(Transactions) /\ Len(reports) = Len(stream)
        /\ cursor \in 0 .. Len(stream) /\ pel \subseteq 1 .. cursor
        /\ pc \in [Servers -> {"down", "wait", "analyze", "upsert", "save", "ack"}]
        /\ hand \in [Servers -> SUBSET (1 .. cursor)]
        /\ ackIDs \in [Servers -> SUBSET (1 .. cursor)]
        /\ draft \in [Servers -> Draft \cup {NoReport}]
    BY DEF Inv, StreamTypes
  <2>2. hand' \in [Servers -> SUBSET (1 .. cursor)]
    BY <1>1, <1>10, <2>1
  <2>3. ackIDs' \in [Servers -> SUBSET (1 .. cursor)]
    <3>1. ackIDs[s] \cup saved \in SUBSET (1 .. cursor)
      BY <1>10, <2>1
    <3>2. QED
      BY <1>6, <2>1, <3>1
  <2>4. pc' \in [Servers -> {"down", "wait", "analyze", "upsert", "save", "ack"}]
    BY <1>1, <2>1
  <2>5. draft' \in [Servers -> Draft \cup {NoReport}]
    BY <1>1, <2>1
  <2>6. QED
    BY <1>1, <1>8, <2>1, <2>2, <2>3, <2>4, <2>5 DEF StreamTypes
<1>12. AtWork'
  BY <1>1 DEF Inv, StreamTypes, AtWork
<1>13. Unreported'
  <2>1. \A t \in Servers : id \notin hand'[t] /\ hand'[t] \subseteq hand[t]
    BY <1>1 DEF Inv, StreamTypes, Unreported
  <2>2. ASSUME NEW t \in Servers, NEW i \in hand'[t]
        PROVE  reports'[i] = <<>>
    <3>1. i \in hand[t] /\ i # id
      BY <2>1
    <3>2. i \in 1 .. cursor
      BY <3>1 DEF Inv, StreamTypes
    <3>3. reports[i] = <<>>
      BY <3>1 DEF Inv, Unreported
    <3>4. QED
      BY <1>8, <1>10, <3>1, <3>2, <3>3
  <2>3. ASSUME NEW i \in Events, i > cursor
        PROVE  reports'[i] = <<>>
    <3>1. cursor \in Nat /\ i \in Nat
      BY Positions DEF Inv, Events
    <3>2. i # id
      BY <1>10, <2>3, <3>1
    <3>3. QED
      BY <1>8, <2>3, <3>2 DEF Inv, Unreported
  <2>4. \A t, u \in Servers : t # u => hand'[t] \cap hand'[u] = {}
    BY <2>1 DEF Inv, Unreported
  <2>5. ASSUME NEW t \in Servers, NEW i \in ackIDs'[t]
        PROVE  reports'[i] # <<>>
    <3>1. CASE i \in ackIDs[t]
      <4>1. reports[i] # <<>> /\ i # id /\ i \in Events
        BY <1>1, <1>10, <3>1 DEF Inv, StreamTypes, Unreported
      <4>2. QED
        BY <1>8, <4>1
    <3>2. CASE i \notin ackIDs[t]
      <4>1. i = id /\ saved # {}
        BY <1>6, <2>5, <3>2 DEF Inv, StreamTypes
      <4>2. QED
        BY <1>5, <1>8, <4>1
    <3>3. QED
      BY <3>1, <3>2
  <2>6. QED
    BY <1>1, <1>9, <2>2, <2>3, <2>4, <2>5 DEF Unreported
<1>14. ReportedAtMostOnce'
  <2>1. Len(<<>>) <= 1 /\ Len(added) <= 1
    BY <1>5
  <2>2. QED
    BY <1>8, <1>9, <2>1 DEF Inv, ReportedAtMostOnce
<1>15. FiledUnderTrade'
  <2>1. ASSUME NEW i \in Events, NEW n \in 1 .. Len(reports'[i])
        PROVE  reports'[i][n].trade =
                 IF stream[i].trade_no = BlankTrade THEN stream[i].trade
                 ELSE stream[i].trade_no
    <3>1. CASE i # id
      <4>1. reports'[i] = reports[i]
        BY <1>8, <3>1
      <4>2. QED
        BY <2>1, <4>1 DEF Inv, FiledUnderTrade
    <3>2. CASE i = id
      <4>1. reports'[i] # <<>>
        BY <2>1
      <4>2. reports'[i] = added
        BY <1>8, <3>2, <4>1
      <4>3. n \in 1 .. 1
        BY <1>5, <2>1, <4>2
      <4>4. QED
        BY <1>3, <1>5, <3>2, <4>2, <4>3
    <3>3. QED
      BY <3>1, <3>2
  <2>2. QED
    BY <1>1, <1>9, <2>1 DEF FiledUnderTrade
<1>16. QED
  BY <1>11, <1>12, <1>13, <1>14, <1>15 DEF Inv

LEMMA AckStep ==
  ASSUME Inv, NEW s \in Servers, Ack(s)
  PROVE  Inv'
<1>1. /\ pc[s] = "ack" /\ pc' = [pc EXCEPT ![s] = "wait"]
      /\ pel' \in {pel, pel \ ackIDs[s]}
      /\ ackIDs' = [ackIDs EXCEPT ![s] = {}]
      /\ UNCHANGED <<stream, cursor, hand, draft, reports>>
  BY DEF Ack, analysis
<1>2. StreamTypes'
  BY <1>1 DEF Inv, StreamTypes
<1>3. AtWork' /\ Unreported'
  BY <1>1 DEF Inv, StreamTypes, AtWork, Unreported, Events
<1>4. QED
  BY <1>1, <1>2, <1>3, SameReports DEF Inv

LEMMA InvStep == Inv /\ [Next]_vars => Inv'
<1> SUFFICES ASSUME Inv, [Next]_vars
             PROVE  Inv'
  OBVIOUS
<1>1. CASE \E event \in Transactions : Publish(event)
  BY <1>1, PublishStep
<1>2. CASE \E s \in Servers : Server(s) \/ Stop(s)
  BY <1>2, StartStep, ConsumeStep, AnalyzeStep, UpsertStep, SaveStep, AckStep,
     StopStep DEF Server
<1>3. CASE UNCHANGED vars
  <2>1. UNCHANGED <<stream, cursor, pel, pc, hand, draft, ackIDs, reports>>
    BY <1>3 DEF vars, redis, consumer, analysis
  <2>2. StreamTypes' /\ AtWork' /\ Unreported'
    BY <2>1 DEF Inv, StreamTypes, AtWork, Unreported, Events
  <2>3. QED
    BY <2>1, <2>2, SameReports DEF Inv
<1>4. QED
  BY <1>1, <1>2, <1>3 DEF Next

THEOREM Invariance == Spec => []Inv
BY InvInit, InvStep, PTL DEF Spec

\* No event is reported twice, whatever is lost, whoever stops and however
\* many servers read: what is in hand is in one hand and has no report.
THEOREM ReportedOnce == Spec => []ReportedAtMostOnce
<1>1. Inv => ReportedAtMostOnce
  BY DEF Inv
<1>2. QED
  BY <1>1, Invariance, PTL

\* A report lies under the trade number of its event's context, or of the
\* event where the context names none.
THEOREM ReportsFiled == Spec => []FiledUnderTrade
<1>1. Inv => FiledUnderTrade
  BY DEF Inv
<1>2. QED
  BY <1>1, Invariance, PTL

-----------------------------------------------------------------------------
(* The past cases.                                                         *)

\* The events of which a server may still make a case.
Pending(s) == IF pc[s] = "save" THEN hand[s] \ {Oldest(hand[s])} ELSE hand[s]

\* Cases were made of events that were handed out.
CasesAreOld ==
  /\ milvus \subseteq 1 .. cursor
  /\ \A s \in Servers :
       learned[s] \subseteq 1 .. cursor /\ ToSet(memory[s]) \subseteq 0 .. cursor

\* An event of which a case may still be made has none yet, and is younger
\* than all that its server has made a case of.
CasesInOrder ==
  \A s \in Servers : \A id \in Pending(s) : id \notin milvus /\ IsNewest(s, id)

RestTypes ==
  /\ first \in Nat \ {0}
  /\ group \in BOOLEAN
  /\ seen \in [Servers -> SUBSET (0 .. cursor)]

CasesInv ==
  RestTypes /\ StoreInv /\ CasesAreOld /\ CasesInOrder /\ PrecedentsAreThere

\* A step that writes no case and hands out no event.
LEMMA NoCaseWritten ==
  ASSUME CasesInv, UNCHANGED <<cursor, store>>, RestTypes', PrecedentsAreThere',
         \A s \in Servers : Pending(s)' \subseteq Pending(s)
  PROVE  CasesInv'
<1>1. UNCHANGED <<kind, memory, milvus, learned>>
  BY DEF store
<1>2. StoreInv'
  BY <1>1 DEF CasesInv, StoreInv, StoreTypes, StoreTypeOK, Sorted, CaseIsKept
<1>3. CasesAreOld'
  BY <1>1 DEF CasesInv, CasesAreOld
<1>4. CasesInOrder'
  BY <1>1 DEF CasesInv, CasesInOrder, IsNewest
<1>5. QED
  BY <1>2, <1>3, <1>4 DEF CasesInv

\* Servers that have the same in hand and in mind as before still have their
\* precedents.
LEMMA SamePrecedents ==
  ASSUME PrecedentsAreThere, NEW s \in Servers,
         \A t \in Servers \ {s} :
           pc'[t] = pc[t] /\ hand'[t] = hand[t] /\ seen'[t] = seen[t],
         pc'[s] \notin {"upsert", "save"}
           \/ (seen'[s] # {} /\ Oldest(hand'[s]) \notin seen'[s])
  PROVE  PrecedentsAreThere'
BY DEF PrecedentsAreThere

LEMMA CasesInit == Init => CasesInv
<1> SUFFICES ASSUME Init
             PROVE  CasesInv
  OBVIOUS
<1>1. StoreInv
  BY StoreInvInit DEF Init
<1>2. RestTypes
  <2>1. first \in Nat \ {0}
    BY DEF Init
  <2>2. group \in BOOLEAN
    BY DEF Init
  <2>3. seen \in [Servers -> SUBSET (0 .. cursor)]
    <3>1. {} \in SUBSET (0 .. cursor) /\ seen = [s \in Servers |-> {}]
      BY DEF Init
    <3> HIDE DEF Init
    <3>2. QED
      BY <3>1
  <2>4. QED
    BY <2>1, <2>2, <2>3 DEF RestTypes
<1>3. ToSet(<<Sample>>) = {0}
  BY DEF ToSet, Sample
<1>4. CasesAreOld
  <2>1. 0 .. cursor = {0}
    BY DEF Init
  <2>2. QED
    BY <1>3, <2>1 DEF Init, StoreInit, CasesAreOld
<1>5. CasesInOrder /\ PrecedentsAreThere
  BY DEF Init, CasesInOrder, Pending, PrecedentsAreThere
<1>6. QED
  BY <1>1, <1>2, <1>4, <1>5 DEF CasesInv

LEMMA CasesAfterPublish ==
  ASSUME Inv, CasesInv, NEW event \in Transactions, Publish(event)
  PROVE  CasesInv'
<1>1. UNCHANGED <<cursor, group, pc, hand, seen, store>>
  BY DEF Publish, consumer, analysis
<1>2. RestTypes'
  BY <1>1 DEF CasesInv, RestTypes, Publish
<1>3. PrecedentsAreThere'
  BY <1>1 DEF CasesInv, PrecedentsAreThere
<1>4. \A s \in Servers : Pending(s)' = Pending(s)
  BY <1>1 DEF Pending
<1>5. QED
  BY <1>1, <1>2, <1>3, <1>4, NoCaseWritten

\* A server that starts or stops forgets its cases and its batch.
LEMMA CasesAfterRestart ==
  ASSUME Inv, CasesInv, NEW s \in Servers, Start(s) \/ Stop(s)
  PROVE  CasesInv'
<1> DEFINE Facts ==
             /\ \/ hand'[s] = {}
                \/ hand'[s] = hand[s] /\ pc[s] = "down"
             /\ \A t \in Servers \ {s} :
                  pc'[t] = pc[t] /\ hand'[t] = hand[t] /\ seen'[t] = seen[t]
             /\ pc'[s] \in {"wait", "down"}
             /\ NewVectorStore(s) \/ CloseStore(s)
             /\ UNCHANGED <<cursor, first>> /\ group' \in BOOLEAN
             /\ seen' \in [Servers -> SUBSET (0 .. cursor)]
<1>1. Facts
  <2>1. /\ pc \in [Servers -> {"down", "wait", "analyze", "upsert", "save", "ack"}]
        /\ hand \in [Servers -> SUBSET (1 .. cursor)]
        /\ seen \in [Servers -> SUBSET (0 .. cursor)]
        /\ group \in BOOLEAN
    BY DEF Inv, StreamTypes, CasesInv, RestTypes
  <2>2. CASE Start(s)
    <3>1. /\ pc[s] = "down" /\ pc' = [pc EXCEPT ![s] = "wait"]
          /\ group' = TRUE \/ group' = group
          /\ NewVectorStore(s)
          /\ UNCHANGED <<cursor, first, hand, seen>>
      BY <2>2 DEF Start, analysis
    <3>2. group' \in BOOLEAN
      BY <2>1, <3>1
    <3>3. QED
      BY <2>1, <3>1, <3>2
  <2>3. CASE Stop(s)
    <3>1. /\ pc' = [pc EXCEPT ![s] = "down"]
          /\ hand' = [hand EXCEPT ![s] = {}] /\ seen' = [seen EXCEPT ![s] = {}]
          /\ CloseStore(s)
          /\ UNCHANGED <<cursor, first, group>>
      BY <2>3 DEF Stop, redis
    <3>2. group' \in BOOLEAN
      BY <2>1, <3>1
    <3>3. QED
      BY <2>1, <3>1, <3>2
  <2>4. QED
    BY <2>2, <2>3
<1>2. /\ StoreInv'
      /\ memory' = [memory EXCEPT ![s] = <<Sample>>]
      /\ learned' = [learned EXCEPT ![s] = {}]
      /\ UNCHANGED milvus
  BY <1>1, ForgetKeepsStore DEF CasesInv
<1>3. /\ \A t \in Servers \ {s} : memory'[t] = memory[t] /\ learned'[t] = learned[t]
      /\ memory'[s] = <<Sample>> /\ learned'[s] = {}
      /\ ToSet(<<Sample>>) = {0}
  BY <1>2 DEF CasesInv, StoreInv, StoreTypes, ToSet, Sample
<1>4. RestTypes'
  BY <1>1 DEF CasesInv, RestTypes
<1>5. CasesAreOld'
  <2>1. 0 \in 0 .. cursor
    BY Positions DEF Inv
  <2>2. QED
    BY <1>1, <1>2, <1>3, <2>1 DEF CasesInv, CasesAreOld
<1>6. ASSUME NEW t \in Servers, NEW id \in Pending(t)'
      PROVE  id \notin milvus' /\ IsNewest(t, id)'
  <2>1. CASE t # s
    <3>1. id \in Pending(t)
      BY <1>1, <1>6, <2>1 DEF Pending
    <3>2. QED
      BY <1>2, <1>3, <2>1, <3>1 DEF CasesInv, CasesInOrder, IsNewest
  <2>2. CASE t = s
    <3>1. id \in hand'[s] /\ id \in Pending(s)
      BY <1>1, <1>6, <2>2 DEF Pending
    <3>2. id \in 1 .. cursor
      BY <1>1, <3>1 DEF Inv, StreamTypes
    <3>3. id \notin milvus'
      BY <1>2, <3>1 DEF CasesInv, CasesInOrder
    <3>4. \A old \in learned'[s] \cup ToSet(memory'[s]) : old < id
      BY <1>3, <3>2, Positions DEF Inv
    <3>5. QED
      BY <2>2, <3>3, <3>4 DEF IsNewest
  <2>3. QED
    BY <2>1, <2>2
<1>7. PrecedentsAreThere'
  BY <1>1, SamePrecedents DEF CasesInv
<1>8. QED
  BY <1>2, <1>4, <1>5, <1>6, <1>7 DEF CasesInv, CasesInOrder

\* A read hands out events that are younger than all cases.
LEMMA CasesAfterConsume ==
  ASSUME Inv, CasesInv, NEW s \in Servers, Consume(s)
  PROVE  CasesInv'
<1>1. /\ cursor' \in cursor + 1 .. Len(stream)
      /\ NextBatch \subseteq cursor + 1 .. cursor'
  BY BatchIsNew DEF Inv, Consume
<1>2. /\ pc[s] = "wait"
      /\ \/ UNCHANGED <<pc, hand>>
         \/ /\ hand' = [hand EXCEPT ![s] = NextBatch]
            /\ pc' = [pc EXCEPT ![s] = "analyze"]
      /\ UNCHANGED <<first, group, seen, kind, memory, milvus, learned>>
  BY DEF Consume, TakeInHand, analysis, store
<1>3. cursor \in Nat /\ Len(stream) \in Nat
  BY Positions DEF Inv
<1>4. /\ pc \in [Servers -> {"down", "wait", "analyze", "upsert", "save", "ack"}]
      /\ hand \in [Servers -> SUBSET (1 .. cursor)]
  BY DEF Inv, StreamTypes
<1>5. 0 .. cursor \subseteq 0 .. cursor' /\ 1 .. cursor \subseteq 1 .. cursor'
  BY <1>1, <1>3
<1>6. RestTypes'
  <2>1. seen' \in [Servers -> SUBSET (0 .. cursor')]
    BY <1>2, <1>5 DEF CasesInv, RestTypes
  <2>2. first' \in Nat \ {0}
    BY <1>2 DEF CasesInv, RestTypes
  <2>3. group' \in BOOLEAN
    BY <1>2 DEF CasesInv, RestTypes
  <2>4. QED
    BY <2>1, <2>2, <2>3 DEF RestTypes
<1>7. StoreInv'
  BY <1>2 DEF CasesInv, StoreInv, StoreTypes, StoreTypeOK, Sorted, CaseIsKept
<1>8. CasesAreOld'
  BY <1>2, <1>5 DEF CasesInv, CasesAreOld
<1>9. ASSUME NEW t \in Servers, NEW id \in Pending(t)'
      PROVE  id \notin milvus' /\ IsNewest(t, id)'
  <2>1. CASE pc'[t] = pc[t] /\ hand'[t] = hand[t]
    <3>1. id \in Pending(t)
      BY <1>9, <2>1 DEF Pending
    <3>2. QED
      BY <1>2, <3>1 DEF CasesInv, CasesInOrder, IsNewest
  <2>2. CASE hand'[t] = NextBatch
    <3>1. id \in cursor + 1 .. cursor'
      BY <1>1, <1>9, <2>2 DEF Pending
    <3>2. /\ milvus \subseteq 1 .. cursor
          /\ learned[t] \cup ToSet(memory[t]) \subseteq 0 .. cursor
      BY <1>3 DEF CasesInv, CasesAreOld
    <3>3. id \notin milvus /\ \A old \in learned[t] \cup ToSet(memory[t]) : old < id
      BY <1>3, <3>1, <3>2
    <3>4. QED
      BY <1>2, <3>3 DEF IsNewest
  <2>3. QED
    BY <1>2, <1>4, <2>1, <2>2
<1>10. PrecedentsAreThere'
  <2>1. CASE UNCHANGED <<pc, hand>>
    BY <1>2, <2>1 DEF CasesInv, PrecedentsAreThere
  <2>2. CASE /\ hand' = [hand EXCEPT ![s] = NextBatch]
             /\ pc' = [pc EXCEPT ![s] = "analyze"]
    <3>1. pc'[s] = "analyze"
      BY <1>4, <2>2
    <3>2. \A t \in Servers \ {s} :
            pc'[t] = pc[t] /\ hand'[t] = hand[t] /\ seen'[t] = seen[t]
      BY <1>2, <1>4, <2>2
    <3>3. QED
      BY <3>1, <3>2, SamePrecedents DEF CasesInv
  <2>3. QED
    BY <1>2, <2>1, <2>2
<1>11. QED
  BY <1>6, <1>7, <1>8, <1>9, <1>10 DEF CasesInv, CasesInOrder

\* An analysis finds cases, and none of them is of the event in question.
LEMMA CasesAfterAnalyze ==
  ASSUME Inv, CasesInv, NEW s \in Servers, Analyze(s)
  PROVE  CasesInv'
<1> DEFINE id == Oldest(hand[s])
<1>1. PICK cases \in Matches(s) : seen' = [seen EXCEPT ![s] = cases]
  BY DEF Analyze
<1>2. PICK next \in {"save", "upsert"} : pc' = [pc EXCEPT ![s] = next]
  BY DEF Analyze
<1>3. pc[s] = "analyze" /\ UNCHANGED <<first, group, cursor, hand, store>>
  BY DEF Analyze, redis
<1>4. /\ pc \in [Servers -> {"down", "wait", "analyze", "upsert", "save", "ack"}]
      /\ seen \in [Servers -> SUBSET (0 .. cursor)]
      /\ cursor \in Nat
  BY Positions DEF Inv, StreamTypes, CasesInv, RestTypes
<1>5. cases # {} /\ cases \subseteq milvus \cup ToSet(memory[s])
  BY MatchesAreCases DEF CasesInv
<1>6. cases \subseteq 0 .. cursor
  BY <1>4, <1>5 DEF CasesInv, CasesAreOld
<1>7. id \in Pending(s) /\ id \in Nat
  BY <1>3, <1>4, InWork DEF Pending
<1>8. id \notin cases
  <2>1. id \notin milvus /\ IsNewest(s, id)
    BY <1>7 DEF CasesInv, CasesInOrder
  <2>2. \A old \in ToSet(memory[s]) : old < id
    BY <2>1 DEF IsNewest
  <2>3. ~ (id < id)
    BY <1>7
  <2> HIDE DEF id
  <2>4. QED
    BY <1>5, <2>1, <2>2, <2>3
<1>9. RestTypes'
  <2>1. seen' \in [Servers -> SUBSET (0 .. cursor)]
    BY <1>1, <1>4, <1>6
  <2>2. QED
    BY <1>3, <2>1 DEF CasesInv, RestTypes
<1>10. PrecedentsAreThere'
  <2>1. \A t \in Servers \ {s} :
          pc'[t] = pc[t] /\ hand'[t] = hand[t] /\ seen'[t] = seen[t]
    BY <1>1, <1>2, <1>3, <1>4
  <2>2. seen'[s] # {} /\ Oldest(hand'[s]) \notin seen'[s]
    BY <1>1, <1>3, <1>4, <1>5, <1>8
  <2>3. QED
    BY <2>1, <2>2, SamePrecedents DEF CasesInv
<1>11. ASSUME NEW t \in Servers
       PROVE  Pending(t)' \subseteq Pending(t)
  <2>1. hand'[t] = hand[t] /\ (pc'[t] = pc[t] \/ pc[t] = "analyze")
    BY <1>2, <1>3, <1>4
  <2>2. QED
    BY <2>1 DEF Pending
<1>12. QED
  BY <1>3, <1>9, <1>10, <1>11, NoCaseWritten

\* A case that is written is the newest of its server, and nobody else has
\* its event in hand.
LEMMA CasesAfterUpsert ==
  ASSUME Inv, CasesInv, NEW s \in Servers, Upsert(s)
  PROVE  CasesInv'
<1> DEFINE id == Oldest(hand[s])
<1>1. /\ pc[s] = "upsert" /\ pc' = [pc EXCEPT ![s] = "save"]
      /\ UpsertCase(s, id)
      /\ UNCHANGED <<first, group, cursor, hand, seen>>
  BY DEF Upsert, redis, analysis
<1>2. /\ pc \in [Servers -> {"down", "wait", "analyze", "upsert", "save", "ack"}]
      /\ \A t \in Servers : hand[t] \subseteq 1 .. cursor
      /\ cursor \in Nat
  BY Positions DEF Inv, StreamTypes
<1>3. id \in hand[s] /\ id \in 1 .. cursor /\ \A j \in hand[s] : id <= j
  <2>1. hand[s] \subseteq Nat
    BY <1>2
  <2>2. QED
    BY <1>1, <2>1, InWork, OldestIsMember
<1>4. id \in Pending(s)
  BY <1>1, <1>3 DEF Pending
<1> HIDE DEF id
<1>5. id \in Nat \ {Sample} /\ IsNewest(s, id)
  BY <1>2, <1>3, <1>4 DEF CasesInv, CasesInOrder, Sample
<1>6. /\ StoreInv'
      /\ learned' = [learned EXCEPT ![s] = @ \cup {id}]
      /\ milvus' \in {milvus, milvus \cup {id}}
      /\ ToSet(memory'[s]) \subseteq ToSet(memory[s]) \cup {id}
      /\ \A t \in Servers \ {s} : memory'[t] = memory[t]
  BY <1>1, <1>5, UpsertKeepsStore DEF CasesInv
<1>7. /\ \A t \in Servers \ {s} : learned'[t] = learned[t]
      /\ learned'[s] = learned[s] \cup {id}
  BY <1>6 DEF CasesInv, StoreInv, StoreTypes
<1>8. CasesAreOld'
  <2>1. id \in 0 .. cursor
    BY <1>3
  <2>2. QED
    BY <1>1, <1>3, <1>6, <1>7, <2>1 DEF CasesInv, CasesAreOld
<1>9. ASSUME NEW t \in Servers, NEW j \in Pending(t)'
      PROVE  j \notin milvus' /\ IsNewest(t, j)'
  <2>1. CASE t # s
    <3>1. j \in Pending(t) /\ j \in hand[t]
      BY <1>1, <1>2, <1>9, <2>1 DEF Pending
    <3>2. j # id
      BY <1>3, <2>1, <3>1 DEF Inv, Unreported
    <3>3. QED
      BY <1>6, <1>7, <2>1, <3>1, <3>2 DEF CasesInv, CasesInOrder, IsNewest
  <2>2. CASE t = s
    <3>1. j \in hand[s] \ {id} /\ j \in Pending(s)
      BY <1>1, <1>2, <1>9, <2>2 DEF Pending, id
    <3>2. id < j
      BY <1>2, <1>3, <3>1
    <3>3. j \notin milvus /\ \A old \in learned[s] \cup ToSet(memory[s]) : old < j
      BY <3>1 DEF CasesInv, CasesInOrder, IsNewest
    <3>4. QED
      BY <1>6, <1>7, <2>2, <3>1, <3>2, <3>3 DEF IsNewest
  <2>3. QED
    BY <2>1, <2>2
<1>10. RestTypes'
  BY <1>1 DEF CasesInv, RestTypes
<1>11. PrecedentsAreThere'
  BY <1>1, <1>2 DEF CasesInv, PrecedentsAreThere
<1>12. QED
  BY <1>6, <1>8, <1>9, <1>10, <1>11 DEF CasesInv, CasesInOrder

\* The event that leaves the hand is no longer pending.
LEMMA CasesAfterSave ==
  ASSUME Inv, CasesInv, NEW s \in Servers, Save(s)
  PROVE  CasesInv'
<1> DEFINE id == Oldest(hand[s])
<1>1. /\ hand' = [hand EXCEPT ![s] = hand[s] \ {id}]
      /\ pc' = [pc EXCEPT ![s] = pc'[s]]
      /\ pc'[s] \in {"analyze", "ack", "wait"}
  BY SaveFacts
<1>2. /\ pc[s] = "save" /\ seen' = [seen EXCEPT ![s] = {}]
      /\ UNCHANGED <<first, group, cursor, store>>
  BY DEF Save, Proceed, redis
<1>3. /\ pc \in [Servers -> {"down", "wait", "analyze", "upsert", "save", "ack"}]
      /\ hand \in [Servers -> SUBSET (1 .. cursor)]
      /\ seen \in [Servers -> SUBSET (0 .. cursor)]
  BY DEF Inv, StreamTypes, CasesInv, RestTypes
<1>4. \A t \in Servers \ {s} :
        pc'[t] = pc[t] /\ hand'[t] = hand[t] /\ seen'[t] = seen[t]
  BY <1>1, <1>2, <1>3
<1>5. RestTypes'
  <2>1. seen' \in [Servers -> SUBSET (0 .. cursor)]
    BY <1>2, <1>3
  <2>2. QED
    BY <1>2, <2>1 DEF CasesInv, RestTypes
<1>6. PrecedentsAreThere'
  BY <1>1, <1>4, SamePrecedents DEF CasesInv
<1>7. ASSUME NEW t \in Servers
      PROVE  Pending(t)' \subseteq Pending(t)
  <2>1. CASE t # s
    BY <1>4, <2>1 DEF Pending
  <2>2. CASE t = s
    <3>1. hand'[s] = hand[s] \ {id} /\ pc'[s] # "save" /\ pc[s] = "save"
      BY <1>1, <1>2, <1>3
    <3>2. QED
      BY <2>2, <3>1 DEF Pending
  <2>3. QED
    BY <2>1, <2>2
<1>8. QED
  BY <1>2, <1>5, <1>6, <1>7, NoCaseWritten

LEMMA CasesAfterAck ==
  ASSUME Inv, CasesInv, NEW s \in Servers, Ack(s)
  PROVE  CasesInv'
<1>1. /\ pc[s] = "ack" /\ pc' = [pc EXCEPT ![s] = "wait"]
      /\ UNCHANGED <<first, group, cursor, hand, seen, store>>
  BY DEF Ack, analysis
<1>2. pc \in [Servers -> {"down", "wait", "analyze", "upsert", "save", "ack"}]
  BY DEF Inv, StreamTypes
<1>3. RestTypes'
  BY <1>1 DEF CasesInv, RestTypes
<1>4. PrecedentsAreThere'
  BY <1>1, <1>2 DEF CasesInv, PrecedentsAreThere
<1>5. \A t \in Servers : Pending(t)' \subseteq Pending(t)
  BY <1>1, <1>2 DEF Pending
<1>6. QED
  BY <1>1, <1>3, <1>4, <1>5, NoCaseWritten

LEMMA CasesStep == Inv /\ CasesInv /\ [Next]_vars => CasesInv'
<1> SUFFICES ASSUME Inv, CasesInv, [Next]_vars
             PROVE  CasesInv'
  OBVIOUS
<1>1. CASE \E event \in Transactions : Publish(event)
  BY <1>1, CasesAfterPublish
<1>2. CASE \E s \in Servers : Server(s) \/ Stop(s)
  BY <1>2, CasesAfterRestart, CasesAfterConsume, CasesAfterAnalyze,
     CasesAfterUpsert, CasesAfterSave, CasesAfterAck DEF Server
<1>3. CASE UNCHANGED vars
  <2>1. UNCHANGED <<first, group, cursor, pc, hand, seen, store>>
    BY <1>3 DEF vars, redis, consumer, analysis
  <2>2. RestTypes' /\ PrecedentsAreThere' /\ \A s \in Servers : Pending(s)' = Pending(s)
    BY <2>1 DEF CasesInv, RestTypes, PrecedentsAreThere, Pending
  <2>3. QED
    BY <2>1, <2>2, NoCaseWritten
<1>4. QED
  BY <1>1, <1>2, <1>3 DEF Next

LEMMA CasesInvariance == Spec => []CasesInv
BY CasesInit, CasesStep, Invariance, PTL DEF Spec

\* Every variable stays in its type: among others a saved report has a score
\* from 0 to 100, the group never acknowledges or hands out what was not
\* read, and no memory is empty or over its limit.
THEOREM TypeCorrect == Spec => []TypeOK
<1>1. Inv /\ CasesInv => TypeOK
  <2> SUFFICES ASSUME Inv, CasesInv
               PROVE  TypeOK
    OBVIOUS
  <2>1. /\ stream \in Seq(Transactions) /\ reports \in Seq(Seq(Report))
        /\ Len(reports) = Len(stream) /\ cursor \in 0 .. Len(stream)
        /\ pel \subseteq 1 .. cursor
        /\ pc \in [Servers -> {"down", "wait", "analyze", "upsert", "save", "ack"}]
        /\ hand \in [Servers -> SUBSET (1 .. cursor)]
        /\ ackIDs \in [Servers -> SUBSET (1 .. cursor)]
    BY DEF Inv, StreamTypes
  <2>2. StoreTypeOK
    BY DEF CasesInv, StoreInv, StoreTypes
  <2>3. first \in Nat \ {0} /\ seen \in [Servers -> SUBSET (0 .. cursor)]
    BY DEF CasesInv, RestTypes
  <2>4. group \in BOOLEAN
    BY DEF CasesInv, RestTypes
  <2>5. QED
    BY <2>1, <2>2, <2>3, <2>4 DEF TypeOK
<1>2. QED
  BY <1>1, CasesInvariance, Invariance, PTL

\* Every analysis had past cases to compare with, and none was made of the
\* very event, whether Milvus answers or not and whoever else writes to it.
THEOREM PrecedentsThere == Spec => []PrecedentsAreThere
<1>1. CasesInv => PrecedentsAreThere
  BY DEF CasesInv
<1>2. QED
  BY <1>1, CasesInvariance, PTL

\* What a server has learned since it started is in the collection or in its
\* memory, or the memory is full of cases that are all newer.
THEOREM CasesKept == Spec => []CaseIsKept
<1>1. CasesInv => CaseIsKept
  BY DEF CasesInv, StoreInv
<1>2. QED
  BY <1>1, CasesInvariance, PTL

-----------------------------------------------------------------------------
(* RiskApp implements ConsumerGroup.                                       *)

Reported == {id \in Events : reports[id] # <<>>}

LEMMA PublishMaps ==
  ASSUME Inv, NEW event \in Transactions, Publish(event)
  PROVE  Group!Publish
<1>1. /\ stream' = Append(stream, event) /\ reports' = Append(reports, <<>>)
      /\ UNCHANGED <<cursor, pel>>
  BY DEF Publish
<1>2. /\ stream \in Seq(Transactions) /\ reports \in Seq(Seq(Report))
      /\ Len(reports) = Len(stream) /\ Len(stream) \in Nat
  BY Positions DEF Inv, StreamTypes
<1>3. Len(stream') = Len(stream) + 1
  BY <1>1, <1>2, AppendProperties
<1>4. /\ \A id \in 1 .. Len(reports) : reports'[id] = reports[id]
      /\ reports'[Len(reports) + 1] = <<>>
  <2>1. <<>> \in Seq(Report)
    BY EmptySeq
  <2>2. QED
    BY <1>1, <1>2, <2>1, AppendProperties
<1>5. Events' = Events \cup {Len(reports) + 1} /\ Events = 1 .. Len(reports)
  BY <1>2, <1>3 DEF Events
<1>6. Reported' = Reported
  BY <1>4, <1>5 DEF Reported
<1>7. QED
  BY <1>1, <1>3, <1>6 DEF Group!Publish, Reported

\* What a read skips was trimmed.
LEMMA ConsumeMaps ==
  ASSUME Inv, NEW s \in Servers, Consume(s)
  PROVE  Group!HandOut
<1>1. /\ cursor' \in cursor + 1 .. Len(stream)
      /\ cursor' \in NextBatch /\ NextBatch \subseteq cursor + 1 .. cursor'
      /\ pel' = pel \cup NextBatch
  BY BatchIsNew DEF Inv, Consume
<1>2. UNCHANGED <<stream, reports>> /\ cursor \in Nat /\ Len(stream) \in Nat
  BY Positions DEF Consume, Inv
<1>3. Reported' = Reported /\ Len(stream)' = Len(stream)
  BY <1>2 DEF Reported, Events
<1> DEFINE skipped == (cursor + 1 .. cursor') \ NextBatch
<1>4. skipped \in SUBSET ((cursor + 1) .. (cursor' - 1))
  <2>1. cursor' \in Int
    BY <1>1, <1>2
  <2>2. ASSUME NEW i \in skipped
        PROVE  i \in (cursor + 1) .. (cursor' - 1)
    <3>1. i \in cursor + 1 .. cursor' /\ i \notin NextBatch
      BY <2>2
    <3>2. i # cursor'
      BY <1>1, <3>1
    <3>3. \A low, high, k \in Int :
            k \in low + 1 .. high /\ k # high => k \in (low + 1) .. (high - 1)
      OBVIOUS
    <3>4. cursor \in Int /\ i \in Int
      BY <1>2, <3>1
    <3>5. QED
      BY <2>1, <3>1, <3>2, <3>3, <3>4
  <2>3. QED
    BY <2>2
<1>5. pel' = pel \cup (((cursor + 1) .. cursor') \ skipped)
  BY <1>1
<1> HIDE DEF skipped
<1>6. \E trimmed \in SUBSET ((cursor + 1) .. (cursor' - 1)) :
        /\ TRUE \/ trimmed = {}
        /\ pel' = pel \cup (((cursor + 1) .. cursor') \ trimmed)
  BY <1>4, <1>5
<1>7. QED
  BY <1>1, <1>3, <1>6 DEF Group!HandOut, Reported

\* A report that is saved handles its event; a lost one nothing.
LEMMA SaveMaps ==
  ASSUME Inv, NEW s \in Servers, Save(s)
  PROVE  Group!Handle \/ UNCHANGED Group!vars
<1> DEFINE id == Oldest(hand[s])
<1>1. /\ id \in hand[s] /\ id \in Events
      /\ \/ UNCHANGED reports
         \/ reports' = [reports EXCEPT ![id] =
                          Append(<<>>, Filed(draft[s], stream[id]))]
      /\ UNCHANGED <<stream, cursor, pel>>
  BY SaveFacts
<1>2. id \in 1 .. cursor
  BY <1>1 DEF Inv, StreamTypes
<1>3. CASE UNCHANGED reports
  <2>1. Reported' = Reported
    BY <1>1, <1>3 DEF Reported, Events
  <2>2. QED
    BY <1>1, <2>1 DEF Group!vars, Reported
<1>4. CASE reports' = [reports EXCEPT ![id] = Append(<<>>, Filed(draft[s], stream[id]))]
  <2>1. Append(<<>>, Filed(draft[s], stream[id])) # <<>>
    OBVIOUS
  <2> HIDE DEF id
  <2>2. DOMAIN reports = Events /\ Events' = Events
    BY <1>1, Positions DEF Inv, Events
  <2>3. Reported' = Reported \cup {id}
    BY <1>1, <1>4, <2>1, <2>2 DEF Reported
  <2>4. QED
    BY <1>1, <1>2, <2>3 DEF Group!Handle, Reported
<1>5. QED
  BY <1>1, <1>3, <1>4

LEMMA AckMaps ==
  ASSUME Inv, NEW s \in Servers, Ack(s)
  PROVE  Group!Acknowledge
<1>1. /\ pel' \in {pel, pel \ ackIDs[s]}
      /\ UNCHANGED <<stream, cursor, reports>>
  BY DEF Ack
<1>2. ackIDs[s] \subseteq Reported
  BY Positions DEF Inv, StreamTypes, Unreported, Reported
<1>3. Reported' = Reported /\ Len(stream)' = Len(stream)
  BY <1>1 DEF Reported, Events
<1>4. QED
  BY <1>1, <1>2, <1>3 DEF Group!Acknowledge, Reported

\* Steps that ConsumerGroup does not see.
LEMMA Stutters ==
  ASSUME UNCHANGED <<stream, cursor, pel, reports>>
  PROVE  UNCHANGED Group!vars
<1>1. Reported' = Reported /\ Len(stream)' = Len(stream)
  BY DEF Reported, Events
<1>2. QED
  BY <1>1 DEF Group!vars, Reported

LEMMA StepMaps == Inv /\ [Next]_vars => [Group!Next]_(Group!vars)
<1> SUFFICES ASSUME Inv, [Next]_vars
             PROVE  Group!Next \/ UNCHANGED Group!vars
  BY DEF Group!vars
<1>1. CASE \E event \in Transactions : Publish(event)
  BY <1>1, PublishMaps DEF Group!Next
<1>2. ASSUME NEW s \in Servers, Start(s) \/ Stop(s) \/ Analyze(s) \/ Upsert(s)
      PROVE  UNCHANGED Group!vars
  BY <1>2, Stutters DEF Start, Stop, Analyze, Upsert, redis
<1>3. ASSUME NEW s \in Servers, Consume(s) \/ Save(s) \/ Ack(s)
      PROVE  Group!Next \/ UNCHANGED Group!vars
  BY <1>3, ConsumeMaps, SaveMaps, AckMaps DEF Group!Next
<1>4. CASE UNCHANGED vars
  BY <1>4, Stutters DEF vars, redis
<1>5. QED
  BY <1>1, <1>2, <1>3, <1>4 DEF Next, Server

\* The risk consumers keep what a consumer group promises, with trimming,
\* failed saves, lost replies and stops: an event is acknowledged only after
\* its report was saved.
THEOREM ImplementsGroup == Spec => KeepsGroup
<1>1. Init => Group!Init
  BY DEF Init, Group!Init, Events
<1>2. QED
  BY <1>1, StepMaps, Invariance, PTL DEF Spec, KeepsGroup, Group!Spec
=============================================================================
