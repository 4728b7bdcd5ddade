------------------------------ MODULE RiskApp ------------------------------
(***************************************************************************)
(* The risk side path: large transactions are published to the Redis       *)
(* stream risk_event_stream, and a consumer in each server analyses them   *)
(* with a language model and past cases, saves a report for each and       *)
(* acknowledges those it saved (application/copilot_app.go,                *)
(* domain/copilot/service.go, ai_adapter/langchain_rag.go,                 *)
(* mq/redis_stream.go, persistence/gorm_risk_report_repo.go).              *)
(*                                                                         *)
(* Nothing in the code calls PublishHighAmountTransactionEvent; here its   *)
(* callers are free to.  Every call can fail, before or after it took      *)
(* effect, and a server can stop at any point.                             *)
(***************************************************************************)
EXTENDS VectorStore

CONSTANTS
  Trades,        \* trade numbers
  Amounts,       \* amounts in cents
  Transactions,  \* the events that are published
  ModelScores,   \* the risk scores that the language model may answer with
  BlankTrade,    \* an empty trade number, or one that is not a string
  NoReport,      \* no report in a consumer's memory
  BatchSize,     \* XREADGROUP COUNT (20)
  MaxLen,        \* XADD MAXLEN ~ (100000)
  MaxEvents,     \* bound on the events published
  InitMayFail    \* TRUE: XGROUP CREATE can fail when a server starts

\* An event; trade_no is the value of that key in its TransactionCtx,
\* its own trade number where the context has none.
Event == [trade : Trades, amount : Amounts, trade_no : Trades \cup {BlankTrade}]

ASSUME RiskAssumption ==
  /\ Amounts \subseteq Nat
  /\ Transactions \subseteq Event
  /\ ModelScores \subseteq Int
  /\ BlankTrade \notin Trades
  /\ BatchSize \in Nat \ {0}
  /\ MaxLen \in Nat \ {0}
  /\ MaxEvents \in Nat
  /\ InitMayFail \in BOOLEAN

VARIABLES
  stream,     \* the events published, also those that Redis has trimmed
  first,      \* the oldest event that is not trimmed
  group,      \* whether the consumer group exists
  cursor,     \* the group's last delivered event
  pel,        \* the group's pending events
  pc,         \* each server's consumer goroutine
  hand,       \* the events of its batch that it has yet to handle, in order
  seen,       \* the past cases that the analysis in progress was given
  draft,      \* the report in progress
  ackIDs,     \* the events that the batch will acknowledge
  reports     \* table risk_reports: the reports of each event

redis    == <<first, group, cursor, pel>>
analysis == <<seen, draft>>
consumer == <<pc, hand, analysis, ackIDs>>
vars     == <<stream, redis, consumer, reports, store>>

Events == 1 .. Len(stream)

Report == [trade : Trades \cup {BlankTrade}, score : 0 .. 100]

Init ==
  /\ StoreInit
  /\ stream = <<>>
  /\ first = 1
  /\ group = FALSE
  /\ cursor = 0
  /\ pel = {}
  /\ pc = [s \in Servers |-> "down"]
  /\ hand = [s \in Servers |-> {}]
  /\ seen = [s \in Servers |-> {}]
  /\ draft = [s \in Servers |-> NoReport]
  /\ ackIDs = [s \in Servers |-> {}]
  /\ reports = <<>>

-----------------------------------------------------------------------------
(* The stream and its servers                                              *)

\* PublishHighAmountTransactionEvent, PublishRiskEvent: XADD, which may trim
\* the stream, read or not, to no fewer than MaxLen events.  An XADD that
\* the client repeats is a second publication.
Publish(event) ==
  /\ Len(stream) < MaxEvents
  /\ stream' = Append(stream, event)
  /\ reports' = Append(reports, <<>>)
  /\ first' \in {first} \cup {i \in first .. Len(stream') : i + MaxLen <= Len(stream') + 1}
  /\ UNCHANGED <<group, cursor, pel, consumer, store>>

\* A server starts: InitRiskStream, whose failure is only logged, the vector
\* store, the consumer.
Start(s) ==
  /\ pc[s] = "down"
  /\ pc' = [pc EXCEPT ![s] = "wait"]
  /\ group' = TRUE \/ (InitMayFail /\ group' = group)
  /\ NewVectorStore(s)
  /\ UNCHANGED <<stream, first, cursor, pel, hand, analysis, ackIDs, reports>>

\* A server stops: nothing waits for the consumer.
Stop(s) ==
  /\ pc[s] # "down"
  /\ pc' = [pc EXCEPT ![s] = "down"]
  /\ hand' = [hand EXCEPT ![s] = {}]
  /\ seen' = [seen EXCEPT ![s] = {}]
  /\ draft' = [draft EXCEPT ![s] = NoReport]
  /\ ackIDs' = [ackIDs EXCEPT ![s] = {}]
  /\ CloseStore(s)
  /\ UNCHANGED <<stream, redis, reports>>

-----------------------------------------------------------------------------
(* processRiskEvents                                                       *)

Oldest(ids) == CHOOSE i \in ids : \A j \in ids : i <= j

Youngest(ids) == CHOOSE i \in ids : \A j \in ids : j <= i

Unread == {i \in Events : i > cursor /\ i >= first}

NextBatch ==
  {i \in Unread : Cardinality({j \in Unread : j < i}) < BatchSize}

\* What a consumer does with a reply to its read.
TakeInHand(s, ids) ==
  /\ hand' = [hand EXCEPT ![s] = ids]
  /\ pc' = [pc EXCEPT ![s] = "analyze"]

\* Variant of Consume: what is pending is read again with what is new.
ConsumePendingToo(s) ==
  /\ pc[s] = "wait"
  /\ group
  /\ NextBatch \cup pel # {}
  /\ cursor' = Youngest(NextBatch \cup pel)
  /\ pel' = pel \cup NextBatch
  /\ TakeInHand(s, NextBatch \cup pel)
  /\ UNCHANGED <<stream, first, group, analysis, ackIDs, reports, store>>

\* Variant of Consume: nothing new is read while events are pending.
ConsumeWhenNonePending(s) ==
  /\ pc[s] = "wait"
  /\ group
  /\ NextBatch # {}
  /\ pel = {}
  /\ cursor' = Youngest(NextBatch)
  /\ pel' = NextBatch
  /\ TakeInHand(s, NextBatch) \/ UNCHANGED <<pc, hand>>
  /\ UNCHANGED <<stream, first, group, analysis, ackIDs, reports, store>>

\* ConsumeRiskEvents, XREADGROUP ">": the next new events become pending, in
\* the hands of the caller unless the reply is lost.  Without new events the
\* call blocks, without a group it fails.
Consume(s) ==
  /\ pc[s] = "wait"
  /\ group
  /\ NextBatch # {}
  /\ cursor' = Youngest(NextBatch)
  /\ pel' = pel \cup NextBatch
  /\ TakeInHand(s, NextBatch) \/ UNCHANGED <<pc, hand>>
  /\ UNCHANGED <<stream, first, group, analysis, ackIDs, reports, store>>

\* heuristicRiskReport
HeuristicScore(amount) ==
  40 + (IF amount >= 3000000 THEN 45
        ELSE IF amount >= 1000000 THEN 30
        ELSE IF amount >= 500000 THEN 20 ELSE 0)

\* The scores of the reports that take the model's answer, or replace an
\* answer without a JSON object.
AnsweredScores(event) == ModelScores \cup {HeuristicScore(event.amount)}

\* Analyze: past cases, then the model.  When there is none or it fails the
\* heuristic's report goes straight on to Save, otherwise the report is
\* remembered as a case first.  A context's trade_no replaces the event's.
Analyze(s) ==
  LET event == stream[Oldest(hand[s])]
      Drafted(score, next) ==
        /\ draft' = [draft EXCEPT ![s] = [trade |-> event.trade_no, score |-> score]]
        /\ pc' = [pc EXCEPT ![s] = next]
  IN  /\ pc[s] = "analyze"
      /\ \E cases \in Matches(s) : seen' = [seen EXCEPT ![s] = cases]
      /\ \/ Drafted(HeuristicScore(event.amount), "save")
         \/ \E score \in AnsweredScores(event) : Drafted(score, "upsert")
      /\ UNCHANGED <<stream, redis, hand, ackIDs, reports, store>>

\* Analyze's last call; its error is dropped.
Upsert(s) ==
  /\ pc[s] = "upsert"
  /\ UpsertCase(s, Oldest(hand[s]))
  /\ pc' = [pc EXCEPT ![s] = "save"]
  /\ UNCHANGED <<stream, redis, hand, analysis, ackIDs, reports>>

\* Variant of Normalize: only the lower bound is enforced.
NormalizeBelow(report) ==
  [report EXCEPT !.score = IF @ < 0 THEN 0 ELSE @]

\* NormalizeRiskReport
Normalize(report) ==
  [report EXCEPT !.score = IF @ < 0 THEN 0 ELSE IF @ > 100 THEN 100 ELSE @]

\* Variant of Filed: the report keeps the trade number it came with.
FiledAsDrafted(report, event) == Normalize(report)

\* The report as it is saved: one without a trade number takes the event's.
Filed(report, event) ==
  LET normal == Normalize(report)
  IN  IF normal.trade = BlankTrade
        THEN [normal EXCEPT !.trade = event.trade]
        ELSE normal

\* The loop goes on to the next event, after the last one to the
\* acknowledgement of those saved, if there are any.
Proceed(s, saved) ==
  LET rest == hand[s] \ {Oldest(hand[s])}
  IN  /\ hand' = [hand EXCEPT ![s] = rest]
      /\ ackIDs' = [ackIDs EXCEPT ![s] = @ \cup saved]
      /\ seen' = [seen EXCEPT ![s] = {}]
      /\ draft' = [draft EXCEPT ![s] = NoReport]
      /\ pc' = [pc EXCEPT ![s] = IF rest # {} THEN "analyze"
                                 ELSE IF ackIDs'[s] # {} THEN "ack" ELSE "wait"]

\* Variant of Save: an event whose report is not saved is acknowledged too.
SaveOrAcknowledge(s) ==
  LET id    == Oldest(hand[s])
      added == [reports EXCEPT ![id] = Append(@, Filed(draft[s], stream[id]))]
  IN  /\ pc[s] = "save"
      /\ reports' \in {reports, added}
      /\ Proceed(s, {id})
      /\ UNCHANGED <<stream, redis, store>>

\* Save inserts the report; an event whose Save fails is left pending.
Save(s) ==
  LET id    == Oldest(hand[s])
      added == [reports EXCEPT ![id] = Append(@, Filed(draft[s], stream[id]))]
  IN  /\ pc[s] = "save"
      /\ \/ reports' = added /\ Proceed(s, {id})
         \/ reports' \in {reports, added} /\ Proceed(s, {})
      /\ UNCHANGED <<stream, redis, store>>

\* AckRiskEvents; its error is dropped.
Ack(s) ==
  /\ pc[s] = "ack"
  /\ pel' \in {pel, pel \ ackIDs[s]}
  /\ ackIDs' = [ackIDs EXCEPT ![s] = {}]
  /\ pc' = [pc EXCEPT ![s] = "wait"]
  /\ UNCHANGED <<stream, first, group, cursor, hand, analysis, reports, store>>

-----------------------------------------------------------------------------
Server(s) == Start(s) \/ Consume(s) \/ Analyze(s) \/ Upsert(s) \/ Save(s) \/ Ack(s)

Next ==
  \/ \E event \in Transactions : Publish(event)
  \/ \E s \in Servers : Server(s) \/ Stop(s)

Spec == Init /\ [][Next]_vars

\* Servers are started again and their consumers' calls return; one that is
\* started again and again stays up for the three seconds to its first read
\* at some time.
Fairness ==
  \A s \in Servers : WF_vars(Server(s)) /\ SF_vars(Consume(s))

FairSpec == Spec /\ Fairness

-----------------------------------------------------------------------------
\* Every variable stays in its type.  A saved report has a score from 0 to
\* 100, whatever the model answered.
TypeOK ==
  /\ StoreTypeOK
  /\ stream \in Seq(Transactions)
  /\ first \in Nat \ {0}
  /\ group \in BOOLEAN
  /\ cursor \in 0 .. Len(stream)
  /\ pel \subseteq 1 .. cursor
  /\ pc \in [Servers -> {"down", "wait", "analyze", "upsert", "save", "ack"}]
  /\ hand \in [Servers -> SUBSET (1 .. cursor)]
  /\ seen \in [Servers -> SUBSET (0 .. cursor)]
  /\ ackIDs \in [Servers -> SUBSET (1 .. cursor)]
  /\ reports \in Seq(Seq(Report))
  /\ Len(reports) = Len(stream)

Group == INSTANCE ConsumerGroup
           WITH MayTrim   <- TRUE,
                published <- Len(stream),
                last      <- cursor,
                pending   <- pel,
                handled   <- {id \in Events : reports[id] # <<>>}

\* The consumers keep what the abstract consumer group promises: events are
\* handed out in order, each once, and an event leaves the pending list only
\* after its report was saved; failed saves, lost replies and stops in the
\* middle of a batch leave it pending.
KeepsGroup == Group!Spec

\* No event has two reports, although several servers read the stream and a
\* Save may have stored a report whose event stays pending.
ReportedAtMostOnce == \A id \in Events : Len(reports[id]) <= 1

\* A report is filed under the event's trade number or, where the event's
\* context names another, under that one; never under none.
FiledUnderTrade ==
  \A id \in Events : \A i \in 1 .. Len(reports[id]) :
    reports[id][i].trade =
      IF stream[id].trade_no = BlankTrade THEN stream[id].trade ELSE stream[id].trade_no

\* An analysis always has past cases to compare with, Milvus or not, and
\* never the case that was made of the very event.
PrecedentsAreThere ==
  \A s \in Servers : pc[s] \in {"upsert", "save"} =>
    seen[s] # {} /\ Oldest(hand[s]) \notin seen[s]

\* Once there is a group every event is handed out in the end, although
\* servers stop and replies are lost, unless it is trimmed before, which needs
\* MaxLen younger events: the youngest MaxLen ones are never lost to the
\* stream's limit, and none is lost to a failure.
EveryEventIsRead ==
  \A id \in 1 .. MaxEvents :
    (id \in Events /\ group) ~>
      (cursor >= id \/ (id < first /\ id + MaxLen <= Len(stream)))
=============================================================================
