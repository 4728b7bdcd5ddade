----------------------------- MODULE NotifyApp -----------------------------
(***************************************************************************)
(* How merchants are told of their paid orders: the Redis stream           *)
(* notify_stream with its one consumer group (mq/redis_stream.go) and the  *)
(* consumers that POST its entries (application/notify_app.go).            *)
(*                                                                         *)
(* An entry is known by its position in the stream.  Redis keeps, for the  *)
(* group, the last position that it handed out (cursor) and the pending    *)
(* entries list (pel): handed out, not acknowledged.  Every call can fail, *)
(* before or after it took effect, and a server can stop at any point.     *)
(***************************************************************************)
EXTENDS Integers, Sequences, FiniteSets

CONSTANTS
  Servers,       \* server processes, each with one consumer goroutine
  Orders,        \* what the notifications are about
  BatchSize,     \* XREADGROUP COUNT (10 in the code)
  ScanLimit,     \* XPENDING COUNT (100 in the code)
  MaxEntries,    \* bound on the length of the stream
  MaxPosts,      \* bound on how often the pending scan sends one entry
  ScanWired,     \* TRUE: something runs ProcessPendingMessages and
                 \* RequeueMessage, which nothing in the code calls
  InitMayFail    \* TRUE: XGROUP CREATE can fail when a server starts

ASSUME ConstantsAssumption ==
  /\ BatchSize \in Nat \ {0}
  /\ ScanLimit \in Nat \ {0}
  /\ MaxEntries \in Nat
  /\ MaxPosts \in Nat
  /\ ScanWired \in BOOLEAN
  /\ InitMayFail \in BOOLEAN

VARIABLES
  stream,     \* the entries: the order, and whether its NextRetryAt has come
  group,      \* whether the consumer group exists
  cursor,     \* the group's last delivered entry
  pel,        \* the group's pending entries
  pc,         \* each server's consumer goroutine
  hand,       \* the entries of its batch that it has yet to send, in order
  batch,      \* the ids it will acknowledge
  todo,       \* the pending entries that its pending scan has yet to handle
  posts,      \* how often each entry was POSTed
  received    \* the entries that the merchant accepted

redis    == <<stream, group, cursor, pel>>
consumer == <<pc, hand, batch>>
merchant == <<posts, received>>
vars     == <<redis, consumer, todo, merchant>>

Entries == 1 .. Len(stream)

Entry == [order : Orders, due : BOOLEAN]

Init ==
  /\ stream = <<>>
  /\ group = FALSE
  /\ cursor = 0
  /\ pel = {}
  /\ pc = [s \in Servers |-> "down"]
  /\ hand = [s \in Servers |-> {}]
  /\ batch = [s \in Servers |-> {}]
  /\ todo = [s \in Servers |-> {}]
  /\ posts = <<>>
  /\ received = {}

-----------------------------------------------------------------------------
(* The stream                                                              *)

\* XADD of n copies of a message, without MAXLEN.
XAdd(order, due, n) ==
  /\ stream' = stream \o [i \in 1 .. n |-> [order |-> order, due |-> due]]
  /\ posts' = posts \o [i \in 1 .. n |-> 0]

\* PublishNotify of PayApp: a new message has no NextRetryAt.
Publish(order) ==
  /\ Len(stream) < MaxEntries
  /\ XAdd(order, TRUE, 1)
  /\ UNCHANGED <<group, cursor, pel, consumer, todo, received>>

\* A server starts: InitStream, whose failure is only logged, then the
\* consumer.  The group starts before the first entry.
Start(s) ==
  /\ pc[s] = "down"
  /\ pc' = [pc EXCEPT ![s] = "wait"]
  /\ group' = TRUE \/ (InitMayFail /\ group' = group)
  /\ UNCHANGED <<stream, cursor, pel, hand, batch, todo, merchant>>

\* A server stops, gracefully or not: nothing waits for the consumer.
Stop(s) ==
  /\ pc[s] # "down"
  /\ pc' = [pc EXCEPT ![s] = "down"]
  /\ hand' = [hand EXCEPT ![s] = {}]
  /\ batch' = [batch EXCEPT ![s] = {}]
  /\ todo' = [todo EXCEPT ![s] = {}]
  /\ UNCHANGED <<redis, merchant>>

-----------------------------------------------------------------------------
(* processMessages                                                         *)

First(ids) == CHOOSE i \in ids : \A j \in ids : i <= j

NextBatch == {i \in Entries : cursor < i /\ i <= cursor + BatchSize}

\* What a consumer does with a reply to its read.
TakeInHand(s, ids) ==
  /\ hand' = [hand EXCEPT ![s] = ids]
  /\ batch' = [batch EXCEPT ![s] = ids]
  /\ pc' = [pc EXCEPT ![s] = "send"]

\* Variant of Consume: entries are read outside of the group's cursor.
ConsumeKeepingCursor(s) ==
  /\ pc[s] = "wait"
  /\ group
  /\ NextBatch # {}
  /\ pel' = pel \cup NextBatch
  /\ TakeInHand(s, NextBatch)
  /\ UNCHANGED <<stream, group, cursor, todo, merchant>>

\* Variant of Consume: nothing new is read while entries are pending.
ConsumeWhenNonePending(s) ==
  /\ pc[s] = "wait"
  /\ group
  /\ NextBatch # {}
  /\ pel = {}
  /\ cursor' = cursor + Cardinality(NextBatch)
  /\ pel' = NextBatch
  /\ TakeInHand(s, NextBatch) \/ UNCHANGED consumer
  /\ UNCHANGED <<stream, group, todo, merchant>>

\* XREADGROUP ">": the next new entries become pending.  Without new entries
\* the call blocks, without a group it fails, and when its reply is lost the
\* entries are pending all the same.
Consume(s) ==
  /\ pc[s] = "wait"
  /\ group
  /\ NextBatch # {}
  /\ cursor' = cursor + Cardinality(NextBatch)
  /\ pel' = pel \cup NextBatch
  /\ TakeInHand(s, NextBatch) \/ UNCHANGED consumer
  /\ UNCHANGED <<stream, group, todo, merchant>>

\* The POST of an entry, which the merchant accepts or not.
Post(id) ==
  /\ posts' = [posts EXCEPT ![id] = @ + 1]
  /\ received' \in {received, received \cup {id}}

\* sendNotify for the next entry of the batch; an error is logged.
Send(s) ==
  /\ pc[s] = "send"
  /\ LET rest == hand[s] \ {First(hand[s])} IN
       /\ Post(First(hand[s]))
       /\ hand' = [hand EXCEPT ![s] = rest]
       /\ pc' = [pc EXCEPT ![s] = IF rest = {} THEN "ack" ELSE "send"]
  /\ UNCHANGED <<redis, batch, todo>>

\* Variant of Ack: everything pending is acknowledged with the batch.
AckAllPending(s) ==
  /\ pc[s] = "ack"
  /\ pel' = {}
  /\ batch' = [batch EXCEPT ![s] = {}]
  /\ pc' = [pc EXCEPT ![s] = "wait"]
  /\ UNCHANGED <<stream, group, cursor, hand, todo, merchant>>

\* XACK of the whole batch, the entries whose POST failed included.
Ack(s) ==
  /\ pc[s] = "ack"
  /\ pel' \in {pel, pel \ batch[s]}
  /\ batch' = [batch EXCEPT ![s] = {}]
  /\ pc' = [pc EXCEPT ![s] = "wait"]
  /\ UNCHANGED <<stream, group, cursor, hand, todo, merchant>>

-----------------------------------------------------------------------------
(* ProcessPendingMessages and RequeueMessage, if something called them.    *)

\* GetPendingMessages lists the first pending entries; one that cannot be
\* read is skipped.
ScanPending(s) ==
  /\ ScanWired
  /\ pc[s] # "down"
  /\ todo[s] = {}
  /\ LET oldest == {i \in pel : Cardinality({j \in pel : j < i}) < ScanLimit}
     IN  \E ids \in SUBSET oldest : todo' = [todo EXCEPT ![s] = ids]
  /\ UNCHANGED <<redis, consumer, merchant>>

\* The next listed entry: skipped before its NextRetryAt, else sent and, when
\* the merchant's answer says so, acknowledged.  Nobody claims an entry.
ScanSend(s) ==
  /\ ScanWired
  /\ todo[s] # {}
  /\ LET id == First(todo[s]) IN
       /\ todo' = [todo EXCEPT ![s] = @ \ {id}]
       /\ \/ /\ stream[id].due
             /\ posts[id] < MaxPosts
             /\ Post(id)
             /\ \/ received' = received \cup {id} /\ pel' = pel \ {id}
                \/ UNCHANGED pel
          \/ /\ ~stream[id].due
             /\ UNCHANGED <<pel, merchant>>
  /\ UNCHANGED <<stream, group, cursor, consumer>>

\* RequeueMessage publishes a later copy; the entry itself stays pending.
Requeue(id) ==
  /\ ScanWired
  /\ Len(stream) < MaxEntries
  /\ id \in pel
  /\ XAdd(stream[id].order, FALSE, 1)
  /\ UNCHANGED <<group, cursor, pel, consumer, todo, received>>

\* An entry's NextRetryAt comes.
RetryTime(id) ==
  /\ ~stream[id].due
  /\ stream' = [stream EXCEPT ![id].due = TRUE]
  /\ UNCHANGED <<group, cursor, pel, consumer, todo, merchant>>

-----------------------------------------------------------------------------
Server(s) == Start(s) \/ Consume(s) \/ Send(s) \/ Ack(s)

Scan(s) == ScanPending(s) \/ ScanSend(s)

\* Everything but the publication, which is the payment side's.
Deliver ==
  \/ \E s \in Servers : Server(s) \/ Stop(s) \/ Scan(s)
  \/ \E id \in Entries : Requeue(id) \/ RetryTime(id)

Next == (\E o \in Orders : Publish(o)) \/ Deliver

Spec == Init /\ [][Next]_vars

\* Servers are started again, their consumers' calls return, and a server
\* that is started again and again stays up for the five seconds to its first
\* read at some time.
Fairness ==
  \A s \in Servers : WF_vars(Server(s)) /\ SF_vars(Consume(s))

FairSpec == Spec /\ Fairness

-----------------------------------------------------------------------------
\* Every variable stays in its type; what is pending, in hand or accepted is
\* an entry that was handed out.
TypeOK ==
  /\ stream \in Seq(Entry)
  /\ group \in BOOLEAN
  /\ cursor \in 0 .. Len(stream)
  /\ pel \subseteq 1 .. cursor
  /\ pc \in [Servers -> {"down", "wait", "send", "ack"}]
  /\ hand \in [Servers -> SUBSET (1 .. cursor)]
  /\ batch \in [Servers -> SUBSET (1 .. cursor)]
  /\ todo \in [Servers -> SUBSET (1 .. cursor)]
  /\ posts \in Seq(Nat) /\ Len(posts) = Len(stream)
  /\ received \subseteq 1 .. cursor

\* An entry leaves the pending list only after somebody has tried to send
\* it: a stop between the read and the acknowledgement leaves it pending.
AcknowledgedWasPosted ==
  \A id \in (1 .. cursor) \ pel : posts[id] > 0

\* No two consumers send the same entry, although all use one consumer name.
BatchesAreDisjoint ==
  \A s, t \in Servers : s # t => batch[s] \cap batch[t] = {}

Group == INSTANCE ConsumerGroup
           WITH MayTrim   <- FALSE,
                published <- Len(stream),
                last      <- cursor,
                pending   <- pel,
                handled   <- {id \in Entries : posts[id] > 0}

\* With the losses, the stops and the pending scan the consumers keep what
\* the abstract consumer group promises: the entries are handed out in order,
\* each once, and only one that was sent at least once is acknowledged.
KeepsGroup == Group!Spec

\* An acknowledged notification was accepted by the merchant: until then it
\* stays in the pending entries list, to be retried.
AcknowledgedWasReceived ==
  \A id \in (1 .. cursor) \ pel : id \in received

\* Once there is a group every entry is handed out in the end, although
\* servers stop and replies are lost.
StreamIsDrained ==
  \A id \in 1 .. MaxEntries : (id \in Entries /\ group) ~> cursor >= id
=============================================================================
