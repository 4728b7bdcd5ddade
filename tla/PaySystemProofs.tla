-------------------------- MODULE PaySystemProofs --------------------------
(***************************************************************************)
(* Theorems about PaySystem: what merchants and channels are told is true. *)
(* The inductive invariant joins the invariants of the payment side and of *)
(* the notification side by what they share, the queue, and adds what the  *)
(* use cases' results and the handlers' answers say of the table.          *)
(***************************************************************************)
EXTENDS PaySystem, PayAppProofs, FiniteSetTheorems, SequenceTheorems, TLAPS

\* The notification side with its theorems, under PaySystem's constants.
Delivery == INSTANCE NotifyAppProofs
              WITH Orders <- TradeNos, pc <- consumerPc, ScanWired <- FALSE,
                   ScanLimit <- 100, MaxPosts <- 0, MaxEntries <- 0

LEMMA DeliveryConstants == Delivery!ConstantsAssumption
BY SystemAssumption DEF Delivery!ConstantsAssumption

-----------------------------------------------------------------------------
(* The notification side of PaySystem is the one that NotifyAppProofs is   *)
(* about.                                                                  *)

LEMMA DeliveryInit == Notify!Init => Delivery!Init
BY DEF Notify!Init, Delivery!Init

LEMMA DeliveryXAdd ==
  ASSUME NEW t, NEW due, NEW n, Notify!XAdd(t, due, n)
  PROVE  Delivery!XAdd(t, due, n)
BY DEF Notify!XAdd, Delivery!XAdd

LEMMA DeliveryServer ==
  ASSUME NEW s \in Servers, Notify!Server(s) \/ Notify!Stop(s)
  PROVE  Delivery!Server(s) \/ Delivery!Stop(s)
<1>1. ASSUME Notify!Start(s)
      PROVE  Delivery!Start(s)
  BY <1>1 DEF Notify!Start, Delivery!Start, Notify!merchant, Delivery!merchant
<1>2. ASSUME Notify!Stop(s)
      PROVE  Delivery!Stop(s)
  BY <1>2 DEF Notify!Stop, Delivery!Stop, Notify!redis, Delivery!redis,
              Notify!merchant, Delivery!merchant
<1>3. ASSUME Notify!Consume(s)
      PROVE  Delivery!Consume(s)
  <2>1. Notify!NextBatch = Delivery!NextBatch
    BY DEF Notify!NextBatch, Delivery!NextBatch, Notify!Entries, Delivery!Entries
  <2>2. Notify!Cardinality(Notify!NextBatch) = Delivery!Cardinality(Delivery!NextBatch)
    BY <2>1 DEF Notify!Cardinality, Delivery!Cardinality
  <2>3. QED
    BY <1>3, <2>1, <2>2
       DEF Notify!Consume, Delivery!Consume, Notify!TakeInHand,
           Delivery!TakeInHand, Notify!consumer, Delivery!consumer,
           Notify!merchant, Delivery!merchant
<1>4. ASSUME Notify!Send(s)
      PROVE  Delivery!Send(s)
  <2>1. Notify!First(hand[s]) = Delivery!First(hand[s])
    BY DEF Notify!First, Delivery!First
  <2>2. QED
    BY <1>4, <2>1 DEF Notify!Send, Delivery!Send, Notify!Post, Delivery!Post,
                      Notify!redis, Delivery!redis
<1>5. ASSUME Notify!Ack(s)
      PROVE  Delivery!Ack(s)
  BY <1>5 DEF Notify!Ack, Delivery!Ack, Notify!merchant, Delivery!merchant
<1>6. QED
  BY <1>1, <1>2, <1>3, <1>4, <1>5 DEF Notify!Server, Delivery!Server

LEMMA DeliveryDeliver == Notify!Deliver => Delivery!Deliver
<1> SUFFICES ASSUME Notify!Deliver
             PROVE  Delivery!Deliver
  OBVIOUS
<1>1. ASSUME NEW s \in Servers, Notify!Scan(s)
      PROVE  FALSE
  BY <1>1 DEF Notify!Scan, Notify!ScanPending, Notify!ScanSend
<1>2. ASSUME NEW id \in Notify!Entries, Notify!Requeue(id)
      PROVE  FALSE
  BY <1>2 DEF Notify!Requeue
<1>3. ASSUME NEW id \in Notify!Entries, Notify!RetryTime(id)
      PROVE  id \in Delivery!Entries /\ Delivery!RetryTime(id)
  BY <1>3 DEF Notify!RetryTime, Delivery!RetryTime, Notify!Entries,
              Delivery!Entries, Notify!consumer, Delivery!consumer,
              Notify!merchant, Delivery!merchant
<1>4. QED
  BY <1>1, <1>2, <1>3, DeliveryServer DEF Notify!Deliver, Delivery!Deliver
-----------------------------------------------------------------------------
(* Every step of the system is a step of the payment side or leaves that   *)
(* alone, so that what is proved of PayApp holds in the system.            *)

LEMMA PayStepIsPayment == PayStep => Next
<1> SUFFICES ASSUME PayStep
             PROVE  Next
  OBVIOUS
<1>1. ASSUME NEW r \in Requests, Check(r) \/ Announce(r) \/ Answer(r) \/ Vanish(r)
      PROVE  Confirm(r) \/ Crash(r)
  BY <1>1 DEF Check, Announce, Answer, Vanish, Confirm
<1>2. CASE Proceed
  BY <1>2 DEF Proceed, Next
<1>3. QED
  BY <1>1, <1>2 DEF PayStep, Next

LEMMA SystemStepIsPayment == [SystemNext]_systemVars => [Next]_vars
<1>1. NotifyStep => UNCHANGED vars
  BY DEF NotifyStep
<1>2. UNCHANGED systemVars => UNCHANGED vars
  BY DEF systemVars
<1>3. QED
  BY <1>1, <1>2, PayStepIsPayment DEF SystemNext

\* The system is an implementation of the payment side: the queue's readers
\* and the answers to the channels take nothing from what PayApp guarantees.
THEOREM SystemKeepsPayment == SystemSpec => Spec
<1>1. SystemInit => Init
  BY DEF SystemInit
<1>2. QED
  BY <1>1, SystemStepIsPayment, PTL DEF SystemSpec, Spec

-----------------------------------------------------------------------------
(* The notification side's invariant.                                      *)

DeliveryInv == Delivery!Inv /\ Delivery!SentOnce

\* What a publication does with the queue: n entries about the order.
LEMMA AnnounceAdds ==
  ASSUME Base, NEW r \in Requests, Announce(r)
  PROVE  \E t \in TradeNos, n \in 0 .. MaxSends :
           /\ t = ent[r].tradeNo
           /\ notified' = [notified EXCEPT ![t] = @ + n]
           /\ Delivery!XAdd(t, TRUE, n)
           /\ Returns(r, n > 0)
<1>1. pc[r] = "PublishNotify" /\ pc[r] \in WithOrder
  BY DEF Announce, PublishNotify, WithOrder
<1>2. PICK t \in TradeNos : t = ent[r].tradeNo
  BY <1>1 DEF Base, InHand, Rows
<1>3. PICK n \in 0 .. MaxSends : notified' = [notified EXCEPT ![t] = @ + n]
  BY <1>2 DEF Announce, PublishNotify
<1>4. notified'[t] - notified[t] = n
  BY <1>2, <1>3 DEF Base, TypeOK
<1>5. Notify!XAdd(t, TRUE, n) /\ Returns(r, n > 0)
  BY <1>2, <1>4 DEF Announce
<1>6. QED
  BY <1>2, <1>3, <1>5, DeliveryXAdd

LEMMA DeliveryInvInit == SystemInit => DeliveryInv
<1> SUFFICES ASSUME SystemInit
             PROVE  DeliveryInv
  OBVIOUS
<1>1. Delivery!Init
  BY DeliveryInit DEF SystemInit
<1>2. Delivery!Inv
  BY <1>1, DeliveryConstants, Delivery!InvInit
<1>3. Delivery!Entries = {}
  BY <1>1 DEF Delivery!Init, Delivery!Entries
<1>4. Delivery!SentOnce
  BY <1>1, <1>3 DEF Delivery!Init, Delivery!SentOnce, Delivery!UnsentInHand,
                    Delivery!SentAtMostOnce
<1>5. QED
  BY <1>2, <1>4 DEF DeliveryInv

LEMMA DeliveryInvStep ==
  ASSUME Base, DeliveryInv, [SystemNext]_systemVars
  PROVE  DeliveryInv'
<1>1. ASSUME NEW r \in Requests, Announce(r), UNCHANGED notifyVars
      PROVE  DeliveryInv'
  <2>1. PICK t \in TradeNos, n \in 0 .. MaxSends : Delivery!XAdd(t, TRUE, n)
    BY <1>1, AnnounceAdds
  <2>2. UNCHANGED <<group, cursor, pel, Delivery!consumer, todo, received>>
    BY <1>1 DEF notifyVars, Delivery!consumer
  <2>3. UNCHANGED <<cursor, hand>> /\ n \in Nat
    BY <2>2 DEF Delivery!consumer
  <2>4. QED
    BY <2>1, <2>2, <2>3, DeliveryConstants, Delivery!XAddStep,
       Delivery!XAddSendsNothing DEF DeliveryInv
<1>2. ASSUME Delivery!Deliver \/ UNCHANGED Delivery!vars
      PROVE  DeliveryInv'
  <2>1. [Delivery!Next]_(Delivery!vars)
    BY <1>2 DEF Delivery!Next
  <2>2. Delivery!Inv'
    BY <2>1, DeliveryConstants, Delivery!InvStep DEF DeliveryInv
  <2>3. Delivery!SentOnce'
    BY <2>1, <2>2, DeliveryConstants, Delivery!SentOnceStep DEF DeliveryInv
  <2>4. QED
    BY <2>2, <2>3 DEF DeliveryInv
<1>3. ASSUME UNCHANGED <<streamVars, notifyVars>>
      PROVE  DeliveryInv'
  <2>1. UNCHANGED Delivery!vars
    BY <1>3 DEF streamVars, notifyVars, Delivery!vars, Delivery!redis,
                Delivery!consumer, Delivery!merchant
  <2>2. QED
    BY <1>2, <2>1
<1>4. CASE PayStep
  <2>1. UNCHANGED streamVars \/ \E r \in Requests : Announce(r)
    BY <1>4 DEF PayStep, Check, Answer, Vanish, Proceed
  <2>2. UNCHANGED notifyVars
    BY <1>4 DEF PayStep
  <2>3. QED
    BY <1>1, <1>3, <2>1, <2>2
<1>5. CASE NotifyStep
  BY <1>2, <1>5, DeliveryDeliver DEF NotifyStep
<1>6. CASE UNCHANGED systemVars
  BY <1>3, <1>6 DEF systemVars
<1>7. QED
  BY <1>4, <1>5, <1>6 DEF SystemNext

-----------------------------------------------------------------------------
(* The queue: what the one side counts is what the other side reads.       *)

Copies(t) == {id \in DOMAIN stream : stream[id].order = t}

QueueIsStream == \A t \in TradeNos : Cardinality(Copies(t)) = notified[t]

\* A publication of n copies adds n entries about its order, and none about
\* another one.
LEMMA XAddCopies ==
  ASSUME Delivery!TypeOK, NEW t \in TradeNos, NEW n \in Nat,
         Delivery!XAdd(t, TRUE, n), NEW u \in TradeNos
  PROVE  Cardinality(Copies(u)') = IF u = t THEN Cardinality(Copies(u)) + n
                                   ELSE Cardinality(Copies(u))
<1> DEFINE new == [order |-> t, due |-> TRUE]
           added == Len(stream) + 1 .. Len(stream) + n
<1>1. Len(stream) \in Nat /\ DOMAIN stream = 1 .. Len(stream)
  BY LenProperties DEF Delivery!TypeOK
<1>2. stream' = stream \o [i \in 1 .. n |-> new]
  BY DEF Delivery!XAdd
<1>3. /\ stream' \in Seq(Delivery!Entry) /\ Len(stream') = Len(stream) + n
      /\ \A i \in 1 .. Len(stream) + n :
           stream'[i] = IF i <= Len(stream) THEN stream[i] ELSE new
  <2>1. stream \in Seq(Delivery!Entry) /\ new \in Delivery!Entry
    BY DEF Delivery!TypeOK, Delivery!Entry
  <2> HIDE DEF new
  <2>2. /\ [i \in 1 .. n |-> new] \in Seq(Delivery!Entry)
        /\ Len([i \in 1 .. n |-> new]) = n
    BY <2>1, IsASeq
  <2>3. \A i \in 1 .. n : [j \in 1 .. n |-> new][i] = new
    OBVIOUS
  <2>4. /\ stream' \in Seq(Delivery!Entry) /\ Len(stream') = Len(stream) + n
        /\ \A i \in 1 .. Len(stream) + n :
             stream'[i] = IF i <= Len(stream) THEN stream[i]
                          ELSE [j \in 1 .. n |-> new][i - Len(stream)]
    BY <1>2, <2>1, <2>2, ConcatProperties
  <2>5. \A i \in 1 .. Len(stream) + n : ~ (i <= Len(stream)) => i - Len(stream) \in 1 .. n
    BY <1>1
  <2>6. QED
    BY <2>3, <2>4, <2>5
<1>4. DOMAIN stream' = (1 .. Len(stream)) \cup added /\ (1 .. Len(stream)) \cap added = {}
  <2>1. DOMAIN stream' = 1 .. Len(stream')
    BY <1>3, LenProperties
  <2>2. QED
    BY <1>1, <1>3, <2>1
<1>5. \A i \in DOMAIN stream : stream'[i] = stream[i]
  BY <1>1, <1>3
<1>6. ASSUME NEW i \in added
      PROVE  stream'[i] = new /\ stream'[i].order = t
  <2>1. i \in 1 .. Len(stream) + n /\ ~ (i <= Len(stream))
    BY <1>1
  <2>2. stream'[i] = new
    BY <1>3, <2>1
  <2>3. QED
    BY <2>2
<1>7. IsFiniteSet(Copies(u)) /\ IsFiniteSet(added) /\ Cardinality(added) = n
  <2>1. IsFiniteSet(DOMAIN stream)
    BY <1>1, FS_Interval
  <2>2. IsFiniteSet(Copies(u))
    BY <2>1, FS_Subset DEF Copies
  <2>3. IsFiniteSet(added) /\ Cardinality(added) = n
    <3> DEFINE first == Len(stream) + 1
               last == Len(stream) + n
    <3>1. first \in Int /\ last \in Int /\ added = first .. last
      BY <1>1
    <3>2. first > last => n = 0
      BY <1>1
    <3>3. last - first + 1 = n
      BY <1>1
    <3> HIDE DEF first, last, added
    <3>4. /\ IsFiniteSet(first .. last)
          /\ Cardinality(first .. last) = IF first > last THEN 0 ELSE last - first + 1
      BY <3>1, FS_Interval
    <3>5. QED
      BY <3>1, <3>2, <3>3, <3>4
  <2>4. QED
    BY <2>2, <2>3
<1> HIDE DEF added, new
<1>8. CASE u = t
  <2>1. Copies(u)' = Copies(u) \cup added /\ Copies(u) \cap added = {}
    BY <1>1, <1>4, <1>5, <1>6, <1>8 DEF Copies
  <2>2. Cardinality(Copies(u) \cup added) = Cardinality(Copies(u)) + n
    <3>1. Cardinality(Copies(u) \cup added)
            = Cardinality(Copies(u)) + Cardinality(added) - Cardinality({})
      BY <1>7, <2>1, FS_Union
    <3>2. Cardinality(Copies(u)) \in Nat /\ Cardinality({}) = 0
      BY <1>7, FS_CardinalityType, FS_EmptySet
    <3>3. QED
      BY <1>7, <3>1, <3>2
  <2>3. QED
    BY <1>8, <2>1, <2>2
<1>9. CASE u # t
  <2>1. Copies(u)' = Copies(u)
    BY <1>1, <1>4, <1>5, <1>6, <1>9 DEF Copies
  <2>2. QED
    BY <1>9, <2>1
<1>10. QED
  BY <1>8, <1>9

\* The consumers change no entry's order.
LEMMA DeliverKeepsOrders ==
  ASSUME Delivery!TypeOK, Notify!Deliver
  PROVE  /\ DOMAIN stream' = DOMAIN stream
         /\ \A id \in DOMAIN stream : stream'[id].order = stream[id].order
<1>1. ASSUME NEW s \in Servers, Notify!Server(s) \/ Notify!Stop(s)
      PROVE  UNCHANGED stream
  BY <1>1 DEF Notify!Server, Notify!Start, Notify!Stop, Notify!Consume,
              Notify!Send, Notify!Ack, Notify!redis
<1>2. ASSUME NEW s \in Servers, Notify!Scan(s)
      PROVE  FALSE
  BY <1>2 DEF Notify!Scan, Notify!ScanPending, Notify!ScanSend
<1>3. ASSUME NEW id \in Notify!Entries, Notify!Requeue(id)
      PROVE  FALSE
  BY <1>3 DEF Notify!Requeue
<1>4. ASSUME NEW id \in Notify!Entries, Notify!RetryTime(id)
      PROVE  /\ DOMAIN stream' = DOMAIN stream
             /\ \A i \in DOMAIN stream : stream'[i].order = stream[i].order
  <2>1. stream' = [stream EXCEPT ![id].due = TRUE]
    BY <1>4 DEF Notify!RetryTime
  <2>2. stream \in [DOMAIN stream -> Delivery!Entry]
    BY LenProperties DEF Delivery!TypeOK
  <2>3. QED
    BY <2>1, <2>2 DEF Delivery!Entry
<1>5. QED
  BY <1>1, <1>2, <1>3, <1>4 DEF Notify!Deliver

LEMMA QueueStep ==
  ASSUME Base, DeliveryInv, QueueIsStream, [SystemNext]_systemVars
  PROVE  QueueIsStream'
<1>1. Delivery!TypeOK /\ notified \in [TradeNos -> Nat]
  BY DEF DeliveryInv, Delivery!Inv, Base, TypeOK
<1>2. ASSUME UNCHANGED <<stream, notified>>
      PROVE  QueueIsStream'
  BY <1>2 DEF QueueIsStream, Copies
<1>3. ASSUME NEW r \in Requests, Announce(r)
      PROVE  QueueIsStream'
  <2>1. PICK t \in TradeNos, n \in 0 .. MaxSends :
          /\ notified' = [notified EXCEPT ![t] = @ + n]
          /\ Delivery!XAdd(t, TRUE, n)
    BY <1>3, AnnounceAdds
  <2>2. n \in Nat
    OBVIOUS
  <2>3. ASSUME NEW u \in TradeNos
        PROVE  Cardinality(Copies(u)') = notified'[u]
    <3>1. Cardinality(Copies(u)') = IF u = t THEN Cardinality(Copies(u)) + n
                                    ELSE Cardinality(Copies(u))
      BY <1>1, <2>1, <2>2, XAddCopies
    <3>2. notified'[u] = IF u = t THEN notified[u] + n ELSE notified[u]
      BY <1>1, <2>1
    <3>3. QED
      BY <3>1, <3>2 DEF QueueIsStream
  <2>4. QED
    BY <2>3 DEF QueueIsStream
<1>4. ASSUME Notify!Deliver, UNCHANGED notified
      PROVE  QueueIsStream'
  <2>1. \A u \in TradeNos : Copies(u)' = Copies(u)
    BY <1>1, <1>4, DeliverKeepsOrders DEF Copies
  <2>2. QED
    BY <1>4, <2>1 DEF QueueIsStream
<1>5. CASE PayStep
  <2>1. ASSUME NEW r \in Requests, Check(r) \/ Answer(r) \/ Vanish(r)
        PROVE  UNCHANGED <<stream, notified>>
    BY <2>1 DEF Check, Answer, Vanish, streamVars, Find, CheckOrder,
                UpdateClosed, UpdateSuccess, Release, Crash, redis
  <2>2. ASSUME Proceed
        PROVE  UNCHANGED <<stream, notified>>
    BY <2>2 DEF Proceed, streamVars, Create, Save, CreatePay, UpdateProcessing,
                Acquire, LockExpires, OrderExpires, redis
  <2>3. QED
    BY <1>2, <1>3, <1>5, <2>1, <2>2 DEF PayStep
<1>6. CASE NotifyStep
  BY <1>4, <1>6 DEF NotifyStep, vars, redis
<1>7. CASE UNCHANGED systemVars
  BY <1>2, <1>7 DEF systemVars, streamVars, vars, redis
<1>8. QED
  BY <1>5, <1>6, <1>7 DEF SystemNext

-----------------------------------------------------------------------------
(* The answers.                                                            *)

Paid(c) == FindOrder(c) # None /\ FindOrder(c).status = StatusSuccess

\* A use case that is about to return nil, or has done so to somebody, was
\* about an order that is paid.
AnswersAreTrue ==
  /\ answer \in [Requests -> Answers]
  /\ acked \subseteq Calls
  /\ \A r \in Requests : answer[r] = "ok" => pc[r] = "Release" /\ Paid(call[r])
  /\ \A c \in acked : Paid(c)

\* The order that a confirmation finds is paid if its row says so.
LEMMA PaidByRow ==
  ASSUME NEW c \in Calls, c.kind = "mock"
  PROVE  Paid(c) <=> StatusOf(c.ref) = StatusSuccess
<1>1. c \in Call
  BY CallsAssumption
<1>2. FindOrder(c) = orders[c.ref]
  BY <1>1 DEF FindOrder, FindByTradeNo
<1>3. QED
  BY <1>2 DEF Paid, StatusOf, StatusSuccess

\* A confirmation that finds a paid order goes on finding it, and paid.
LEMMA PaidStays ==
  ASSUME Blank = {}, IInv, [Next]_vars, NEW c \in Calls, Paid(c)
  PROVE  Paid(c)'
<1>1. c \in Call
  BY CallsAssumption
<1>2. c.kind = "mock" /\ c.ref \in TradeNos
  BY <1>1, MockFinds DEF Paid, Call
<1>3. StatusOf(c.ref) = StatusSuccess
  BY <1>2, PaidByRow
<1>4. StatusOf(c.ref)' = StatusSuccess
  BY <1>2, <1>3, SuccessIsFinal
<1>5. FindOrder(c)' = orders'[c.ref]
  BY <1>2 DEF FindOrder, FindByTradeNo
<1>6. QED
  BY <1>4, <1>5 DEF Paid, StatusOf, StatusSuccess

\* A step of a request, after which a good answer of its use case is about a
\* paid order, and that adds at most this answer to the acknowledged ones.
LEMMA AnswersAfterStep ==
  ASSUME Blank = {}, IInv, AnswersAreTrue, [Next]_vars, NEW r \in Requests,
         \A q \in Requests : q # r => pc'[q] = pc[q] /\ call'[q] = call[q],
         NEW a \in Answers, answer' = [answer EXCEPT ![r] = a],
         a = "ok" => pc'[r] = "Release" /\ call[r] \in Calls /\ call'[r] = call[r]
                     /\ Paid(call[r]),
         \/ acked' = acked
         \/ answer[r] = "ok" /\ acked' = acked \cup {call[r]}
  PROVE  AnswersAreTrue'
<1>1. /\ answer' \in [Requests -> Answers]
      /\ answer'[r] = a
      /\ \A q \in Requests : q # r => answer'[q] = answer[q]
  BY DEF AnswersAreTrue
<1>2. \A q \in Requests : answer[q] = "ok" => call[q] \in Calls /\ Paid(call[q])
  BY DEF AnswersAreTrue, IInv, Base, InHand, Holding
<1>3. ASSUME NEW q \in Requests, answer'[q] = "ok"
      PROVE  pc'[q] = "Release" /\ Paid(call[q])' /\ call'[q] = call[q]
  <2>1. pc'[q] = "Release" /\ call'[q] = call[q] /\ call[q] \in Calls
    BY <1>1, <1>2, <1>3 DEF AnswersAreTrue
  <2>2. PICK c \in Calls : c = call[q]
    BY <2>1
  <2>3. Paid(c)
    <3>1. CASE q = r
      BY <1>1, <1>3, <2>2, <3>1
    <3>2. CASE q # r
      BY <1>1, <1>2, <1>3, <2>2, <3>2
    <3>3. QED
      BY <3>1, <3>2
  <2>4. Paid(c)'
    BY <2>3, PaidStays
  <2>5. Paid(call[q])'
    BY <2>1, <2>2, <2>4
       DEF Paid, FindOrder, FindByTradeNo, FindByOutTradeNo, Rows
  <2>6. QED
    BY <2>1, <2>5
<1>4. /\ acked' \subseteq Calls
      /\ \A c \in acked' : c \in Calls /\ Paid(c)
  BY <1>2 DEF AnswersAreTrue
<1>5. \A c \in acked' : Paid(c)'
  BY <1>4, PaidStays
<1>6. QED
  BY <1>1, <1>3, <1>4, <1>5 DEF AnswersAreTrue

\* The lookup and the steps to the end of the use case: only an order that
\* was already successful ends it well.
LEMMA CheckAnswers ==
  ASSUME Blank = {}, IInv, AnswersAreTrue, NEW r \in Requests, Check(r)
  PROVE  AnswersAreTrue'
<1>1. pc[r] \in Holding \ {"Release"} /\ UNCHANGED call /\ Confirm(r) /\ UNCHANGED acked
  BY DEF Check, Find, CheckOrder, UpdateClosed, UpdateSuccess, Holding, Confirm,
         Returns
<1>2. call[r] \in Calls /\ answer[r] \in Answers /\ answer[r] # "ok"
  BY <1>1 DEF IInv, Base, InHand, AnswersAreTrue
<1>3. \A q \in Requests : q # r => pc'[q] = pc[q]
  BY DEF IInv, Base, TypeOK, Check, Find, CheckOrder, UpdateClosed,
         UpdateSuccess, Return, Goto
<1>4. \/ answer' = [answer EXCEPT ![r] = IF pc'[r] = "Release" THEN "error" ELSE answer[r]]
      \/ /\ AlreadyPaid(r) /\ pc'[r] = "Release"
         /\ answer' = [answer EXCEPT ![r] = "ok"]
  BY DEF Check, Returns
<1>5. AlreadyPaid(r) => Paid(call[r])
  BY DEF AlreadyPaid, Paid
<1>6. PICK a \in Answers :
        /\ answer' = [answer EXCEPT ![r] = a]
        /\ a = "ok" => pc'[r] = "Release" /\ Paid(call[r])
  BY <1>2, <1>4, <1>5 DEF Answers
<1>7. QED
  BY <1>1, <1>2, <1>3, <1>6, AnswersAfterStep DEF Next

\* The use case that put the order on the queue has paid it.
LEMMA AnnounceAnswers ==
  ASSUME Blank = {}, IInv, AnswersAreTrue, NEW r \in Requests, Announce(r)
  PROVE  AnswersAreTrue'
<1>1. /\ pc[r] = "PublishNotify" /\ UNCHANGED call /\ Confirm(r)
      /\ PublishNotify(r) /\ Return(r)
  BY DEF Announce, PublishNotify, Confirm
<1>2. call[r] \in Calls /\ answer[r] \in Answers /\ answer[r] # "ok"
  BY <1>1 DEF IInv, Base, InHand, Holding, AnswersAreTrue
<1>3. /\ \A q \in Requests : q # r => pc'[q] = pc[q]
      /\ pc'[r] = "Release"
  BY <1>1 DEF IInv, Base, TypeOK, Return, Goto
<1>4. Paid(call[r])
  <2>1. PICK t \in TradeNos : t = ent[r].tradeNo
    BY <1>1 DEF IInv, Base, InHand, WithOrder, Rows
  <2>2. call[r].kind = "mock" /\ call[r].ref = t /\ StatusOf(t) = StatusSuccess
    BY <1>1, <2>1 DEF IInv, Confirmation, HandlerIsCurrent, Handling
  <2>3. PICK c \in Calls : c = call[r]
    BY <1>2
  <2>4. QED
    BY <2>2, <2>3, PaidByRow
<1>5. PICK n \in 0 .. MaxSends : Returns(r, n > 0)
  BY AnnounceAdds DEF IInv
<1>6. PICK a \in Answers : answer' = [answer EXCEPT ![r] = a]
  BY <1>2, <1>5 DEF Returns, Answers
<1>7. UNCHANGED acked
  BY <1>5 DEF Returns
<1>8. QED
  BY <1>1, <1>2, <1>3, <1>4, <1>6, <1>7, AnswersAfterStep DEF Next

LEMMA AnswersStep ==
  ASSUME Blank = {}, IInv, AnswersAreTrue, [SystemNext]_systemVars
  PROVE  AnswersAreTrue'
<1>1. [Next]_vars
  BY SystemStepIsPayment
<1>2. /\ pc \in [Requests -> {"idle"} \cup Creating \cup Holding]
      /\ call \in [Requests -> Calls \cup {None}]
      /\ "idle" # "Release" /\ "Release" \notin Creating
  BY DEF IInv, Base, TypeOK, Creating
<1>3. ASSUME NEW r \in Requests, Answer(r) \/ Vanish(r)
      PROVE  AnswersAreTrue'
  <2>1. /\ Finish(r)
        /\ answer' = [answer EXCEPT ![r] = "none"]
        /\ \/ acked' = acked
           \/ answer[r] = "ok" /\ acked' = acked \cup {call[r]}
    BY <1>3 DEF Answer, Vanish, Release, Crash
  <2>2. \A q \in Requests : q # r => pc'[q] = pc[q] /\ call'[q] = call[q]
    BY <1>2, <2>1 DEF Finish, Goto
  <2>3. QED
    BY <1>1, <2>1, <2>2, AnswersAfterStep DEF Answers
<1>4. ASSUME UNCHANGED answerVars,
             \A q \in Requests : pc[q] = "Release" => pc'[q] = pc[q] /\ call'[q] = call[q]
      PROVE  AnswersAreTrue'
  <2>1. ASSUME NEW q \in Requests, answer'[q] = "ok"
        PROVE  pc'[q] = "Release" /\ Paid(call[q])'
    <3>1. /\ pc[q] = "Release" /\ pc'[q] = "Release" /\ call'[q] = call[q]
          /\ Paid(call[q])
      BY <1>4, <2>1 DEF answerVars, AnswersAreTrue
    <3>2. PICK c \in Calls : c = call[q]
      BY <3>1 DEF IInv, Base, InHand, Holding
    <3>3. Paid(c)'
      BY <1>1, <3>1, <3>2, PaidStays
    <3>4. Paid(call[q])'
      BY <3>1, <3>2, <3>3
         DEF Paid, FindOrder, FindByTradeNo, FindByOutTradeNo, Rows
    <3>5. QED
      BY <3>1, <3>4
  <2>2. \A c \in acked : c \in Calls /\ Paid(c)
    BY DEF AnswersAreTrue
  <2>3. \A c \in acked : Paid(c)'
    BY <1>1, <2>2, PaidStays
  <2>4. QED
    BY <1>4, <2>1, <2>3 DEF answerVars, AnswersAreTrue
<1>5. CASE Proceed
  <2>1. ASSUME NEW r \in Requests, Create(r) \/ \E c \in Calls : Acquire(r, c)
        PROVE  \A q \in Requests : pc[q] = "Release" => pc'[q] = pc[q] /\ call'[q] = call[q]
    BY <1>2, <2>1 DEF Create, Save, CreatePay, UpdateProcessing, Acquire, Finish, Goto
  <2>2. ASSUME (\E k \in Keys : LockExpires(k)) \/ \E t \in TradeNos : OrderExpires(t)
        PROVE  UNCHANGED <<pc, call>>
    BY <2>2 DEF LockExpires, OrderExpires, request
  <2>3. QED
    BY <1>4, <1>5, <2>1, <2>2 DEF Proceed
<1>6. CASE NotifyStep \/ UNCHANGED systemVars
  BY <1>4, <1>6 DEF NotifyStep, systemVars, vars, request
<1>7. QED
  BY <1>3, <1>5, <1>6, CheckAnswers, AnnounceAnswers DEF SystemNext, PayStep

-----------------------------------------------------------------------------
(* The theorems.                                                           *)

SystemInv == IInv /\ DeliveryInv /\ QueueIsStream /\ AnswersAreTrue

LEMMA SystemInvariant ==
  ASSUME ~LockMayLapse, ~EarlyExpiry, Blank = {}
  PROVE  SystemSpec => []SystemInv
<1>1. SystemInit => DeliveryInv /\ QueueIsStream /\ AnswersAreTrue
  <2> SUFFICES ASSUME SystemInit
               PROVE  DeliveryInv /\ QueueIsStream /\ AnswersAreTrue
    OBVIOUS
  <2>1. DeliveryInv
    BY DeliveryInvInit
  <2>2. QueueIsStream
    <3>1. stream = <<>> /\ \A t \in TradeNos : notified[t] = 0
      BY DEF SystemInit, Notify!Init, Init
    <3>2. \A t \in TradeNos : Copies(t) = {}
      BY <3>1 DEF Copies
    <3>3. QED
      BY <3>1, <3>2, FS_EmptySet DEF QueueIsStream
  <2>3. AnswersAreTrue
    BY DEF SystemInit, AnswersAreTrue, Answers
  <2>4. QED
    BY <2>1, <2>2, <2>3
<1>2. /\ IInv /\ IInv' /\ DeliveryInv /\ QueueIsStream /\ AnswersAreTrue
      /\ [SystemNext]_systemVars
      => DeliveryInv' /\ QueueIsStream' /\ AnswersAreTrue'
  BY DeliveryInvStep, QueueStep, AnswersStep DEF IInv
<1>3. SystemSpec => []IInv
  BY SystemKeepsPayment, FullInvariant, PTL
<1>4. QED
  BY <1>1, <1>2, <1>3, PTL DEF SystemSpec, SystemInv

\* What merchants are told is true and stays true: between the commit of the
\* handler's UPDATE and the consumer's POST nothing can undo the payment.
THEOREM MerchantsAreToldTheTruth ==
  ASSUME ~LockMayLapse, ~EarlyExpiry, Blank = {}
  PROVE  SystemSpec => []ToldIsPaid
<1>1. SystemInv => ToldIsPaid
  <2> SUFFICES ASSUME SystemInv, NEW id \in received
               PROVE  StatusOf(stream[id].order) = StatusSuccess
    BY DEF ToldIsPaid
  <2>1. /\ Delivery!TypeOK
        /\ QueueIsStream /\ NotifiedOnceIfPaid
        /\ notified \in [TradeNos -> Nat]
    BY DEF SystemInv, DeliveryInv, Delivery!Inv, IInv, Confirmation, Base, TypeOK
  <2>2. id \in DOMAIN stream /\ stream[id].order \in TradeNos
    <3>1. id \in Delivery!Entries /\ stream[id] \in Delivery!Entry
          /\ DOMAIN stream = Delivery!Entries
      BY <2>1, DeliveryConstants, Delivery!Positions DEF Delivery!TypeOK
    <3>2. QED
      BY <3>1 DEF Delivery!Entry
  <2>3. PICK t \in TradeNos : t = stream[id].order
    BY <2>2
  <2>4. id \in Copies(t)
    BY <2>2, <2>3 DEF Copies
  <2>5. IsFiniteSet(Copies(t))
    <3>1. DOMAIN stream = 1 .. Len(stream) /\ Len(stream) \in Nat
      BY <2>1, LenProperties DEF Delivery!TypeOK
    <3>2. IsFiniteSet(DOMAIN stream)
      BY <3>1, FS_Interval
    <3>3. QED
      BY <3>2, FS_Subset DEF Copies
  <2>6. Cardinality(Copies(t)) # 0
    BY <2>4, <2>5, FS_EmptySet
  <2>7. notified[t] > 0
    BY <2>1, <2>6 DEF QueueIsStream
  <2>8. QED
    BY <2>1, <2>3, <2>7 DEF NotifiedOnceIfPaid
<1>2. QED
  BY <1>1, SystemInvariant, PTL

\* However often a confirmation is repeated, and whoever stops and whatever
\* is lost, the merchant's endpoint is called at most once for each copy of
\* the order's one XADD.
THEOREM MerchantsAreToldOnce ==
  ASSUME ~LockMayLapse, ~EarlyExpiry, Blank = {}
  PROVE  SystemSpec => []ToldOnce
<1>1. SystemInv => ToldOnce
  <2> SUFFICES ASSUME SystemInv, NEW t \in TradeNos
               PROVE  /\ Cardinality(Copies(t)) <= MaxSends
                      /\ \A id \in Copies(t) : posts[id] <= 1
    BY DEF ToldOnce, Copies
  <2>1. Cardinality(Copies(t)) = notified[t]
    BY DEF SystemInv, QueueIsStream
  <2>2. notified[t] \in Nat /\ (notified[t] > 0 => notified[t] <= MaxSends)
        /\ MaxSends \in Nat
    BY ConstantsAssumption
       DEF SystemInv, IInv, Base, TypeOK, Confirmation, NotifiedOnceIfPaid
  <2>3. Copies(t) \subseteq Delivery!Entries
    BY DeliveryConstants, Delivery!Positions
       DEF Copies, SystemInv, DeliveryInv, Delivery!Inv
  <2>4. \A id \in Delivery!Entries : posts[id] <= 1
    BY DEF SystemInv, DeliveryInv, Delivery!SentOnce, Delivery!SentAtMostOnce
  <2>5. QED
    BY <2>1, <2>2, <2>3, <2>4
<1>2. QED
  BY <1>1, SystemInvariant, PTL

\* A channel that was answered "success" and stops repeating its confirmation
\* has confirmed an order that is paid, and that stays so.
THEOREM AcknowledgedIsPaid ==
  ASSUME ~LockMayLapse, ~EarlyExpiry, Blank = {}
  PROVE  SystemSpec => []AckedIsPaid
<1>1. SystemInv => AckedIsPaid
  BY DEF SystemInv, AnswersAreTrue, AckedIsPaid, Paid
<1>2. QED
  BY <1>1, SystemInvariant, PTL
=============================================================================
