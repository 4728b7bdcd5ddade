------------------------------- MODULE PayApp -------------------------------
(***************************************************************************)
(* The payment use cases of internal/application/pay_app.go: creating an   *)
(* order and confirming its payment, with the order table they share       *)
(* (persistence/gorm_order_repo.go) and the Redis locks that are to keep   *)
(* the confirmations of an order apart (mq/lock.go).                       *)
(*                                                                         *)
(* A request slot is a goroutine serving one HTTP request; pc names the    *)
(* external call that it makes next.  Between two such calls any other     *)
(* request may run.  Every call can fail, and a failing call may or may    *)
(* not have taken effect, but what it did it did before it returned.  A    *)
(* request can also vanish at any point with the process that serves it.   *)
(* Requests that end without touching shared state (a refused lock, a row  *)
(* that is not inserted, QueryOrder) are steps that leave all unchanged.   *)
(***************************************************************************)
EXTENDS PaymentOrder, Integers, FiniteSets

CONSTANTS
  Requests,      \* request slots
  TradeNos,      \* what generateTradeNo may return
  OutTradeNos,   \* order numbers that merchants choose
  Merchants,     \* merchant ids, never empty (binding:"required")
  Blank,         \* those that the column's collation compares equal to ''
  Amounts,       \* order and callback amounts, in cents
  MaxSends,      \* how often the Redis client may send one XADD (it resends
                 \* a command whose reply was lost)
  LockMayLapse,  \* TRUE: a lock can vanish while its holder still runs (30
                 \* seconds have passed, or Redis has lost it)
  Calls,         \* the confirmations that arrive, a subset of Call
  EarlyExpiry,   \* TRUE: an order can expire before CreatePayOrder is done
                 \* with it (a slow gateway, a negative expire_minutes)
  None           \* no order, no call, no holder

ASSUME ConstantsAssumption ==
  /\ IsFiniteSet(TradeNos)
  /\ Blank \subseteq Merchants
  /\ Amounts \subseteq Nat
  /\ MaxSends \in Nat \ {0}
  /\ LockMayLapse \in BOOLEAN
  /\ EarlyExpiry \in BOOLEAN

Order == [tradeNo : TradeNos, id : Nat, merchant : Merchants,
          outTradeNo : OutTradeNos, amount : Amounts,
          status : PaymentStatus, payInfo : BOOLEAN, paid : BOOLEAN]

\* A confirmation: by trade number (the mock route), or by the merchant's
\* order number and an amount (the channels' webhooks; alipay's may be empty).
Call == [kind : {"mock"}, ref : TradeNos, amount : {0}]
        \cup [kind : {"wechat", "alipay"}, ref : OutTradeNos,
                 amount : Amounts \cup {0}]

\* The Redis keys, one name space for each kind of callback.
Keys == ({"mock"} \X TradeNos) \cup ({"wechat", "alipay"} \X OutTradeNos)

KeyOf(c) == <<c.kind, c.ref>>

ASSUME CallsAssumption == Calls \subseteq Call

ASSUME NoneAssumption == None \notin Order \cup Call \cup Requests

VARIABLES
  orders,    \* the table payment_orders, by trade_no (a unique index)
  expired,   \* orders whose expired_at has passed
  lock,      \* Redis: the holder of each callback key
  notified,  \* how many entries of notify_stream are about each order
  pc,        \* the next external call of each request
  call,      \* the confirmation it serves
  ent        \* the order entity in its memory

db      == <<orders, expired>>
redis   == <<lock, notified>>
request == <<pc, call, ent>>
vars    == <<db, redis, request>>

Init ==
  /\ orders = [t \in TradeNos |-> None]
  /\ expired = {}
  /\ lock = [k \in Keys |-> None]
  /\ notified = [t \in TradeNos |-> 0]
  /\ pc = [r \in Requests |-> "idle"]
  /\ call = [r \in Requests |-> None]
  /\ ent = [r \in Requests |-> None]

-----------------------------------------------------------------------------
(* The repository.                                                         *)

Rows == {t \in TradeNos : orders[t] # None}

\* Save inserts under the next primary key; no other column is unique.
SaveRow(order) == orders' = [orders EXCEPT ![order.tradeNo] = order]

\* Variant of UpdateRow: columns without a value are left out of the UPDATE.
UpdateSetColumns(order) ==
  orders' = [orders EXCEPT ![order.tradeNo] =
               [@ EXCEPT !.status  = order.status,
                         !.payInfo = order.payInfo \/ @,
                         !.paid    = order.paid \/ @]]

\* Update writes the entity's mutable columns over the row, WHERE trade_no
\* alone: whatever the row holds by now is lost.
UpdateRow(order) ==
  orders' = [orders EXCEPT ![order.tradeNo] =
               [@ EXCEPT !.status  = order.status,
                         !.payInfo = order.payInfo,
                         !.paid    = order.paid]]

FindByTradeNo(t) == orders[t]

\* The row with the lowest primary key among those that match.
FindByOutTradeNo(merchants, o) ==
  LET found == {t \in Rows : /\ orders[t].merchant \in merchants
                             /\ orders[t].outTradeNo = o}
      first == {t \in found : \A u \in found : orders[t].id <= orders[u].id}
  IN  IF first = {} THEN None ELSE orders[CHOOSE t \in first : TRUE]

\* The order a merchant is shown when it asks by its own order number.
QueryOrder(m, o) == FindByOutTradeNo({m}, o)

\* The order a confirmation is about.  The webhooks look for merchant ''.
FindOrder(c) ==
  IF c.kind = "mock"
  THEN FindByTradeNo(c.ref)
  ELSE FindByOutTradeNo(Blank, c.ref)

-----------------------------------------------------------------------------
(* CreatePayOrder                                                          *)

Goto(r, label) == pc' = [pc EXCEPT ![r] = label]

Finish(r) ==
  /\ Goto(r, "idle")
  /\ call' = [call EXCEPT ![r] = None]
  /\ ent' = [ent EXCEPT ![r] = None]

\* The handler returns: the deferred Release is what is left of it.
Return(r) ==
  /\ Goto(r, "Release")
  /\ ent' = [ent EXCEPT ![r] = None]

NewOrder(t, m, o, a) ==
  [tradeNo |-> t, id |-> Cardinality(Rows) + 1, merchant |-> m,
   outTradeNo |-> o, amount |-> a,
   status |-> StatusInit, payInfo |-> FALSE, paid |-> FALSE]

\* The insert.  When its reply or the commit of the surrounding, empty
\* transaction fails the request ends and the INIT row stays.
Save(r, t, m, o, a) ==
  /\ pc[r] = "idle"
  /\ orders[t] = None
  /\ SaveRow(NewOrder(t, m, o, a))
  /\ \/ /\ Goto(r, "CreatePay")
        /\ ent' = [ent EXCEPT ![r] = NewOrder(t, m, o, a)]
     \/ UNCHANGED <<pc, ent>>
  /\ UNCHANGED <<expired, redis, call>>

\* The channel's gateway; after an error the order stays INIT.
CreatePay(r) ==
  /\ pc[r] = "CreatePay"
  /\ \/ /\ ent' = [ent EXCEPT ![r] = ToProcessing(ent[r])]
        /\ Goto(r, "UpdateProcessing")
        /\ UNCHANGED call
     \/ Finish(r)
  /\ UNCHANGED <<db, redis>>

\* Variant of UpdateProcessing: an UPDATE that reports an error is run again.
UpdateProcessingRetried(r) ==
  /\ pc[r] = "UpdateProcessing"
  /\ UpdateRow(ent[r]) \/ UNCHANGED orders
  /\ Finish(r) \/ UNCHANGED request
  /\ UNCHANGED <<expired, redis>>

UpdateProcessing(r) ==
  /\ pc[r] = "UpdateProcessing"
  /\ UpdateRow(ent[r]) \/ UNCHANGED orders
  /\ Finish(r)
  /\ UNCHANGED <<expired, redis>>

-----------------------------------------------------------------------------
(* MockPaySuccess, ProcessWechatCallback, ProcessAlipayCallback            *)

\* Variant of Acquire: SET instead of SETNX.
AcquireOverwriting(r, c) ==
  /\ pc[r] = "idle"
  /\ lock' = [lock EXCEPT ![KeyOf(c)] = r]
  /\ Goto(r, "Find")
  /\ call' = [call EXCEPT ![r] = c]
  /\ UNCHANGED <<db, notified, ent>>

\* SETNX.  When its reply is lost the key is set, and the request has failed
\* or, the command sent again, is told that somebody else holds the key.
Acquire(r, c) ==
  /\ pc[r] = "idle"
  /\ lock[KeyOf(c)] = None
  /\ lock' = [lock EXCEPT ![KeyOf(c)] = r]
  /\ \/ /\ Goto(r, "Find")
        /\ call' = [call EXCEPT ![r] = c]
     \/ UNCHANGED <<pc, call>>
  /\ UNCHANGED <<db, notified, ent>>

\* The handler reads the order; an error, a missing order and a successful
\* one end it.
Find(r) ==
  /\ pc[r] = "Find"
  /\ LET order == FindOrder(call[r]) IN
       \/ /\ order # None
          /\ order.status # StatusSuccess
          /\ ent' = [ent EXCEPT ![r] = order]
          /\ Goto(r, "CheckOrder")
       \/ Return(r)
  /\ UNCHANGED <<db, redis, call>>

Float64 == INSTANCE AlipayAmount WITH P <- 53

\* The webhooks compare amounts, the mock route has none to compare.
AmountMatches(c, order) ==
  CASE c.kind = "mock"   -> TRUE
    [] c.kind = "wechat" -> order.amount = c.amount
    [] c.kind = "alipay" -> order.amount = Float64!AlipayCents(c.amount)

\* The handler looks at the clock, at the amount, and at the status that it
\* read before.
CheckOrder(r) ==
  /\ pc[r] = "CheckOrder"
  /\ \/ /\ ent[r].tradeNo \in expired
        /\ ent' = [ent EXCEPT ![r] = Close(ent[r])]
        /\ Goto(r, "UpdateClosed")
     \/ /\ ent[r].tradeNo \notin expired
        /\ AmountMatches(call[r], ent[r])
        /\ CanSucceed(ent[r])
        /\ ent' = [ent EXCEPT ![r] = Success(ent[r])]
        /\ Goto(r, "UpdateSuccess")
     \/ /\ ent[r].tradeNo \notin expired
        /\ ~(AmountMatches(call[r], ent[r]) /\ CanSucceed(ent[r]))
        /\ Return(r)
  /\ UNCHANGED <<db, redis, call>>

\* The result of closing an expired order is ignored.
UpdateClosed(r) ==
  /\ pc[r] = "UpdateClosed"
  /\ UpdateRow(ent[r]) \/ UNCHANGED orders
  /\ Return(r)
  /\ UNCHANGED <<expired, redis, call>>

\* Variant of UpdateSuccess: the notification does not wait for the UPDATE's
\* result.
UpdateSuccessUnchecked(r) ==
  /\ pc[r] = "UpdateSuccess"
  /\ UpdateRow(ent[r]) \/ UNCHANGED orders
  /\ Goto(r, "PublishNotify")
  /\ UNCHANGED <<expired, redis, call, ent>>

\* Only a reported success goes on to the notification.
UpdateSuccess(r) ==
  /\ pc[r] = "UpdateSuccess"
  /\ \/ UpdateRow(ent[r]) /\ Goto(r, "PublishNotify") /\ UNCHANGED ent
     \/ UpdateRow(ent[r]) /\ Return(r)
     \/ UNCHANGED orders /\ Return(r)
  /\ UNCHANGED <<expired, redis, call>>

\* XADD, with the copies that resending it leaves; 0 copies is a failure.
PublishNotify(r) ==
  /\ pc[r] = "PublishNotify"
  /\ \E n \in 0 .. MaxSends :
       notified' = [notified EXCEPT ![ent[r].tradeNo] = @ + n]
  /\ Return(r)
  /\ UNCHANGED <<db, lock, call>>

\* Variant of Release: DEL without comparing the value.
ReleaseAnyHolder(r) ==
  /\ pc[r] = "Release"
  /\ lock' = [lock EXCEPT ![KeyOf(call[r])] = None]
  /\ Finish(r)
  /\ UNCHANGED <<db, notified>>

\* The deferred Release: a compare-and-delete, or nothing when it fails.
Release(r) ==
  /\ pc[r] = "Release"
  /\ LET k == KeyOf(call[r]) IN
       \/ lock' = [lock EXCEPT ![k] = IF @ = r THEN None ELSE @]
       \/ UNCHANGED lock
  /\ Finish(r)
  /\ UNCHANGED <<db, notified>>

-----------------------------------------------------------------------------
(* The environment                                                         *)

Holding ==
  {"Find", "CheckOrder", "UpdateClosed", "UpdateSuccess", "PublishNotify",
   "Release"}

Creating == {"CreatePay", "UpdateProcessing"}

\* Variant of LockExpires: a key that was set without an expiration.
LockPersists(k) ==
  /\ lock[k] # None
  /\ FALSE
  /\ UNCHANGED vars

\* Redis drops a key, at the earliest 30 seconds after it was set.
LockExpires(k) ==
  /\ lock[k] # None
  /\ LockMayLapse \/ ~\E r \in Requests : pc[r] \in Holding /\ KeyOf(call[r]) = k
  /\ lock' = [lock EXCEPT ![k] = None]
  /\ UNCHANGED <<db, notified, request>>

\* The clock passes an order's expired_at.
OrderExpires(t) ==
  /\ t \in Rows \ expired
  /\ EarlyExpiry \/ ~\E r \in Requests : pc[r] \in Creating /\ ent[r].tradeNo = t
  /\ expired' = expired \cup {t}
  /\ UNCHANGED <<orders, redis, request>>

\* The process that serves a request stops.
Crash(r) ==
  /\ pc[r] # "idle"
  /\ Finish(r)
  /\ UNCHANGED <<db, redis>>

Create(r) ==
  \/ \E t \in TradeNos, m \in Merchants, o \in OutTradeNos, a \in Amounts :
       Save(r, t, m, o, a)
  \/ CreatePay(r)
  \/ UpdateProcessing(r)

Confirm(r) ==
  \/ Find(r)
  \/ CheckOrder(r)
  \/ UpdateClosed(r)
  \/ UpdateSuccess(r)
  \/ PublishNotify(r)
  \/ Release(r)

Next ==
  \/ \E r \in Requests : \/ Create(r)
                         \/ \E c \in Calls : Acquire(r, c)
                         \/ Confirm(r)
                         \/ Crash(r)
  \/ \E k \in Keys : LockExpires(k)
  \/ \E t \in TradeNos : OrderExpires(t)

Spec == Init /\ [][Next]_vars

\* A running handler goes on, and Redis drops a key whose time is over.
Fairness ==
  /\ \A r \in Requests : WF_vars(CreatePay(r) \/ UpdateProcessing(r) \/ Confirm(r))
  /\ \A k \in Keys : WF_vars(LockExpires(k))

FairSpec == Spec /\ Fairness

\* The most that the surroundings can do for a payment: the channel repeats
\* a confirmation for ever, and a call that is made again and again succeeds.
Persistence ==
  /\ \A c \in Calls :
       SF_vars(\E r \in Requests : Acquire(r, c) /\ call'[r] = c)
  /\ \A r \in Requests :
       /\ SF_vars(Find(r) /\ ent'[r] # None)
       /\ SF_vars(PublishNotify(r) /\ notified' # notified)

PersistentSpec == FairSpec /\ Persistence

-----------------------------------------------------------------------------
(* Safety that needs no lock.                                              *)

\* Every variable stays in its type, a row stays under its trade number, and
\* only rows expire.
TypeOK ==
  /\ orders \in [TradeNos -> Order \cup {None}]
  /\ \A t \in Rows : orders[t].tradeNo = t
  /\ expired \subseteq Rows
  /\ lock \in [Keys -> Requests \cup {None}]
  /\ notified \in [TradeNos -> Nat]
  /\ pc \in [Requests -> {"idle"} \cup Creating \cup Holding]
  /\ call \in [Requests -> Calls \cup {None}]
  /\ ent \in [Requests -> Order \cup {None}]

\* The table says when an order was paid exactly while it says that it is
\* paid: requests that overwrite each other's rows still leave a status and
\* a success_at that belong together (Update writes both, or neither).
SuccessIsStamped ==
  \A t \in Rows : orders[t].paid <=> orders[t].status = StatusSuccess

\* No order is in payment or paid without the channel's trade number and pay
\* URL, so that it can be queried at the channel, although a handler that
\* read the INIT row writes its empty ones back when it closes the order.
ChargedAtChannel ==
  \A t \in Rows :
    orders[t].status \in {StatusProcessing, StatusSuccess} => orders[t].payInfo

StatusOf(t) == IF orders[t] = None THEN "ABSENT" ELSE orders[t].status

Settled == {StatusSuccess, StatusClosed}

\* An order that was paid or closed is never again waiting for a payment,
\* even if handlers overlap: CreatePayOrder writes PROCESSING once, before
\* the order can expire, and handlers write only settled states.
NeverReopened ==
  [][\A t \in TradeNos : StatusOf(t) \in Settled => StatusOf(t)' \in Settled]_vars

-----------------------------------------------------------------------------
(* Safety that rests on the lock.                                          *)

\* One handler at a time works under a key.
HolderIsAlone ==
  \A r, s \in Requests :
    (/\ {pc[r], pc[s]} \subseteq Holding
     /\ KeyOf(call[r]) = KeyOf(call[s])) => r = s

\* A confirmation that arrives any number of times puts the order on the
\* notification queue once, and only an order that is, and stays, paid.
NotifiedOnceIfPaid ==
  \A t \in TradeNos :
    notified[t] > 0 => notified[t] <= MaxSends /\ StatusOf(t) = StatusSuccess

\* The status of a row changes only along CanChangeTo, whatever the requests
\* read and wrote in between ("one-way and irreversible").
ForwardOnly ==
  [][\A t \in Rows :
       StatusOf(t)' # StatusOf(t) => CanChangeTo(StatusOf(t), StatusOf(t)')]_vars

\* Requests, rows and locks together keep the promise of OrderLifecycle.
Lifecycle ==
  INSTANCE OrderLifecycle WITH status <- [t \in TradeNos |-> StatusOf(t)]

KeepsLifecycle == Lifecycle!Spec

-----------------------------------------------------------------------------
(* Lookup.                                                                 *)

\* A webhook that names an order's out_trade_no reaches some order.
WebhookFindsOrder ==
  \A t \in Rows, c \in Calls :
    (c.kind # "mock" /\ c.ref = orders[t].outTradeNo) => FindOrder(c) # None

\* A merchant that asks for its own order number is shown that order.
QueryShowsOrder ==
  \A t \in Rows :
    QueryOrder(orders[t].merchant, orders[t].outTradeNo) = orders[t]

-----------------------------------------------------------------------------
(* Liveness.                                                               *)

\* No order stays locked for ever: a key is released or expires, even if its
\* holder crashed or its release failed.
LockIsFreed == \A k \in Keys : lock[k] # None ~> lock[k] = None

\* A paid order is put on the notification queue in the end.
PaidIsNotified ==
  \A t \in TradeNos : StatusOf(t) = StatusSuccess ~> notified[t] > 0
=============================================================================
