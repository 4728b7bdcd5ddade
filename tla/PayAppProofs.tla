---------------------------- MODULE PayAppProofs ----------------------------
(***************************************************************************)
(* Theorems about PayApp, for all values of its constants, by an inductive *)
(* invariant in four layers:                                               *)
(*   Base         types, and what a request has in hand;                   *)
(*   Exclusion    who works under a key while locks outlive their holders; *)
(*   Creation     what CreatePayOrder may rely on unless orders expire     *)
(*                while they are created;                                  *)
(*   Confirmation what a handler knows of the row it works on.             *)
(***************************************************************************)
EXTENDS LockTenure, FiniteSetTheorems, TLAPS

USE ConstantsAssumption, CallsAssumption, NoneAssumption

-----------------------------------------------------------------------------
(* The base layer.                                                         *)

\* The steps at which a request has an order in memory.
WithOrder == Creating \cup {"CheckOrder", "UpdateClosed", "UpdateSuccess", "PublishNotify"}

\* A request holds an order that has a row, and a handler its confirmation.
InHand ==
  \A r \in Requests :
    /\ pc[r] \in WithOrder => ent[r] \in Order /\ ent[r].tradeNo \in Rows
    /\ pc[r] \in Holding => call[r] \in Calls

\* What the columns of one order say of each other.
Consistent(o) ==
  /\ o.paid <=> o.status = StatusSuccess
  /\ o.status \in {StatusProcessing, StatusSuccess} => o.payInfo

RowsConsistent == \A t \in Rows : Consistent(orders[t])

EntitiesConsistent ==
  \A r \in Requests : pc[r] \in WithOrder => Consistent(ent[r])

Base == TypeOK /\ InHand /\ RowsConsistent /\ EntitiesConsistent

\* The base layer by the state that it is about: the table, and the requests.
TableOK ==
  /\ orders \in [TradeNos -> Order \cup {None}]
  /\ \A t \in Rows : orders[t].tradeNo = t
  /\ RowsConsistent

RequestsOK ==
  /\ pc \in [Requests -> {"idle"} \cup Creating \cup Holding]
  /\ call \in [Requests -> Calls \cup {None}]
  /\ ent \in [Requests -> Order \cup {None}]
  /\ InHand
  /\ EntitiesConsistent

\* The entity's methods keep an order an order, under its trade number.
LEMMA EntityTypes ==
  ASSUME NEW o \in Order
  PROVE  /\ Success(o) \in Order /\ Success(o).tradeNo = o.tradeNo
         /\ Close(o) \in Order /\ Close(o).tradeNo = o.tradeNo
         /\ ToProcessing(o) \in Order /\ ToProcessing(o).tradeNo = o.tradeNo
BY DEF Order, Success, Close, ToProcessing, PaymentStatus, StatusInit,
       StatusProcessing, StatusSuccess, StatusFailed, StatusClosed

\* The entity's methods keep the columns consistent.
LEMMA EntityConsistent ==
  ASSUME NEW o \in Order, Consistent(o)
  PROVE  /\ Consistent(Success(o))
         /\ Consistent(Close(o))
         /\ Consistent(ToProcessing(o))
BY DEF Order, Consistent, Success, CanSucceed, Close, CanClose, ToProcessing,
       StatusInit, StatusProcessing, StatusSuccess, StatusFailed, StatusClosed

\* Update changes the mutable columns of one row and no other row.
LEMMA UpdateRowEffect ==
  ASSUME TypeOK, NEW o \in Order, o.tradeNo \in Rows, UpdateRow(o)
  PROVE  /\ orders' \in [TradeNos -> Order \cup {None}]
         /\ Rows' = Rows
         /\ \A t \in Rows' : orders'[t].tradeNo = t
         /\ \A t \in TradeNos : t # o.tradeNo => orders'[t] = orders[t]
         /\ orders'[o.tradeNo].status = o.status
         /\ orders'[o.tradeNo].payInfo = o.payInfo
         /\ orders'[o.tradeNo].paid = o.paid
<1> DEFINE t0  == o.tradeNo
           new == [orders[t0] EXCEPT !.status  = o.status,
                                     !.payInfo = o.payInfo,
                                     !.paid    = o.paid]
<1>1. t0 \in TradeNos /\ orders[t0] \in Order /\ orders[t0].tradeNo = t0
  BY DEF TypeOK, Rows
<1>2. /\ new \in Order
      /\ new.tradeNo = t0
      /\ new.status = o.status /\ new.payInfo = o.payInfo /\ new.paid = o.paid
  BY <1>1 DEF Order
<1>3. orders' = [orders EXCEPT ![t0] = new]
  BY DEF UpdateRow
<1> HIDE DEF new
<1>4. /\ orders' \in [TradeNos -> Order \cup {None}]
      /\ orders'[t0] = new
      /\ \A t \in TradeNos : t # t0 => orders'[t] = orders[t]
  BY <1>1, <1>2, <1>3 DEF TypeOK
<1>5. Rows' = Rows
  BY <1>1, <1>2, <1>4 DEF Rows
<1>6. ASSUME NEW t \in Rows' PROVE orders'[t].tradeNo = t
  <2>1. t \in TradeNos /\ orders[t].tradeNo = t
    BY <1>5 DEF TypeOK, Rows
  <2>2. CASE t = t0
    BY <2>2, <1>2, <1>4
  <2>3. CASE t # t0
    BY <2>1, <2>3, <1>4
  <2>4. QED
    BY <2>2, <2>3
<1>7. QED
  BY <1>2, <1>4, <1>5, <1>6

\* A lookup returns a row as it is.
LEMMA FindOrderIsRow ==
  ASSUME TypeOK, NEW c \in Call, FindOrder(c) # None
  PROVE  /\ FindOrder(c) \in Order
         /\ FindOrder(c).tradeNo \in Rows
         /\ FindOrder(c) = orders[FindOrder(c).tradeNo]
<1>1. ASSUME NEW t \in Rows PROVE orders[t] \in Order /\ orders[t].tradeNo = t
  BY <1>1 DEF TypeOK, Rows
<1>2. CASE c.kind = "mock"
  <2>1. c.ref \in TradeNos
    BY <1>2 DEF Call
  <2>2. FindOrder(c) = orders[c.ref]
    BY <1>2 DEF FindOrder, FindByTradeNo
  <2>3. QED
    BY <1>1, <2>1, <2>2 DEF Rows
<1>3. CASE c.kind # "mock"
  <2> DEFINE found == {t \in Rows : /\ orders[t].merchant \in Blank
                                    /\ orders[t].outTradeNo = c.ref}
             first == {t \in found : \A u \in found : orders[t].id <= orders[u].id}
             pick  == CHOOSE t \in first : TRUE
  <2>1. FindOrder(c) = IF first = {} THEN None ELSE orders[pick]
    BY <1>3 DEF FindOrder, FindByOutTradeNo
  <2>2. first # {}
    BY <2>1
  <2>3. pick \in first
    BY <2>2
  <2>4. pick \in Rows
    BY <2>3
  <2>5. FindOrder(c) = orders[pick]
    BY <2>1, <2>2
  <2> HIDE DEF pick
  <2>6. QED
    BY <1>1, <2>4, <2>5
<1>4. QED
  BY <1>2, <1>3

\* A new order is an order, under its trade number.
LEMMA NewOrderTypes ==
  ASSUME Rows \subseteq TradeNos,
         NEW t \in TradeNos, NEW m \in Merchants, NEW o \in OutTradeNos,
         NEW a \in Amounts
  PROVE  /\ NewOrder(t, m, o, a) \in Order
         /\ NewOrder(t, m, o, a).tradeNo = t
         /\ NewOrder(t, m, o, a).status = StatusInit
         /\ Consistent(NewOrder(t, m, o, a))
<1>1. Cardinality(Rows) + 1 \in Nat
  BY FS_Subset, FS_CardinalityType
<1>2. NewOrder(t, m, o, a) \in Order
  BY <1>1 DEF NewOrder, Order, PaymentStatus
<1>3. QED
  BY <1>2 DEF NewOrder, Consistent, StatusInit, StatusProcessing, StatusSuccess

\* The insert adds one row.
LEMMA SaveRowEffect ==
  ASSUME TypeOK, NEW o \in Order, o.tradeNo \notin Rows, SaveRow(o)
  PROVE  /\ orders' \in [TradeNos -> Order \cup {None}]
         /\ Rows' = Rows \cup {o.tradeNo}
         /\ \A t \in Rows' : orders'[t].tradeNo = t
         /\ \A t \in TradeNos : t # o.tradeNo => orders'[t] = orders[t]
         /\ orders'[o.tradeNo] = o
<1>1. o.tradeNo \in TradeNos /\ o # None
  BY DEF Order
<1>2. /\ orders' \in [TradeNos -> Order \cup {None}]
      /\ orders'[o.tradeNo] = o
      /\ \A t \in TradeNos : t # o.tradeNo => orders'[t] = orders[t]
  BY <1>1 DEF TypeOK, SaveRow
<1>3. Rows' = Rows \cup {o.tradeNo}
  BY <1>1, <1>2 DEF Rows
<1>4. QED
  BY <1>1, <1>2, <1>3 DEF TypeOK, Rows

\* The base layer holds initially.
LEMMA BaseInit == Init => Base
<1> SUFFICES ASSUME Init PROVE Base
  OBVIOUS
<1>1. Rows = {}
  BY DEF Init, Rows
<1>2. TypeOK
  BY <1>1 DEF Init, TypeOK
<1>3. QED
  BY <1>1, <1>2 DEF Init, Base, InHand, RowsConsistent, EntitiesConsistent,
                    WithOrder, Creating, Holding

\* What a request writes to the table leaves it in order.
LEMMA TableAfterUpdate ==
  ASSUME Base, NEW r \in Requests, pc[r] \in WithOrder,
         UpdateRow(ent[r]) \/ UNCHANGED orders
  PROVE  TableOK' /\ Rows' = Rows
<1>1. ent[r] \in Order /\ ent[r].tradeNo \in Rows /\ Consistent(ent[r])
  BY DEF Base, InHand, EntitiesConsistent
<1>2. CASE UpdateRow(ent[r])
  <2>1. ASSUME NEW t \in Rows' PROVE Consistent(orders'[t])
    <3>1. t \in TradeNos /\ t \in Rows /\ Consistent(orders[t])
      BY <1>1, <1>2, UpdateRowEffect DEF Base, RowsConsistent, Rows
    <3>2. CASE t = ent[r].tradeNo
      BY <1>1, <1>2, <3>2, UpdateRowEffect DEF Base, Consistent
    <3>3. CASE t # ent[r].tradeNo
      BY <1>1, <1>2, <3>1, <3>3, UpdateRowEffect DEF Base
    <3>4. QED
      BY <3>2, <3>3
  <2>2. QED
    BY <1>1, <1>2, <2>1, UpdateRowEffect DEF Base, TableOK, RowsConsistent
<1>3. CASE UNCHANGED orders
  BY <1>3 DEF Base, TypeOK, TableOK, RowsConsistent, Rows
<1>4. QED
  BY <1>2, <1>3

\* A step that removes no row, and gives a request at most an order of a row
\* and a confirmation, leaves the requests in order.
LEMMA RequestsAfterStep ==
  ASSUME Base, Rows \subseteq Rows', NEW r \in Requests,
         NEW label \in {"idle"} \cup Creating \cup Holding,
         NEW c \in Calls \cup {None}, NEW e \in Order \cup {None},
         pc'   = [pc EXCEPT ![r] = label],
         call' = [call EXCEPT ![r] = c],
         ent'  = [ent EXCEPT ![r] = e],
         label \in WithOrder => e \in Order /\ e.tradeNo \in Rows' /\ Consistent(e),
         label \in Holding => c \in Calls
  PROVE  RequestsOK'
<1>1. /\ pc' \in [Requests -> {"idle"} \cup Creating \cup Holding]
      /\ call' \in [Requests -> Calls \cup {None}]
      /\ ent' \in [Requests -> Order \cup {None}]
  BY DEF Base, TypeOK
<1>2. pc'[r] = label /\ call'[r] = c /\ ent'[r] = e
  BY DEF Base, TypeOK
<1>3. \A q \in Requests : q # r => /\ pc'[q] = pc[q]
                                   /\ call'[q] = call[q]
                                   /\ ent'[q] = ent[q]
  BY DEF Base, TypeOK
<1>4. InHand'
  BY <1>2, <1>3 DEF Base, InHand
<1>5. EntitiesConsistent'
  BY <1>2, <1>3 DEF Base, EntitiesConsistent
<1>6. QED
  BY <1>1, <1>4, <1>5 DEF RequestsOK

\* The base layer is inductive.
LEMMA BaseNext == Base /\ [Next]_vars => Base'
<1> SUFFICES ASSUME Base, [Next]_vars PROVE Base'
  OBVIOUS
<1> USE DEF db, redis, request
<1>1. /\ TypeOK /\ InHand /\ RowsConsistent /\ EntitiesConsistent
      /\ TableOK /\ RequestsOK
      /\ Rows \subseteq TradeNos
      /\ \A r \in Requests : /\ call[r] \in Calls \cup {None}
                             /\ ent[r] \in Order \cup {None}
                             /\ ent = [ent EXCEPT ![r] = ent[r]]
                             /\ call = [call EXCEPT ![r] = call[r]]
  BY DEF Base, TypeOK, TableOK, RequestsOK, Rows
<1>2. ASSUME TableOK', RequestsOK', expired' \subseteq Rows',
             lock' \in [Keys -> Requests \cup {None}],
             notified' \in [TradeNos -> Nat]
      PROVE  Base'
  BY <1>2 DEF Base, TypeOK, TableOK, RequestsOK
<1>3. ASSUME UNCHANGED orders PROVE TableOK' /\ Rows' = Rows
  BY <1>1, <1>3 DEF TableOK, RowsConsistent, Rows
<1>4. ASSUME NEW r \in Requests, Finish(r), Rows' = Rows PROVE RequestsOK'
  <2>1. "idle" \notin WithOrder \cup Holding
    BY DEF WithOrder, Creating, Holding
  <2>2. QED
    BY <1>4, <2>1, RequestsAfterStep DEF Finish, Goto
<1>5. ASSUME NEW r \in Requests, Return(r), UNCHANGED call, Rows' = Rows,
             pc[r] \in Holding
      PROVE  RequestsOK'
  <2>1. "Release" \in Holding /\ "Release" \notin WithOrder
    BY DEF WithOrder, Creating, Holding
  <2>2. call[r] \in Calls
    BY <1>1, <1>5 DEF InHand
  <2>3. QED
    BY <1>1, <1>5, <2>1, <2>2, RequestsAfterStep DEF Return, Goto
<1>6. ASSUME NEW r \in Requests, NEW t \in TradeNos, NEW m \in Merchants,
             NEW o \in OutTradeNos, NEW a \in Amounts, Save(r, t, m, o, a)
      PROVE  Base'
  <2> DEFINE new == NewOrder(t, m, o, a)
  <2>1. /\ new \in Order /\ new.tradeNo = t /\ Consistent(new)
        /\ t \notin Rows
    BY <1>1, <1>6, NewOrderTypes DEF Save, Rows
  <2>2. /\ SaveRow(new)
        /\ UNCHANGED <<expired, lock, notified, call>>
        /\ \/ Goto(r, "CreatePay") /\ ent' = [ent EXCEPT ![r] = new]
           \/ UNCHANGED <<pc, ent>>
    BY <1>6 DEF Save
  <2> HIDE DEF new
  <2>3. /\ orders' \in [TradeNos -> Order \cup {None}]
        /\ Rows' = Rows \cup {t}
        /\ \A u \in Rows' : orders'[u].tradeNo = u
        /\ \A u \in TradeNos : u # t => orders'[u] = orders[u]
        /\ orders'[t] = new
    BY <1>1, <2>1, <2>2, SaveRowEffect
  <2>4. RowsConsistent'
    BY <1>1, <2>1, <2>3 DEF RowsConsistent
  <2>5. TableOK'
    BY <2>3, <2>4 DEF TableOK
  <2>6. RequestsOK'
    <3>1. CASE UNCHANGED <<pc, ent>>
      BY <1>1, <2>2, <2>3, <3>1
         DEF RequestsOK, InHand, EntitiesConsistent, Consistent
    <3>2. CASE Goto(r, "CreatePay") /\ ent' = [ent EXCEPT ![r] = new]
      <4>1. "CreatePay" \in Creating /\ "CreatePay" \notin Holding
        BY DEF Creating, Holding
      <4>2. /\ pc' = [pc EXCEPT ![r] = "CreatePay"]
            /\ call' = [call EXCEPT ![r] = call[r]]
            /\ ent' = [ent EXCEPT ![r] = new]
        BY <1>1, <2>2, <3>2 DEF Goto
      <4>3. /\ new \in Order /\ new.tradeNo \in Rows' /\ Consistent(new)
            /\ Rows \subseteq Rows'
        BY <2>1, <2>3
      <4>4. call[r] \in Calls \cup {None}
        BY <1>1
      <4>5. QED
        BY <4>1, <4>2, <4>3, <4>4, RequestsAfterStep
    <3>3. QED
      BY <2>2, <3>1, <3>2
  <2>7. QED
    BY <1>1, <1>2, <2>2, <2>3, <2>5, <2>6 DEF TypeOK
<1>7. ASSUME NEW r \in Requests, CreatePay(r) PROVE Base'
  <2>1. UNCHANGED <<orders, expired, lock, notified>> /\ pc[r] = "CreatePay"
    BY <1>7 DEF CreatePay
  <2>2. RequestsOK'
    <3>1. CASE Finish(r)
      BY <1>3, <1>4, <2>1, <3>1
    <3>2. CASE /\ ent' = [ent EXCEPT ![r] = ToProcessing(ent[r])]
               /\ Goto(r, "UpdateProcessing")
               /\ UNCHANGED call
      <4>1. /\ "UpdateProcessing" \in Creating
            /\ "UpdateProcessing" \notin Holding
            /\ pc[r] \in WithOrder
        BY <2>1 DEF Creating, Holding, WithOrder
      <4>2. /\ ToProcessing(ent[r]) \in Order
            /\ ToProcessing(ent[r]).tradeNo \in Rows
            /\ Consistent(ToProcessing(ent[r]))
        BY <1>1, <4>1, EntityTypes, EntityConsistent
           DEF InHand, EntitiesConsistent
      <4>3. QED
        BY <1>1, <1>3, <2>1, <3>2, <4>1, <4>2, RequestsAfterStep DEF Goto
    <3>3. QED
      BY <1>7, <3>1, <3>2 DEF CreatePay
  <2>3. QED
    BY <1>1, <1>2, <1>3, <2>1, <2>2 DEF TypeOK
<1>8. ASSUME NEW r \in Requests, UpdateProcessing(r) PROVE Base'
  <2>1. /\ UNCHANGED <<expired, lock, notified>> /\ Finish(r)
        /\ UpdateRow(ent[r]) \/ UNCHANGED orders
        /\ pc[r] = "UpdateProcessing"
    BY <1>8 DEF UpdateProcessing
  <2>2. pc[r] \in WithOrder
    BY <2>1 DEF WithOrder, Creating
  <2>3. TableOK' /\ Rows' = Rows
    BY <2>1, <2>2, TableAfterUpdate
  <2>4. QED
    BY <1>1, <1>2, <1>4, <2>1, <2>3 DEF TypeOK
<1>9. ASSUME NEW r \in Requests, NEW c \in Calls, Acquire(r, c) PROVE Base'
  <2>1. /\ UNCHANGED <<orders, expired, notified, ent>>
        /\ lock' = [lock EXCEPT ![KeyOf(c)] = r]
        /\ \/ Goto(r, "Find") /\ call' = [call EXCEPT ![r] = c]
           \/ UNCHANGED <<pc, call>>
    BY <1>9 DEF Acquire
  <2>2. RequestsOK'
    <3>1. CASE UNCHANGED <<pc, call>>
      BY <1>1, <1>3, <2>1, <3>1 DEF RequestsOK, InHand, EntitiesConsistent
    <3>2. CASE Goto(r, "Find") /\ call' = [call EXCEPT ![r] = c]
      <4>1. "Find" \in Holding /\ "Find" \notin WithOrder
        BY DEF Creating, Holding, WithOrder
      <4>2. QED
        BY <1>1, <1>3, <2>1, <3>2, <4>1, RequestsAfterStep DEF Goto
    <3>3. QED
      BY <2>1, <3>1, <3>2
  <2>3. lock' \in [Keys -> Requests \cup {None}]
    BY <1>1, <2>1 DEF TypeOK
  <2>4. QED
    BY <1>1, <1>2, <1>3, <2>1, <2>2, <2>3 DEF TypeOK
<1>10. ASSUME NEW r \in Requests, Find(r) PROVE Base'
  <2>1. UNCHANGED <<orders, expired, lock, notified, call>> /\ pc[r] = "Find"
    BY <1>10 DEF Find
  <2>2. pc[r] \in Holding /\ call[r] \in Calls
    BY <1>1, <2>1 DEF Holding, InHand
  <2>3. RequestsOK'
    <3>1. CASE Return(r)
      BY <1>3, <1>5, <2>1, <2>2, <3>1
    <3>2. CASE /\ FindOrder(call[r]) # None
               /\ ent' = [ent EXCEPT ![r] = FindOrder(call[r])]
               /\ Goto(r, "CheckOrder")
      <4>1. "CheckOrder" \in Holding
        BY DEF Holding
      <4>2. /\ FindOrder(call[r]) \in Order
            /\ FindOrder(call[r]).tradeNo \in Rows
            /\ Consistent(FindOrder(call[r]))
        BY <1>1, <2>2, <3>2, FindOrderIsRow DEF RowsConsistent
      <4>3. QED
        BY <1>1, <1>3, <2>1, <2>2, <3>2, <4>1, <4>2, RequestsAfterStep DEF Goto
    <3>3. QED
      BY <1>10, <3>1, <3>2 DEF Find
  <2>4. QED
    BY <1>1, <1>2, <1>3, <2>1, <2>3 DEF TypeOK
<1>11. ASSUME NEW r \in Requests, CheckOrder(r) PROVE Base'
  <2>1. /\ UNCHANGED <<orders, expired, lock, notified, call>>
        /\ pc[r] = "CheckOrder"
    BY <1>11 DEF CheckOrder
  <2>2. /\ pc[r] \in Holding /\ call[r] \in Calls
        /\ ent[r] \in Order /\ ent[r].tradeNo \in Rows /\ Consistent(ent[r])
    BY <1>1, <2>1 DEF Holding, WithOrder, InHand, EntitiesConsistent
  <2>3. RequestsOK'
    <3>1. CASE Return(r)
      BY <1>3, <1>5, <2>1, <2>2, <3>1
    <3>2. CASE ent' = [ent EXCEPT ![r] = Close(ent[r])] /\ Goto(r, "UpdateClosed")
      <4>1. "UpdateClosed" \in Holding
        BY DEF Holding
      <4>2. QED
        BY <1>1, <1>3, <2>1, <2>2, <3>2, <4>1, EntityTypes, EntityConsistent,
           RequestsAfterStep DEF Goto
    <3>3. CASE ent' = [ent EXCEPT ![r] = Success(ent[r])] /\ Goto(r, "UpdateSuccess")
      <4>1. "UpdateSuccess" \in Holding
        BY DEF Holding
      <4>2. QED
        BY <1>1, <1>3, <2>1, <2>2, <3>3, <4>1, EntityTypes, EntityConsistent,
           RequestsAfterStep DEF Goto
    <3>4. QED
      BY <1>11, <3>1, <3>2, <3>3 DEF CheckOrder
  <2>4. QED
    BY <1>1, <1>2, <1>3, <2>1, <2>3 DEF TypeOK
<1>12. ASSUME NEW r \in Requests, UpdateClosed(r) PROVE Base'
  <2>1. /\ UNCHANGED <<expired, lock, notified, call>> /\ Return(r)
        /\ UpdateRow(ent[r]) \/ UNCHANGED orders
        /\ pc[r] = "UpdateClosed"
    BY <1>12 DEF UpdateClosed
  <2>2. pc[r] \in WithOrder /\ pc[r] \in Holding
    BY <2>1 DEF WithOrder, Holding
  <2>3. TableOK' /\ Rows' = Rows
    BY <2>1, <2>2, TableAfterUpdate
  <2>4. QED
    BY <1>1, <1>2, <1>5, <2>1, <2>2, <2>3 DEF TypeOK
<1>13. ASSUME NEW r \in Requests, UpdateSuccess(r) PROVE Base'
  <2>1. /\ UNCHANGED <<expired, lock, notified, call>>
        /\ UpdateRow(ent[r]) \/ UNCHANGED orders
        /\ Return(r) \/ (Goto(r, "PublishNotify") /\ UNCHANGED ent)
        /\ pc[r] = "UpdateSuccess"
    BY <1>13 DEF UpdateSuccess
  <2>2. /\ pc[r] \in WithOrder /\ pc[r] \in Holding /\ call[r] \in Calls
        /\ ent[r] \in Order /\ ent[r].tradeNo \in Rows /\ Consistent(ent[r])
    BY <1>1, <2>1 DEF WithOrder, Holding, InHand, EntitiesConsistent
  <2>3. TableOK' /\ Rows' = Rows
    BY <2>1, <2>2, TableAfterUpdate
  <2>4. RequestsOK'
    <3>1. CASE Return(r)
      BY <1>5, <2>1, <2>2, <2>3, <3>1
    <3>2. CASE Goto(r, "PublishNotify") /\ UNCHANGED ent
      <4>1. "PublishNotify" \in Holding
        BY DEF Holding
      <4>2. /\ pc' = [pc EXCEPT ![r] = "PublishNotify"]
            /\ call' = [call EXCEPT ![r] = call[r]]
            /\ ent' = [ent EXCEPT ![r] = ent[r]]
        BY <1>1, <2>1, <3>2 DEF Goto
      <4>3. Rows \subseteq Rows'
        BY <2>3
      <4>4. QED
        BY <1>1, <2>2, <2>3, <4>1, <4>2, <4>3, RequestsAfterStep
    <3>3. QED
      BY <2>1, <3>1, <3>2
  <2>5. QED
    BY <1>1, <1>2, <2>1, <2>3, <2>4 DEF TypeOK
<1>14. ASSUME NEW r \in Requests, PublishNotify(r) PROVE Base'
  <2>1. /\ UNCHANGED <<orders, expired, lock, call>> /\ Return(r)
        /\ \E n \in 0 .. MaxSends :
             notified' = [notified EXCEPT ![ent[r].tradeNo] = @ + n]
        /\ pc[r] = "PublishNotify"
    BY <1>14 DEF PublishNotify
  <2>2. notified' \in [TradeNos -> Nat]
    <3>1. PICK n \in 0 .. MaxSends :
            notified' = [notified EXCEPT ![ent[r].tradeNo] = @ + n]
      BY <2>1
    <3>2. \A t \in TradeNos : notified[t] \in Nat /\ notified[t] + n \in Nat
      BY <1>1 DEF TypeOK
    <3>3. QED
      BY <1>1, <3>1, <3>2 DEF TypeOK
  <2>3. pc[r] \in Holding
    BY <2>1 DEF Holding
  <2>4. QED
    BY <1>1, <1>2, <1>3, <1>5, <2>1, <2>2, <2>3 DEF TypeOK
<1>15. ASSUME NEW r \in Requests, Release(r) PROVE Base'
  <2>1. /\ UNCHANGED <<orders, expired, notified>> /\ Finish(r)
        /\ pc[r] = "Release"
    BY <1>15 DEF Release
  <2>2. lock' \in [Keys -> Requests \cup {None}]
    BY <1>1, <1>15 DEF TypeOK, Release
  <2>3. QED
    BY <1>1, <1>2, <1>3, <1>4, <2>1, <2>2 DEF TypeOK
<1>16. ASSUME NEW r \in Requests, Crash(r) PROVE Base'
  BY <1>1, <1>2, <1>3, <1>4, <1>16 DEF Crash, TypeOK
<1>17. ASSUME NEW k \in Keys, LockExpires(k) PROVE Base'
  <2>1. /\ UNCHANGED <<orders, expired, notified, pc, call, ent>>
        /\ lock' = [lock EXCEPT ![k] = None]
    BY <1>17 DEF LockExpires
  <2>2. RequestsOK'
    BY <1>1, <1>3, <2>1 DEF RequestsOK, InHand, EntitiesConsistent
  <2>3. lock' \in [Keys -> Requests \cup {None}]
    BY <1>1, <2>1 DEF TypeOK
  <2>4. QED
    BY <1>1, <1>2, <1>3, <2>1, <2>2, <2>3 DEF TypeOK
<1>18. ASSUME NEW t \in TradeNos, OrderExpires(t) PROVE Base'
  <2>1. /\ UNCHANGED <<orders, lock, notified, pc, call, ent>>
        /\ expired' = expired \cup {t} /\ t \in Rows
    BY <1>18 DEF OrderExpires
  <2>2. RequestsOK'
    BY <1>1, <1>3, <2>1 DEF RequestsOK, InHand, EntitiesConsistent
  <2>3. QED
    BY <1>1, <1>2, <1>3, <2>1, <2>2 DEF TypeOK
<1>19. ASSUME UNCHANGED vars PROVE Base'
  <2>1. UNCHANGED <<orders, expired, lock, notified, pc, call, ent>>
    BY <1>19 DEF vars
  <2>2. RequestsOK'
    BY <1>1, <1>3, <2>1 DEF RequestsOK, InHand, EntitiesConsistent
  <2>3. QED
    BY <1>1, <1>2, <1>3, <2>1, <2>2 DEF TypeOK
<1>20. QED
  BY <1>6, <1>7, <1>8, <1>9, <1>10, <1>11, <1>12, <1>13, <1>14, <1>15, <1>16,
     <1>17, <1>18, <1>19 DEF Next, Create, Confirm

\* The base layer is an invariant.
LEMMA BaseInvariant == Spec => []Base
<1>1. QED
  BY BaseInit, BaseNext, PTL DEF Spec

\* Every variable stays in its type, and only rows expire.
THEOREM TypeCorrect == Spec => []TypeOK
<1>1. Base => TypeOK
  BY DEF Base
<1>2. QED
  BY <1>1, BaseInvariant, PTL

\* The table says when an order was paid exactly while it says that it is
\* paid, whichever handlers overwrite each other's rows.
THEOREM StampedIffPaid == Spec => []SuccessIsStamped
<1>1. Base => SuccessIsStamped
  BY DEF Base, RowsConsistent, Consistent, SuccessIsStamped
<1>2. QED
  BY <1>1, BaseInvariant, PTL

\* No order is in payment or paid without what the channel recorded for it.
THEOREM ChargeIsRecorded == Spec => []ChargedAtChannel
<1>1. Base => ChargedAtChannel
  BY DEF Base, RowsConsistent, Consistent, ChargedAtChannel
<1>2. QED
  BY <1>1, BaseInvariant, PTL

-----------------------------------------------------------------------------
(* The exclusion layer.                                                    *)

\* Who works under a key is its holder.
Exclusion ==
  \A r \in Requests : pc[r] \in Holding => lock[KeyOf(call[r])] = r

\* A confirmation's key is a key.
LEMMA KeyTypes == ASSUME NEW c \in Calls PROVE KeyOf(c) \in Keys
<1>1. c \in Call
  OBVIOUS
<1>2. QED
  BY <1>1 DEF Call, Keys, KeyOf

\* A key is set only while nobody holds it and deleted only by its holder or
\* by time: whoever works under a key that its time has not ended holds it
\* after a step if it did before.
LEMMA KeyKept ==
  ASSUME Base, [Next]_vars, NEW q \in Requests,
         pc[q] \in Holding => lock[KeyOf(call[q])] = q,
         ~(pc[q] \in Holding /\ LockExpires(KeyOf(call[q]))),
         pc'[q] \in Holding
  PROVE  lock'[KeyOf(call'[q])] = q
<1> USE DEF db, redis, request
<1>1. /\ lock \in [Keys -> Requests \cup {None}]
      /\ pc \in [Requests -> {"idle"} \cup Creating \cup Holding]
      /\ call \in [Requests -> Calls \cup {None}]
      /\ pc[q] \in Holding => call[q] \in Calls /\ KeyOf(call[q]) \in Keys
  BY KeyTypes DEF Base, TypeOK, InHand
<1>2. \A label \in {"idle"} \cup Creating : label \notin Holding
  BY DEF Creating, Holding
\* A step that leaves the lock alone and takes nobody into a handler.
<1>3. ASSUME UNCHANGED lock, pc[q] \in Holding, call'[q] = call[q]
      PROVE  lock'[KeyOf(call'[q])] = q
  BY <1>3
<1>4. ASSUME NEW r \in Requests, Finish(r)
      PROVE  q # r /\ pc[q] \in Holding /\ call'[q] = call[q]
  BY <1>1, <1>2, <1>4 DEF Finish, Goto
<1>5. ASSUME NEW r \in Requests, UNCHANGED <<lock, call>>, pc[r] \in Holding,
             NEW label, Goto(r, label)
      PROVE  lock'[KeyOf(call'[q])] = q
  BY <1>1, <1>3, <1>5 DEF Goto
<1>6. ASSUME NEW r \in Requests, Create(r) PROVE lock'[KeyOf(call'[q])] = q
  <2>1. CASE \E t \in TradeNos, m \in Merchants, o \in OutTradeNos, a \in Amounts :
               Save(r, t, m, o, a)
    BY <1>1, <1>2, <1>3, <2>1 DEF Save, Goto, Creating
  <2>2. CASE CreatePay(r)
    BY <1>1, <1>2, <1>3, <1>4, <2>2 DEF CreatePay, Goto, Creating
  <2>3. CASE UpdateProcessing(r)
    BY <1>3, <1>4, <2>3 DEF UpdateProcessing
  <2>4. QED
    BY <1>6, <2>1, <2>2, <2>3 DEF Create
<1>7. ASSUME NEW r \in Requests, NEW c \in Calls, Acquire(r, c)
      PROVE  lock'[KeyOf(call'[q])] = q
  <2>1. /\ lock[KeyOf(c)] = None /\ KeyOf(c) \in Keys
        /\ lock' = [lock EXCEPT ![KeyOf(c)] = r]
        /\ pc[r] = "idle"
        /\ \/ pc' = [pc EXCEPT ![r] = "Find"] /\ call' = [call EXCEPT ![r] = c]
           \/ UNCHANGED <<pc, call>>
    BY <1>7, KeyTypes DEF Acquire, Goto
  <2>2. CASE q # r
    <3>1. pc[q] \in Holding /\ call'[q] = call[q]
      BY <1>1, <2>1, <2>2
    <3>2. lock[KeyOf(call[q])] = q /\ KeyOf(call[q]) \in Keys
      BY <1>1, <3>1
    <3>3. QED
      BY <1>1, <2>1, <3>1, <3>2
  <2>3. CASE q = r
    BY <1>1, <1>2, <2>1, <2>3
  <2>4. QED
    BY <2>2, <2>3
<1>8. ASSUME NEW r \in Requests, Confirm(r) PROVE lock'[KeyOf(call'[q])] = q
  <2>1. CASE Find(r)
    BY <1>5, <2>1 DEF Find, Return, Holding
  <2>2. CASE CheckOrder(r)
    BY <1>5, <2>2 DEF CheckOrder, Return, Holding
  <2>3. CASE UpdateClosed(r)
    BY <1>5, <2>3 DEF UpdateClosed, Return, Holding
  <2>4. CASE UpdateSuccess(r)
    BY <1>5, <2>4 DEF UpdateSuccess, Return, Holding
  <2>5. CASE PublishNotify(r)
    BY <1>5, <2>5 DEF PublishNotify, Return, Holding
  <2>6. CASE Release(r)
    <3>1. q # r /\ pc[q] \in Holding /\ call'[q] = call[q]
      BY <1>4, <2>6 DEF Release
    <3>2. \A k \in Keys : lock[k] # r => lock'[k] = lock[k]
      BY <1>1, <2>6 DEF Release
    <3>3. lock[KeyOf(call[q])] = q /\ KeyOf(call[q]) \in Keys
      BY <1>1, <3>1
    <3>4. QED
      BY <3>1, <3>2, <3>3
  <2>7. QED
    BY <1>8, <2>1, <2>2, <2>3, <2>4, <2>5, <2>6 DEF Confirm
<1>9. ASSUME NEW r \in Requests, Crash(r) PROVE lock'[KeyOf(call'[q])] = q
  BY <1>3, <1>4, <1>9 DEF Crash
<1>10. ASSUME NEW k \in Keys, LockExpires(k) PROVE lock'[KeyOf(call'[q])] = q
  <2>1. lock' = [lock EXCEPT ![k] = None] /\ UNCHANGED <<pc, call>>
    BY <1>10 DEF LockExpires
  <2>2. KeyOf(call[q]) # k
    BY <1>10, <2>1
  <2>3. QED
    BY <1>1, <2>1, <2>2
<1>11. ASSUME NEW t \in TradeNos, OrderExpires(t) PROVE lock'[KeyOf(call'[q])] = q
  BY <1>3, <1>11 DEF OrderExpires
<1>12. ASSUME UNCHANGED vars PROVE lock'[KeyOf(call'[q])] = q
  BY <1>3, <1>12 DEF vars
<1>13. QED
  BY <1>6, <1>7, <1>8, <1>9, <1>10, <1>11, <1>12 DEF Next

\* The exclusion layer is inductive as long as no lock lapses.
LEMMA ExclusionNext ==
  ASSUME ~LockMayLapse, Base, Exclusion, [Next]_vars
  PROVE  Exclusion'
<1> SUFFICES ASSUME NEW q \in Requests, pc'[q] \in Holding
             PROVE  lock'[KeyOf(call'[q])] = q
  BY DEF Exclusion
<1>1. ~(pc[q] \in Holding /\ LockExpires(KeyOf(call[q])))
  BY DEF LockExpires
<1>2. QED
  BY <1>1, KeyKept DEF Exclusion

\* If locks may lapse, a handler still keeps its key until its time is over:
\* no release of a handler that outlived its own lock takes it away.
THEOREM KeysAreKept == TenureSpec => []HolderKeepsKey
<1>1. TenureSpec => Spec
  <2>1. TenureInit => Init
    BY DEF TenureInit
  <2>2. [TenureNext]_tenureVars => [Next]_vars
    BY DEF TenureNext, tenureVars
  <2>3. QED
    BY <2>1, <2>2, PTL DEF TenureSpec, Spec
<1>2. TenureInit => HolderKeepsKey
  BY DEF TenureInit, Init, HolderKeepsKey, Holding
<1>3. Base /\ HolderKeepsKey /\ [TenureNext]_tenureVars => HolderKeepsKey'
  <2> SUFFICES ASSUME Base, HolderKeepsKey, [TenureNext]_tenureVars
               PROVE  HolderKeepsKey'
    OBVIOUS
  <2>1. CASE TenureNext
    <3> SUFFICES ASSUME NEW q \in Requests, pc'[q] \in Holding, q \notin lapsed'
                 PROVE  lock'[KeyOf(call'[q])] = q
      BY DEF HolderKeepsKey
    <3>1. /\ q \notin lapsed
          /\ ~(pc[q] \in Holding /\ LockExpires(KeyOf(call[q])))
      BY <2>1 DEF TenureNext
    <3>2. [Next]_vars
      BY <2>1 DEF TenureNext
    <3>3. QED
      BY <3>1, <3>2, KeyKept DEF HolderKeepsKey
  <2>2. CASE UNCHANGED tenureVars
    BY <2>2 DEF tenureVars, vars, redis, request, HolderKeepsKey
  <2>3. QED
    BY <2>1, <2>2
<1>4. QED
  BY <1>1, <1>2, <1>3, BaseInvariant, PTL DEF TenureSpec

\* While locks outlive their holders, one handler at a time works under a key.
THEOREM HolderExclusive ==
  ASSUME ~LockMayLapse
  PROVE  Spec => []HolderIsAlone
<1>1. Init => Exclusion
  BY DEF Init, Exclusion, Holding
<1>2. Base /\ Exclusion /\ [Next]_vars => Exclusion'
  BY ExclusionNext
<1>3. Exclusion => HolderIsAlone
  BY DEF Exclusion, HolderIsAlone
<1>4. QED
  BY <1>1, <1>2, <1>3, BaseInvariant, PTL DEF Spec

-----------------------------------------------------------------------------
(* The creation layer.                                                     *)

\* CreatePayOrder is alone with its order, which is new and cannot expire yet.
CreatorAlone(r) ==
  pc[r] \in Creating =>
    /\ ent[r].status = IF pc[r] = "CreatePay" THEN StatusInit ELSE StatusProcessing
    /\ orders[ent[r].tradeNo].status = StatusInit
    /\ ent[r].tradeNo \notin expired
    /\ \A q \in Requests :
         (pc[q] \in Creating /\ ent[q].tradeNo = ent[r].tradeNo) => q = r

\* Past its creation an order is not INIT again.
Created(t) == orders[t].status # StatusInit

\* A handler closes what has expired, and completes what has been created.
HandlerReadsBack(r) ==
  /\ pc[r] = "CheckOrder" =>
       /\ ent[r].status # StatusSuccess
       /\ ent[r].status # StatusInit => Created(ent[r].tradeNo)
  /\ pc[r] = "UpdateClosed" =>
       ent[r].status = StatusClosed /\ ent[r].tradeNo \in expired
  /\ pc[r] \in {"UpdateSuccess", "PublishNotify"} =>
       ent[r].status = StatusSuccess /\ Created(ent[r].tradeNo)

Creation == \A r \in Requests : CreatorAlone(r) /\ HandlerReadsBack(r)

\* A step that leaves the table and the expired orders alone, and starts no
\* creation, keeps the creation layer if the request that moves does.
LEMMA CreationRequest ==
  ASSUME Base, Creation, UNCHANGED <<orders, expired>>,
         NEW r \in Requests, NEW label, NEW e,
         pc'  = [pc EXCEPT ![r] = label],
         ent' = [ent EXCEPT ![r] = e],
         label \notin Creating,
         label = "CheckOrder" =>
           /\ e.status # StatusSuccess
           /\ e.status # StatusInit => Created(e.tradeNo),
         label = "UpdateClosed" =>
           e.status = StatusClosed /\ e.tradeNo \in expired,
         label \in {"UpdateSuccess", "PublishNotify"} =>
           e.status = StatusSuccess /\ Created(e.tradeNo)
  PROVE  Creation'
<1>1. pc'[r] = label /\ ent'[r] = e
  BY DEF Base, TypeOK
<1>2. \A q \in Requests : q # r => pc'[q] = pc[q] /\ ent'[q] = ent[q]
  BY DEF Base, TypeOK
<1>3. ASSUME NEW q \in Requests PROVE CreatorAlone(q)'
  BY <1>1, <1>2 DEF Creation, CreatorAlone
<1>4. ASSUME NEW q \in Requests PROVE HandlerReadsBack(q)'
  BY <1>1, <1>2 DEF Creation, HandlerReadsBack, Created
<1>5. QED
  BY <1>3, <1>4 DEF Creation

\* The last write of a request to its row: the creator's, once, or a handler's
\* that closes or completes the order.
LEMMA CreationUpdate ==
  ASSUME Base, Creation, UNCHANGED expired,
         NEW r \in Requests, NEW label, NEW e,
         pc'  = [pc EXCEPT ![r] = label],
         ent' = [ent EXCEPT ![r] = e],
         \/ pc[r] = "UpdateProcessing" /\ label = "idle"
         \/ pc[r] = "UpdateClosed" /\ label = "Release"
         \/ pc[r] = "UpdateSuccess" /\ label = "Release"
         \/ pc[r] = "UpdateSuccess" /\ label = "PublishNotify" /\ e = ent[r],
         UpdateRow(ent[r])
  PROVE  /\ Creation'
         /\ \A t \in TradeNos : StatusOf(t) \in Settled => StatusOf(t)' \in Settled
<1> DEFINE t0 == ent[r].tradeNo
<1>1. /\ pc[r] \in WithOrder
      /\ pc[r] = "UpdateProcessing" <=> pc[r] \in Creating
      /\ label \notin Creating
  BY DEF WithOrder, Creating
<1>2. ent[r] \in Order /\ t0 \in Rows /\ t0 \in TradeNos
  BY <1>1 DEF Base, InHand, Rows
<1>3. /\ Rows' = Rows
      /\ \A t \in TradeNos : t # t0 => orders'[t] = orders[t]
      /\ orders'[t0].status = ent[r].status
  BY <1>2, UpdateRowEffect DEF Base
<1>4. /\ pc'[r] = label /\ ent'[r] = e
      /\ \A q \in Requests : q # r => pc'[q] = pc[q] /\ ent'[q] = ent[q]
  BY DEF Base, TypeOK
<1>5. /\ CreatorAlone(r) /\ HandlerReadsBack(r)
      /\ \A q \in Requests : CreatorAlone(q) /\ HandlerReadsBack(q)
  BY DEF Creation
<1>6. \/ pc[r] = "UpdateProcessing" /\ ent[r].status = StatusProcessing
                                    /\ orders[t0].status = StatusInit
      \/ pc[r] = "UpdateClosed" /\ ent[r].status = StatusClosed
      \/ pc[r] = "UpdateSuccess" /\ ent[r].status = StatusSuccess
  BY <1>1, <1>5 DEF CreatorAlone, HandlerReadsBack
<1>7. ASSUME NEW q \in Requests, q # r, pc[q] \in Creating
      PROVE  ent[q].tradeNo # t0 /\ ent[q].tradeNo \in TradeNos
  <2>1. ent[q].tradeNo \in TradeNos
    BY <1>7 DEF Base, InHand, WithOrder, Rows
  <2>2. CASE pc[r] = "UpdateProcessing"
    BY <1>1, <1>5, <1>7, <2>1, <2>2 DEF CreatorAlone
  <2>3. CASE pc[r] = "UpdateClosed"
    BY <1>5, <1>7, <2>1, <2>3 DEF CreatorAlone, HandlerReadsBack
  <2>4. CASE pc[r] = "UpdateSuccess"
    BY <1>5, <1>7, <2>1, <2>4 DEF CreatorAlone, HandlerReadsBack, Created
  <2>5. QED
    BY <1>6, <2>2, <2>3, <2>4
<1>8. ASSUME NEW q \in Requests PROVE CreatorAlone(q)'
  <2> SUFFICES ASSUME pc'[q] \in Creating
               PROVE  CreatorAlone(q)'
    BY DEF CreatorAlone
  <2>1. q # r /\ pc'[q] = pc[q] /\ ent'[q] = ent[q]
    BY <1>1, <1>4
  <2>2. orders'[ent[q].tradeNo] = orders[ent[q].tradeNo]
    BY <1>3, <1>7, <2>1
  <2>3. \A p \in Requests : pc'[p] \in Creating =>
          pc[p] \in Creating /\ ent'[p] = ent[p]
    BY <1>1, <1>4
  <2>4. QED
    BY <1>5, <2>1, <2>2, <2>3 DEF CreatorAlone
<1>9. \A t \in TradeNos : Created(t) => Created(t)'
  BY <1>3, <1>6 DEF Created, StatusInit, StatusProcessing, StatusClosed, StatusSuccess
<1>10. orders'[t0].status # StatusInit
  BY <1>3, <1>6 DEF Created, StatusInit, StatusProcessing, StatusClosed, StatusSuccess
<1>11. ASSUME NEW q \in Requests PROVE HandlerReadsBack(q)'
  <2>1. CASE q = r
    BY <1>4, <1>5, <1>10, <2>1 DEF HandlerReadsBack, Created
  <2>2. CASE q # r
    <3>1. pc[q] \in WithOrder => ent[q].tradeNo \in TradeNos
      BY DEF Base, InHand, Rows
    <3>2. QED
      BY <1>4, <1>5, <1>9, <2>2, <3>1 DEF HandlerReadsBack, WithOrder
  <2>3. QED
    BY <2>1, <2>2
<1>12. ASSUME NEW t \in TradeNos, StatusOf(t) \in Settled
       PROVE  StatusOf(t)' \in Settled
  <2>1. t \in Rows /\ t \in Rows'
    BY <1>3, <1>12
       DEF StatusOf, Settled, Rows, StatusSuccess, StatusClosed
  <2>2. CASE t # t0
    BY <1>3, <1>12, <2>1, <2>2 DEF StatusOf, Rows
  <2>3. CASE t = t0
    BY <1>3, <1>6, <1>12, <2>1, <2>3
       DEF StatusOf, Settled, Rows, StatusInit, StatusSuccess, StatusClosed
  <2>4. QED
    BY <2>2, <2>3
<1>13. QED
  BY <1>8, <1>11, <1>12 DEF Creation

\* The creation layer is inductive unless orders expire early, and a settled
\* row stays settled.
LEMMA CreationNext ==
  ASSUME ~EarlyExpiry, Base, Creation, [Next]_vars
  PROVE  /\ Creation'
         /\ \A t \in TradeNos : StatusOf(t) \in Settled => StatusOf(t)' \in Settled
<1> DEFINE Kept == \A t \in TradeNos :
                     StatusOf(t) \in Settled => StatusOf(t)' \in Settled
<1> USE DEF db, redis, request
<1>1. /\ \A r \in Requests : CreatorAlone(r) /\ HandlerReadsBack(r)
      /\ \A r \in Requests : ent = [ent EXCEPT ![r] = ent[r]]
      /\ \A r \in Requests : pc[r] \in WithOrder =>
           /\ ent[r] \in Order
           /\ ent[r].tradeNo \in Rows
           /\ ent[r].tradeNo \in TradeNos
      /\ expired \subseteq Rows
  BY DEF Creation, Base, TypeOK, InHand, Rows
<1>2. UNCHANGED orders => Kept
  BY DEF StatusOf
<1>3. ASSUME NEW r \in Requests, NEW label \in {"idle", "Release", "Find"}, NEW e,
             Goto(r, label), ent' = [ent EXCEPT ![r] = e],
             UNCHANGED <<orders, expired>>
      PROVE  Creation' /\ Kept
  <2>1. /\ label \notin Creating
        /\ label \notin {"CheckOrder", "UpdateClosed", "UpdateSuccess", "PublishNotify"}
    BY <1>3 DEF Creating
  <2>2. QED
    BY <1>2, <1>3, <2>1, CreationRequest DEF Goto
<1>4. ASSUME UNCHANGED <<orders, expired, pc, ent>> PROVE Creation' /\ Kept
  BY <1>1, <1>2, <1>4 DEF Creation, CreatorAlone, HandlerReadsBack, Created
<1>5. ASSUME NEW r \in Requests, NEW t \in TradeNos, NEW m \in Merchants,
             NEW o \in OutTradeNos, NEW a \in Amounts, Save(r, t, m, o, a)
      PROVE  Creation' /\ Kept
  <2> DEFINE new == NewOrder(t, m, o, a)
  <2>1. /\ new \in Order /\ new.tradeNo = t /\ new.status = StatusInit
        /\ t \notin Rows /\ pc[r] = "idle"
    <3>1. Rows \subseteq TradeNos
      BY DEF Rows
    <3>2. pc[r] = "idle" /\ orders[t] = None
      BY <1>5 DEF Save
    <3>3. t \notin Rows
      BY <3>2 DEF Rows
    <3>4. new \in Order /\ new.tradeNo = t /\ new.status = StatusInit
      BY <3>1, NewOrderTypes
    <3>5. QED
      BY <3>2, <3>3, <3>4
  <2>2. /\ SaveRow(new)
        /\ UNCHANGED expired
        /\ \/ pc' = [pc EXCEPT ![r] = "CreatePay"] /\ ent' = [ent EXCEPT ![r] = new]
           \/ UNCHANGED <<pc, ent>>
    BY <1>5 DEF Save, Goto
  <2> HIDE DEF new
  <2>3. /\ \A u \in TradeNos : u # t => orders'[u] = orders[u]
        /\ orders'[t] = new
    BY <2>1, <2>2, SaveRowEffect DEF Base
  <2>4. \A q \in Requests : pc[q] \in WithOrder =>
          ent[q].tradeNo # t /\ orders'[ent[q].tradeNo] = orders[ent[q].tradeNo]
    BY <1>1, <2>1, <2>3
  <2>5. Kept
    BY <2>1, <2>3 DEF StatusOf, Settled, Rows, StatusSuccess, StatusClosed
  <2>6. \A q \in Requests : q # r => pc'[q] = pc[q] /\ ent'[q] = ent[q]
    BY <2>2 DEF Base, TypeOK
  <2>7. \/ pc'[r] = "CreatePay" /\ ent'[r] = new
        \/ pc'[r] = pc[r] /\ ent'[r] = ent[r]
    BY <2>2 DEF Base, TypeOK
  <2>8. ASSUME NEW q \in Requests PROVE CreatorAlone(q)'
    <3>1. CASE q = r /\ pc'[r] = "CreatePay"
      <4>1. t \notin expired'
        BY <1>1, <2>1, <2>2
      <4>2. \A p \in Requests : p # r /\ pc'[p] \in Creating => ent'[p].tradeNo # t
        BY <2>4, <2>6 DEF WithOrder
      <4>3. QED
        BY <2>1, <2>3, <2>7, <3>1, <4>1, <4>2 DEF CreatorAlone, Creating
    <3>2. CASE ~(q = r /\ pc'[r] = "CreatePay")
      <4>1. pc'[q] = pc[q] /\ ent'[q] = ent[q]
        BY <2>6, <2>7, <3>2
      <4>2. ASSUME pc[q] \in Creating, NEW p \in Requests, pc'[p] \in Creating,
                   ent'[p].tradeNo = ent[q].tradeNo
            PROVE  p = q
        <5>1. ent[q].tradeNo # t
          BY <2>4, <4>2 DEF WithOrder
        <5>2. pc'[p] = pc[p] /\ ent'[p] = ent[p]
          BY <2>1, <2>6, <2>7, <4>2, <5>1
        <5>3. QED
          BY <1>1, <4>2, <5>2 DEF CreatorAlone
      <4>3. QED
        BY <1>1, <2>2, <2>4, <4>1, <4>2 DEF CreatorAlone, WithOrder
    <3>3. QED
      BY <3>1, <3>2
  <2>9. ASSUME NEW q \in Requests PROVE HandlerReadsBack(q)'
    <3>1. CASE pc'[q] = pc[q] /\ ent'[q] = ent[q]
      BY <1>1, <2>2, <2>4, <3>1 DEF HandlerReadsBack, WithOrder, Created
    <3>2. CASE pc'[q] = "CreatePay"
      BY <3>2 DEF HandlerReadsBack
    <3>3. QED
      BY <2>6, <2>7, <3>1, <3>2
  <2>10. QED
    BY <2>5, <2>8, <2>9 DEF Creation
<1>6. ASSUME NEW r \in Requests, CreatePay(r) PROVE Creation' /\ Kept
  <2>1. UNCHANGED <<orders, expired>> /\ pc[r] = "CreatePay"
    BY <1>6 DEF CreatePay
  <2>2. CASE Finish(r)
    BY <1>3, <2>1, <2>2 DEF Finish
  <2>3. CASE /\ ent' = [ent EXCEPT ![r] = ToProcessing(ent[r])]
             /\ Goto(r, "UpdateProcessing")
    <3>1. /\ ent[r] \in Order /\ ent[r].status = StatusInit
          /\ pc[r] \in Creating
      BY <1>1, <2>1 DEF WithOrder, Creating, CreatorAlone
    <3>2. /\ ToProcessing(ent[r]).status = StatusProcessing
          /\ ToProcessing(ent[r]).tradeNo = ent[r].tradeNo
      BY <3>1 DEF ToProcessing, Order
    <3>3. /\ pc'[r] = "UpdateProcessing" /\ ent'[r] = ToProcessing(ent[r])
          /\ \A q \in Requests : q # r => pc'[q] = pc[q] /\ ent'[q] = ent[q]
      BY <2>3 DEF Goto, Base, TypeOK
    <3>4. \A q \in Requests :
            /\ pc'[q] \in Creating <=> pc[q] \in Creating
            /\ pc[q] \in Creating => ent'[q].tradeNo = ent[q].tradeNo
      BY <2>1, <3>2, <3>3 DEF Creating
    <3>5. ASSUME NEW q \in Requests PROVE CreatorAlone(q)'
      <4>1. CASE q = r
        BY <1>1, <2>1, <3>1, <3>2, <3>3, <3>4, <4>1 DEF CreatorAlone
      <4>2. CASE q # r
        BY <1>1, <2>1, <3>3, <3>4, <4>2 DEF CreatorAlone
      <4>3. QED
        BY <4>1, <4>2
    <3>6. ASSUME NEW q \in Requests PROVE HandlerReadsBack(q)'
      BY <1>1, <2>1, <3>3 DEF HandlerReadsBack, Created
    <3>7. QED
      BY <1>2, <2>1, <3>5, <3>6 DEF Creation
  <2>4. QED
    BY <1>6, <2>2, <2>3 DEF CreatePay
<1>7. ASSUME NEW r \in Requests, UpdateProcessing(r) PROVE Creation' /\ Kept
  <2>1. CASE UNCHANGED orders
    BY <1>3, <1>7, <2>1 DEF UpdateProcessing, Finish
  <2>2. CASE UpdateRow(ent[r])
    BY <1>7, <2>2, CreationUpdate DEF UpdateProcessing, Finish, Goto
  <2>3. QED
    BY <1>7, <2>1, <2>2 DEF UpdateProcessing
<1>8. ASSUME NEW r \in Requests, NEW c \in Calls, Acquire(r, c)
      PROVE  Creation' /\ Kept
  <2>1. CASE UNCHANGED <<pc, call>>
    BY <1>4, <1>8, <2>1 DEF Acquire
  <2>2. CASE Goto(r, "Find")
    BY <1>1, <1>3, <1>8, <2>2 DEF Acquire
  <2>3. QED
    BY <1>8, <2>1, <2>2 DEF Acquire
<1>9. ASSUME NEW r \in Requests, Find(r) PROVE Creation' /\ Kept
  <2>1. UNCHANGED <<orders, expired>> /\ pc[r] = "Find"
    BY <1>9 DEF Find
  <2>2. CASE Return(r)
    BY <1>3, <2>1, <2>2 DEF Return
  <2>3. CASE /\ FindOrder(call[r]) # None
             /\ FindOrder(call[r]).status # StatusSuccess
             /\ ent' = [ent EXCEPT ![r] = FindOrder(call[r])]
             /\ Goto(r, "CheckOrder")
    <3>1. call[r] \in Call
      BY <2>1 DEF Base, InHand, Holding
    <3>2. FindOrder(call[r]) = orders[FindOrder(call[r]).tradeNo]
      BY <2>3, <3>1, FindOrderIsRow DEF Base
    <3>3. "CheckOrder" \notin Creating
      BY DEF Creating
    <3>4. QED
      BY <1>2, <2>1, <2>3, <3>2, <3>3, CreationRequest DEF Goto, Created
  <2>4. QED
    BY <1>9, <2>2, <2>3 DEF Find
<1>10. ASSUME NEW r \in Requests, CheckOrder(r) PROVE Creation' /\ Kept
  <2>1. /\ UNCHANGED <<orders, expired>> /\ pc[r] = "CheckOrder"
        /\ ent[r] \in Order
        /\ ent[r].status # StatusSuccess
        /\ ent[r].status # StatusInit => Created(ent[r].tradeNo)
    BY <1>1, <1>10 DEF CheckOrder, HandlerReadsBack, WithOrder
  <2>2. CASE Return(r)
    BY <1>3, <2>1, <2>2 DEF Return
  <2>3. CASE /\ ent[r].tradeNo \in expired
             /\ ent' = [ent EXCEPT ![r] = Close(ent[r])]
             /\ Goto(r, "UpdateClosed")
    <3>1. /\ Close(ent[r]).status = StatusClosed
          /\ Close(ent[r]).tradeNo = ent[r].tradeNo
      BY <2>1 DEF Close, CanClose, Order
    <3>2. "UpdateClosed" \notin Creating
      BY DEF Creating
    <3>3. QED
      BY <1>2, <2>1, <2>3, <3>1, <3>2, CreationRequest DEF Goto
  <2>4. CASE /\ CanSucceed(ent[r])
             /\ ent' = [ent EXCEPT ![r] = Success(ent[r])]
             /\ Goto(r, "UpdateSuccess")
    <3>1. /\ Success(ent[r]).status = StatusSuccess
          /\ Success(ent[r]).tradeNo = ent[r].tradeNo
          /\ ent[r].status # StatusInit
      BY <2>1, <2>4
         DEF Success, CanSucceed, Order, StatusInit, StatusProcessing
    <3>2. "UpdateSuccess" \notin Creating
      BY DEF Creating
    <3>3. QED
      BY <1>2, <2>1, <2>4, <3>1, <3>2, CreationRequest DEF Goto
  <2>5. QED
    BY <1>10, <2>2, <2>3, <2>4 DEF CheckOrder
<1>11. ASSUME NEW r \in Requests, UpdateClosed(r) PROVE Creation' /\ Kept
  <2>1. CASE UNCHANGED orders
    BY <1>3, <1>11, <2>1 DEF UpdateClosed, Return
  <2>2. CASE UpdateRow(ent[r])
    BY <1>11, <2>2, CreationUpdate DEF UpdateClosed, Return, Goto
  <2>3. QED
    BY <1>11, <2>1, <2>2 DEF UpdateClosed
<1>12. ASSUME NEW r \in Requests, UpdateSuccess(r) PROVE Creation' /\ Kept
  <2>1. CASE UNCHANGED orders /\ Return(r)
    BY <1>3, <1>12, <2>1 DEF UpdateSuccess, Return
  <2>2. CASE UpdateRow(ent[r]) /\ Return(r)
    BY <1>12, <2>2, CreationUpdate DEF UpdateSuccess, Return, Goto
  <2>3. CASE UpdateRow(ent[r]) /\ Goto(r, "PublishNotify") /\ UNCHANGED ent
    BY <1>1, <1>12, <2>3, CreationUpdate DEF UpdateSuccess, Goto
  <2>4. QED
    BY <1>12, <2>1, <2>2, <2>3 DEF UpdateSuccess
<1>13. ASSUME NEW r \in Requests, PublishNotify(r) PROVE Creation' /\ Kept
  BY <1>3, <1>13 DEF PublishNotify, Return
<1>14. ASSUME NEW r \in Requests, Release(r) PROVE Creation' /\ Kept
  BY <1>3, <1>14 DEF Release, Finish
<1>15. ASSUME NEW r \in Requests, Crash(r) PROVE Creation' /\ Kept
  BY <1>3, <1>15 DEF Crash, Finish
<1>16. ASSUME NEW k \in Keys, LockExpires(k) PROVE Creation' /\ Kept
  BY <1>4, <1>16 DEF LockExpires
<1>17. ASSUME NEW t \in TradeNos, OrderExpires(t) PROVE Creation' /\ Kept
  <2>1. /\ UNCHANGED <<orders, pc, ent>> /\ expired' = expired \cup {t}
        /\ \A q \in Requests : pc[q] \in Creating => ent[q].tradeNo # t
    BY <1>17 DEF OrderExpires
  <2>2. QED
    BY <1>1, <1>2, <2>1 DEF Creation, CreatorAlone, HandlerReadsBack, Created
<1>18. ASSUME UNCHANGED vars PROVE Creation' /\ Kept
  BY <1>4, <1>18 DEF vars
<1>19. QED
  BY <1>5, <1>6, <1>7, <1>8, <1>9, <1>10, <1>11, <1>12, <1>13, <1>14, <1>15,
     <1>16, <1>17, <1>18 DEF Next, Create, Confirm

\* Unless orders expire while they are created, no order that was paid or
\* closed waits for a payment again, even if locks lapse and handlers overlap.
THEOREM SettledStaysSettled ==
  ASSUME ~EarlyExpiry
  PROVE  Spec => NeverReopened
<1>1. Init => Creation
  BY DEF Init, Creation, CreatorAlone, HandlerReadsBack, Creating
<1>2. Base /\ Creation /\ [Next]_vars => Creation'
  BY CreationNext
<1>3. Base /\ Creation /\ [Next]_vars
        => [\A t \in TradeNos : StatusOf(t) \in Settled => StatusOf(t)' \in Settled]_vars
  BY CreationNext
<1>4. QED
  BY <1>1, <1>2, <1>3, BaseInvariant, PTL DEF Spec, NeverReopened

-----------------------------------------------------------------------------
(* The confirmation layer.                                                 *)

\* The steps at which a handler has an order in memory.
Handling == {"CheckOrder", "UpdateClosed", "UpdateSuccess", "PublishNotify"}

\* What a handler read or wrote is what the row says, but for the creator of
\* an INIT order: nobody else moves a row that a handler works on.
HandlerIsCurrent(r) ==
  \A t \in TradeNos : (pc[r] \in Handling /\ ent[r].tradeNo = t) =>
    /\ call[r].kind = "mock" /\ call[r].ref = t
    /\ pc[r] = "CheckOrder" =>
         /\ StatusOf(t) # StatusSuccess
         /\ ent[r].status = StatusProcessing => StatusOf(t) = StatusProcessing
    /\ pc[r] = "UpdateClosed" => StatusOf(t) # StatusSuccess
    /\ pc[r] = "UpdateSuccess" => StatusOf(t) = StatusProcessing
    /\ pc[r] = "PublishNotify" => StatusOf(t) = StatusSuccess /\ notified[t] = 0

Confirmation ==
  /\ NotifiedOnceIfPaid
  /\ \A t \in TradeNos : StatusOf(t) # StatusFailed
  /\ \A r \in Requests : HandlerIsCurrent(r)

IInv == Base /\ Exclusion /\ Creation /\ Confirmation

\* Only the mock route finds orders when no merchant's id is blank.
LEMMA MockFinds ==
  ASSUME Blank = {}, NEW c \in Call, FindOrder(c) # None
  PROVE  c.kind = "mock" /\ FindOrder(c) = orders[c.ref]
<1>1. c.kind = "mock"
  <2> SUFFICES ASSUME c.kind # "mock" PROVE FindOrder(c) = None
    OBVIOUS
  <2> DEFINE found == {t \in Rows : /\ orders[t].merchant \in Blank
                                    /\ orders[t].outTradeNo = c.ref}
             first == {t \in found : \A u \in found : orders[t].id <= orders[u].id}
  <2>1. first = {}
    OBVIOUS
  <2>2. QED
    BY <2>1 DEF FindOrder, FindByOutTradeNo
<1>2. QED
  BY <1>1 DEF FindOrder, FindByTradeNo

\* Two handlers are never at work on one order.
LEMMA OneHandler ==
  ASSUME Base, Exclusion, Confirmation, NEW r \in Requests, NEW q \in Requests,
         pc[r] \in Handling, pc[q] \in Handling, ent[r].tradeNo = ent[q].tradeNo
  PROVE  r = q
<1>1. Handling \subseteq Holding
  BY DEF Handling, Holding
<1>2. KeyOf(call[r]) = KeyOf(call[q])
  <2>1. ent[r].tradeNo \in TradeNos
    BY DEF Base, InHand, Handling, WithOrder, Rows
  <2>2. QED
    BY <2>1 DEF Confirmation, HandlerIsCurrent, KeyOf
<1>3. QED
  BY <1>1, <1>2 DEF Exclusion

\* A step that leaves the table and the queue alone keeps the confirmation
\* layer if the request that moves does.
LEMMA ConfirmationRequest ==
  ASSUME Base, Confirmation, UNCHANGED <<orders, notified>>,
         NEW r \in Requests, NEW label, NEW c, NEW e,
         pc'   = [pc EXCEPT ![r] = label],
         call' = [call EXCEPT ![r] = c],
         ent'  = [ent EXCEPT ![r] = e],
         label \in Handling => c.kind = "mock" /\ e.tradeNo = c.ref,
         label = "CheckOrder" =>
           /\ StatusOf(e.tradeNo) # StatusSuccess
           /\ e.status = StatusProcessing => StatusOf(e.tradeNo) = StatusProcessing,
         label = "UpdateClosed" => StatusOf(e.tradeNo) # StatusSuccess,
         label = "UpdateSuccess" => StatusOf(e.tradeNo) = StatusProcessing,
         label # "PublishNotify"
  PROVE  Confirmation'
<1>1. pc'[r] = label /\ call'[r] = c /\ ent'[r] = e
  BY DEF Base, TypeOK
<1>2. \A q \in Requests : q # r =>
        pc'[q] = pc[q] /\ call'[q] = call[q] /\ ent'[q] = ent[q]
  BY DEF Base, TypeOK
<1>3. \A t : StatusOf(t)' = StatusOf(t)
  BY DEF StatusOf
<1>4. ASSUME NEW q \in Requests PROVE HandlerIsCurrent(q)'
  <2>1. CASE q = r
    BY <1>1, <1>3, <2>1 DEF HandlerIsCurrent
  <2>2. CASE q # r
    BY <1>2, <1>3, <2>2 DEF Confirmation, HandlerIsCurrent
  <2>3. QED
    BY <2>1, <2>2
<1>5. QED
  BY <1>3, <1>4 DEF Confirmation, NotifiedOnceIfPaid

\* A request writes a row only along the transition table, and writes only
\* the row's status as it has it in memory.
LEMMA UpdateIsForward ==
  ASSUME IInv, NEW r \in Requests, UpdateRow(ent[r]),
         pc[r] \in {"UpdateProcessing", "UpdateClosed", "UpdateSuccess"}
  PROVE  LET t == ent[r].tradeNo
             to == ent[r].status
         IN  /\ t \in TradeNos
             /\ to \in PaymentStatus \ {StatusFailed}
             /\ \A u \in TradeNos :
                  StatusOf(u)' = IF u = t THEN to ELSE StatusOf(u)
             /\ StatusOf(t) \in {to, StatusInit, StatusProcessing}
             /\ StatusOf(t) = to \/ CanChangeTo(StatusOf(t), to)
             /\ pc[r] = "UpdateProcessing" =>
                  StatusOf(t) = StatusInit /\ to = StatusProcessing
             /\ pc[r] = "UpdateSuccess" =>
                  StatusOf(t) = StatusProcessing /\ to = StatusSuccess
<1> DEFINE t  == ent[r].tradeNo
           to == ent[r].status
<1>1. /\ ent[r] \in Order /\ t \in Rows /\ t \in TradeNos
      /\ orders[t] \in Order
  BY DEF IInv, Base, TypeOK, InHand, WithOrder, Creating, Rows
<1>2. /\ Rows' = Rows
      /\ \A u \in TradeNos : u # t => orders'[u] = orders[u]
      /\ orders'[t].status = to
  BY <1>1, UpdateRowEffect DEF IInv, Base
<1>3. \A u \in TradeNos : StatusOf(u)' = IF u = t THEN to ELSE StatusOf(u)
  BY <1>1, <1>2 DEF StatusOf, Rows
<1>4. StatusOf(t) = orders[t].status /\ orders[t].status \in PaymentStatus
  BY <1>1 DEF StatusOf, Rows, Order
<1>5. CreatorAlone(r) /\ HandlerReadsBack(r) /\ HandlerIsCurrent(r)
  BY DEF IInv, Creation, Confirmation
<1>6. StatusOf(t) # StatusFailed
  BY <1>1 DEF IInv, Confirmation
<1>7. \/ /\ pc[r] = "UpdateProcessing"
         /\ StatusOf(t) = StatusInit /\ to = StatusProcessing
      \/ /\ pc[r] = "UpdateClosed"
         /\ StatusOf(t) # StatusSuccess /\ to = StatusClosed
      \/ /\ pc[r] = "UpdateSuccess"
         /\ StatusOf(t) = StatusProcessing /\ to = StatusSuccess
  BY <1>1, <1>4, <1>5
     DEF CreatorAlone, HandlerReadsBack, HandlerIsCurrent, Creating, Handling
<1>8. QED
  BY <1>1, <1>3, <1>4, <1>6, <1>7
     DEF CanChangeTo, PaymentStatus, StatusInit, StatusProcessing,
         StatusSuccess, StatusFailed, StatusClosed

\* The update of a row keeps the confirmation layer.
LEMMA ConfirmationUpdate ==
  ASSUME IInv, UNCHANGED notified,
         NEW r \in Requests, NEW label, NEW c, NEW e, UpdateRow(ent[r]),
         pc[r] \in {"UpdateProcessing", "UpdateClosed", "UpdateSuccess"},
         pc'   = [pc EXCEPT ![r] = label],
         call' = [call EXCEPT ![r] = c],
         ent'  = [ent EXCEPT ![r] = e],
         label \in Handling =>
           /\ pc[r] = "UpdateSuccess" /\ label = "PublishNotify"
           /\ c = call[r] /\ e = ent[r]
  PROVE  Confirmation'
<1>1. PICK t0 \in TradeNos, to \in PaymentStatus \ {StatusFailed} :
        /\ ent[r].tradeNo = t0
        /\ \A u \in TradeNos : StatusOf(u)' = IF u = t0 THEN to ELSE StatusOf(u)
        /\ StatusOf(t0) \in {to, StatusInit, StatusProcessing}
        /\ pc[r] = "UpdateProcessing" =>
             StatusOf(t0) = StatusInit /\ to = StatusProcessing
        /\ pc[r] = "UpdateSuccess" =>
             StatusOf(t0) = StatusProcessing /\ to = StatusSuccess
  BY UpdateIsForward
<1>2. /\ pc'[r] = label /\ call'[r] = c /\ ent'[r] = e
      /\ \A q \in Requests : q # r =>
           pc'[q] = pc[q] /\ call'[q] = call[q] /\ ent'[q] = ent[q]
  BY DEF IInv, Base, TypeOK
<1>3. /\ \A q \in Requests : HandlerIsCurrent(q)
      /\ notified \in [TradeNos -> Nat]
  BY DEF IInv, Base, TypeOK, Confirmation
<1>4. NotifiedOnceIfPaid'
  <2> SUFFICES ASSUME NEW t \in TradeNos, notified[t] > 0
               PROVE  notified[t] <= MaxSends /\ StatusOf(t)' = StatusSuccess
    BY DEF NotifiedOnceIfPaid
  <2>1. notified[t] <= MaxSends /\ StatusOf(t) = StatusSuccess
    BY DEF IInv, Confirmation, NotifiedOnceIfPaid
  <2>2. StatusOf(t)' = StatusSuccess
    BY <1>1, <2>1 DEF StatusInit, StatusProcessing, StatusSuccess
  <2>3. QED
    BY <2>1, <2>2
<1>5. ASSUME NEW q \in Requests PROVE HandlerIsCurrent(q)'
  <2>1. CASE pc'[q] \notin Handling
    BY <2>1 DEF HandlerIsCurrent, Handling
  <2>2. CASE q = r /\ pc'[q] \in Handling
    <3>1. /\ pc[r] = "UpdateSuccess" /\ pc'[q] = "PublishNotify" /\ ent'[q] = ent[r]
          /\ call'[q] = call[r]
      BY <1>2, <2>2
    <3>2. call[r].kind = "mock" /\ call[r].ref = t0
      BY <1>1, <1>3, <3>1 DEF HandlerIsCurrent, Handling
    <3>3. notified'[t0] = 0
      <4>1. StatusOf(t0) # StatusSuccess
        BY <1>1, <3>1 DEF StatusProcessing, StatusSuccess
      <4>2. ~(notified[t0] > 0)
        BY <1>1, <4>1 DEF IInv, Confirmation, NotifiedOnceIfPaid
      <4>3. QED
        BY <1>1, <1>3, <4>2
    <3>4. StatusOf(t0)' = StatusSuccess
      BY <1>1, <3>1
    <3>5. QED
      BY <1>1, <3>1, <3>2, <3>3, <3>4 DEF HandlerIsCurrent
  <2>3. CASE q # r /\ pc'[q] \in Handling /\ ent[q].tradeNo # t0
    BY <1>1, <1>2, <1>3, <2>3 DEF HandlerIsCurrent
  <2>4. CASE q # r /\ pc'[q] \in Handling /\ ent[q].tradeNo = t0
    <3>1. pc[q] \in Handling /\ pc'[q] = pc[q] /\ call'[q] = call[q] /\ ent'[q] = ent[q]
      BY <1>2, <2>4
    <3>2. pc[r] = "UpdateProcessing"
      BY <1>1, <2>4, <3>1, OneHandler DEF IInv, Handling
    <3>3. pc[q] \in {"CheckOrder", "UpdateClosed"}
      BY <1>1, <1>3, <2>4, <3>1, <3>2
         DEF HandlerIsCurrent, Handling, StatusInit, StatusProcessing, StatusSuccess
    <3>4. StatusOf(t0)' = StatusProcessing
      BY <1>1, <3>2
    <3>5. QED
      BY <1>1, <1>3, <2>4, <3>1, <3>3, <3>4
         DEF HandlerIsCurrent, Handling, StatusProcessing, StatusSuccess
  <2>5. QED
    BY <2>1, <2>2, <2>3, <2>4
<1>6. QED
  BY <1>1, <1>4, <1>5 DEF IInv, Confirmation

\* The insert creates an order that has no status, and nothing else changes.
LEMMA SaveCreates ==
  ASSUME Base, NEW r \in Requests, NEW t \in TradeNos, NEW m \in Merchants,
         NEW o \in OutTradeNos, NEW a \in Amounts, Save(r, t, m, o, a)
  PROVE  /\ StatusOf(t) = "ABSENT" /\ t \notin Rows
         /\ \A u \in TradeNos :
              StatusOf(u)' = IF u = t THEN StatusInit ELSE StatusOf(u)
         /\ UNCHANGED notified
<1> DEFINE new == NewOrder(t, m, o, a)
<1>1. /\ new \in Order /\ new.tradeNo = t /\ new.status = StatusInit
      /\ t \notin Rows /\ orders[t] = None
  <2>1. Rows \subseteq TradeNos
    BY DEF Rows
  <2>2. QED
    BY <2>1, NewOrderTypes DEF Save, Rows
<1>2. SaveRow(new) /\ UNCHANGED notified
  BY DEF Save, redis
<1> HIDE DEF new
<1>3. /\ \A u \in TradeNos : u # t => orders'[u] = orders[u]
      /\ orders'[t] = new
  BY <1>1, <1>2, SaveRowEffect DEF Base
<1>4. QED
  BY <1>1, <1>2, <1>3 DEF StatusOf

\* The confirmation layer is inductive while locks outlive their holders,
\* orders outlive their creation, and only the mock route finds orders.
LEMMA ConfirmationNext ==
  ASSUME Blank = {}, IInv, [Next]_vars
  PROVE  Confirmation'
<1> USE DEF db, redis, request
<1>1. /\ Base /\ Confirmation
      /\ \A r \in Requests : HandlerIsCurrent(r)
      /\ \A r \in Requests : call = [call EXCEPT ![r] = call[r]]
      /\ \A r \in Requests : pc[r] \in Handling =>
           /\ ent[r] \in Order
           /\ ent[r].tradeNo \in Rows
           /\ ent[r].tradeNo \in TradeNos
           /\ call[r] \in Call
  BY DEF IInv, Base, TypeOK, InHand, Confirmation, Handling, Holding, WithOrder,
         Rows
<1>2. \A label \in {"idle", "Release", "Find", "CreatePay", "UpdateProcessing"} :
        label \notin Handling /\ label # "PublishNotify"
  BY DEF Handling
<1>3. ASSUME NEW r \in Requests, UNCHANGED <<orders, notified>>, Finish(r)
      PROVE  Confirmation'
  BY <1>1, <1>2, <1>3, ConfirmationRequest DEF Finish, Goto
<1>4. ASSUME NEW r \in Requests, UNCHANGED <<orders, notified, call>>, Return(r)
      PROVE  Confirmation'
  BY <1>1, <1>2, <1>4, ConfirmationRequest DEF Return, Goto
<1>5. ASSUME UNCHANGED <<orders, notified, pc, call, ent>> PROVE Confirmation'
  BY <1>1, <1>5 DEF Confirmation, HandlerIsCurrent, NotifiedOnceIfPaid, StatusOf
<1>6. ASSUME NEW r \in Requests, NEW t \in TradeNos, NEW m \in Merchants,
             NEW o \in OutTradeNos, NEW a \in Amounts, Save(r, t, m, o, a)
      PROVE  Confirmation'
  <2>1. /\ StatusOf(t) = "ABSENT" /\ t \notin Rows
        /\ \A u \in TradeNos :
             StatusOf(u)' = IF u = t THEN StatusInit ELSE StatusOf(u)
        /\ UNCHANGED <<notified, call>>
    BY <1>1, <1>6, SaveCreates DEF Save
  <2>2. \A q \in Requests : pc'[q] \in Handling =>
          pc'[q] = pc[q] /\ ent'[q] = ent[q]
    <3>1. \/ UNCHANGED <<pc, ent>>
          \/ pc' = [pc EXCEPT ![r] = "CreatePay"] /\ \A q \in Requests \ {r} :
                                                        ent'[q] = ent[q]
      BY <1>1, <1>6 DEF Save, Goto, Base, TypeOK
    <3>2. QED
      BY <1>1, <1>2, <3>1 DEF Base, TypeOK
  <2>3. ASSUME NEW q \in Requests PROVE HandlerIsCurrent(q)'
    BY <1>1, <2>1, <2>2 DEF HandlerIsCurrent
  <2>4. NotifiedOnceIfPaid'
    <3> SUFFICES ASSUME NEW u \in TradeNos, notified[u] > 0
                 PROVE  notified[u] <= MaxSends /\ StatusOf(u)' = StatusSuccess
      BY <2>1 DEF NotifiedOnceIfPaid
    <3>1. notified[u] <= MaxSends /\ StatusOf(u) = StatusSuccess
      BY <1>1 DEF Confirmation, NotifiedOnceIfPaid
    <3>2. QED
      BY <2>1, <3>1 DEF StatusSuccess
  <2>5. \A u \in TradeNos : StatusOf(u)' # StatusFailed
    BY <1>1, <2>1 DEF Confirmation, StatusInit, StatusFailed
  <2>6. QED
    BY <2>3, <2>4, <2>5 DEF Confirmation
<1>7. ASSUME NEW r \in Requests, CreatePay(r) PROVE Confirmation'
  <2>1. CASE Finish(r)
    BY <1>3, <1>7, <2>1 DEF CreatePay
  <2>2. CASE /\ ent' = [ent EXCEPT ![r] = ToProcessing(ent[r])]
             /\ Goto(r, "UpdateProcessing") /\ UNCHANGED call
    BY <1>1, <1>2, <1>7, <2>2, ConfirmationRequest DEF CreatePay, Goto
  <2>3. QED
    BY <1>7, <2>1, <2>2 DEF CreatePay
<1>8. ASSUME NEW r \in Requests, UpdateProcessing(r) PROVE Confirmation'
  <2>1. pc[r] = "UpdateProcessing" /\ UNCHANGED notified /\ Finish(r)
    BY <1>8 DEF UpdateProcessing
  <2>2. CASE UNCHANGED orders
    BY <1>3, <2>1, <2>2
  <2>3. CASE UpdateRow(ent[r])
    BY <1>2, <2>1, <2>3, ConfirmationUpdate DEF Finish, Goto
  <2>4. QED
    BY <1>8, <2>2, <2>3 DEF UpdateProcessing
<1>9. ASSUME NEW r \in Requests, NEW c \in Calls, Acquire(r, c)
      PROVE  Confirmation'
  <2>1. UNCHANGED <<orders, notified, ent>>
    BY <1>9 DEF Acquire
  <2>2. CASE UNCHANGED <<pc, call>>
    BY <1>5, <2>1, <2>2
  <2>3. CASE Goto(r, "Find") /\ call' = [call EXCEPT ![r] = c]
    <3>1. ent' = [ent EXCEPT ![r] = ent[r]]
      BY <1>1, <2>1 DEF Base, TypeOK
    <3>2. QED
      BY <1>1, <1>2, <2>1, <2>3, <3>1, ConfirmationRequest DEF Goto
  <2>4. QED
    BY <1>9, <2>2, <2>3 DEF Acquire
<1>10. ASSUME NEW r \in Requests, Find(r) PROVE Confirmation'
  <2>1. UNCHANGED <<orders, notified, call>> /\ pc[r] = "Find"
    BY <1>10 DEF Find
  <2>2. CASE Return(r)
    BY <1>4, <2>1, <2>2
  <2>3. CASE /\ FindOrder(call[r]) # None
             /\ FindOrder(call[r]).status # StatusSuccess
             /\ ent' = [ent EXCEPT ![r] = FindOrder(call[r])]
             /\ Goto(r, "CheckOrder")
    <3> DEFINE order == FindOrder(call[r])
    <3>1. call[r] \in Call
      BY <1>1, <2>1 DEF Base, InHand, Holding
    <3>2. /\ call[r].kind = "mock" /\ order = orders[call[r].ref]
          /\ order \in Order /\ order.tradeNo \in Rows
          /\ order = orders[order.tradeNo]
      BY <1>1, <2>3, <3>1, MockFinds, FindOrderIsRow DEF Base
    <3>3. call[r].ref \in TradeNos
      BY <3>1, <3>2 DEF Call
    <3>4. order.tradeNo = call[r].ref
      BY <1>1, <2>3, <3>2, <3>3 DEF Base, TypeOK, Rows
    <3>5. StatusOf(order.tradeNo) = order.status
      BY <2>3, <3>2 DEF StatusOf
    <3> HIDE DEF order
    <3>6. /\ pc'   = [pc EXCEPT ![r] = "CheckOrder"]
          /\ call' = [call EXCEPT ![r] = call[r]]
          /\ ent'  = [ent EXCEPT ![r] = order]
          /\ order.status # StatusSuccess
      BY <1>1, <2>1, <2>3 DEF order, Goto
    <3>7. /\ StatusOf(order.tradeNo) # StatusSuccess
          /\ order.status = StatusProcessing => StatusOf(order.tradeNo) = StatusProcessing
          /\ call[r].kind = "mock" /\ order.tradeNo = call[r].ref
      BY <3>2, <3>4, <3>5, <3>6
    <3>8. QED
      BY <1>1, <2>1, <3>6, <3>7, ConfirmationRequest
  <2>4. QED
    BY <1>10, <2>2, <2>3 DEF Find
<1>11. ASSUME NEW r \in Requests, CheckOrder(r) PROVE Confirmation'
  <2>1. /\ UNCHANGED <<orders, notified, call>> /\ pc[r] = "CheckOrder"
        /\ pc[r] \in Handling
    BY <1>11 DEF CheckOrder, Handling
  <2>2. /\ ent[r] \in Order /\ HandlerIsCurrent(r) /\ ent[r].tradeNo \in TradeNos
    BY <1>1, <2>1
  <2>3. /\ call[r].kind = "mock" /\ call[r].ref = ent[r].tradeNo
        /\ StatusOf(ent[r].tradeNo) # StatusSuccess
        /\ ent[r].status = StatusProcessing => StatusOf(ent[r].tradeNo) = StatusProcessing
    BY <2>1, <2>2 DEF HandlerIsCurrent
  <2>4. CASE Return(r)
    BY <1>4, <2>1, <2>4
  <2>5. CASE ent' = [ent EXCEPT ![r] = Close(ent[r])] /\ Goto(r, "UpdateClosed")
    <3> DEFINE closed == Close(ent[r])
    <3>1. closed.tradeNo = ent[r].tradeNo
      BY <2>2, EntityTypes
    <3>2. /\ pc'   = [pc EXCEPT ![r] = "UpdateClosed"]
          /\ call' = [call EXCEPT ![r] = call[r]]
          /\ ent'  = [ent EXCEPT ![r] = closed]
      BY <1>1, <2>1, <2>5 DEF Goto
    <3> HIDE DEF closed
    <3>3. /\ StatusOf(closed.tradeNo) # StatusSuccess
          /\ call[r].kind = "mock" /\ closed.tradeNo = call[r].ref
      BY <2>3, <3>1
    <3>4. QED
      BY <1>1, <2>1, <3>2, <3>3, ConfirmationRequest
  <2>6. CASE /\ CanSucceed(ent[r])
             /\ ent' = [ent EXCEPT ![r] = Success(ent[r])]
             /\ Goto(r, "UpdateSuccess")
    <3> DEFINE paid == Success(ent[r])
    <3>1. ent[r].status = StatusProcessing /\ paid.tradeNo = ent[r].tradeNo
      BY <2>2, <2>6, EntityTypes DEF CanSucceed
    <3>2. /\ pc'   = [pc EXCEPT ![r] = "UpdateSuccess"]
          /\ call' = [call EXCEPT ![r] = call[r]]
          /\ ent'  = [ent EXCEPT ![r] = paid]
      BY <1>1, <2>1, <2>6 DEF Goto
    <3> HIDE DEF paid
    <3>3. /\ StatusOf(paid.tradeNo) = StatusProcessing
          /\ call[r].kind = "mock" /\ paid.tradeNo = call[r].ref
      BY <2>3, <3>1
    <3>4. QED
      BY <1>1, <2>1, <3>2, <3>3, ConfirmationRequest
  <2>7. QED
    BY <1>11, <2>4, <2>5, <2>6 DEF CheckOrder
<1>12. ASSUME NEW r \in Requests, UpdateClosed(r) PROVE Confirmation'
  <2>1. /\ pc[r] = "UpdateClosed" /\ UNCHANGED <<notified, call>> /\ Return(r)
    BY <1>12 DEF UpdateClosed
  <2>2. CASE UNCHANGED orders
    BY <1>4, <2>1, <2>2
  <2>3. CASE UpdateRow(ent[r])
    BY <1>1, <1>2, <2>1, <2>3, ConfirmationUpdate DEF Return, Goto
  <2>4. QED
    BY <1>12, <2>2, <2>3 DEF UpdateClosed
<1>13. ASSUME NEW r \in Requests, UpdateSuccess(r) PROVE Confirmation'
  <2>1. pc[r] = "UpdateSuccess" /\ UNCHANGED <<notified, call>>
    BY <1>13 DEF UpdateSuccess
  <2>2. CASE UNCHANGED orders /\ Return(r)
    BY <1>4, <2>1, <2>2
  <2>3. CASE UpdateRow(ent[r]) /\ Return(r)
    BY <1>1, <1>2, <2>1, <2>3, ConfirmationUpdate DEF Return, Goto
  <2>4. CASE UpdateRow(ent[r]) /\ Goto(r, "PublishNotify") /\ UNCHANGED ent
    <3>1. ent' = [ent EXCEPT ![r] = ent[r]]
      BY <1>1, <2>4 DEF Base, TypeOK
    <3>2. QED
      BY <1>1, <2>1, <2>4, <3>1, ConfirmationUpdate DEF Goto
  <2>5. QED
    BY <1>13, <2>2, <2>3, <2>4 DEF UpdateSuccess
<1>14. ASSUME NEW r \in Requests, PublishNotify(r) PROVE Confirmation'
  <2>1. /\ pc[r] = "PublishNotify" /\ pc[r] \in Handling
        /\ UNCHANGED <<orders, call>> /\ Return(r)
    BY <1>14 DEF PublishNotify, Handling
  <2>2. PICK t0 \in TradeNos : t0 = ent[r].tradeNo
    BY <1>1, <2>1
  <2>3. PICK n \in 0 .. MaxSends : notified' = [notified EXCEPT ![t0] = @ + n]
    BY <1>14, <2>2 DEF PublishNotify
  <2>4. /\ StatusOf(t0) = StatusSuccess /\ notified[t0] = 0
        /\ notified \in [TradeNos -> Nat]
    BY <1>1, <2>1, <2>2 DEF HandlerIsCurrent, Base, TypeOK
  <2>5. /\ notified'[t0] = n /\ n <= MaxSends
        /\ \A u \in TradeNos : u # t0 => notified'[u] = notified[u]
        /\ \A u : StatusOf(u)' = StatusOf(u)
    BY <2>1, <2>3, <2>4 DEF StatusOf
  <2>6. /\ pc'[r] = "Release"
        /\ \A q \in Requests : q # r => pc'[q] = pc[q] /\ ent'[q] = ent[q]
    BY <1>1, <2>1 DEF Return, Goto, Base, TypeOK
  <2>7. ASSUME NEW q \in Requests PROVE HandlerIsCurrent(q)'
    <3>1. CASE q = r
      BY <1>2, <2>6, <3>1 DEF HandlerIsCurrent
    <3>2. CASE q # r /\ pc[q] \in Handling
      <4>1. ent[q].tradeNo # t0
        BY <1>1, <2>1, <2>2, <3>2, OneHandler DEF IInv
      <4>2. QED
        BY <1>1, <2>1, <2>5, <2>6, <3>2, <4>1 DEF HandlerIsCurrent
    <3>3. CASE q # r /\ pc[q] \notin Handling
      BY <2>6, <3>3 DEF HandlerIsCurrent
    <3>4. QED
      BY <3>1, <3>2, <3>3
  <2>8. NotifiedOnceIfPaid'
    BY <1>1, <2>4, <2>5 DEF Confirmation, NotifiedOnceIfPaid
  <2>9. QED
    BY <1>1, <2>5, <2>7, <2>8 DEF Confirmation
<1>15. ASSUME NEW r \in Requests, Release(r) PROVE Confirmation'
  BY <1>3, <1>15 DEF Release
<1>16. ASSUME NEW r \in Requests, Crash(r) PROVE Confirmation'
  BY <1>3, <1>16 DEF Crash
<1>17. ASSUME NEW k \in Keys, LockExpires(k) PROVE Confirmation'
  BY <1>5, <1>17 DEF LockExpires
<1>18. ASSUME NEW t \in TradeNos, OrderExpires(t) PROVE Confirmation'
  BY <1>5, <1>18 DEF OrderExpires
<1>19. ASSUME UNCHANGED vars PROVE Confirmation'
  BY <1>5, <1>19 DEF vars
<1>20. QED
  BY <1>6, <1>7, <1>8, <1>9, <1>10, <1>11, <1>12, <1>13, <1>14, <1>15, <1>16,
     <1>17, <1>18, <1>19 DEF Next, Create, Confirm

\* The inductive invariant.
LEMMA FullInvariant ==
  ASSUME ~LockMayLapse, ~EarlyExpiry, Blank = {}
  PROVE  Spec => []IInv
<1>1. Init => IInv
  <2> SUFFICES ASSUME Init PROVE IInv
    OBVIOUS
  <2>1. Base
    BY BaseInit
  <2>2. Exclusion /\ Creation
    BY DEF Init, Exclusion, Creation, CreatorAlone, HandlerReadsBack, Creating, Holding
  <2>3. Confirmation
    BY DEF Init, Confirmation, NotifiedOnceIfPaid, HandlerIsCurrent, Handling,
           StatusOf, StatusFailed
  <2>4. QED
    BY <2>1, <2>2, <2>3 DEF IInv
<1>2. IInv /\ [Next]_vars => IInv'
  <2> SUFFICES ASSUME IInv, [Next]_vars PROVE IInv'
    OBVIOUS
  <2>1. Base' /\ Exclusion' /\ Creation' /\ Confirmation'
    BY BaseNext, ExclusionNext, CreationNext, ConfirmationNext DEF IInv
  <2>2. QED
    BY <2>1 DEF IInv
<1>3. QED
  BY <1>1, <1>2, PTL DEF Spec

\* A confirmation that arrives any number of times puts the order on the
\* notification queue once, and only an order that is, and stays, paid.
THEOREM NotifiedOnce ==
  ASSUME ~LockMayLapse, ~EarlyExpiry, Blank = {}
  PROVE  Spec => []NotifiedOnceIfPaid
<1>1. IInv => NotifiedOnceIfPaid
  BY DEF IInv, Confirmation
<1>2. QED
  BY <1>1, FullInvariant, PTL

\* Every step of requests, rows and locks is a step of the abstract lifecycle
\* or leaves it alone.
LEMMA StepKeepsLifecycle ==
  ASSUME IInv, [Next]_vars
  PROVE  [Lifecycle!Next]_(Lifecycle!vars)
<1> USE DEF db, redis, request
<1>1. ASSUME UNCHANGED <<orders, notified>> PROVE UNCHANGED Lifecycle!vars
  BY <1>1 DEF Lifecycle!vars, StatusOf
<1>2. ASSUME NEW r \in Requests, NEW t \in TradeNos, NEW m \in Merchants,
             NEW o \in OutTradeNos, NEW a \in Amounts, Save(r, t, m, o, a)
      PROVE  Lifecycle!Create(t)
  <2>1. /\ StatusOf(t) = "ABSENT"
        /\ \A u \in TradeNos :
             StatusOf(u)' = IF u = t THEN StatusInit ELSE StatusOf(u)
        /\ UNCHANGED notified
    BY <1>2, SaveCreates DEF IInv
  <2>2. QED
    BY <2>1 DEF Lifecycle!Create, Lifecycle!Absent, Lifecycle!StatusInit, StatusInit
<1>3. ASSUME NEW r \in Requests, UpdateRow(ent[r]), UNCHANGED notified,
             pc[r] \in {"UpdateProcessing", "UpdateClosed", "UpdateSuccess"}
      PROVE  [Lifecycle!Next]_(Lifecycle!vars)
  <2>1. PICK t \in TradeNos, to \in PaymentStatus :
          /\ \A u \in TradeNos : StatusOf(u)' = IF u = t THEN to ELSE StatusOf(u)
          /\ StatusOf(t) = to \/ CanChangeTo(StatusOf(t), to)
    BY <1>3, UpdateIsForward
  <2>2. CASE StatusOf(t) = to
    BY <1>3, <2>1, <2>2 DEF Lifecycle!vars
  <2>3. CASE CanChangeTo(StatusOf(t), to)
    <3>1. Lifecycle!Change(t, to)
      BY <1>3, <2>1, <2>3
         DEF Lifecycle!Change, Lifecycle!CanChangeTo, CanChangeTo,
             Lifecycle!StatusInit, Lifecycle!StatusProcessing,
             Lifecycle!StatusSuccess, Lifecycle!StatusFailed,
             Lifecycle!StatusClosed, StatusInit, StatusProcessing,
             StatusSuccess, StatusFailed, StatusClosed
    <3>2. to \in Lifecycle!PaymentStatus
      BY DEF PaymentStatus, Lifecycle!PaymentStatus,
             Lifecycle!StatusInit, Lifecycle!StatusProcessing,
             Lifecycle!StatusSuccess, Lifecycle!StatusFailed,
             Lifecycle!StatusClosed, StatusInit, StatusProcessing,
             StatusSuccess, StatusFailed, StatusClosed
    <3>3. QED
      BY <3>1, <3>2 DEF Lifecycle!Next
  <2>4. QED
    BY <2>1, <2>2, <2>3
<1>4. ASSUME NEW r \in Requests, PublishNotify(r)
      PROVE  [Lifecycle!Next]_(Lifecycle!vars)
  <2>1. UNCHANGED orders /\ pc[r] = "PublishNotify" /\ pc[r] \in Handling
    BY <1>4 DEF PublishNotify, Handling
  <2>2. PICK t \in TradeNos : t = ent[r].tradeNo
    BY <2>1 DEF IInv, Base, InHand, Handling, WithOrder, Rows
  <2>3. PICK n \in 0 .. MaxSends : notified' = [notified EXCEPT ![t] = @ + n]
    BY <1>4, <2>2 DEF PublishNotify
  <2>4. /\ StatusOf(t) = StatusSuccess /\ notified[t] = 0
        /\ notified \in [TradeNos -> Nat]
    BY <2>1, <2>2 DEF IInv, Base, TypeOK, Confirmation, HandlerIsCurrent
  <2>5. CASE n = 0
    <3>1. notified' = notified
      BY <2>3, <2>4, <2>5
    <3>2. QED
      BY <1>1, <2>1, <3>1
  <2>6. CASE n # 0
    <3>1. n \in 1 .. MaxSends /\ notified' = [notified EXCEPT ![t] = n]
      BY <2>3, <2>4, <2>6
    <3>2. Lifecycle!Notify(t)
      BY <2>1, <2>4, <3>1
         DEF Lifecycle!Notify, Lifecycle!StatusSuccess, StatusSuccess, StatusOf
    <3>3. QED
      BY <3>2 DEF Lifecycle!Next
  <2>7. QED
    BY <2>5, <2>6
<1>5. CASE \E r \in Requests : Create(r)
  <2>1. PICK r \in Requests : Create(r)
    BY <1>5
  <2>2. CASE \E t \in TradeNos, m \in Merchants, o \in OutTradeNos, a \in Amounts :
               Save(r, t, m, o, a)
    BY <1>2, <2>2 DEF Lifecycle!Next
  <2>3. CASE CreatePay(r)
    BY <1>1, <2>3 DEF CreatePay
  <2>4. CASE UpdateProcessing(r)
    BY <1>1, <1>3, <2>4 DEF UpdateProcessing
  <2>5. QED
    BY <2>1, <2>2, <2>3, <2>4 DEF Create
<1>6. CASE \E r \in Requests : Confirm(r)
  <2>1. PICK r \in Requests : Confirm(r)
    BY <1>6
  <2>2. CASE Find(r) \/ CheckOrder(r) \/ Release(r)
    BY <1>1, <2>2 DEF Find, CheckOrder, Release
  <2>3. CASE UpdateClosed(r)
    BY <1>1, <1>3, <2>3 DEF UpdateClosed
  <2>4. CASE UpdateSuccess(r)
    BY <1>1, <1>3, <2>4 DEF UpdateSuccess
  <2>5. CASE PublishNotify(r)
    BY <1>4, <2>5
  <2>6. QED
    BY <2>1, <2>2, <2>3, <2>4, <2>5 DEF Confirm
<1>7. CASE \E r \in Requests : Crash(r) \/ \E c \in Calls : Acquire(r, c)
  BY <1>1, <1>7 DEF Crash, Acquire
<1>8. CASE \E k \in Keys : LockExpires(k)
  BY <1>1, <1>8 DEF LockExpires
<1>9. CASE \E t \in TradeNos : OrderExpires(t)
  BY <1>1, <1>9 DEF OrderExpires
<1>10. CASE UNCHANGED vars
  BY <1>1, <1>10 DEF vars
<1>11. QED
  BY <1>5, <1>6, <1>7, <1>8, <1>9, <1>10 DEF Next

\* Requests, rows and locks implement the abstract lifecycle of an order,
\* while locks outlive their holders, orders outlive their creation, and only
\* the mock route finds orders.
THEOREM ImplementsLifecycle ==
  ASSUME ~LockMayLapse, ~EarlyExpiry, Blank = {}
  PROVE  Spec => KeepsLifecycle
<1>1. Init => Lifecycle!Init
  BY DEF Init, Lifecycle!Init, Lifecycle!Absent, StatusOf
<1>2. IInv /\ [Next]_vars => [Lifecycle!Next]_(Lifecycle!vars)
  BY StepKeepsLifecycle
<1>3. QED
  BY <1>1, <1>2, FullInvariant, PTL DEF Spec, KeepsLifecycle, Lifecycle!Spec

\* Along the abstract lifecycle a row's status follows the transition table.
LEMMA StepIsForward ==
  ASSUME IInv, [Next]_vars, NEW t \in Rows, StatusOf(t)' # StatusOf(t)
  PROVE  CanChangeTo(StatusOf(t), StatusOf(t)')
<1> DEFINE status == [u \in TradeNos |-> StatusOf(u)]
<1>1. [Lifecycle!Next]_(Lifecycle!vars)
  BY StepKeepsLifecycle
<1>2. t \in TradeNos /\ orders[t] # None /\ orders[t] \in Order
  BY DEF Rows, IInv, Base, TypeOK
<1>3. StatusOf(t) = orders[t].status /\ StatusOf(t) # "ABSENT"
  BY <1>2 DEF StatusOf, Order, PaymentStatus, StatusInit, StatusProcessing,
              StatusSuccess, StatusFailed, StatusClosed
<1>4. status[t] = StatusOf(t) /\ status'[t] = StatusOf(t)'
  BY <1>2
<1>5. ASSUME NEW u \in TradeNos, Lifecycle!Create(u)
      PROVE  FALSE
  <2>1. StatusOf(u) = "ABSENT"
    BY <1>5 DEF Lifecycle!Create, Lifecycle!Absent
  <2>2. u # t
    BY <1>3, <2>1
  <2>3. status'[t] = status[t]
    BY <1>2, <1>5, <2>2 DEF Lifecycle!Create
  <2>4. QED
    BY <1>4, <2>3
<1>6. ASSUME NEW u \in TradeNos, NEW to \in Lifecycle!PaymentStatus,
             Lifecycle!Change(u, to)
      PROVE  CanChangeTo(StatusOf(t), StatusOf(t)')
  <2>1. status' = [status EXCEPT ![u] = to] /\ Lifecycle!CanChangeTo(status[u], to)
    BY <1>6 DEF Lifecycle!Change
  <2>2. u = t /\ StatusOf(t)' = to
    BY <1>2, <1>4, <2>1
  <2>3. QED
    BY <1>4, <2>1, <2>2
       DEF Lifecycle!CanChangeTo, CanChangeTo,
           Lifecycle!StatusInit, Lifecycle!StatusProcessing,
           Lifecycle!StatusSuccess, Lifecycle!StatusFailed,
           Lifecycle!StatusClosed, StatusInit, StatusProcessing,
           StatusSuccess, StatusFailed, StatusClosed
<1>7. ASSUME NEW u \in TradeNos, Lifecycle!Notify(u)
      PROVE  FALSE
  BY <1>4, <1>7 DEF Lifecycle!Notify
<1>8. ASSUME UNCHANGED Lifecycle!vars
      PROVE  FALSE
  BY <1>4, <1>8 DEF Lifecycle!vars
<1>9. QED
  BY <1>1, <1>5, <1>6, <1>7, <1>8 DEF Lifecycle!Next

\* The status of a row moves only along the transition table of the entity,
\* whatever the requests read and wrote in between.  The code promises it of
\* every order; it keeps it as long as the three assumptions hold.
THEOREM StatusMovesForward ==
  ASSUME ~LockMayLapse, ~EarlyExpiry, Blank = {}
  PROVE  Spec => ForwardOnly
<1>1. IInv /\ [Next]_vars
        => [\A t \in Rows : StatusOf(t)' # StatusOf(t) =>
              CanChangeTo(StatusOf(t), StatusOf(t)')]_vars
  BY StepIsForward
<1>2. QED
  BY <1>1, FullInvariant, PTL DEF Spec, ForwardOnly

\* A successful order stays successful.
LEMMA SuccessIsFinal ==
  ASSUME IInv, [Next]_vars, NEW t \in TradeNos, StatusOf(t) = StatusSuccess
  PROVE  StatusOf(t)' = StatusSuccess
<1>1. t \in Rows
  BY DEF StatusOf, StatusSuccess, Rows
<1>2. \A to : ~ CanChangeTo(StatusSuccess, to)
  BY DEF CanChangeTo, StatusSuccess, StatusInit, StatusProcessing
<1>3. QED
  BY <1>1, <1>2, StepIsForward
=============================================================================
