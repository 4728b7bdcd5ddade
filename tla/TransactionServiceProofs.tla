---------------------- MODULE TransactionServiceProofs ----------------------
(***************************************************************************)
(* Theorems about TransactionService, for any numbers of callers, orders   *)
(* and connections and any moves of statuses that callers ask for.  The    *)
(* requests use the pool as ConnPool says, and what the tables keep in     *)
(* spite of stale writes follows from what an entity in a request's hand   *)
(* says whenever it may be written.                                        *)
(***************************************************************************)
EXTENDS TransactionService, ConnPoolProofs

\* An entity is as its aggregate's methods leave it, except for the payment
\* time that an order keeps when UpdateStatus moves it out of SUCCESS.
ConsistentIn(e, moved) ==
  /\ e \in Entity
  /\ e.key \in TradeNos /\ e.paid => e.status = StatusSuccess \/ e.key \in moved
  /\ e.key \in RefundNos => (e.paid <=> e.status = StatusSuccess)

Consistent(e) == ConsistentIn(e, forced)

\* Nobody can be told more often than there is something to be told of; the
\* status that an order is in was not claimed yet.
Claims ==
  \A t \in TradeNos : \A s \in PaymentStatus :
    /\ unclaimed[t][s] >= 0
    /\ rows[t] # None /\ rows[t].status = s => unclaimed[t][s] >= 1

TablesInv ==
  /\ rows \in [Keys -> Entity \cup {None}]
  /\ unclaimed \in [TradeNos -> [PaymentStatus -> Int]]
  /\ forced \subseteq TradeNos
  /\ \A k \in Keys : rows[k] # None => rows[k].key = k /\ Consistent(rows[k])
  /\ Claims

RequestsInv ==
  /\ ent \in [Requests -> Entity \cup {None}]
  /\ stmt \in [Requests -> Statement \cup {None}]
  /\ \A r \in Requests :
       /\ ent[r] # None => Consistent(ent[r])
       /\ stmt[r] # None <=> step[r] \in {"wait", "use"}
       /\ stmt[r] # None /\ stmt[r].do = "update" => ent[r] # None
       /\ step[r] = "pay" => ent[r] # None

ServiceInv == TablesInv /\ RequestsInv

-----------------------------------------------------------------------------
(* The aggregates' methods                                                 *)

\* The two kinds of entities.
LEMMA EntityKinds ==
  ASSUME NEW e \in Entity
  PROVE  /\ e.key \in TradeNos =>
              e \in [key : TradeNos, status : PaymentStatus, paid : BOOLEAN]
         /\ e.key \in RefundNos =>
              e \in [key : RefundNos, status : RefundStatus, paid : BOOLEAN]
         /\ e.key \in Keys
BY KeysAssumption DEF Entity, Keys

LEMMA FreshConsistent ==
  ASSUME NEW k \in Keys
  PROVE  Fresh(k) \in Entity /\ Fresh(k).key = k /\ Consistent(Fresh(k))
         /\ Fresh(k) # None
<1>1. Fresh(k) \in Entity
  BY DEF Fresh, Entity, Keys, PaymentStatus, RefundStatus
<1>2. Fresh(k) # None
  BY <1>1, NoneAssumption
<1>3. QED
  BY <1>1, <1>2 DEF Fresh, Consistent, ConsistentIn, StatusInit, StatusSuccess

\* The methods of an order leave it consistent: only Success leaves SUCCESS.
LEMMA OrderMarks ==
  ASSUME NEW e, Consistent(e), e.key \in TradeNos, NEW changed,
         \/ CanSucceed(e) /\ changed = Success(e)
         \/ CanFail(e) /\ changed = Fail(e)
         \/ CanClose(e) /\ changed = Close(e)
         \/ changed = Sent(e)
  PROVE  changed.key = e.key /\ Consistent(changed)
<1>1. e \in [key : TradeNos, status : PaymentStatus, paid : BOOLEAN]
  BY EntityKinds DEF Consistent, ConsistentIn
<1>2. \/ changed = e
      \/ /\ e.status # StatusSuccess
         /\ \/ changed = [e EXCEPT !.status = StatusSuccess, !.paid = TRUE]
            \/ changed = [e EXCEPT !.status = StatusFailed]
            \/ changed = [e EXCEPT !.status = StatusClosed]
            \/ changed = [e EXCEPT !.status = StatusProcessing]
  BY DEF CanSucceed, Success, CanFail, Fail, CanClose, Close, Sent, StatusInit,
         StatusProcessing, StatusSuccess
<1>3. {StatusSuccess, StatusFailed, StatusClosed, StatusProcessing} \subseteq PaymentStatus
  BY DEF PaymentStatus
<1>4. e.status # StatusSuccess /\ e.paid => e.key \in forced
  BY DEF Consistent, ConsistentIn
<1>5. /\ changed \in [key : TradeNos, status : PaymentStatus, paid : BOOLEAN]
      /\ changed.key = e.key
      /\ changed.paid => changed.status = StatusSuccess \/ e.key \in forced
  BY <1>1, <1>2, <1>3, <1>4 DEF Consistent, ConsistentIn
<1>6. QED
  BY <1>5, KeysAssumption DEF Consistent, ConsistentIn, Entity

\* A refund's methods stamp it exactly when it succeeds.
LEMMA RefundMarks ==
  ASSUME NEW e, Consistent(e), e.key \in RefundNos, NEW changed,
         \/ CanBeSent(e) /\ changed = RefundToProcessing(e)
         \/ IsSent(e) /\ changed = RefundSuccess(e)
         \/ IsSent(e) /\ changed = RefundFail(e)
         \/ changed = Sent(e)
  PROVE  changed.key = e.key /\ Consistent(changed)
<1>1. e \in [key : RefundNos, status : RefundStatus, paid : BOOLEAN]
  BY EntityKinds DEF Consistent, ConsistentIn
<1>2. \/ changed = e
      \/ /\ e.status # StatusSuccess
         /\ \/ changed = [e EXCEPT !.status = StatusProcessing]
            \/ changed = [e EXCEPT !.status = StatusSuccess, !.paid = TRUE]
            \/ changed = [e EXCEPT !.status = StatusFailed]
  BY DEF CanBeSent, IsSent, RefundToProcessing, RefundSuccess, RefundFail, Sent,
         StatusInit, StatusProcessing, StatusSuccess
<1>3. /\ {StatusSuccess, StatusFailed, StatusProcessing} \subseteq RefundStatus
      /\ StatusProcessing # StatusSuccess /\ StatusFailed # StatusSuccess
  BY DEF RefundStatus, StatusProcessing, StatusSuccess, StatusFailed
<1>4. e.paid <=> e.status = StatusSuccess
  BY DEF Consistent, ConsistentIn
<1>5. /\ changed \in [key : RefundNos, status : RefundStatus, paid : BOOLEAN]
      /\ changed.key = e.key
      /\ changed.paid <=> changed.status = StatusSuccess
  BY <1>1, <1>2, <1>3, <1>4
<1>6. QED
  BY <1>5, KeysAssumption DEF Consistent, ConsistentIn, Entity

-----------------------------------------------------------------------------
(* What the statements do to the tables                                    *)

\* Who is consistent stays so when more orders have been forced.
LEMMA ConsistentStays ==
  ASSUME NEW e, Consistent(e), forced \subseteq forced'
  PROVE  ConsistentIn(e, forced')
BY DEF Consistent, ConsistentIn

\* A consistent entity may be written over any row: if the order comes to
\* another status by it, that is counted.
LEMMA WriteKeepsTables ==
  ASSUME TablesInv, NEW e, Consistent(e), e # None, Arrives(e),
         rows' = [rows EXCEPT ![e.key] = e]
  PROVE  TablesInv'
<1> DEFINE k == e.key
           s == e.status
<1>1. /\ e \in Entity /\ k \in Keys /\ forced' = forced
      /\ k \in TradeNos => s \in PaymentStatus
  BY EntityKinds DEF Consistent, ConsistentIn, Arrives
<1>2. rows' \in [Keys -> Entity \cup {None}]
  BY <1>1 DEF TablesInv
<1>3. \A l \in Keys : rows'[l] # None => rows'[l].key = l /\ Consistent(rows'[l])
  BY <1>1 DEF TablesInv
<1>4. \A l \in Keys : rows'[l] # None => rows'[l].key = l /\ ConsistentIn(rows'[l], forced')
  BY <1>1, <1>3, ConsistentStays
<1>5. unclaimed' \in [TradeNos -> [PaymentStatus -> Int]]
  BY <1>1 DEF Arrives, TablesInv
<1>6. ASSUME NEW t \in TradeNos, NEW u \in PaymentStatus
      PROVE  /\ unclaimed'[t][u] >= 0
             /\ rows'[t] # None /\ rows'[t].status = u => unclaimed'[t][u] >= 1
  <2>1. /\ unclaimed[t][u] \in Int /\ unclaimed[t][u] >= 0
        /\ rows[t] # None /\ rows[t].status = u => unclaimed[t][u] >= 1
    BY DEF TablesInv, Claims
  <2>2. CASE t # k
    <3>1. rows'[t] = rows[t] /\ unclaimed'[t] = unclaimed[t]
      BY <1>1, <2>2 DEF Arrives, TablesInv, Keys
    <3>2. QED
      BY <2>1, <3>1
  <2>3. CASE t = k /\ u # s
    <3>1. rows'[t] = e /\ unclaimed'[t][u] = unclaimed[t][u]
      BY <1>1, <2>3 DEF Arrives, TablesInv
    <3>2. QED
      BY <2>1, <2>3, <3>1
  <2>4. CASE t = k /\ u = s
    <3>1. CASE rows[k] = None \/ rows[k].status # s
      <4>1. unclaimed'[t][u] = unclaimed[t][u] + 1
        BY <1>1, <2>4, <3>1 DEF Arrives, TablesInv
      <4>2. QED
        BY <2>1, <4>1
    <3>2. CASE ~(rows[k] = None \/ rows[k].status # s)
      <4>1. unclaimed'[t][u] = unclaimed[t][u]
        BY <3>2 DEF Arrives
      <4>2. QED
        BY <2>1, <2>4, <3>2, <4>1
    <3>3. QED
      BY <3>1, <3>2
  <2>5. QED
    BY <2>2, <2>3, <2>4
<1>7. QED
  BY <1>1, <1>2, <1>4, <1>5, <1>6 DEF TablesInv, Claims, Consistent

\* A caller that moves an order out of a status claims what is there to claim,
\* since the order is in that status.
LEMMA MoveKeepsTables ==
  ASSUME TablesInv, NEW t \in TradeNos, NEW old \in PaymentStatus,
         NEW new \in PaymentStatus, UpdateStatus(t, old, new),
         NEW told \in {0, 1},
         unclaimed' = [unclaimed EXCEPT ![t][new] = @ + 1, ![t][old] = @ - told],
         forced' = IF old = StatusSuccess THEN forced \cup {t} ELSE forced
  PROVE  TablesInv' /\ forced \subseteq forced'
<1>1. /\ t \in Keys /\ rows[t] # None /\ rows[t].key = t /\ Consistent(rows[t])
      /\ rows[t].status = old
  BY DEF TablesInv, UpdateStatus, Keys
<1>2. rows[t] \in [key : TradeNos, status : PaymentStatus, paid : BOOLEAN]
  BY <1>1, EntityKinds DEF Consistent, ConsistentIn
<1> DEFINE row == [rows[t] EXCEPT !.status = new]
<1>3. row \in Entity /\ row.key = t /\ row.status = new /\ row.paid = rows[t].paid
  BY <1>1, <1>2 DEF Entity
<1>4. rows' = [rows EXCEPT ![t] = row] /\ row # None
  BY <1>3, NoneAssumption DEF UpdateStatus
<1>5. forced \subseteq forced' /\ forced' \subseteq TradeNos
  BY DEF TablesInv
<1>6. ConsistentIn(row, forced')
  <2>1. row.paid => t \in forced'
    BY <1>1, <1>3 DEF Consistent, ConsistentIn
  <2>2. QED
    BY <1>3, <2>1, KeysAssumption DEF Consistent, ConsistentIn
<1> HIDE DEF row
<1>7. rows' \in [Keys -> Entity \cup {None}]
  BY <1>1, <1>3, <1>4 DEF TablesInv
<1>8. \A l \in Keys : rows'[l] # None => rows'[l].key = l /\ ConsistentIn(rows'[l], forced')
  <2> SUFFICES ASSUME NEW l \in Keys, rows'[l] # None
               PROVE  rows'[l].key = l /\ ConsistentIn(rows'[l], forced')
    OBVIOUS
  <2>1. CASE l = t
    BY <1>1, <1>3, <1>4, <1>6, <2>1 DEF TablesInv
  <2>2. CASE l # t
    <3>1. rows'[l] = rows[l]
      BY <1>4, <2>2 DEF TablesInv
    <3>2. rows[l].key = l /\ Consistent(rows[l])
      BY <3>1 DEF TablesInv
    <3>4. QED
      BY <1>5, <3>1, <3>2 DEF Consistent, ConsistentIn
  <2>3. QED
    BY <2>1, <2>2
<1>9. unclaimed' \in [TradeNos -> [PaymentStatus -> Int]]
  BY DEF TablesInv
<1>10. ASSUME NEW q \in TradeNos, NEW u \in PaymentStatus
       PROVE  /\ unclaimed'[q][u] >= 0
              /\ rows'[q] # None /\ rows'[q].status = u => unclaimed'[q][u] >= 1
  <2>1. /\ unclaimed[q][u] \in Int /\ unclaimed[q][u] >= 0
        /\ rows[q] # None /\ rows[q].status = u => unclaimed[q][u] >= 1
    BY DEF TablesInv, Claims
  <2>2. CASE q # t
    <3>1. rows'[q] = rows[q] /\ unclaimed'[q] = unclaimed[q]
      BY <1>4, <2>2 DEF TablesInv, Keys
    <3>2. QED
      BY <2>1, <3>1
  <2>3. CASE q = t
    <3>1. rows'[q] = row /\ row.status = new
      BY <1>1, <1>3, <1>4, <2>3 DEF TablesInv
    <3>2. unclaimed'[q][u] = unclaimed[q][u] + (IF u = new THEN 1 ELSE 0)
                                             - (IF u = old THEN told ELSE 0)
      BY <2>3 DEF TablesInv
    <3>3. u = old => unclaimed[q][u] >= 1
      BY <1>1, <2>1, <2>3
    <3>4. QED
      BY <2>1, <3>1, <3>2, <3>3
  <2>4. QED
    BY <2>2, <2>3
<1>11. QED
  BY <1>5, <1>7, <1>8, <1>9, <1>10 DEF TablesInv, Claims, Consistent

LEMMA UnchangedTables ==
  ASSUME TablesInv, UNCHANGED <<rows, history>>
  PROVE  TablesInv' /\ forced \subseteq forced'
BY DEF TablesInv, Claims, Consistent, ConsistentIn, history

-----------------------------------------------------------------------------
(* What a step does to the requests                                        *)

\* A request goes to another step, with a statement and an entity.
Goes(r, to, s, e) ==
  /\ step' = [step EXCEPT ![r] = to]
  /\ stmt' = [stmt EXCEPT ![r] = s]
  /\ ent' = [ent EXCEPT ![r] = e]

LEMMA RequestsAfter ==
  ASSUME HeldByStep, RequestsInv, forced \subseteq forced',
         NEW r \in Requests, NEW to, NEW s \in Statement \cup {None},
         NEW e \in Entity \cup {None}, Goes(r, to, s, e),
         e # None => Consistent(e),
         s # None <=> to \in {"wait", "use"},
         s # None /\ s.do = "update" => e # None,
         to = "pay" => e # None
  PROVE  RequestsInv'
<1>1. /\ ent' \in [Requests -> Entity \cup {None}]
      /\ stmt' \in [Requests -> Statement \cup {None}]
  BY DEF RequestsInv, Goes
<1>2. ASSUME NEW q \in Requests
      PROVE  /\ ent'[q] # None => ConsistentIn(ent'[q], forced')
             /\ stmt'[q] # None <=> step'[q] \in {"wait", "use"}
             /\ stmt'[q] # None /\ stmt'[q].do = "update" => ent'[q] # None
             /\ step'[q] = "pay" => ent'[q] # None
  <2>1. CASE q = r
    <3>1. ent'[q] = e /\ stmt'[q] = s /\ step'[q] = to
      BY <2>1 DEF RequestsInv, HeldByStep, Goes
    <3>2. QED
      BY <3>1 DEF Consistent, ConsistentIn
  <2>2. CASE q # r
    <3>1. ent'[q] = ent[q] /\ stmt'[q] = stmt[q] /\ step'[q] = step[q]
      BY <2>2 DEF RequestsInv, HeldByStep, Goes
    <3>2. QED
      BY <3>1 DEF RequestsInv, Consistent, ConsistentIn
  <2>3. QED
    BY <2>1, <2>2
<1>3. QED
  BY <1>1, <1>2 DEF RequestsInv, Consistent

\* The statements that callers run.
LEMMA Statements ==
  /\ \A k \in Keys : /\ [do |-> "find", key |-> k] \in Statement
                     /\ [do |-> "save", key |-> k] \in Statement
                     /\ [do |-> "update", key |-> k] \in Statement
  /\ \A t \in TradeNos, old, new \in PaymentStatus :
       [do |-> "updateStatus", key |-> t, old |-> old, new |-> new] \in Statement
BY DEF Statement

\* A caller that asks for a statement to be run.
LEMMA RequestsRun ==
  ASSUME HeldByStep, RequestsInv, forced \subseteq forced',
         NEW r \in Others, NEW s \in Statement, Run(r, s),
         NEW e \in Entity \cup {None}, ent' = [ent EXCEPT ![r] = e],
         e # None => Consistent(e),
         s.do = "update" => e # None
  PROVE  RequestsInv'
<1>1. r \in Requests /\ Goes(r, "wait", s, e) /\ s # None
  BY NoneAssumption DEF Run, Ask, Move, Requests, Goes
<1>2. QED
  BY <1>1, RequestsAfter

\* One that goes to another step and keeps its statement and entity.
LEMMA RequestsMove ==
  ASSUME HeldByStep, RequestsInv, forced \subseteq forced',
         NEW r \in Requests, NEW to, step' = [step EXCEPT ![r] = to],
         UNCHANGED <<stmt, ent>>,
         step[r] \in {"wait", "use"} <=> to \in {"wait", "use"},
         to # "pay"
  PROVE  RequestsInv'
<1>1. /\ Goes(r, to, stmt[r], ent[r])
      /\ stmt[r] \in Statement \cup {None} /\ ent[r] \in Entity \cup {None}
      /\ ent[r] # None => Consistent(ent[r])
      /\ stmt[r] # None <=> to \in {"wait", "use"}
      /\ stmt[r] # None /\ stmt[r].do = "update" => ent[r] # None
  BY DEF RequestsInv, Goes
<1>2. QED
  BY <1>1, RequestsAfter

-----------------------------------------------------------------------------
(* The callers' steps                                                      *)

LEMMA GetStep ==
  ASSUME HeldByStep, ServiceInv, NEW r \in Others, NEW k \in Keys, Get(r, k)
  PROVE  ServiceInv'
<1>1. TablesInv' /\ forced \subseteq forced'
  BY UnchangedTables DEF ServiceInv, Get
<1>2. ent' = [ent EXCEPT ![r] = None]
  BY DEF Get, ServiceInv, RequestsInv
<1>3. RequestsInv'
  <2>1. Run(r, [do |-> "find", key |-> k])
    BY DEF Get
  <2>2. [do |-> "find", key |-> k] \in Statement
    BY Statements
  <2>3. QED
    BY <1>1, <1>2, <2>1, <2>2, RequestsRun DEF ServiceInv
<1>4. QED
  BY <1>1, <1>3 DEF ServiceInv

LEMMA CreateOrderStep ==
  ASSUME HeldByStep, ServiceInv, NEW r \in Others, NEW k \in Keys, CreateOrder(r, k)
  PROVE  ServiceInv'
<1>1. TablesInv' /\ forced \subseteq forced'
  BY UnchangedTables DEF ServiceInv, CreateOrder
<1>2. ent' = [ent EXCEPT ![r] = None]
  BY DEF CreateOrder, ServiceInv, RequestsInv
<1>3. RequestsInv'
  <2>1. Run(r, [do |-> "save", key |-> k])
    BY DEF CreateOrder
  <2>2. [do |-> "save", key |-> k] \in Statement
    BY Statements
  <2>3. QED
    BY <1>1, <1>2, <2>1, <2>2, RequestsRun DEF ServiceInv
<1>4. QED
  BY <1>1, <1>3 DEF ServiceInv

LEMMA UpdatePaymentStatusStep ==
  ASSUME HeldByStep, ServiceInv, NEW r \in Others, NEW t \in TradeNos,
         NEW old \in PaymentStatus, NEW new \in PaymentStatus,
         UpdatePaymentStatus(r, t, old, new)
  PROVE  ServiceInv'
<1>1. TablesInv' /\ forced \subseteq forced'
  BY UnchangedTables DEF ServiceInv, UpdatePaymentStatus
<1>2. ent' = [ent EXCEPT ![r] = None]
  BY DEF UpdatePaymentStatus, ServiceInv, RequestsInv
<1>3. RequestsInv'
  <2> DEFINE s == [do |-> "updateStatus", key |-> t, old |-> old, new |-> new]
  <2>1. Run(r, s)
    BY DEF UpdatePaymentStatus
  <2>2. s \in Statement /\ s.do # "update"
    BY Statements
  <2> HIDE DEF s
  <2>3. QED
    BY <1>1, <1>2, <2>1, <2>2, RequestsRun DEF ServiceInv
<1>4. QED
  BY <1>1, <1>3 DEF ServiceInv

\* A method that agrees is followed by an UPDATE of what it made.
LEMMA MarkStep ==
  ASSUME HeldByStep, ServiceInv, NEW r \in Others, ent[r] # None,
         NEW can, NEW changed, Mark(r, can, changed),
         can => changed.key = ent[r].key /\ Consistent(changed)
  PROVE  ServiceInv'
<1>1. TablesInv' /\ forced \subseteq forced'
  BY UnchangedTables DEF ServiceInv, Mark
<1>2. r \in Requests /\ ent[r].key \in Keys
  BY EntityKinds DEF Requests, ServiceInv, RequestsInv
<1>3. CASE can /\ Run(r, [do |-> "update", key |-> ent[r].key])
                /\ ent' = [ent EXCEPT ![r] = changed]
  <2>1. changed \in Entity /\ changed # None /\ Consistent(changed)
    BY <1>3, NoneAssumption DEF Consistent, ConsistentIn
  <2>2. [do |-> "update", key |-> ent[r].key] \in Statement
    BY <1>2, Statements
  <2>3. RequestsInv'
    BY <1>1, <1>3, <2>1, <2>2, RequestsRun DEF ServiceInv
  <2>4. QED
    BY <1>1, <2>3 DEF ServiceInv
<1>4. CASE ent' = [ent EXCEPT ![r] = None] /\ UNCHANGED <<vars, stmt>>
  <2>1. Goes(r, "idle", None, None)
    BY <1>2, <1>4 DEF Mark, vars, HeldByStep, ServiceInv, RequestsInv, Goes
  <2>2. RequestsInv'
    BY <1>1, <1>2, <1>4, <2>1, RequestsAfter DEF ServiceInv
  <2>3. QED
    BY <1>1, <2>2 DEF ServiceInv
<1>5. QED
  BY <1>3, <1>4 DEF Mark

LEMMA CallerStepKeeps ==
  ASSUME HeldByStep, ServiceInv, NEW r \in Others, CallerStep(r)
  PROVE  ServiceInv'
<1>1. CASE MarkOrder(r)
  <2>1. ent[r] # None /\ ent[r].key \in TradeNos /\ Consistent(ent[r])
    BY <1>1 DEF MarkOrder, ServiceInv, RequestsInv, Requests
  <2>2. CASE Mark(r, CanSucceed(ent[r]), Success(ent[r]))
    BY <2>1, <2>2, OrderMarks, MarkStep
  <2>3. CASE Mark(r, CanFail(ent[r]), Fail(ent[r]))
    BY <2>1, <2>3, OrderMarks, MarkStep
  <2>4. CASE Mark(r, CanClose(ent[r]), Close(ent[r]))
    BY <2>1, <2>4, OrderMarks, MarkStep
  <2>5. QED
    BY <1>1, <2>2, <2>3, <2>4 DEF MarkOrder
<1>2. CASE MarkRefund(r)
  <2>1. ent[r] # None /\ ent[r].key \in RefundNos /\ Consistent(ent[r])
    BY <1>2 DEF MarkRefund, ServiceInv, RequestsInv, Requests
  <2>2. CASE Mark(r, CanBeSent(ent[r]), RefundToProcessing(ent[r]))
    BY <2>1, <2>2, RefundMarks, MarkStep
  <2>3. CASE Mark(r, IsSent(ent[r]), RefundSuccess(ent[r]))
    BY <2>1, <2>3, RefundMarks, MarkStep
  <2>4. CASE Mark(r, IsSent(ent[r]), RefundFail(ent[r]))
    BY <2>1, <2>4, RefundMarks, MarkStep
  <2>5. QED
    BY <1>2, <2>2, <2>3, <2>4 DEF MarkRefund
<1>3. QED
  BY <1>1, <1>2, GetStep, CreateOrderStep, UpdatePaymentStatusStep DEF CallerStep

-----------------------------------------------------------------------------
(* The results of statements                                               *)

\* A statement's result gives its request an entity that the tables hold, or
\* none.
LEMMA KeepStep ==
  ASSUME HeldByStep, RequestsInv, forced \subseteq forced', NEW r \in Requests,
         Done(r), NEW e \in Entity \cup {None}, e # None => Consistent(e),
         Keep(r, e)
  PROVE  RequestsInv'
<1>1. Goes(r, "idle", None, e)
  BY DEF Done, Move, Keep, Goes
<1>2. QED
  BY <1>1, RequestsAfter

\* The statement that a request runs.
LEMMA RunningStatement ==
  ASSUME HeldByStep, RequestsInv, NEW r \in Requests, Done(r)
  PROVE  /\ stmt[r] \in Statement /\ stmt[r].key \in Keys
         /\ stmt[r].do = "update" => ent[r] # None /\ Consistent(ent[r])
         /\ stmt[r].do = "updateStatus" =>
              /\ stmt[r].key \in TradeNos
              /\ stmt[r].old \in PaymentStatus /\ stmt[r].new \in PaymentStatus
<1>1. stmt[r] \in Statement
  BY DEF RequestsInv, Done, Move
<1>2. /\ stmt[r].key \in Keys
      /\ stmt[r].do = "updateStatus" =>
           /\ stmt[r].key \in TradeNos
           /\ stmt[r].old \in PaymentStatus /\ stmt[r].new \in PaymentStatus
  BY <1>1 DEF Statement, Keys
<1>3. QED
  BY <1>1, <1>2, NoneAssumption DEF RequestsInv

LEMMA FindStep ==
  ASSUME HeldByStep, ServiceInv, NEW r \in Requests, Done(r), Find(r)
  PROVE  ServiceInv'
<1>1. TablesInv' /\ forced \subseteq forced'
  BY UnchangedTables DEF ServiceInv, Find
<1>2. stmt[r].key \in Keys
  BY RunningStatement DEF ServiceInv
<1>3. /\ rows[stmt[r].key] \in Entity \cup {None}
      /\ rows[stmt[r].key] # None => Consistent(rows[stmt[r].key])
  BY <1>2 DEF ServiceInv, TablesInv
<1>4. RequestsInv'
  <2>1. CASE Keep(r, rows[stmt[r].key])
    BY <1>1, <1>3, <2>1, KeepStep DEF ServiceInv
  <2>2. CASE Keep(r, None)
    BY <1>1, <2>2, KeepStep DEF ServiceInv
  <2>3. QED
    BY <2>1, <2>2 DEF Find
<1>5. QED
  BY <1>1, <1>4 DEF ServiceInv

LEMMA SaveStep ==
  ASSUME HeldByStep, ServiceInv, NEW r \in Requests, Done(r), Save(r)
  PROVE  ServiceInv'
<1> DEFINE order == Fresh(stmt[r].key)
<1>1. order.key = stmt[r].key /\ Consistent(order) /\ order # None
  BY RunningStatement, FreshConsistent DEF ServiceInv
<1> HIDE DEF order
<1>2. TablesInv' /\ forced \subseteq forced'
  <2>1. CASE SaveRow(order) /\ Arrives(order)
    <3>1. rows' = [rows EXCEPT ![order.key] = order] /\ forced' = forced
      BY <2>1 DEF SaveRow, Arrives
    <3>2. QED
      BY <1>1, <2>1, <3>1, WriteKeepsTables DEF ServiceInv
  <2>2. CASE UNCHANGED <<rows, history>>
    BY <2>2, UnchangedTables DEF ServiceInv
  <2>3. QED
    BY <2>1, <2>2 DEF Save, order
<1>3. RequestsInv'
  BY <1>2, KeepStep DEF ServiceInv, Save
<1>4. QED
  BY <1>2, <1>3 DEF ServiceInv

LEMMA UpdateStep ==
  ASSUME HeldByStep, ServiceInv, NEW r \in Requests, Done(r), Update(r)
  PROVE  ServiceInv'
<1>1. ent[r] # None /\ Consistent(ent[r])
  BY RunningStatement DEF ServiceInv, Update
<1>2. TablesInv' /\ forced \subseteq forced'
  <2>1. CASE UpdateRow(ent[r]) /\ Arrives(ent[r])
    <3>1. rows' = [rows EXCEPT ![ent[r].key] = ent[r]] /\ forced' = forced
      BY <2>1 DEF UpdateRow, Arrives
    <3>2. QED
      BY <1>1, <2>1, <3>1, WriteKeepsTables DEF ServiceInv
  <2>2. CASE UNCHANGED <<rows, history>>
    BY <2>2, UnchangedTables DEF ServiceInv
  <2>3. QED
    BY <2>1, <2>2 DEF Update
<1>3. RequestsInv'
  BY <1>2, KeepStep DEF ServiceInv, Update
<1>4. QED
  BY <1>2, <1>3 DEF ServiceInv

LEMMA MoveStatusStep ==
  ASSUME HeldByStep, ServiceInv, NEW r \in Requests, Done(r), MoveStatus(r)
  PROVE  ServiceInv'
<1> DEFINE t == stmt[r].key
           old == stmt[r].old
           new == stmt[r].new
<1>1. t \in TradeNos /\ old \in PaymentStatus /\ new \in PaymentStatus
  BY RunningStatement DEF ServiceInv, MoveStatus
<1>2. TablesInv' /\ forced \subseteq forced'
  <2>1. ASSUME UpdateStatus(t, old, new), NEW told \in {0, 1},
               unclaimed' = [unclaimed EXCEPT ![t][new] = @ + 1, ![t][old] = @ - told],
               forced' = IF old = StatusSuccess THEN forced \cup {t} ELSE forced
        PROVE  TablesInv' /\ forced \subseteq forced'
    <3> HIDE DEF t, old, new
    <3>1. QED
      BY <1>1, <2>1, MoveKeepsTables DEF ServiceInv
  <2>2. CASE UNCHANGED <<rows, history>>
    BY <2>2, UnchangedTables DEF ServiceInv
  <2>3. QED
    BY <2>1, <2>2 DEF MoveStatus
<1>3. RequestsInv'
  BY <1>2, KeepStep DEF ServiceInv, MoveStatus
<1>4. QED
  BY <1>2, <1>3 DEF ServiceInv

-----------------------------------------------------------------------------
(* CreatePayOrder's steps                                                  *)

LEMMA SaveOrderStep ==
  ASSUME HeldByStep, ServiceInv, NEW r \in Requests, SaveOrder(r)
  PROVE  ServiceInv'
<1>1. step[r] = "insert" /\ step' = [step EXCEPT ![r] = "commit"] /\ stmt' = stmt
  BY DEF SaveOrder, SaveEnd, Move
<1>2. stmt[r] = None /\ stmt' = [stmt EXCEPT ![r] = None]
  BY <1>1 DEF ServiceInv, RequestsInv
<1>3. /\ ent[r] \in Entity \cup {None} /\ (ent[r] # None => Consistent(ent[r]))
      /\ ent = [ent EXCEPT ![r] = ent[r]]
  BY DEF ServiceInv, RequestsInv
<1>4. ASSUME NEW t \in TradeNos, SaveRow(Fresh(t)), Arrives(Fresh(t)),
             ent' \in {ent, [ent EXCEPT ![r] = Fresh(t)]}
      PROVE  ServiceInv'
  <2>1. /\ Fresh(t) \in Entity /\ Fresh(t).key = t /\ Consistent(Fresh(t))
        /\ Fresh(t) # None
    BY FreshConsistent DEF Keys
  <2>2. rows' = [rows EXCEPT ![Fresh(t).key] = Fresh(t)] /\ forced' = forced
    BY <1>4 DEF SaveRow, Arrives
  <2>3. TablesInv' /\ forced \subseteq forced'
    BY <1>4, <2>1, <2>2, WriteKeepsTables DEF ServiceInv
  <2>4. Goes(r, "commit", None, ent[r]) \/ Goes(r, "commit", None, Fresh(t))
    BY <1>1, <1>2, <1>3, <1>4 DEF Goes
  <2>5. RequestsInv'
    BY <1>3, <2>1, <2>3, <2>4, RequestsAfter DEF ServiceInv
  <2>6. QED
    BY <2>3, <2>5 DEF ServiceInv
<1>5. CASE UNCHANGED <<rows, ent, history>>
  <2>1. TablesInv' /\ forced \subseteq forced'
    BY <1>5, UnchangedTables DEF ServiceInv
  <2>2. RequestsInv'
    BY <1>1, <1>5, <2>1, RequestsMove DEF ServiceInv
  <2>3. QED
    BY <2>1, <2>2 DEF ServiceInv
<1>6. QED
  BY <1>4, <1>5 DEF SaveOrder

LEMMA CommitOrderStep ==
  ASSUME HeldByStep, ServiceInv, NEW r \in Requests, CommitOrder(r)
  PROVE  ServiceInv'
<1>1. TablesInv' /\ forced \subseteq forced'
  BY UnchangedTables DEF ServiceInv, CommitOrder
<1>2. step[r] = "commit" /\ stmt' = stmt
  BY DEF CommitOrder, Commit, Move
<1>3. /\ stmt[r] = None /\ stmt' = [stmt EXCEPT ![r] = None]
      /\ ent[r] \in Entity \cup {None} /\ (ent[r] # None => Consistent(ent[r]))
      /\ ent = [ent EXCEPT ![r] = ent[r]]
  BY <1>2 DEF ServiceInv, RequestsInv
<1>4. CASE Move(r, "commit", "pay")
  <2>1. step'[r] = "pay" /\ ent[r] # None
    BY <1>4 DEF CommitOrder, Move, HeldByStep
  <2>2. Goes(r, "pay", None, ent[r])
    BY <1>3, <1>4, <2>1 DEF CommitOrder, Move, Goes
  <2>3. RequestsInv'
    BY <1>1, <1>3, <2>1, <2>2, RequestsAfter DEF ServiceInv
  <2>4. QED
    BY <1>1, <2>3 DEF ServiceInv
<1>5. CASE Move(r, "commit", "idle")
  <2>1. step'[r] # "pay"
    BY <1>5 DEF Move, HeldByStep
  <2>2. Goes(r, "idle", None, None)
    BY <1>3, <1>5, <2>1 DEF CommitOrder, Move, Goes
  <2>3. RequestsInv'
    BY <1>1, <2>2, RequestsAfter DEF ServiceInv
  <2>4. QED
    BY <1>1, <2>3 DEF ServiceInv
<1>6. QED
  BY <1>4, <1>5 DEF CommitOrder, Commit

LEMMA PayOrderStep ==
  ASSUME HeldByStep, ServiceInv, NEW r \in Requests, PayOrder(r)
  PROVE  ServiceInv'
<1>1. TablesInv' /\ forced \subseteq forced'
  BY UnchangedTables DEF ServiceInv, PayOrder
<1>2. step[r] = "pay" /\ stmt[r] = None /\ ent[r] # None /\ Consistent(ent[r])
      /\ ent[r].key \in Keys
  BY EntityKinds DEF PayOrder, Pay, PayFails, Move, ServiceInv, RequestsInv,
     Consistent, ConsistentIn
<1>3. CASE /\ Pay(r)
           /\ ent' = [ent EXCEPT ![r] = Sent(@)]
           /\ stmt' = [stmt EXCEPT ![r] = [do |-> "update", key |-> ent[r].key]]
  <2> DEFINE s == [do |-> "update", key |-> ent[r].key]
             e == Sent(ent[r])
  <2>1. s \in Statement /\ s # None
    BY <1>2, Statements, NoneAssumption
  <2>2. Consistent(e) /\ e # None /\ e \in Entity
    <3>1. Consistent(e)
      BY <1>2, OrderMarks, RefundMarks DEF Keys
    <3>2. QED
      BY <3>1, NoneAssumption DEF Consistent, ConsistentIn
  <2>3. Goes(r, "wait", s, e)
    BY <1>3 DEF Pay, Move, Goes, ServiceInv, RequestsInv
  <2> HIDE DEF s, e
  <2>4. RequestsInv'
    BY <1>1, <2>1, <2>2, <2>3, RequestsAfter DEF ServiceInv
  <2>5. QED
    BY <1>1, <2>4 DEF ServiceInv
<1>4. CASE PayFails(r) /\ ent' = [ent EXCEPT ![r] = None] /\ UNCHANGED stmt
  <2>1. Goes(r, "idle", None, None)
    BY <1>2, <1>4 DEF PayFails, Move, Goes, ServiceInv, RequestsInv
  <2>2. RequestsInv'
    BY <1>1, <2>1, RequestsAfter DEF ServiceInv
  <2>3. QED
    BY <1>1, <2>2 DEF ServiceInv
<1>5. QED
  BY <1>3, <1>4 DEF PayOrder

\* The steps that only wait for a connection or are given one.
LEMMA QuietStep ==
  ASSUME HeldByStep, ServiceInv, NEW r \in Requests, UNCHANGED service,
         Arrive(r) \/ Begin(r) \/ SaveBegin(r) \/ GiveUp(r) \/ Use(r)
  PROVE  ServiceInv'
<1>1. TablesInv' /\ forced \subseteq forced' /\ UNCHANGED <<stmt, ent>>
  BY UnchangedTables DEF ServiceInv, service
<1>2. \/ Move(r, "idle", "begin")
      \/ Move(r, "begin", "save")
      \/ Move(r, "save", "insert")
      \/ Move(r, "save", "idle")
      \/ Move(r, "wait", "use")
  BY DEF Arrive, Begin, SaveBegin, GiveUp, Use
<1>3. RequestsInv'
  BY <1>1, <1>2, RequestsMove DEF ServiceInv, Move
<1>4. QED
  BY <1>1, <1>3 DEF ServiceInv

-----------------------------------------------------------------------------
(* The theorems                                                            *)

\* What the service and creations do to the pool are steps of ConnPool.
LEMMA PoolStep == [ServiceNext]_serviceVars => [Next]_vars
<1> SUFFICES ASSUME [ServiceNext]_serviceVars PROVE [Next]_vars
  OBVIOUS
<1>1. ASSUME NEW r \in Creators, CreatorStep(r) PROVE [Next]_vars
  BY <1>1 DEF CreatorStep, SaveOrder, CommitOrder, PayOrder, Next
<1>2. ASSUME NEW r \in Others, CallerStep(r) PROVE [Next]_vars
  <2>1. Ask(r) \/ UNCHANGED vars
    BY <1>2 DEF CallerStep, Get, CreateOrder, MarkOrder, MarkRefund, Mark,
       UpdatePaymentStatus, Run
  <2>2. QED
    BY <2>1 DEF Next
<1>3. ASSUME NEW r \in Requests, Return(r) \/ Use(r) PROVE [Next]_vars
  BY <1>3 DEF Return, Next
<1>4. CASE UNCHANGED serviceVars
  BY <1>4 DEF serviceVars
<1>5. QED
  BY <1>1, <1>2, <1>3, <1>4 DEF ServiceNext

\* The domain service's callers and the creations use the pool's connections
\* as ConnPool says, so that its theorems hold of them.
THEOREM UsesPool == ServiceSpec => Spec
<1>1. ServiceInit => Init
  BY DEF ServiceInit
<1>2. QED
  BY <1>1, PoolStep, PTL DEF ServiceSpec, Spec

LEMMA ServiceInvNext ==
  HeldByStep /\ ServiceInv /\ [ServiceNext]_serviceVars => ServiceInv'
<1> SUFFICES ASSUME HeldByStep, ServiceInv, [ServiceNext]_serviceVars
             PROVE  ServiceInv'
  OBVIOUS
<1>1. ASSUME NEW r \in Creators, CreatorStep(r) PROVE ServiceInv'
  <2>1. r \in Requests
    BY DEF Requests
  <2>2. QED
    BY <1>1, <2>1, QuietStep, SaveOrderStep, CommitOrderStep, PayOrderStep
       DEF CreatorStep
<1>2. ASSUME NEW r \in Requests, Return(r) PROVE ServiceInv'
  BY <1>2, FindStep, SaveStep, UpdateStep, MoveStatusStep DEF Return
<1>3. ASSUME NEW r \in Requests, Use(r), UNCHANGED service PROVE ServiceInv'
  BY <1>3, QuietStep
<1>4. CASE UNCHANGED serviceVars
  <2>1. /\ TablesInv' /\ forced \subseteq forced'
        /\ UNCHANGED <<step, stmt, ent, forced>>
    BY <1>4, UnchangedTables DEF ServiceInv, serviceVars, service, vars, history
  <2>2. RequestsInv'
    BY <2>1 DEF ServiceInv, RequestsInv, Consistent, ConsistentIn
  <2>3. QED
    BY <2>1, <2>2 DEF ServiceInv
<1>5. QED
  BY <1>1, <1>2, <1>3, <1>4, CallerStepKeeps DEF ServiceNext

LEMMA ServiceInvariance == ServiceSpec => []ServiceInv
<1>1. ServiceInit => ServiceInv
  BY DEF ServiceInit, Init, ServiceInv, TablesInv, RequestsInv, Claims, Keys
<1>2. QED
  BY <1>1, UsesPool, HeldByStepInvariant, ServiceInvNext, PTL DEF ServiceSpec

\* Every variable stays in its type, however requests interleave.
THEOREM ServiceTypeCorrect == ServiceSpec => []ServiceTypeOK
<1>1. ServiceInv /\ TypeOK => ServiceTypeOK
  BY DEF ServiceInv, TablesInv, RequestsInv, ServiceTypeOK
<1>2. QED
  BY <1>1, UsesPool, PoolTypeCorrect, ServiceInvariance, PTL

\* For each time that an order comes to a status, at most one caller of
\* UpdatePaymentStatus is told that it moved the order out of it: the row is
\* found in the status only while that is still to be claimed (Claims), also
\* after a creation's or a stale entity's unconditional UPDATE.
THEOREM AtMostOneWinner == ServiceSpec => []OneWinner
<1>1. ServiceInv => OneWinner
  BY DEF ServiceInv, TablesInv, Claims, OneWinner
<1>2. QED
  BY <1>1, ServiceInvariance, PTL

\* An order with a payment time is SUCCESS unless UpdateStatus moved it out of
\* SUCCESS: every entity that may be written over the row is so (Consistent).
THEOREM PaidAreSuccess == ServiceSpec => []PaidIsSuccess
<1>1. ServiceInv => PaidIsSuccess
  BY DEF ServiceInv, TablesInv, Consistent, ConsistentIn, PaidIsSuccess, Keys
<1>2. QED
  BY <1>1, ServiceInvariance, PTL

\* A refund's success_at is there exactly while it is SUCCESS, however many
\* stale entities are written over the row.
THEOREM RefundsAreStamped == ServiceSpec => []RefundIsStamped
<1>1. ServiceInv => RefundIsStamped
  BY DEF ServiceInv, TablesInv, Consistent, ConsistentIn, RefundIsStamped, Keys
<1>2. QED
  BY <1>1, ServiceInvariance, PTL
=============================================================================
