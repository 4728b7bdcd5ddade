------------------------ MODULE TransactionService ------------------------
(***************************************************************************)
(* The transaction domain service (internal/domain/transaction/service.go) *)
(* and the two repositories under it (persistence/gorm_order_repo.go), on  *)
(* the connection pool of ConnPool, beside CreatePayOrder, which inserts   *)
(* an order and later writes the entity that it kept over the row: the     *)
(* service's callers are the pool's Others, and each of their statements   *)
(* holds one connection from Use to its result.                            *)
(*                                                                         *)
(* The application constructs no DomainService; here its callers are free  *)
(* to, and to move an order from any status to any other: the service      *)
(* passes both on.  The repository of refunds has an Update that the       *)
(* service does not call; its callers are modelled beside the service's.   *)
(*                                                                         *)
(* An entity, and a row, is a record of its key, status and paid; every    *)
(* statement can fail, before or after it took effect.                     *)
(***************************************************************************)
EXTENDS ConnPool, RefundOrder

CONSTANTS
  TradeNos,    \* keys of the table payment_orders
  RefundNos,   \* keys of the table refund_orders
  None         \* no row, no entity, no statement

ASSUME KeysAssumption == TradeNos \cap RefundNos = {}

Keys == TradeNos \cup RefundNos

Entity == [key : TradeNos, status : PaymentStatus, paid : BOOLEAN]
          \cup [key : RefundNos, status : RefundStatus, paid : BOOLEAN]

VARIABLES
  rows,        \* the two tables
  stmt,        \* the statement that each request waits to run
  ent,         \* the entity in each request's memory
  unclaimed,   \* history: how often an order came to a status, less how often
               \* a caller was told that it moved the order out of it
  forced       \* history: the orders that UpdateStatus moved out of SUCCESS

history     == <<unclaimed, forced>>
service     == <<rows, stmt, ent, history>>
serviceVars == <<vars, service>>

\* SELECT, INSERT, UPDATE of an entity, and UPDATE of a status alone.
Statement ==
  [do : {"find"}, key : Keys]
  \cup [do : {"save", "update"}, key : Keys]
  \cup [do : {"updateStatus"}, key : TradeNos, old : PaymentStatus, new : PaymentStatus]

ASSUME NoneAssumption == None \notin Entity /\ None \notin Statement

ServiceInit ==
  /\ Init
  /\ rows = [k \in Keys |-> None]
  /\ stmt = [r \in Requests |-> None]
  /\ ent = [r \in Requests |-> None]
  /\ unclaimed = [t \in TradeNos |-> [s \in PaymentStatus |-> 0]]
  /\ forced = {}

-----------------------------------------------------------------------------
(* The repositories                                                        *)

\* A new entity, as CreatePayOrder builds it.  (Nothing builds a refund; its
\* callers are taken to begin with the same status.)
Fresh(k) == [key |-> k, status |-> StatusInit, paid |-> FALSE]

SaveRow(order) == rows' = [rows EXCEPT ![order.key] = order]

\* History: a write of the whole row may bring an order to another status.
Arrives(entity) ==
  /\ LET k == entity.key
         s == entity.status
     IN  unclaimed' =
           IF k \in TradeNos /\ (rows[k] = None \/ rows[k].status # s)
           THEN [unclaimed EXCEPT ![k][s] = @ + 1]
           ELSE unclaimed
  /\ UNCHANGED forced

\* Variant of UpdateRow: columns without a value are left out of the UPDATE.
UpdateSetColumns(entity) ==
  rows' = [rows EXCEPT ![entity.key] =
             [@ EXCEPT !.status = entity.status, !.paid = entity.paid \/ @]]

\* Update of either repository: the mutable columns, WHERE the key alone.
UpdateRow(entity) == rows' = [rows EXCEPT ![entity.key] = entity]

\* Variant of UpdateStatus: the old status is not compared.
UpdateStatusUnconditionally(k, old, new) ==
  rows[k] # None /\ rows' = [rows EXCEPT ![k].status = new]

\* UpdateStatus where one row is affected: WHERE trade_no and the old status.
UpdateStatus(k, old, new) ==
  /\ rows[k] # None
  /\ rows[k].status = old
  /\ rows' = [rows EXCEPT ![k].status = new]

-----------------------------------------------------------------------------
(* The callers                                                             *)

\* A caller asks for a connection to run a statement on.
Run(r, s) ==
  /\ Ask(r)
  /\ stmt' = [stmt EXCEPT ![r] = s]

\* GetPaymentOrder, GetRefundOrder
Get(r, k) ==
  /\ ent[r] = None
  /\ Run(r, [do |-> "find", key |-> k])
  /\ UNCHANGED <<rows, ent, history>>

\* CreatePaymentOrder, CreateRefundOrder: a new entity under an unused key.
CreateOrder(r, k) ==
  /\ ent[r] = None
  /\ rows[k] = None
  /\ Run(r, [do |-> "save", key |-> k])
  /\ UNCHANGED <<rows, ent, history>>

\* MarkPaymentSuccess, MarkPaymentFailed, ClosePaymentOrder and their like
\* for refunds: the entity changes first.  When it refuses nothing is run, and
\* its caller gives it up.
Mark(r, can, changed) ==
  /\ step[r] = "idle"
  /\ \/ /\ can
        /\ Run(r, [do |-> "update", key |-> ent[r].key])
        /\ ent' = [ent EXCEPT ![r] = changed]
     \/ /\ ~can
        /\ ent' = [ent EXCEPT ![r] = None]
        /\ UNCHANGED <<vars, stmt>>
  /\ UNCHANGED <<rows, history>>

MarkOrder(r) ==
  /\ ent[r] # None
  /\ ent[r].key \in TradeNos
  /\ \/ Mark(r, CanSucceed(ent[r]), Success(ent[r]))
     \/ Mark(r, CanFail(ent[r]), Fail(ent[r]))
     \/ Mark(r, CanClose(ent[r]), Close(ent[r]))

MarkRefund(r) ==
  /\ ent[r] # None
  /\ ent[r].key \in RefundNos
  /\ \/ Mark(r, CanBeSent(ent[r]), RefundToProcessing(ent[r]))
     \/ Mark(r, IsSent(ent[r]), RefundSuccess(ent[r]))
     \/ Mark(r, IsSent(ent[r]), RefundFail(ent[r]))

\* Any statuses: whether the order's CanChangeTo has the move is not asked.
UpdatePaymentStatus(r, t, old, new) ==
  /\ ent[r] = None
  /\ Run(r, [do |-> "updateStatus", key |-> t, old |-> old, new |-> new])
  /\ UNCHANGED <<rows, ent, history>>

-----------------------------------------------------------------------------
(* The results of the statements                                           *)

\* A statement's caller goes on with an entity, or with none.
Keep(r, entity) ==
  /\ ent' = [ent EXCEPT ![r] = entity]
  /\ stmt' = [stmt EXCEPT ![r] = None]

Find(r) ==
  /\ stmt[r].do = "find"
  /\ \/ Keep(r, rows[stmt[r].key])
     \/ Keep(r, None)
  /\ UNCHANGED <<rows, history>>

\* INSERT, which the unique key may refuse by now.
Save(r) ==
  /\ stmt[r].do = "save"
  /\ LET order == Fresh(stmt[r].key)
     IN  \/ rows[order.key] = None /\ SaveRow(order) /\ Arrives(order)
         \/ UNCHANGED <<rows, history>>
  /\ Keep(r, None)

Update(r) ==
  /\ stmt[r].do = "update"
  /\ \/ UpdateRow(ent[r]) /\ Arrives(ent[r])
     \/ UNCHANGED <<rows, history>>
  /\ Keep(r, None)

\* The caller is told that the row was its own to move, or is refused, or
\* gets an error whether the row was moved or not.
MoveStatus(r) ==
  /\ stmt[r].do = "updateStatus"
  /\ LET t == stmt[r].key
         old == stmt[r].old
         new == stmt[r].new
     IN  \/ /\ UpdateStatus(t, old, new)
            /\ \E told \in {0, 1} :
                 unclaimed' = [unclaimed EXCEPT ![t][new] = @ + 1, ![t][old] = @ - told]
            /\ forced' = IF old = StatusSuccess THEN forced \cup {t} ELSE forced
         \/ UNCHANGED <<rows, history>>
  /\ Keep(r, None)

Return(r) ==
  /\ Done(r)
  /\ Find(r) \/ Save(r) \/ Update(r) \/ MoveStatus(r)

-----------------------------------------------------------------------------
(* CreatePayOrder                                                          *)

\* Save on the second connection: the row is inserted, or not, or is although
\* Save reports an error.
SaveOrder(r) ==
  /\ SaveEnd(r)
  /\ \/ \E t \in TradeNos :
          /\ rows[t] = None
          /\ SaveRow(Fresh(t))
          /\ Arrives(Fresh(t))
          /\ ent' \in {ent, [ent EXCEPT ![r] = Fresh(t)]}
     \/ UNCHANGED <<rows, ent, history>>
  /\ UNCHANGED stmt

\* Only an order that was saved, in a transaction that committed, goes on.
CommitOrder(r) ==
  /\ Commit(r)
  /\ step'[r] = "pay" => ent[r] # None
  /\ ent' = IF step'[r] = "pay" THEN ent ELSE [ent EXCEPT ![r] = None]
  /\ UNCHANGED <<rows, stmt, history>>

\* PaymentOrder's ToProcessing, for an entity without payment information.
Sent(order) ==
  IF order.status = StatusInit
  THEN [order EXCEPT !.status = StatusProcessing]
  ELSE order

\* The gateway has answered: the entity of the beginning, sent by now, is to be
\* written over whatever the row holds.  Or the gateway failed.
PayOrder(r) ==
  /\ \/ /\ Pay(r)
        /\ ent' = [ent EXCEPT ![r] = Sent(@)]
        /\ stmt' = [stmt EXCEPT ![r] = [do |-> "update", key |-> ent[r].key]]
     \/ /\ PayFails(r)
        /\ ent' = [ent EXCEPT ![r] = None]
        /\ UNCHANGED stmt
  /\ UNCHANGED <<rows, history>>

-----------------------------------------------------------------------------
CreatorStep(r) ==
  \/ (Arrive(r) \/ Begin(r) \/ SaveBegin(r) \/ GiveUp(r)) /\ UNCHANGED service
  \/ SaveOrder(r)
  \/ CommitOrder(r)
  \/ PayOrder(r)

CallerStep(r) ==
  \/ \E k \in Keys : Get(r, k) \/ CreateOrder(r, k)
  \/ MarkOrder(r)
  \/ MarkRefund(r)
  \/ \E t \in TradeNos, old, new \in PaymentStatus :
       UpdatePaymentStatus(r, t, old, new)

ServiceNext ==
  \/ \E r \in Creators : CreatorStep(r)
  \/ \E r \in Others : CallerStep(r)
  \/ \E r \in Requests : Return(r) \/ (Use(r) /\ UNCHANGED service)

ServiceSpec == ServiceInit /\ [][ServiceNext]_serviceVars

\* The pool's fairness: the database answers and connections come round.
ServiceFairSpec == ServiceSpec /\ Fairness

-----------------------------------------------------------------------------
\* Every variable stays in its type: rows and entities are of their table's
\* aggregate, a statement is there while its request waits for it or runs it,
\* and no more connections are open than the pool may have.
ServiceTypeOK ==
  /\ TypeOK
  /\ \A k \in Keys : rows[k] # None => rows[k] \in Entity /\ rows[k].key = k
  /\ \A r \in Requests :
       /\ ent[r] \in Entity \cup {None}
       /\ stmt[r] \in Statement \cup {None}
       /\ stmt[r] # None <=> step[r] \in {"wait", "use"}
  /\ unclaimed \in [TradeNos -> [PaymentStatus -> Int]]
  /\ forced \subseteq TradeNos

\* However many try to move an order out of one status by UpdatePaymentStatus,
\* at most one is told that it did for each time that the order came there
\* (the comment at gorm_order_repo.go:70 calls it an optimistic lock).  An
\* order may come to a status again: creations, whose UPDATE to PROCESSING is
\* unconditional, and stale entities overwrite rows that were moved on.
OneWinner ==
  \A t \in TradeNos : \A s \in PaymentStatus : unclaimed[t][s] >= 0

\* An order that has a payment time is SUCCESS, whatever stale entities are
\* written over it and whichever way its status is moved, unless a caller
\* moved it out of SUCCESS, which UpdateStatus does not refuse and after which
\* the payment time stays.  (An order that UpdateStatus moved to SUCCESS has
\* none.)
PaidIsSuccess ==
  \A t \in TradeNos :
    rows[t] # None /\ rows[t].paid => rows[t].status = StatusSuccess \/ t \in forced

\* A refund has its success_at exactly while it is SUCCESS, although nothing
\* keeps a stale entity from being written over the row.
RefundIsStamped ==
  \A n \in RefundNos :
    rows[n] # None => (rows[n].paid <=> rows[n].status = StatusSuccess)
=============================================================================
