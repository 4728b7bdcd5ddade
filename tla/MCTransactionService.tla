------------------------ MODULE MCTransactionService ------------------------
(***************************************************************************)
(* TransactionService for TLC.  A behaviour is a scene: some keys, the     *)
(* requests that take part and what the service's callers among them do.   *)
(* The two tables have nothing in common but the pool.                     *)
(***************************************************************************)
EXTENDS TransactionService

CONSTANT MaxUnclaimed   \* bound on how far the history unclaimed may rise

VARIABLE scene

Scenes ==
  \* creations that may jam the pool, beside one caller
  [keys : {TradeNos}, part : {Creators \cup {CHOOSE q \in Others : TRUE}},
   does : {{"find", "update", "updateStatus"}}]
  \* stale entities and moves of the status
  \cup [keys : {TradeNos, RefundNos}, part : {Others},
        does : {{"find", "save", "update", "updateStatus"}}]
  \* moves of the status beside a creation
  \cup [keys : {TradeNos}, part : {Others \cup {CHOOSE c \in Creators : TRUE}},
        does : {{"updateStatus"}}]

\* The moves that callers ask for: on, and out of SUCCESS.
Moves ==
  {<<StatusInit, StatusProcessing>>, <<StatusProcessing, StatusSuccess>>,
   <<StatusSuccess, StatusClosed>>}

MCInit == ServiceInit /\ scene \in Scenes

MCNext ==
  /\ ServiceNext
  /\ \A r \in Requests \ scene.part : step'[r] = "idle"
  /\ \A r \in Others : stmt'[r] # None =>
       /\ stmt'[r].key \in scene.keys
       /\ stmt'[r].do \in scene.does
       /\ stmt'[r].do = "updateStatus" => <<stmt'[r].old, stmt'[r].new>> \in Moves
  /\ \A t \in TradeNos : \A s \in PaymentStatus : unclaimed'[t][s] <= MaxUnclaimed
  /\ UNCHANGED scene

MCSpec == MCInit /\ [][MCNext]_<<serviceVars, scene>> /\ Fairness
=============================================================================
