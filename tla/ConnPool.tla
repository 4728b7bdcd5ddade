------------------------------ MODULE ConnPool ------------------------------
(***************************************************************************)
(* The database connections of CreatePayOrder.  WithTransactionV2 begins a *)
(* transaction on a connection of the pool and runs the callback, which    *)
(* does not use it: orderRepo.Save goes to the pool for a second one and   *)
(* begins a transaction of its own there.  So a creation waits for a       *)
(* connection while it holds one.  All other statements, the UPDATE at the *)
(* end of a creation among them, take one connection at a time.  Nothing   *)
(* keeps creations from being as many as the connections.                  *)
(*                                                                         *)
(* database/sql hands a returned connection to any one of the waiting      *)
(* requests.  It waits without a limit for the outer transaction, which    *)
(* has no context, and until the client goes away for the inner one.       *)
(***************************************************************************)
EXTENDS Integers, FiniteSets

CONSTANTS
  Creators,   \* requests that run CreatePayOrder
  Others,     \* requests that take one connection at a time
  MaxOpen     \* SetMaxOpenConns

ASSUME PoolAssumption ==
  /\ IsFiniteSet(Creators)
  /\ IsFiniteSet(Others)
  /\ Creators \cap Others = {}
  /\ MaxOpen \in Nat \ {0}

Requests == Creators \cup Others

VARIABLES
  step,   \* what each request does next
  held    \* how many connections it holds

vars == <<step, held>>

CreatorSteps ==
  {"idle", "begin", "save", "insert", "commit", "pay", "wait", "use"}

OtherSteps == {"idle", "wait", "use"}

Init ==
  /\ step = [r \in Requests |-> "idle"]
  /\ held = [r \in Requests |-> 0]

\* Connections in use; no request holds more than two.
InUse == Cardinality({r \in Requests : held[r] >= 1})
         + Cardinality({r \in Requests : held[r] = 2})

Move(r, from, to) ==
  /\ step[r] = from
  /\ step' = [step EXCEPT ![r] = to]

\* Variant of Take: a pool without SetMaxOpenConns.
TakeUnlimited(r) == held' = [held EXCEPT ![r] = @ + 1]

Take(r) ==
  /\ InUse < MaxOpen
  /\ held' = [held EXCEPT ![r] = @ + 1]

GiveBack(r) == held' = [held EXCEPT ![r] = @ - 1]

-----------------------------------------------------------------------------
(* CreatePayOrder                                                          *)

Arrive(r) == Move(r, "idle", "begin") /\ UNCHANGED held

\* BEGIN of the outer transaction.
Begin(r) == Move(r, "begin", "save") /\ Take(r)

\* BEGIN of the inner transaction of Save.
SaveBegin(r) == Move(r, "save", "insert") /\ Take(r)

\* INSERT and COMMIT, or ROLLBACK, of the inner transaction.
SaveEnd(r) == Move(r, "insert", "commit") /\ GiveBack(r)

\* Variant of Commit: the transaction is left open.
CommitForgotten(r) ==
  /\ Move(r, "commit", "pay") \/ Move(r, "commit", "idle")
  /\ UNCHANGED held

\* COMMIT of the outer transaction and on to the gateway, or ROLLBACK when
\* Save failed, or an error of either.
Commit(r) ==
  /\ Move(r, "commit", "pay") \/ Move(r, "commit", "idle")
  /\ GiveBack(r)

\* The client gives up while Save waits, and the outer transaction is rolled
\* back.
GiveUp(r) == Move(r, "save", "idle") /\ GiveBack(r)

\* The gateway's call holds no connection.  Its success is written to the
\* order, by one more statement, and its error is not.
Pay(r) == Move(r, "pay", "wait") /\ UNCHANGED held

PayFails(r) == Move(r, "pay", "idle") /\ UNCHANGED held

(* Any other use of the database.                                          *)

Ask(r)  == Move(r, "idle", "wait") /\ UNCHANGED held

Use(r)  == Move(r, "wait", "use") /\ Take(r)

Done(r) == Move(r, "use", "idle") /\ GiveBack(r)

-----------------------------------------------------------------------------
Next ==
  \/ \E r \in Creators : \/ Arrive(r)
                         \/ Begin(r)
                         \/ SaveBegin(r)
                         \/ SaveEnd(r)
                         \/ Commit(r)
                         \/ GiveUp(r)
                         \/ Pay(r)
                         \/ PayFails(r)
  \/ \E r \in Others : Ask(r)
  \/ \E r \in Requests : Use(r) \/ Done(r)

Spec == Init /\ [][Next]_vars

\* The database answers, and a request that waits is given a connection if
\* connections are returned again and again.  Clients need not give up, and
\* the gateway need not answer.
Fairness ==
  \A r \in Requests : /\ SF_vars(Begin(r) \/ SaveBegin(r) \/ Use(r))
                     /\ WF_vars(SaveEnd(r) \/ Commit(r) \/ Done(r))

FairSpec == Spec /\ Fairness

-----------------------------------------------------------------------------
\* Requests hold what their step says, and never more than the pool has.
TypeOK ==
  /\ step \in [Requests -> CreatorSteps \cup OtherSteps]
  /\ held \in [Requests -> 0 .. 2]
  /\ InUse <= MaxOpen

Waiting(r) == step[r] \in {"begin", "save", "wait"}

\* A request that will return a connection without needing another one.
Running(r) == held[r] > 0 /\ step[r] \in {"insert", "commit", "use"}

\* Creations that wait for their second connection hold the whole pool.
Jammed == Cardinality({r \in Creators : step[r] = "save"}) = MaxOpen

\* The requests never wait in a circle: when the pool is exhausted, some
\* request that holds a connection of it goes on.  The code does not keep
\* this (as many creations at a time as connections are enough).
NoCircularWait == InUse = MaxOpen => \E r \in Requests : Running(r)

\* There is no other way to exhaust the pool for good: no connection is lost
\* by an error, a rollback or a client that went away, and requests of other
\* kinds are never part of the circle.
OnlyCreationsJam == NoCircularWait \/ Jammed

\* Every request that waits for a connection is done with the database in the
\* end, or creations jam the pool: whoever waits is starved by nothing else,
\* even if no client ever gives up and no gateway answers.
EveryRequestEnds ==
  \A r \in Requests : Waiting(r) ~> (step[r] \in {"idle", "pay"} \/ Jammed)
=============================================================================
