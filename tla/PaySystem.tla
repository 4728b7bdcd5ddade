----------------------------- MODULE PaySystem -----------------------------
(***************************************************************************)
(* The payment side, the notification side and whoever confirms payments   *)
(* together.  Payment and notification share the notify_stream only:       *)
(* PublishNotify of PayApp is the XADD of NotifyApp, and nothing flows     *)
(* back.  The pending scan is not wired, as in cmd/server/main.go.  The    *)
(* sender of a confirmation is answered by the webhook handler when the    *)
(* use case has returned, and repeats one that was not answered "success". *)
(***************************************************************************)
EXTENDS PayApp

CONSTANTS
  Servers,     \* server processes, each with one notification consumer
  BatchSize,   \* XREADGROUP COUNT
  InitMayFail  \* TRUE: XGROUP CREATE can fail when a server starts

ASSUME SystemAssumption ==
  /\ BatchSize \in Nat \ {0}
  /\ InitMayFail \in BOOLEAN

VARIABLES stream, group, cursor, pel, consumerPc, hand, batch, todo,
          posts, received,
          answer,   \* what each request's use case is about to return
          acked     \* the confirmations whose sender was told "success"

Notify == INSTANCE NotifyApp
            WITH Orders <- TradeNos, pc <- consumerPc, ScanWired <- FALSE,
                 ScanLimit <- 100, MaxPosts <- 0, MaxEntries <- 0

notifyVars == <<group, cursor, pel, consumerPc, hand, batch, todo, received>>

streamVars == <<stream, posts>>

answerVars == <<answer, acked>>

systemVars == <<vars, streamVars, notifyVars, answerVars>>

Answers == {"none", "ok", "error"}

SystemInit ==
  /\ Init
  /\ Notify!Init
  /\ answer = [r \in Requests |-> "none"]
  /\ acked = {}

-----------------------------------------------------------------------------
(* The use cases' results and the handlers' answers                        *)

\* Variant of Returns: errors are logged and dropped.
ReturnsNil(r, good) ==
  /\ answer' = [answer EXCEPT ![r] = IF pc'[r] = "Release" THEN "ok" ELSE @]
  /\ UNCHANGED acked

\* A use case that has come to its end returns an error, or nil if this step
\* was a good end.
Returns(r, good) ==
  /\ \/ answer' = [answer EXCEPT ![r] = IF pc'[r] = "Release" THEN "error" ELSE @]
     \/ /\ good
        /\ pc'[r] = "Release"
        /\ answer' = [answer EXCEPT ![r] = "ok"]
  /\ UNCHANGED acked

\* The lookup ends well when the order was already successful.
AlreadyPaid(r) ==
  /\ FindOrder(call[r]) # None
  /\ FindOrder(call[r]).status = StatusSuccess

Check(r) ==
  /\ \/ Find(r) /\ Returns(r, AlreadyPaid(r))
     \/ (CheckOrder(r) \/ UpdateClosed(r) \/ UpdateSuccess(r)) /\ Returns(r, FALSE)
  /\ UNCHANGED streamVars

\* The entries that PublishNotify adds about the order are XADDed.
Announce(r) ==
  /\ PublishNotify(r)
  /\ LET t == ent[r].tradeNo
         n == notified'[t] - notified[t]
     IN  /\ Notify!XAdd(t, TRUE, n)
         /\ Returns(r, n > 0)

\* The lock is released and the sender is answered, unless the answer is lost.
Answer(r) ==
  /\ Release(r)
  /\ answer' = [answer EXCEPT ![r] = "none"]
  /\ acked' \in {acked} \cup (IF answer[r] = "ok" THEN {acked \cup {call[r]}} ELSE {})
  /\ UNCHANGED streamVars

\* A request that ends with its process answers nobody.
Vanish(r) ==
  /\ Crash(r)
  /\ answer' = [answer EXCEPT ![r] = "none"]
  /\ UNCHANGED <<acked, streamVars>>

\* Steps that decide no answer.
Proceed ==
  /\ \/ \E r \in Requests : Create(r) \/ \E c \in Calls : Acquire(r, c)
     \/ \E k \in Keys : LockExpires(k)
     \/ \E t \in TradeNos : OrderExpires(t)
  /\ UNCHANGED <<answerVars, streamVars>>

PayStep ==
  /\ \/ \E r \in Requests : Check(r) \/ Announce(r) \/ Answer(r) \/ Vanish(r)
     \/ Proceed
  /\ UNCHANGED notifyVars

NotifyStep == Notify!Deliver /\ UNCHANGED <<vars, answerVars>>

SystemNext == PayStep \/ NotifyStep

SystemSpec == SystemInit /\ [][SystemNext]_systemVars

-----------------------------------------------------------------------------
\* What merchants are told is true and stays true: an order that a merchant
\* was told about is paid, although the consumer sends long after the handler
\* read the row and does not look at it again.
ToldIsPaid ==
  \A id \in received : StatusOf(stream[id].order) = StatusSuccess

\* However often a channel repeats a confirmation and whatever stops, at most
\* one POST about an order reaches its merchant for each copy that the Redis
\* client left of its one XADD.
ToldOnce ==
  \A t \in TradeNos :
    LET copies == {id \in DOMAIN stream : stream[id].order = t}
    IN  /\ Cardinality(copies) <= MaxSends
        /\ \A id \in copies : posts[id] <= 1

\* A sender that was answered "success", and so stops repeating itself, has
\* confirmed an order that is paid and stays so, whatever the calls in between
\* did and whoever else confirmed it.
AckedIsPaid ==
  \A c \in acked : FindOrder(c) # None /\ FindOrder(c).status = StatusSuccess
=============================================================================
