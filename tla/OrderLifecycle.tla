--------------------------- MODULE OrderLifecycle ---------------------------
(***************************************************************************)
(* What a payment order promises the merchant, without locks, rows or      *)
(* requests: its status moves only along the entity's transition table     *)
(* (entity.go, CanChangeTo), so that SUCCESS, FAILED and CLOSED are final, *)
(* and the merchant's notification is queued once, after the success.      *)
(***************************************************************************)
EXTENDS PaymentOrder, Integers

CONSTANTS
  TradeNos,   \* the orders there may be
  MaxSends    \* entries that one queued notification may leave, at least 1

VARIABLES
  status,     \* of each order, Absent before it is created
  notified    \* entries of the notification queue about each order

vars == <<status, notified>>

Absent == "ABSENT"

Init ==
  /\ status = [t \in TradeNos |-> Absent]
  /\ notified = [t \in TradeNos |-> 0]

\* CreatePayOrder saves the order.
Create(t) ==
  /\ status[t] = Absent
  /\ status' = [status EXCEPT ![t] = StatusInit]
  /\ UNCHANGED notified

\* The order is sent to the channel, paid, or closed.
Change(t, to) ==
  /\ CanChangeTo(status[t], to)
  /\ status' = [status EXCEPT ![t] = to]
  /\ UNCHANGED notified

\* The successful order is put on the notification queue.
Notify(t) ==
  /\ status[t] = StatusSuccess
  /\ notified[t] = 0
  /\ \E n \in 1 .. MaxSends : notified' = [notified EXCEPT ![t] = n]
  /\ UNCHANGED status

Next ==
  \E t \in TradeNos :
    \/ Create(t)
    \/ \E to \in PaymentStatus : Change(t, to)
    \/ Notify(t)

Spec == Init /\ [][Next]_vars
=============================================================================
