---------------------------- MODULE PaymentOrder ----------------------------
(***************************************************************************)
(* The payment order aggregate of internal/domain/transaction/entity.go:   *)
(* its status machine as operators on order records.                       *)
(*                                                                         *)
(* An order is any record with the fields status, paid (SuccessAt is set)  *)
(* and payInfo (PayURL and ChannelTradeNo are recorded).  A method of the  *)
(* entity that can refuse is a pair: CanXxx, its guard, and the new value, *)
(* which equals the old one when the guard is false (the method returns an *)
(* error and leaves the entity alone).                                     *)
(***************************************************************************)

StatusInit       == "INIT"
StatusProcessing == "PROCESSING"
StatusSuccess    == "SUCCESS"
StatusFailed     == "FAILED"
StatusClosed     == "CLOSED"

PaymentStatus ==
  {StatusInit, StatusProcessing, StatusSuccess, StatusFailed, StatusClosed}

\* Variant of CanSucceed: the rule as the design document words it, by which
\* an INIT order may succeed too.
CanSucceedFromInit(order) == order.status \in {StatusInit, StatusProcessing}

\* Success(): only a PROCESSING order succeeds, and SuccessAt is stamped.
CanSucceed(order) == order.status = StatusProcessing

Success(order) ==
  IF CanSucceed(order)
  THEN [order EXCEPT !.status = StatusSuccess, !.paid = TRUE]
  ELSE order

\* Fail(): an order that is neither INIT nor PROCESSING refuses.
CanFail(order) == order.status \in {StatusInit, StatusProcessing}

Fail(order) ==
  IF CanFail(order) THEN [order EXCEPT !.status = StatusFailed] ELSE order

\* Variant of Close: another word for the status.
Cancel(order) ==
  IF order.status # StatusSuccess
  THEN [order EXCEPT !.status = "CANCELLED"]
  ELSE order

\* Close(): everything but a successful order can be closed, again and again.
CanClose(order) == order.status # StatusSuccess

Close(order) ==
  IF CanClose(order) THEN [order EXCEPT !.status = StatusClosed] ELSE order

\* ToProcessing(): an INIT order records its pay URL and channel trade number.
ToProcessing(order) ==
  IF order.status = StatusInit
  THEN [order EXCEPT !.status = StatusProcessing, !.payInfo = TRUE]
  ELSE order

\* CanChangeTo(): the transition table that the entity declares one-way.
CanChangeTo(from, to) ==
  \/ /\ from = StatusInit
     /\ to \in {StatusProcessing, StatusClosed}
  \/ /\ from = StatusProcessing
     /\ to \in {StatusSuccess, StatusFailed, StatusClosed}
=============================================================================
