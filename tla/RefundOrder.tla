---------------------------- MODULE RefundOrder ----------------------------
(***************************************************************************)
(* The refund aggregate of internal/domain/transaction/refund_entity.go,   *)
(* as PaymentOrder models the payment order: operators on records with the *)
(* fields status and paid (SuccessAt is set), which equal the record that  *)
(* they were given when the method returns an error.                       *)
(***************************************************************************)
EXTENDS PaymentOrder

RefundStatus == {StatusInit, StatusProcessing, StatusSuccess, StatusFailed}

\* The guards of ToProcessing(), and of Success() and Fail(): unlike an order,
\* a refund that was not sent to the channel cannot fail.
CanBeSent(refund) == refund.status = StatusInit

\* Variant of IsSent: a refund that has succeeded may be settled again.
IsSentOrDone(refund) == refund.status \in {StatusProcessing, StatusSuccess}

IsSent(refund) == refund.status = StatusProcessing

RefundSuccess(refund) ==
  IF IsSent(refund)
  THEN [refund EXCEPT !.status = StatusSuccess, !.paid = TRUE]
  ELSE refund

RefundFail(refund) ==
  IF IsSent(refund) THEN [refund EXCEPT !.status = StatusFailed] ELSE refund

\* RefundOrder.ToProcessing()
RefundToProcessing(refund) ==
  IF CanBeSent(refund)
  THEN [refund EXCEPT !.status = StatusProcessing]
  ELSE refund
=============================================================================
