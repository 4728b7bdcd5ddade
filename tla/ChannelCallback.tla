-------------------------- MODULE ChannelCallback --------------------------
(***************************************************************************)
(* What a payment channel's notice becomes before it reaches PayApp:       *)
(* WechatCallbackHandler and AlipayCallbackHandler parse and validate it   *)
(* (infrastructure/channel_adapter), WebhookHandler decides on it and      *)
(* answers the channel (interfaces/webhooks/webhook_handler.go).           *)
(***************************************************************************)

\* A notice: whether it is of the channel's format, whether its signature is
\* the one computed for it, whether the key to compare with is configured,
\* and the verdicts it carries.
WechatNotice ==
  [channel : {"wechat"}, parses : BOOLEAN, signed : BOOLEAN, key : BOOLEAN,
   returnCode : {"SUCCESS", "FAIL"}, status : {"SUCCESS", "FAIL"}]

AlipayNotice ==
  [channel : {"alipay"}, parses : BOOLEAN, signed : BOOLEAN, key : BOOLEAN,
   status : {"TRADE_SUCCESS", "TRADE_FINISHED", "TRADE_CLOSED",
             "WAIT_BUYER_PAY"}]

Notice == WechatNotice \cup AlipayNotice

\* Without an API key WechatCallbackHandler compares nothing.
WechatSignatureHolds(n) == n.key => n.signed

\* Without its public key AlipayCallbackHandler can verify nothing.
AlipaySignatureHolds(n) == n.key /\ n.signed

\* Variant of WechatValidated: return_code, which says whether the notice
\* could be made at all, is not looked at.
WechatValidatedBySignature(n) == n.parses /\ WechatSignatureHolds(n)

WechatValidated(n) == /\ n.parses
                      /\ n.returnCode = "SUCCESS"
                      /\ WechatSignatureHolds(n)

AlipayValidated(n) == n.parses /\ AlipaySignatureHolds(n)

Validated(n) ==
  IF n.channel = "wechat" THEN WechatValidated(n) ELSE AlipayValidated(n)

\* Variant of ReportsPayment: result_code is not looked at.
ReportsDelivery(n) ==
  n.channel = "wechat" \/ n.status \in {"TRADE_SUCCESS", "TRADE_FINISHED"}

ReportsPayment(n) ==
  n.status \in IF n.channel = "wechat" THEN {"SUCCESS"}
               ELSE {"TRADE_SUCCESS", "TRADE_FINISHED"}

\* Is the notice handed to PayApp.
Processed(n) == Validated(n) /\ ReportsPayment(n)

\* The answer to the channel, given whether PayApp took the notice without
\* an error: only a "fail" makes the channel send it again.
AnswerTo(n, taken) ==
  IF Validated(n) /\ (ReportsPayment(n) => taken) THEN "success" ELSE "fail"
=============================================================================
