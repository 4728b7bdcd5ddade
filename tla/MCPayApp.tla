------------------------------ MODULE MCPayApp ------------------------------
(***************************************************************************)
(* PayApp for TLC: which confirmations arrive, and the symmetry of slots   *)
(* and trade numbers, which are interchangeable in every safety property.  *)
(***************************************************************************)
EXTENDS PayApp, TLC

MockCalls == [kind : {"mock"}, ref : TradeNos, amount : {0}]

AlipayCalls == [kind : {"alipay"}, ref : OutTradeNos, amount : Amounts]

WechatCalls == [kind : {"wechat"}, ref : OutTradeNos, amount : Amounts]

MockAndAlipayCalls == MockCalls \cup AlipayCalls

MockAndWechatCalls == MockCalls \cup WechatCalls

Symmetry == Permutations(Requests) \cup Permutations(TradeNos)
=============================================================================
