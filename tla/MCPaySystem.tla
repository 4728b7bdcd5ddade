---------------------------- MODULE MCPaySystem ----------------------------
EXTENDS PaySystem

MockAndWechatCalls == [kind : {"mock"}, ref : TradeNos, amount : {0}]
                      \cup [kind : {"wechat"}, ref : OutTradeNos, amount : Amounts]

\* The fairness of the payment side; the notification side needs none here.
SystemFairSpec == SystemSpec /\ Fairness
=============================================================================
