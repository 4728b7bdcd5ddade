SPECIFICATION Spec
CONSTANTS
  Requests = {r1, r2}
  TradeNos = {t1}
  OutTradeNos = {o1}
  Merchants = {m1}
  Blank = {}
  Amounts = {28}
  MaxSends = 1
  LockMayLapse = FALSE
  EarlyExpiry = FALSE
  Calls <- WechatCalls
  None = None
INVARIANTS
  WebhookFindsOrder
