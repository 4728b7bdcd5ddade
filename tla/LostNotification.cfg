SPECIFICATION PersistentSpec
CONSTANTS
  Requests = {r1, r2}
  TradeNos = {t1}
  OutTradeNos = {o1}
  Merchants = {m1}
  Blank = {}
  Amounts = {28}
  MaxSends = 1
  LockMayLapse = FALSE
  EarlyExpiry = FALSE
  Calls <- MockCalls
  None = None
PROPERTIES
  PaidIsNotified
