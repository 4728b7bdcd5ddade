SPECIFICATION SystemFairSpec
CONSTANTS
  Requests = {r1, r2, r3}
  TradeNos = {t1}
  OutTradeNos = {o1}
  Merchants = {m1}
  Blank = {}
  Amounts = {28}
  MaxSends = 2
  LockMayLapse = FALSE
  EarlyExpiry = FALSE
  Calls <- MockAndWechatCalls
  None = None
  Servers = {s1, s2}
  BatchSize = 10
  InitMayFail = TRUE
INVARIANTS
  HolderIsAlone
  NotifiedOnceIfPaid
  ToldIsPaid
  ToldOnce
  AckedIsPaid
PROPERTIES
  KeepsLifecycle
  LockIsFreed
