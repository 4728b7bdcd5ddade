SPECIFICATION TenureSpec
CONSTANTS
  Requests = {r1, r2}
  TradeNos = {t1, t2}
  OutTradeNos = {o1}
  Merchants = {m1}
  Blank = {m1}
  Amounts = {28}
  MaxSends = 1
  LockMayLapse = TRUE
  EarlyExpiry = FALSE
  Calls <- MockAndAlipayCalls
  None = None
SYMMETRY Symmetry
INVARIANTS
  TypeOK
  SuccessIsStamped
  ChargedAtChannel
  HolderKeepsKey
PROPERTIES
  NeverReopened
