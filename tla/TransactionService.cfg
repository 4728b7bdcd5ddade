SPECIFICATION MCSpec
CONSTANTS
  Creators = {c1, c2}
  Others = {q1, q2}
  MaxOpen = 2
  TradeNos = {t1}
  RefundNos = {f1}
  None = None
  MaxUnclaimed = 2
INVARIANTS
  ServiceTypeOK
  OnlyCreationsJam
  OneWinner
  PaidIsSuccess
  RefundIsStamped
PROPERTIES
  EveryRequestEnds
