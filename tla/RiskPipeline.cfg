SPECIFICATION FairSpec
CONSTANTS
  Servers = {s1, s2}
  MilvusEnabled = TRUE
  WriteEnabled = TRUE
  TopK = 1
  MemoryLimit = 1
  T1 = T1
  T2 = T2
  Trades <- MCTrades
  Amounts = {500000, 3000000}
  Transactions <- MCTransactions
  ModelScores <- MCModelScores
  BlankTrade = BlankTrade
  NoReport = NoReport
  BatchSize = 2
  MaxLen = 1
  MaxEvents = 2
  InitMayFail = TRUE
INVARIANTS
  TypeOK
  ReportedAtMostOnce
  FiledUnderTrade
  PrecedentsAreThere
  CaseIsKept
PROPERTIES
  KeepsGroup
  EveryEventIsRead
