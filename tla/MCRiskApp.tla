----------------------------- MODULE MCRiskApp -----------------------------
EXTENDS RiskApp

CONSTANTS T1, T2

MCTrades == {T1, T2}

\* A context that names another trade number, and one that names none.
MCTransactions ==
  { [trade |-> T1, amount |-> 3000000, trade_no |-> T2],
    [trade |-> T1, amount |-> 500000, trade_no |-> BlankTrade] }

\* One on either side of the score's range.
MCModelScores == {-1, 101}
=============================================================================
