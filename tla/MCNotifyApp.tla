---------------------------- MODULE MCNotifyApp ----------------------------
EXTENDS NotifyApp, TLC

Symmetry == Permutations(Servers) \cup Permutations(Orders)
=============================================================================
