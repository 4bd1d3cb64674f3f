--------------------------- MODULE MCDetectCycle ---------------------------
EXTENDS DetectCycle, TLC
TxnSymmetry == Permutations(Txn)
=============================================================================
