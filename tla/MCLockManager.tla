--------------------------- MODULE MCLockManager ---------------------------
(***************************************************************************)
(* Small instances of LockManager.                                         *)
(***************************************************************************)
EXTENDS LockManager, TLC

\* Nothing in the lock manager tells two transactions or two pages apart.
TxnAndPageSymmetry == Permutations(Txn) \cup Permutations(Page)
=============================================================================
