--------------------------- MODULE MCTransactions ---------------------------
(***************************************************************************)
(* Small instances of Transactions.  Pages of one kind are interchangeable, *)
(* the numbers of transactions and the contents are not.                   *)
(***************************************************************************)
EXTENDS Transactions, TLC

PageSymmetry == Permutations(Base) \cup Permutations(Spare)
=============================================================================
