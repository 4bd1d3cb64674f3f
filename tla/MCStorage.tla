----------------------------- MODULE MCStorage -----------------------------
(***************************************************************************)
(* Small instances of Storage.                                             *)
(***************************************************************************)
EXTENDS Storage, TLC

\* Rows and tables are interchangeable.
RowAndTableSymmetry == Permutations(Row) \cup Permutations(Table)
RowSymmetry == Permutations(Row)
=============================================================================
