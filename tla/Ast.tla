-------------------------------- MODULE Ast ---------------------------------
(***************************************************************************)
(* The nodes of src/tinydb/sql/expressions.py and sql/ast.py that          *)
(* statements are made of.                                                 *)
(***************************************************************************)

CONSTANT None       \* an absent clause

Apply(op, args) == [op |-> op, args |-> args]
Column(table, name) == [table |-> table, name |-> name]
Lit(token) == [lit |-> token]
Aggregate(func, arg) == [func |-> func, arg |-> arg]
Star == [star |-> TRUE]
=============================================================================
