---------------------------- MODULE Expressions -----------------------------
(***************************************************************************)
(* The value of an expression over a row: src/tinydb/sql/expressions.py.   *)
(*                                                                         *)
(* A row is a function from names to values.  A name is the sequence of    *)
(* the prefixes a column got and its own name: <<"l", "k">> for l_k.       *)
(***************************************************************************)
EXTENDS Ast, Integers, Sequences

CONSTANTS
    Null,           \* SQL's NULL
    ValueOf,        \* the value of each literal
    Expression,     \* the expressions that are evaluated
    Size            \* how many nodes each of them has

\* Expressions are finite trees of literals, columns and operations.
Unary == {"NOT", "minus", "IS NULL", "IS NOT NULL"}
ExpressionsAreTrees ==
    \A e \in Expression :
        /\ Size[e] \in Nat
        /\ "op" \in DOMAIN e <=> {"lit", "name"} \cap DOMAIN e = {}
        /\ "op" \in DOMAIN e =>
            /\ DOMAIN e.args = IF e.op \in Unary THEN {1} ELSE {1, 2}
            /\ \A i \in DOMAIN e.args : e.args[i] \in Expression /\ Size[e.args[i]] < Size[e]
ASSUME ExpressionsAssumption == ExpressionsAreTrees

\* A condition over NULL is false, and its negation true.
Value(row, name) == IF name \in DOMAIN row THEN row[name] ELSE Null
ColumnValue(ref, row) ==
    IF ref.table # None /\ <<ref.table, ref.name>> \in DOMAIN row
    THEN row[<<ref.table, ref.name>>] ELSE Value(row, <<ref.name>>)

\* Python's truth of a value; its booleans are the numbers 0 and 1, and 0 also
\* stands for an empty text.
Truth(v) == v \notin {Null, 0}
Bit(b) == IF b THEN 1 ELSE 0
Known(a, b) == a # Null /\ b # Null
CompareEq(a, b) == Known(a, b) /\ a = b
CompareLt(a, b) == Known(a, b) /\ a < b
\* Mutant: "not greater" instead.
CompareNotGreater(a, b) == ~ CompareLt(b, a)
CompareLe(a, b) == Known(a, b) /\ a <= b

Operate(op, a, b) ==
    CASE op = "AND" -> Bit(Truth(a) /\ Truth(b))
      [] op = "OR" -> Bit(Truth(a) \/ Truth(b))
      [] op = "=" -> Bit(CompareEq(a, b))
      [] op \in {"!=", "<>"} -> Bit(~ CompareEq(a, b))
      [] op = "<" -> Bit(CompareLt(a, b))
      [] op = ">" -> Bit(CompareLt(b, a))
      [] op = "<=" -> Bit(CompareLe(a, b))
      [] op = ">=" -> Bit(CompareLe(b, a))
      [] op = "+" -> a + b
      [] op = "-" -> a - b
      [] op = "*" -> a * b          \* quotients are left out

Operated(op, values) ==
    CASE op = "NOT" -> Bit(~ Truth(values[1]))
      [] op = "minus" -> - values[1]
      [] op = "IS NULL" -> Bit(values[1] = Null)
      [] op = "IS NOT NULL" -> Bit(values[1] # Null)
      [] OTHER -> Operate(op, values[1], values[2])

Eval(expr, row) ==
    LET value[e \in Expression] ==
            IF "lit" \in DOMAIN e THEN ValueOf[e.lit]
            ELSE IF "name" \in DOMAIN e THEN ColumnValue(e, row)
            ELSE Operated(e.op, [i \in DOMAIN e.args |-> value[e.args[i]]])
    IN  value[expr]
=============================================================================
