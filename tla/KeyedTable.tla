----------------------------- MODULE KeyedTable -----------------------------
(***************************************************************************)
(* What a table with a primary key promises to whoever runs INSERT, UPDATE *)
(* and DELETE on it: a set of rows with distinct keys, a statement that    *)
(* handles rows one by one, and a refusal only for a key that is taken.    *)
(* The rows handled before a refusal or a failure stay handled.            *)
(***************************************************************************)
CONSTANT Row        \* records with a field key

VARIABLES
    rows,           \* the rows of the table
    doing,          \* kind of the statement in progress, or "idle"
    outcome         \* of the last one: "none" while it runs, "done", "refused", "failed"

vars == <<rows, doing, outcome>>

Taken(key) == \E row \in rows : row.key = key

Init ==
    /\ rows \in SUBSET Row
    /\ \A x, y \in rows : x.key = y.key => x = y
    /\ doing = "idle" /\ outcome = "none"

Start(kind) == doing = "idle" /\ doing' = kind /\ outcome' = "none" /\ UNCHANGED rows

\* The row a statement fails at is left alone.
End(how) == doing # "idle" /\ doing' = "idle" /\ outcome' = how /\ UNCHANGED rows

Insert(row) ==
    /\ doing = "insert"
    /\ ~ Taken(row.key)
    /\ rows' = rows \cup {row}
    /\ UNCHANGED <<doing, outcome>>

Change(old, new) ==
    /\ doing = "update"
    /\ new.key = old.key \/ ~ Taken(new.key)
    /\ rows' = (rows \ {old}) \cup {new}
    /\ UNCHANGED <<doing, outcome>>

Remove(row) ==
    /\ doing = "delete"
    /\ rows' = rows \ {row}
    /\ UNCHANGED <<doing, outcome>>

Refuse(key) == doing \in {"insert", "update"} /\ Taken(key) /\ End("refused")

Next ==
    \/ \E kind \in {"insert", "update", "delete"} : Start(kind)
    \/ End("done") \/ End("failed")
    \/ \E row \in Row : Insert(row) \/ Refuse(row.key)
    \/ \E row \in rows : Remove(row) \/ \E new \in Row : Change(row, new)

Spec == Init /\ [][Next]_vars
=============================================================================
