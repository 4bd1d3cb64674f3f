------------------------------ MODULE SqlStore ------------------------------
(***************************************************************************)
(* What tinydb promises to the one session that uses a database: tables    *)
(* are sets of rows, a transaction is undone by ROLLBACK and by a crash,   *)
(* and COMMIT makes all of it durable at one instant.  What is changed     *)
(* outside a transaction becomes durable later, row by row.                *)
(***************************************************************************)
CONSTANTS
    Table,          \* names of tables
    Row,            \* rows, told apart by their values
    NoTable         \* "content" of a table that does not exist

VARIABLES
    current,        \* current[t]: the rows the session sees
    committed,      \* committed[t]: the rows without the open transaction
    durable,        \* durable[t]: the rows a crash falls back to
    open            \* is a transaction open

storeVars == <<current, committed, durable, open>>

Tables == [Table -> (SUBSET Row) \cup {NoTable}]

\* Only a transaction keeps its changes apart from the committed contents.
Becomes(t, rows) ==
    /\ current' = [current EXCEPT ![t] = rows]
    /\ committed' = IF open THEN committed ELSE current'
    /\ UNCHANGED <<durable, open>>

AddRow(t, r) ==
    /\ current[t] # NoTable
    /\ r \notin current[t]
    /\ Becomes(t, current[t] \cup {r})

RemoveRow(t, r) ==
    /\ current[t] # NoTable
    /\ r \in current[t]
    /\ Becomes(t, current[t] \ {r})

ReplaceRow(t, r, q) ==
    /\ current[t] # NoTable
    /\ r \in current[t] /\ q \notin current[t]
    /\ Becomes(t, (current[t] \ {r}) \cup {q})

Open ==
    /\ ~open
    /\ open' = TRUE
    /\ UNCHANGED <<current, committed, durable>>

\* All of the transaction is committed and durable, at once.
Commit ==
    /\ open
    /\ open' = FALSE
    /\ committed' = current
    /\ durable' = current
    /\ UNCHANGED current

\* ROLLBACK, and a statement that fails inside a transaction
Rollback ==
    /\ open
    /\ open' = FALSE
    /\ current' = committed
    /\ UNCHANGED <<committed, durable>>

\* DDL is not part of a transaction.
CreateTable(t) ==
    /\ current[t] = NoTable
    /\ current' = [current EXCEPT ![t] = {}]
    /\ committed' = [committed EXCEPT ![t] = {}]
    /\ durable' = [durable EXCEPT ![t] = {}]
    /\ UNCHANGED open

DropTable(t) ==
    /\ current[t] # NoTable
    /\ current' = [current EXCEPT ![t] = NoTable]
    /\ committed' = [committed EXCEPT ![t] = NoTable]
    /\ durable' = [durable EXCEPT ![t] = NoTable]
    /\ UNCHANGED open

\* A step of the durable content from old towards new: rows that both have
\* stay, and no other rows appear.
Towards(old, step, new) ==
    IF NoTable \in {old, step, new}
    THEN old = step
    ELSE old \cap new \subseteq step /\ step \subseteq old \cup new

\* Committed changes become durable, some sooner than others.
Save ==
    /\ durable' \in Tables
    /\ \A t \in Table : Towards(durable[t], durable'[t], committed[t])
    /\ UNCHANGED <<current, committed, open>>

\* The database is closed and opened again.
Reopen ==
    /\ durable = committed
    /\ current' = committed
    /\ open' = FALSE
    /\ UNCHANGED <<committed, durable>>

\* The process dies, and the database is opened again.
Crash ==
    /\ current' = durable
    /\ committed' = durable
    /\ open' = FALSE
    /\ UNCHANGED durable

StoreInit ==
    /\ durable \in [Table -> {{}, NoTable}]
    /\ committed = durable
    /\ current = durable
    /\ open = FALSE

StoreNext ==
    \/ \E t \in Table :
        \/ \E r \in Row : AddRow(t, r) \/ RemoveRow(t, r) \/ \E q \in Row : ReplaceRow(t, r, q)
        \/ CreateTable(t) \/ DropTable(t)
    \/ Open \/ Commit \/ Rollback \/ Save \/ Reopen \/ Crash

StoreSpec == StoreInit /\ [][StoreNext]_storeVars
=============================================================================
