----------------------------- MODULE Workspace ------------------------------
(***************************************************************************)
(* What transactions that share one workspace promise: all changes belong  *)
(* to one of them, the writer.  When it commits, what is seen becomes the  *)
(* database, when it is rolled back, the database is what is seen again;   *)
(* the end of another one changes nothing.  Outside transactions what is   *)
(* seen and the database are one.                                          *)
(***************************************************************************)
CONSTANTS
    Txn, NoTxn,
    Base,           \* pages
    Data            \* what a page may hold

VARIABLES
    db,             \* the content of every page without what is not committed
    view,           \* the content of every page as statements see it
    state,          \* of each transaction
    writer          \* the transaction the changes belong to

vars == <<db, view, state, writer>>

Active == {t \in Txn : state[t] = "active"}

Init ==
    /\ db \in [Base -> Data] /\ view = db
    /\ state = [t \in Txn |-> "none"]
    /\ writer = NoTxn

Begin(t) ==
    /\ state[t] = "none"
    /\ state' = [state EXCEPT ![t] = "active"]
    /\ UNCHANGED <<db, view, writer>>

Change == \E p \in Base, d \in Data : view' = [view EXCEPT ![p] = d]

Write(t) ==
    /\ t \in Active /\ writer \in {NoTxn, t}
    /\ Change
    /\ writer' = t
    /\ UNCHANGED <<db, state>>

WriteOutside == Active = {} /\ Change /\ db' = view' /\ UNCHANGED <<state, writer>>

End(t, how) ==
    /\ t \in Active
    /\ state' = [state EXCEPT ![t] = how]
    /\ writer' = IF t = writer THEN NoTxn ELSE writer

Commit(t) ==
    /\ End(t, "committed")
    /\ db' = IF t = writer THEN view ELSE db
    /\ UNCHANGED view

Rollback(t) ==
    /\ End(t, "aborted")
    /\ view' = IF t = writer THEN db ELSE view
    /\ UNCHANGED db

Next == WriteOutside \/ \E t \in Txn : Begin(t) \/ Write(t) \/ Commit(t) \/ Rollback(t)

Spec == Init /\ [][Next]_vars
=============================================================================
