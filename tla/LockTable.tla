----------------------------- MODULE LockTable -----------------------------
(***************************************************************************)
(* What the page locks of tinydb promise to their callers, without queues, *)
(* conditions, time-outs or a wait-for graph: a transaction asks for one   *)
(* lock at a time, gets it at one instant of the call or never, and an     *)
(* exclusive lock has the page for itself.                                 *)
(***************************************************************************)
CONSTANTS
    Txn,            \* transaction identifiers
    Page            \* page identifiers

VARIABLES
    locks,          \* locks[p][t]: "none", "S" or "X"
    calls           \* calls[t]: the answer its acquire has so far

tableVars == <<locks, calls>>

Modes == {"S", "X"}
Requests == [page : Page, mode : Modes]

\* No call, or one whose lock is still to be decided.
NoCall == [state |-> "none"]
Asked(r) == [state |-> "asked", request |-> r]
Answered(yes) == [state |-> "answered", granted |-> yes]

Conflict(p, t, m) ==
    \E u \in Txn \ {t} :
        \/ locks[p][u] = "X"
        \/ locks[p][u] = "S" /\ m = "X"

TableInit ==
    /\ locks = [p \in Page |-> [t \in Txn |-> "none"]]
    /\ calls = [t \in Txn |-> NoCall]

Take(t, p, m) ==
    /\ ~Conflict(p, t, m)
    /\ locks' = [locks EXCEPT ![p][t] = IF @ = "X" THEN @ ELSE m]

\* acquire that is granted at once, or an upgrade
TakeAtOnce(t) ==
    /\ calls[t] = NoCall
    /\ \E r \in Requests : Take(t, r.page, r.mode)
    /\ UNCHANGED calls

\* acquire that has to wait for a conflicting lock
Ask(t) ==
    /\ calls[t] = NoCall
    /\ \E r \in Requests :
        /\ Conflict(r.page, t, r.mode)
        /\ calls' = [calls EXCEPT ![t] = Asked(r)]
    /\ UNCHANGED locks

AnswerYes(t) ==
    /\ \E r \in Requests : calls[t] = Asked(r) /\ Take(t, r.page, r.mode)
    /\ calls' = [calls EXCEPT ![t] = Answered(TRUE)]

\* only a lock of another transaction is a reason to give up
AnswerNo(t) ==
    /\ \E r \in Requests : calls[t] = Asked(r) /\ Conflict(r.page, t, r.mode)
    /\ calls' = [calls EXCEPT ![t] = Answered(FALSE)]
    /\ UNCHANGED locks

Return(t) ==
    /\ \E yes \in BOOLEAN : calls[t] = Answered(yes)
    /\ calls' = [calls EXCEPT ![t] = NoCall]
    /\ UNCHANGED locks

\* One lock of t, outside a call of acquire.
Drop(t) ==
    /\ calls[t] = NoCall
    /\ \E p \in Page : locks' = [locks EXCEPT ![p][t] = "none"]
    /\ UNCHANGED calls

TableNext ==
    \E t \in Txn :
        TakeAtOnce(t) \/ Ask(t) \/ AnswerYes(t) \/ AnswerNo(t) \/ Return(t) \/ Drop(t)

TableSpec == TableInit /\ [][TableNext]_tableVars
=============================================================================
