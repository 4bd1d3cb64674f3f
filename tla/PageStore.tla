----------------------------- MODULE PageStore -----------------------------
(***************************************************************************)
(* What a buffer pool promises to the code above it, without a cache: the  *)
(* pages have one content, a read answers it, and a crash falls back to    *)
(* the durable contents, which trail behind until a flush has returned.    *)
(***************************************************************************)
CONSTANTS
    Thread,         \* callers
    Page,           \* page identifiers
    Data            \* contents of a page

VARIABLES
    store,          \* store[p]: the content of page p
    durable,        \* durable[p]: the content a crash falls back to
    replies         \* replies[t]: what the last call of t returned

storeVars == <<store, durable, replies>>

NoReply == [op |-> "none"]
ReadReply(p, d) == [op |-> "read", page |-> p, data |-> d]
WriteReply(p) == [op |-> "write", page |-> p]
FlushReply == [op |-> "flush"]
ErrorReply == [op |-> "error"]

StoreInit ==
    /\ durable \in [Page -> Data]
    /\ store = durable
    /\ replies = [t \in Thread |-> NoReply]

StoreRead(t, p) ==
    /\ replies' = [replies EXCEPT ![t] = ReadReply(p, store[p])]
    /\ UNCHANGED <<store, durable>>

StoreWrite(t, p, d) ==
    /\ store' = [store EXCEPT ![p] = d]
    /\ replies' = [replies EXCEPT ![t] = WriteReply(p)]
    /\ UNCHANGED durable

\* A flush has returned: what was written before it survives a crash.
StoreFlush(t) ==
    /\ durable = store
    /\ replies' = [replies EXCEPT ![t] = FlushReply]
    /\ UNCHANGED <<store, durable>>

\* A call fails and leaves everything as it is.
StoreFail(t) ==
    /\ replies' = [replies EXCEPT ![t] = ErrorReply]
    /\ UNCHANGED <<store, durable>>

\* Any page may become durable at any time.
StoreSave(p) ==
    /\ durable' = [durable EXCEPT ![p] = store[p]]
    /\ UNCHANGED <<store, replies>>

StoreCrash ==
    /\ store' = durable
    /\ replies' = [t \in Thread |-> NoReply]
    /\ UNCHANGED durable

StoreNext ==
    \/ \E t \in Thread :
        \/ \E p \in Page : StoreRead(t, p) \/ \E d \in Data : StoreWrite(t, p, d)
        \/ StoreFlush(t) \/ StoreFail(t)
    \/ \E p \in Page : StoreSave(p)
    \/ StoreCrash

StoreSpec == StoreInit /\ [][StoreNext]_storeVars
=============================================================================
