---------------------------- MODULE LockManager ----------------------------
(***************************************************************************)
(* Page locks of src/tinydb/concurrency/lock_manager.py.                   *)
(*                                                                         *)
(* One thread works for each transaction.  A critical section of           *)
(* LockManager._lock is one action; what the code does between two of them *)
(* (entering the wait of the condition variable, waking up, forgetting the *)
(* wait-for edges) is a step of its own, so that the other threads run in  *)
(* between.  Time is the action Expire.                                    *)
(*                                                                         *)
(* Finish is the end of TransactionManager.commit and rollback:            *)
(* release_all, then DeadlockDetector.clear_txn, under the manager's lock. *)
(* Transaction identifiers come from a counter and are never used again.   *)
(***************************************************************************)
EXTENDS Integers

CONSTANTS
    Txn,            \* transaction identifiers
    Page,           \* page identifiers
    Detector,       \* is there a deadlock_detector (the manager of
                    \* TransactionManager) or not (the one of BufferPool)
    EarlyRelease    \* may a transaction release locks before it finishes
                    \* (release, release_all, release_read_locks)

ASSUME ModesOfUse == Detector \in BOOLEAN /\ EarlyRelease \in BOOLEAN
ASSUME PagesExist == Page # {}

VARIABLES
    holders,        \* _holders: who holds which page, and how
    queue,          \* _wait_queue: the entries queued for each page
    before,         \* order of the deque: <<a, b>> when a was appended first
    waitFor,        \* _wait_for of the detector
    pc,             \* where the thread of a transaction is
    req,            \* arguments of the acquire it is in, or was in last
    edges,          \* holders whose edges a timed out acquire still removes
    pages           \* pages a release_all has still to release

vars == <<holders, queue, before, waitFor, pc, req, edges, pages>>

INSTANCE DeadlockDetector

Mode == {"S", "X"}
Entry == Txn \X Mode
Request == [page : Page, mode : Mode]

\* The thread is inside wait_for, or about to enter it.
Waiting == {"queued", "asleep", "notified", "expired"}
\* wait_for returned False; the call has still its cleaning to do.
TimedOut == {"timedout", "unqueued", "clearing"}
\* A release_all is going on.
Releasing == {"releasing", "finishing"}
Control == {"idle", "granted", "denied", "ended"} \cup Waiting \cup TimedOut \cup Releasing

-----------------------------------------------------------------------------
(* Lock table.                                                             *)

\* _COMPATIBILITY
Compatible(held, mode) == held = "S" /\ mode = "S"

Holders(p) == {t \in Txn : holders[p][t] # "none"}
Others(t, p) == Holders(p) \ {t}

\* Mutant: an upgrade that does not look at the other holders.
GrantableUpgrade(t, p, m) ==
    t \in Holders(p) \/ \A h \in Others(t, p) : Compatible(holders[p][h], m)

\* _try_acquire: a lock of t's own never stands in its way; an upgrade needs t
\* to be the only holder.
Grantable(t, p, m) == \A h \in Others(t, p) : Compatible(holders[p][h], m)

\* Mutant: the mode of the lock is forgotten.
GrantedFlag(t, p, m) == [holders EXCEPT ![p][t] = "held"]

\* The table once t was granted m: an exclusive lock is never downgraded.
Granted(t, p, m) == [holders EXCEPT ![p][t] = IF @ = "X" THEN @ ELSE m]

\* Mutants: the whole page is unlocked; the queue entries of t stay.
UnlockedPage(t, p) == [holders EXCEPT ![p] = [u \in Txn |-> "none"]]
EntriesKept(t, p) == queue[p]

\* The table and the order of the deque without t's own entries.
Unlocked(t, p) == [holders EXCEPT ![p][t] = "none"]
EntriesOfOthers(t, p) == {e \in queue[p] : e[1] # t}
OrderOfOthers(t, p) == {ab \in before[p] : ab[1][1] # t /\ ab[2][1] # t}

\* Mutant: only the head of the deque is notified, also when the page gets free.
NotifiedHead(t, p) ==
    {e \in EntriesOfOthers(t, p) : \A f \in EntriesOfOthers(t, p) : <<f, e>> \notin before[p]}

\* Entries whose condition a release by t notifies: all of them when the page
\* gets free, the head of the deque otherwise.
Notified(t, p) ==
    IF Others(t, p) = {}
    THEN EntriesOfOthers(t, p)
    ELSE {e \in EntriesOfOthers(t, p) : \A f \in EntriesOfOthers(t, p) : <<f, e>> \notin before[p]}

\* A notify reaches the thread that sleeps on the condition of the entry.  The
\* entries of requests that were granted stay queued: nobody sleeps on those.
Wakes(t, p, u) ==
    /\ pc[u] = "asleep"
    /\ req[u].page = p
    /\ <<u, req[u].mode>> \in Notified(t, p)

-----------------------------------------------------------------------------
Init ==
    /\ holders = [p \in Page |-> [t \in Txn |-> "none"]]
    /\ queue = [p \in Page |-> {}]
    /\ before = [p \in Page |-> {}]
    /\ waitFor = NoEdges
    /\ pc = [t \in Txn |-> "idle"]
    /\ req = [t \in Txn |-> CHOOSE r \in Request : TRUE]
    /\ edges = [t \in Txn |-> {}]
    /\ pages = [t \in Txn |-> {}]

(* acquire: its first critical section has three outcomes.                 *)

AcquireGranted(t, p, m) ==
    /\ pc[t] = "idle"
    /\ Grantable(t, p, m)
    /\ holders' = Granted(t, p, m)
    /\ UNCHANGED <<queue, before, waitFor, pc, req, edges, pages>>

\* The graph detect_cycle looks at.
WithRequest(t, p) == IF Detector THEN AddEdges(waitFor, t, Others(t, p)) ELSE waitFor

\* Mutant: the detector is asked before the edges are added.
ClosesCycleLate(t, p) == Detector /\ HasCycle(waitFor)

\* The detector is asked once the edges of the request are in the graph.
ClosesCycle(t, p) == Detector /\ HasCycle(WithRequest(t, p))

AcquireDeadlock(t, p, m) ==
    /\ pc[t] = "idle"
    /\ ~Grantable(t, p, m)
    /\ ClosesCycle(t, p)
    /\ waitFor' = RemoveEdges(waitFor, t, Others(t, p))
    /\ pc' = [pc EXCEPT ![t] = "denied"]
    /\ UNCHANGED <<holders, queue, before, req, edges, pages>>

AcquireQueued(t, p, m) ==
    /\ pc[t] = "idle"
    /\ ~Grantable(t, p, m)
    /\ ~ClosesCycle(t, p)
    /\ waitFor' = WithRequest(t, p)
    /\ queue' = [queue EXCEPT ![p] = @ \cup {<<t, m>>}]
    /\ before' = [before EXCEPT ![p] = @ \cup (queue[p] \X {<<t, m>>})]
    /\ req' = [req EXCEPT ![t] = [page |-> p, mode |-> m]]
    /\ pc' = [pc EXCEPT ![t] = "queued"]
    /\ UNCHANGED <<holders, edges, pages>>

\* The DeadlockError reaches the caller.
Raise(t) ==
    /\ pc[t] = "denied"
    /\ pc' = [pc EXCEPT ![t] = "idle"]
    /\ UNCHANGED <<holders, queue, before, waitFor, req, edges, pages>>

(* wait_for: the predicate is tried on entry and after every wake-up.      *)

Grant(t) ==
    /\ Grantable(t, req[t].page, req[t].mode)
    /\ holders' = Granted(t, req[t].page, req[t].mode)
    /\ pc' = [pc EXCEPT ![t] = "granted"]
    /\ UNCHANGED <<queue, before, waitFor, req, edges, pages>>

TryAgain(t) ==
    /\ pc[t] \in Waiting \ {"asleep"}
    /\ Grant(t)

GoToSleep(t) ==
    /\ pc[t] \in {"queued", "notified"}
    /\ ~Grantable(t, req[t].page, req[t].mode)
    /\ pc' = [pc EXCEPT ![t] = "asleep"]
    /\ UNCHANGED <<holders, queue, before, waitFor, req, edges, pages>>

\* Mutant: every wake-up starts the five seconds anew.
ExpireAsleep(t) ==
    /\ pc[t] = "asleep"
    /\ pc' = [pc EXCEPT ![t] = "expired"]
    /\ UNCHANGED <<holders, queue, before, waitFor, req, edges, pages>>

\* The deadline passes: the next try is the last one.
Expire(t) ==
    /\ pc[t] \in {"asleep", "notified"}
    /\ pc' = [pc EXCEPT ![t] = "expired"]
    /\ UNCHANGED <<holders, queue, before, waitFor, req, edges, pages>>

GiveUp(t) ==
    /\ pc[t] = "expired"
    /\ ~Grantable(t, req[t].page, req[t].mode)
    /\ pc' = [pc EXCEPT ![t] = "timedout"]
    /\ UNCHANGED <<holders, queue, before, waitFor, req, edges, pages>>

(* The rest of acquire.                                                    *)

\* Granted: the edges to the holders of now are removed, the entry stays.
ReturnTrue(t) ==
    /\ pc[t] = "granted"
    /\ waitFor' = IF Detector THEN RemoveEdges(waitFor, t, Others(t, req[t].page)) ELSE waitFor
    /\ pc' = [pc EXCEPT ![t] = "idle"]
    /\ UNCHANGED <<holders, queue, before, req, edges, pages>>

\* Timed out: first the entries leave the deque, under _lock ...
Dequeue(t) ==
    /\ pc[t] = "timedout"
    /\ queue' = [queue EXCEPT ![req[t].page] = EntriesOfOthers(t, req[t].page)]
    /\ before' = [before EXCEPT ![req[t].page] = OrderOfOthers(t, req[t].page)]
    /\ pc' = [pc EXCEPT ![t] = IF Detector THEN "unqueued" ELSE "idle"]
    /\ UNCHANGED <<holders, waitFor, req, edges, pages>>

\* ... then, without _lock, the holders are listed ...
ListHolders(t) ==
    /\ pc[t] = "unqueued"
    /\ edges' = [edges EXCEPT ![t] = Others(t, req[t].page)]
    /\ pc' = [pc EXCEPT ![t] = "clearing"]
    /\ UNCHANGED <<holders, queue, before, waitFor, req, pages>>

\* ... and their edges removed one by one.
ForgetEdge(t) ==
    /\ pc[t] = "clearing"
    /\ \E h \in edges[t] :
        /\ waitFor' = RemoveEdges(waitFor, t, {h})
        /\ edges' = [edges EXCEPT ![t] = @ \ {h}]
    /\ UNCHANGED <<holders, queue, before, pc, req, pages>>

ReturnFalse(t) ==
    /\ pc[t] = "clearing"
    /\ edges[t] = {}
    /\ pc' = [pc EXCEPT ![t] = "idle"]
    /\ UNCHANGED <<holders, queue, before, waitFor, req, edges, pages>>

(* upgrade, release, release_all, and the end of a transaction.            *)

Upgrade(t, p) ==
    /\ pc[t] = "idle"
    /\ Holders(p) = {t}
    /\ holders' = [holders EXCEPT ![p][t] = "X"]
    /\ UNCHANGED <<queue, before, waitFor, pc, req, edges, pages>>

ReleasePage(t, p) ==
    /\ holders' = Unlocked(t, p)
    /\ queue' = [queue EXCEPT ![p] = EntriesOfOthers(t, p)]
    /\ before' = [before EXCEPT ![p] = OrderOfOthers(t, p)]
    /\ pc' = [u \in Txn |-> IF Wakes(t, p, u) THEN "notified" ELSE pc[u]]
    /\ UNCHANGED <<waitFor, req, edges>>

Release(t, p) ==
    /\ EarlyRelease
    /\ pc[t] = "idle"
    /\ ReleasePage(t, p)
    /\ UNCHANGED pages

\* The pages of release_all are listed under _lock and released one by one.
StartReleaseAll(t, where) ==
    /\ pc[t] = "idle"
    /\ pages' = [pages EXCEPT ![t] = {p \in Page : t \in Holders(p)}]
    /\ pc' = [pc EXCEPT ![t] = where]
    /\ UNCHANGED <<holders, queue, before, waitFor, req, edges>>

ReleaseAll(t) ==
    /\ EarlyRelease
    /\ StartReleaseAll(t, "releasing")

\* commit and rollback run under TransactionManager._lock.
Finish(t) ==
    /\ Detector
    /\ \A u \in Txn : pc[u] # "finishing"
    /\ StartReleaseAll(t, "finishing")

ReleaseNext(t) ==
    /\ pc[t] \in Releasing
    /\ \E p \in pages[t] :
        /\ ReleasePage(t, p)
        /\ pages' = [pages EXCEPT ![t] = @ \ {p}]

EndReleaseAll(t) ==
    /\ pc[t] = "releasing"
    /\ pages[t] = {}
    /\ pc' = [pc EXCEPT ![t] = "idle"]
    /\ UNCHANGED <<holders, queue, before, waitFor, req, edges, pages>>

ClearTxn(t) ==
    /\ pc[t] = "finishing"
    /\ pages[t] = {}
    /\ waitFor' = Cleared(waitFor, t)
    /\ pc' = [pc EXCEPT ![t] = "ended"]
    /\ UNCHANGED <<holders, queue, before, req, edges, pages>>

-----------------------------------------------------------------------------
\* What a thread does because its caller asks for it ...
Call(t) ==
    \/ \E p \in Page, m \in Mode :
        \/ AcquireGranted(t, p, m)
        \/ AcquireDeadlock(t, p, m)
        \/ AcquireQueued(t, p, m)
    \/ \E p \in Page : Upgrade(t, p) \/ Release(t, p)
    \/ ReleaseAll(t)
    \/ Finish(t)

\* ... and what it does to come back from a call.
Continue(t) ==
    \/ TryAgain(t) \/ GoToSleep(t) \/ GiveUp(t)
    \/ ReturnTrue(t) \/ Raise(t)
    \/ Dequeue(t) \/ ListHolders(t) \/ ForgetEdge(t) \/ ReturnFalse(t)
    \/ ReleaseNext(t) \/ EndReleaseAll(t) \/ ClearTxn(t)

Terminated == (\A t \in Txn : pc[t] = "ended") /\ UNCHANGED vars

Next == (\E t \in Txn : Call(t) \/ Expire(t) \/ Continue(t)) \/ Terminated

Spec == Init /\ [][Next]_vars

\* The scheduler lets every thread run and time passes; callers owe nothing.
Fairness == \A t \in Txn : WF_vars(Continue(t)) /\ WF_vars(Expire(t))
FairSpec == Spec /\ Fairness

-----------------------------------------------------------------------------
TypeOK ==
    /\ holders \in [Page -> [Txn -> Mode \cup {"none"}]]
    /\ queue \in [Page -> SUBSET Entry]
    /\ before \in [Page -> SUBSET (Entry \X Entry)]
    /\ waitFor \in Graphs
    /\ pc \in [Txn -> Control]
    /\ req \in [Txn -> Request]
    /\ edges \in [Txn -> SUBSET Txn]
    /\ pages \in [Txn -> SUBSET Page]

\* An exclusive lock is never held together with any other lock on the page,
\* whatever acquire, wake-ups, upgrades and releases interleave
\* (_COMPATIBILITY, _try_acquire, _try_upgrade_locked).
MutualExclusion ==
    \A p \in Page : \A t \in Holders(p) :
        holders[p][t] = "X" => Holders(p) = {t}

\* Whenever _lock is free the wait-for graph has no cycle: acquire takes its
\* edges back before it raises DeadlockError, and no other step adds an edge.
WaitForAcyclic == ~HasCycle(waitFor)

\* Nobody sleeps for a page without holders: the release that frees a page
\* wakes every waiter, also one queued between its first try and its wait.
SleepersAreBlocked ==
    \A t \in Txn : pc[t] = "asleep" => Holders(req[t].page) # {}

\* A thread that waits has its entry in the deque of its page.
WaitersAreQueued ==
    \A t \in Txn : pc[t] \in Waiting => <<t, req[t].mode>> \in queue[req[t].page]

\* An entry belongs to a call that is waiting, or has just timed out, or it is
\* left over from a request whose lock is still held.
EntriesAreExplained ==
    \A p \in Page : \A e \in queue[p] :
        \/ pc[e[1]] \in Waiting \cup {"timedout"} /\ req[e[1]] = [page |-> p, mode |-> e[2]]
        \/ holders[p][e[1]] \in {"X", e[2]}

\* No entry is queued twice: the deque is a total order of its entries.
DequeIsOrdered ==
    \A p \in Page :
        /\ before[p] \subseteq queue[p] \X queue[p]
        /\ \A e, f \in queue[p] :
            <<e, f>> \in before[p] <=> e # f /\ <<f, e>> \notin before[p]

\* release finds in the deque whoever it may have to wake, and nobody twice,
\* although granted requests leave their entries behind.
QueueKnowsWaiters == WaitersAreQueued /\ EntriesAreExplained /\ DequeIsOrdered

\* A transaction that is outside acquire waits for nobody, but for one that is
\* about to be cleared: no edge outlives the call that added it.
IdleWaitsForNobody ==
    \A t \in Txn : pc[t] = "idle" =>
        \A h \in waitFor[t] : pc[h] = "finishing" /\ t \notin waitFor[h]

\* u's request cannot be granted because of a lock h holds.
Blocks(h, u) ==
    /\ h \in Others(u, req[u].page)
    /\ ~Compatible(holders[req[u].page][h], req[u].mode)

InAcquire(u) == pc[u] \in Waiting \cup TimedOut

\* DeadlockError is raised only for a circle of requests each of which is
\* blocked by a lock of the next transaction ("Raised when a deadlock is
\* detected", class DeadlockError).
DeadlockIsReal ==
    [][\A t \in Txn, p \in Page, m \in Mode :
        AcquireDeadlock(t, p, m) =>
            \E S \in SUBSET Txn :
                /\ \E h \in S \cap Others(t, p) : ~Compatible(holders[p][h], m)
                /\ \A u \in S \ {t} :
                    InAcquire(u) /\ \E h \in S \cup {t} : Blocks(h, u)]_vars

\* Every call of acquire comes back, granted or not: the time-out sees to it.
AcquireReturns == \A t \in Txn : pc[t] = "queued" ~> pc[t] = "idle"

-----------------------------------------------------------------------------
(* The lock table the manager implements.                                  *)

CallOf(t) ==
    IF pc[t] \in Waiting THEN [state |-> "asked", request |-> req[t]]
    ELSE IF pc[t] = "granted" THEN [state |-> "answered", granted |-> TRUE]
    ELSE IF pc[t] \in TimedOut THEN [state |-> "answered", granted |-> FALSE]
    ELSE [state |-> "none"]

Table == INSTANCE LockTable WITH locks <- holders, calls <- [t \in Txn |-> CallOf(t)]

\* The manager with its queue, wake-ups and time-outs is a lock table: a call
\* takes only the lock it asked for, at most once, and only without a conflict;
\* once it gave up it cannot be granted any more.
ImplementsLockTable == Table!TableSpec

-----------------------------------------------------------------------------
\* No thread sleeps while its request could be granted.
NoLostWakeup ==
    \A t \in Txn : pc[t] = "asleep" => ~Grantable(t, req[t].page, req[t].mode)

\* No circle of sleepers each of which is blocked by a lock of another one: a
\* deadlock is detected when its last request is queued.
DeadlocksAreDetected ==
    \A S \in (SUBSET {t \in Txn : pc[t] = "asleep"}) \ {{}} :
        \E u \in S : \A h \in S : ~Blocks(h, u)
=============================================================================
