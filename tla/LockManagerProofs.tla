------------------------- MODULE LockManagerProofs -------------------------
(***************************************************************************)
(* Proofs about LockManager, for any transactions and pages, with or       *)
(* without a deadlock detector, with or without early releases.            *)
(***************************************************************************)
EXTENDS LockManager, TLAPS

\* The steps that change neither the table nor the queues nor where a thread
\* waits need no word in the proofs below but for the variables they touch.
ThreadStep(t) ==
    \/ \E p \in Page, m \in Mode :
        AcquireGranted(t, p, m) \/ AcquireDeadlock(t, p, m) \/ AcquireQueued(t, p, m)
    \/ \E p \in Page : Upgrade(t, p) \/ Release(t, p)
    \/ TryAgain(t) \/ GoToSleep(t) \/ Expire(t) \/ GiveUp(t) \/ ReturnTrue(t) \/ Raise(t)
    \/ Dequeue(t) \/ ListHolders(t) \/ ForgetEdge(t) \/ ReturnFalse(t)
    \/ ReleaseAll(t) \/ Finish(t) \/ ReleaseNext(t) \/ EndReleaseAll(t) \/ ClearTxn(t)

\* Next is a step of one thread, or nothing changes.
LEMMA StepOfOneThread ==
    Next => (\E t \in Txn : ThreadStep(t)) \/ UNCHANGED vars
BY DEF Next, Call, Continue, Terminated, ThreadStep

-----------------------------------------------------------------------------
(* Types.                                                                  *)

\* TypeOK holds initially.
LEMMA InitTypeOK == Init => TypeOK
<1> SUFFICES ASSUME Init PROVE TypeOK
  OBVIOUS
<1>1. (CHOOSE r \in Request : TRUE) \in Request
  <2>1. PICK p \in Page : TRUE
    BY PagesExist
  <2>2. [page |-> p, mode |-> "S"] \in Request
    BY DEF Request, Mode
  <2> QED
    BY <2>2
<1> QED
  BY <1>1 DEF Init, TypeOK, Graphs, NoEdges, Control

\* What a release and a grant do to the types.
LEMMA ReleasePageType ==
    ASSUME TypeOK, NEW t \in Txn, NEW p \in Page, ReleasePage(t, p)
    PROVE  /\ holders' \in [Page -> [Txn -> Mode \cup {"none"}]]
           /\ queue' \in [Page -> SUBSET Entry]
           /\ before' \in [Page -> SUBSET (Entry \X Entry)]
           /\ pc' \in [Txn -> Control]
           /\ waitFor' = waitFor /\ req' = req /\ edges' = edges
<1>1. holders' \in [Page -> [Txn -> Mode \cup {"none"}]]
  BY DEF TypeOK, ReleasePage, Unlocked
<1>2. queue' \in [Page -> SUBSET Entry]
  BY DEF TypeOK, ReleasePage, EntriesOfOthers
<1>3. before' \in [Page -> SUBSET (Entry \X Entry)]
  BY DEF TypeOK, ReleasePage, OrderOfOthers
<1>4. pc' \in [Txn -> Control]
  BY DEF TypeOK, ReleasePage, Control, Waiting
<1> QED
  BY <1>1, <1>2, <1>3, <1>4 DEF ReleasePage

\* Every step of a thread keeps the types.
LEMMA StepTypeOK ==
    ASSUME TypeOK, NEW t \in Txn, ThreadStep(t)
    PROVE  TypeOK'
<1>1. CASE \E p \in Page, m \in Mode : AcquireGranted(t, p, m)
  BY <1>1 DEF AcquireGranted, Granted, TypeOK
<1>2. CASE \E p \in Page, m \in Mode : AcquireDeadlock(t, p, m)
  BY <1>2 DEF AcquireDeadlock, RemoveEdges, TypeOK, Graphs, Control
<1>3. CASE \E p \in Page, m \in Mode : AcquireQueued(t, p, m)
  <2> PICK p \in Page, m \in Mode : AcquireQueued(t, p, m)
    BY <1>3
  <2>1. waitFor' \in Graphs
    BY DEF AcquireQueued, WithRequest, AddEdges, Others, Holders, TypeOK, Graphs
  <2>2. queue' \in [Page -> SUBSET Entry]
    BY DEF AcquireQueued, TypeOK, Entry
  <2>3. before' \in [Page -> SUBSET (Entry \X Entry)]
    BY DEF AcquireQueued, TypeOK, Entry
  <2>4. req' \in [Txn -> Request] /\ pc' \in [Txn -> Control]
    BY DEF AcquireQueued, TypeOK, Request, Control, Waiting
  <2> QED
    BY <2>1, <2>2, <2>3, <2>4 DEF AcquireQueued, TypeOK
<1>4. CASE \E p \in Page : Upgrade(t, p)
  BY <1>4 DEF Upgrade, TypeOK, Mode
<1>5. CASE \E p \in Page : Release(t, p)
  BY <1>5, ReleasePageType DEF Release, TypeOK
<1>6. CASE TryAgain(t)
  BY <1>6 DEF TryAgain, Grant, Granted, TypeOK, Request, Control
<1>7. CASE GoToSleep(t) \/ Expire(t) \/ GiveUp(t) \/ ReturnFalse(t) \/ EndReleaseAll(t)
         \/ Raise(t)
  BY <1>7, SMTT(60) DEF GoToSleep, Expire, GiveUp, ReturnFalse, Raise, EndReleaseAll, TypeOK,
              Control, Waiting, TimedOut
<1>8. CASE ReturnTrue(t)
  BY <1>8 DEF ReturnTrue, RemoveEdges, TypeOK, Graphs, Control
<1>9. CASE Dequeue(t)
  <2>1. req[t].page \in Page
    BY DEF TypeOK, Request
  <2>2. queue' \in [Page -> SUBSET Entry] /\ before' \in [Page -> SUBSET (Entry \X Entry)]
    BY <1>9, <2>1 DEF Dequeue, EntriesOfOthers, OrderOfOthers, TypeOK
  <2> QED
    BY <1>9, <2>2 DEF Dequeue, TypeOK, Control, TimedOut
<1>10. CASE ListHolders(t)
  BY <1>10 DEF ListHolders, Others, Holders, TypeOK, Control, TimedOut
<1>11. CASE ForgetEdge(t)
  BY <1>11 DEF ForgetEdge, RemoveEdges, TypeOK, Graphs
<1>12. CASE ReleaseAll(t) \/ Finish(t)
  BY <1>12, SMTT(60) DEF ReleaseAll, Finish, StartReleaseAll, TypeOK, Control, Releasing
<1>13. CASE ReleaseNext(t)
  BY <1>13, ReleasePageType DEF ReleaseNext, TypeOK
<1>14. CASE ClearTxn(t)
  BY <1>14 DEF ClearTxn, Cleared, TypeOK, Graphs, Control
<1> QED
  BY <1>1, <1>2, <1>3, <1>4, <1>5, <1>6, <1>7, <1>8, <1>9, <1>10, <1>11, <1>12,
     <1>13, <1>14 DEF ThreadStep

\* Every variable of the lock manager keeps the shape the code gives it.
THEOREM TypeCorrect == Spec => []TypeOK
<1>1. TypeOK /\ UNCHANGED vars => TypeOK'
  BY DEF TypeOK, vars
<1>2. TypeOK /\ [Next]_vars => TypeOK'
  BY <1>1, StepOfOneThread, StepTypeOK
<1> QED
  BY InitTypeOK, <1>2, PTL DEF Spec

-----------------------------------------------------------------------------
(* Exclusion.                                                              *)

\* A grant is the only way a lock appears, and it looks at all other locks.
LEMMA GrantExcludes ==
    ASSUME TypeOK, MutualExclusion,
           NEW t \in Txn, NEW p \in Page, NEW m \in Mode,
           Grantable(t, p, m), holders' = Granted(t, p, m)
    PROVE  MutualExclusion'
<1> SUFFICES ASSUME NEW q \in Page, NEW u \in Txn, NEW v \in Txn, u # v,
                    holders'[q][u] = "X", holders'[q][v] # "none"
             PROVE  FALSE
  BY DEF MutualExclusion, Holders
<1>1. holders' = [holders EXCEPT ![p][t] = IF @ = "X" THEN @ ELSE m]
  BY DEF Granted
<1>2. CASE q # p \/ (u # t /\ v # t)
  BY <1>1, <1>2 DEF TypeOK, MutualExclusion, Holders
<1>3. CASE q = p /\ u = t
  <2>1. holders[p][v] # "none" /\ v \in Others(t, p)
    BY <1>1, <1>3 DEF TypeOK, Others, Holders
  <2>2. holders[p][t] # "X"
    BY <2>1, <1>3 DEF MutualExclusion, Holders, Others
  <2>3. m = "X"
    BY <1>1, <1>3, <2>2 DEF TypeOK
  <2> QED
    BY <2>1, <2>3 DEF Grantable, Compatible
<1>4. CASE q = p /\ v = t
  <2>1. holders[p][u] = "X" /\ u \in Others(t, p)
    BY <1>1, <1>4 DEF TypeOK, Others, Holders
  <2> QED
    BY <2>1 DEF Grantable, Compatible
<1> QED
  BY <1>2, <1>3, <1>4

\* Fewer locks cannot break exclusion.
LEMMA UnlockExcludes ==
    ASSUME TypeOK, MutualExclusion,
           NEW t \in Txn, NEW p \in Page, holders' = Unlocked(t, p)
    PROVE  MutualExclusion'
BY DEF Unlocked, TypeOK, MutualExclusion, Holders

\* Every step of a thread keeps exclusive locks exclusive.
LEMMA StepExcludes ==
    ASSUME TypeOK, MutualExclusion, NEW t \in Txn, ThreadStep(t)
    PROVE  MutualExclusion'
<1>1. CASE \E p \in Page, m \in Mode : AcquireGranted(t, p, m)
  BY <1>1, GrantExcludes DEF AcquireGranted
<1>2. CASE TryAgain(t)
  <2>1. req[t].page \in Page /\ req[t].mode \in Mode
    BY DEF TypeOK, Request
  <2> QED
    BY <1>2, <2>1, GrantExcludes DEF TryAgain, Grant
<1>3. CASE \E p \in Page : Upgrade(t, p)
  BY <1>3 DEF Upgrade, TypeOK, MutualExclusion, Holders
<1>4. CASE \E p \in Page : Release(t, p)
  BY <1>4, UnlockExcludes DEF Release, ReleasePage
<1>5. CASE ReleaseNext(t)
  <2>1. pages[t] \subseteq Page
    BY DEF TypeOK
  <2> QED
    BY <1>5, <2>1, UnlockExcludes DEF ReleaseNext, ReleasePage
<1>6. CASE UNCHANGED holders
  BY <1>6 DEF MutualExclusion, Holders
<1> QED
  BY <1>1, <1>2, <1>3, <1>4, <1>5, <1>6 DEF ThreadStep, AcquireDeadlock, AcquireQueued,
     GoToSleep, Expire, GiveUp, ReturnTrue, Raise, Dequeue, ListHolders, ForgetEdge, ReturnFalse,
     ReleaseAll, Finish, StartReleaseAll, EndReleaseAll, ClearTxn

\* An exclusive lock is never held together with another lock on its page: no
\* wake-up, barging request, upgrade or time-out makes two of them coexist.
THEOREM LocksExclude == Spec => []MutualExclusion
<1>1. Init => MutualExclusion
  BY DEF Init, MutualExclusion, Holders
<1>2. TypeOK /\ MutualExclusion /\ [Next]_vars => MutualExclusion'
  <2>1. MutualExclusion /\ UNCHANGED vars => MutualExclusion'
    BY DEF MutualExclusion, Holders, vars
  <2> QED
    BY <2>1, StepOfOneThread, StepExcludes
<1> QED
  BY <1>1, <1>2, TypeCorrect, PTL DEF Spec

-----------------------------------------------------------------------------
(* The wait-for graph.                                                     *)

\* Taking edges away closes no cycle.
LEMMA FewerEdges ==
    ASSUME NEW g, NEW h, ~HasCycle(g), \A u \in Txn : h[u] \subseteq g[u]
    PROVE  ~HasCycle(h)
BY DEF HasCycle, Knot

\* Every step of a thread keeps the graph acyclic: the only one that adds an
\* edge has looked for a cycle first.
LEMMA StepAcyclic ==
    ASSUME TypeOK, WaitForAcyclic, NEW t \in Txn, ThreadStep(t)
    PROVE  WaitForAcyclic'
<1>1. CASE \E p \in Page, m \in Mode : AcquireQueued(t, p, m)
  BY <1>1 DEF AcquireQueued, ClosesCycle, WaitForAcyclic, WithRequest
<1>2. CASE \A u \in Txn : waitFor'[u] \subseteq waitFor[u]
  BY <1>2, FewerEdges DEF WaitForAcyclic
<1>3. CASE UNCHANGED waitFor
  BY <1>3 DEF WaitForAcyclic
<1>4. CASE \/ \E p \in Page, m \in Mode : AcquireDeadlock(t, p, m)
           \/ ReturnTrue(t) \/ ForgetEdge(t) \/ ClearTxn(t)
  <2> \A u \in Txn : waitFor'[u] \subseteq waitFor[u]
    BY <1>4 DEF AcquireDeadlock, ReturnTrue, ForgetEdge, ClearTxn, RemoveEdges, Cleared,
                TypeOK, Graphs
  <2> QED
    BY <1>2
<1>5. CASE \/ \E p \in Page : Release(t, p)
           \/ ReleaseNext(t)
  BY <1>3, <1>5 DEF Release, ReleaseNext, ReleasePage
<1>6. CASE \/ \E p \in Page, m \in Mode : AcquireGranted(t, p, m)
           \/ \E p \in Page : Upgrade(t, p)
           \/ TryAgain(t) \/ GoToSleep(t) \/ Expire(t) \/ GiveUp(t) \/ Raise(t)
           \/ Dequeue(t) \/ ListHolders(t) \/ ReturnFalse(t)
           \/ ReleaseAll(t) \/ Finish(t) \/ EndReleaseAll(t)
  BY <1>3, <1>6 DEF AcquireGranted, Upgrade, TryAgain, Grant, GoToSleep, Expire, GiveUp, Raise,
     Dequeue, ListHolders, ReturnFalse, ReleaseAll, Finish, StartReleaseAll, EndReleaseAll
<1> QED
  BY <1>1, <1>4, <1>5, <1>6 DEF ThreadStep

\* Whenever _lock is free the wait-for graph has no cycle, with any number of
\* transactions: DeadlockError leaves none behind, and a time-out that removes
\* its edges one by one, without _lock, cannot close one.
THEOREM GraphStaysAcyclic == Spec => []WaitForAcyclic
<1>1. Init => WaitForAcyclic
  BY DEF Init, WaitForAcyclic, HasCycle, Knot, NoEdges
<1>2. TypeOK /\ WaitForAcyclic /\ [Next]_vars => WaitForAcyclic'
  <2>1. WaitForAcyclic /\ UNCHANGED vars => WaitForAcyclic'
    BY DEF WaitForAcyclic, vars
  <2> QED
    BY <2>1, StepOfOneThread, StepAcyclic
<1> QED
  BY <1>1, <1>2, TypeCorrect, PTL DEF Spec

-----------------------------------------------------------------------------
(* The queues.                                                             *)

QueueInv == TypeOK /\ MutualExclusion /\ QueueKnowsWaiters

\* A request that has to wait is not queued already.
LEMMA NotQueuedTwice ==
    ASSUME QueueInv, NEW t \in Txn, NEW p \in Page, NEW m \in Mode,
           pc[t] = "idle", ~Grantable(t, p, m)
    PROVE  <<t, m>> \notin queue[p]
<1> SUFFICES ASSUME <<t, m>> \in queue[p] PROVE FALSE
  OBVIOUS
<1>1. holders[p][t] \in {"X", m}
  BY DEF QueueInv, QueueKnowsWaiters, EntriesAreExplained, Waiting
<1>2. PICK h \in Others(t, p) : ~Compatible(holders[p][h], m)
  BY DEF Grantable
<1>3. h \in Txn /\ h # t /\ holders[p][h] \in {"S", "X"} /\ holders[p][t] # "none"
  BY <1>1, <1>2 DEF Others, Holders, QueueInv, TypeOK, Mode
<1>4. holders[p][h] = "S" /\ holders[p][t] = "S"
  BY <1>1, <1>3 DEF QueueInv, TypeOK, Mode, MutualExclusion, Holders
<1> QED
  BY <1>1, <1>2, <1>4 DEF Compatible

\* Queueing a new entry keeps the deque in order.
LEMMA AppendOrdered ==
    ASSUME QueueInv, NEW t \in Txn, NEW p \in Page, NEW m \in Mode, AcquireQueued(t, p, m)
    PROVE  QueueKnowsWaiters'
<1>1. <<t, m>> \notin queue[p]
  BY NotQueuedTwice DEF AcquireQueued
<1>2. queue' = [queue EXCEPT ![p] = @ \cup {<<t, m>>}]
      /\ before' = [before EXCEPT ![p] = @ \cup (queue[p] \X {<<t, m>>})]
      /\ req' = [req EXCEPT ![t] = [page |-> p, mode |-> m]]
      /\ pc' = [pc EXCEPT ![t] = "queued"]
      /\ holders' = holders
      /\ pc[t] = "idle"
  BY DEF AcquireQueued
<1>3. WaitersAreQueued'
  BY <1>2 DEF QueueInv, QueueKnowsWaiters, WaitersAreQueued, TypeOK, Waiting, Request
<1>4. EntriesAreExplained'
  <2> SUFFICES ASSUME NEW q \in Page, NEW e \in queue'[q]
               PROVE  \/ pc'[e[1]] \in Waiting \cup {"timedout"}
                         /\ req'[e[1]] = [page |-> q, mode |-> e[2]]
                      \/ holders'[q][e[1]] \in {"X", e[2]}
    BY DEF EntriesAreExplained
  <2>1. CASE q = p /\ e = <<t, m>>
    BY <1>2, <2>1 DEF QueueInv, TypeOK, Waiting
  <2>2. CASE ~(q = p /\ e = <<t, m>>)
    <3>1. e \in queue[q] /\ e[1] \in Txn
      BY <1>2, <2>2 DEF QueueInv, TypeOK, Entry
    <3>2. CASE e[1] = t
      BY <1>2, <3>1, <3>2 DEF QueueInv, QueueKnowsWaiters, EntriesAreExplained, Waiting
    <3>3. CASE e[1] # t
      BY <1>2, <3>1, <3>3 DEF QueueInv, QueueKnowsWaiters, EntriesAreExplained, TypeOK
    <3> QED
      BY <3>2, <3>3
  <2> QED
    BY <2>1, <2>2
<1>5. DequeIsOrdered'
  <2> SUFFICES ASSUME NEW q \in Page
               PROVE  /\ before'[q] \subseteq queue'[q] \X queue'[q]
                      /\ \A e, f \in queue'[q] :
                          <<e, f>> \in before'[q] <=> e # f /\ <<f, e>> \notin before'[q]
    BY DEF DequeIsOrdered
  <2>1. CASE q # p
    BY <1>2, <2>1 DEF QueueInv, QueueKnowsWaiters, DequeIsOrdered, TypeOK
  <2>2. CASE q = p
    <3>1. queue'[p] = queue[p] \cup {<<t, m>>}
          /\ before'[p] = before[p] \cup (queue[p] \X {<<t, m>>})
      BY <1>2 DEF QueueInv, TypeOK
    <3>2. before[p] \subseteq queue[p] \X queue[p]
      BY DEF QueueInv, QueueKnowsWaiters, DequeIsOrdered
    <3>3. \A e, f \in queue[p] :
            <<e, f>> \in before[p] <=> e # f /\ <<f, e>> \notin before[p]
      BY DEF QueueInv, QueueKnowsWaiters, DequeIsOrdered
    <3>4. \A e, f \in queue[p] : <<e, f>> \in before'[p] <=> <<e, f>> \in before[p]
      BY <1>1, <3>1
    <3>5. \A e \in queue[p] : /\ <<e, <<t, m>>>> \in before'[p]
                              /\ <<<<t, m>>, e>> \notin before'[p]
                              /\ e # <<t, m>>
      BY <1>1, <3>1, <3>2
    <3>6. <<<<t, m>>, <<t, m>>>> \notin before'[p]
      BY <1>1, <3>1, <3>2
    <3>7. before'[p] \subseteq queue'[p] \X queue'[p]
      BY <3>1, <3>2
    <3>8. \A e, f \in queue'[p] :
            <<e, f>> \in before'[p] <=> e # f /\ <<f, e>> \notin before'[p]
      <4> SUFFICES ASSUME NEW e \in queue'[p], NEW f \in queue'[p]
                   PROVE  <<e, f>> \in before'[p] <=> e # f /\ <<f, e>> \notin before'[p]
        OBVIOUS
      <4>1. CASE e \in queue[p] /\ f \in queue[p]
        BY <3>3, <3>4, <4>1
      <4>2. CASE e = <<t, m>> \/ f = <<t, m>>
        BY <3>1, <3>5, <3>6, <4>2
      <4> QED
        BY <3>1, <4>1, <4>2
    <3> QED
      BY <2>2, <3>7, <3>8
  <2> QED
    BY <2>1, <2>2
<1> QED
  BY <1>3, <1>4, <1>5 DEF QueueKnowsWaiters

\* A release takes t's entries away and leaves all others in order.
LEMMA ReleaseOrdered ==
    ASSUME QueueInv, NEW t \in Txn, NEW p \in Page, ReleasePage(t, p),
           pc[t] \in {"idle"} \cup Releasing
    PROVE  QueueKnowsWaiters'
<1>1. /\ holders' = Unlocked(t, p) /\ UNCHANGED req
      /\ queue' = [queue EXCEPT ![p] = EntriesOfOthers(t, p)]
      /\ before' = [before EXCEPT ![p] = OrderOfOthers(t, p)]
  BY DEF ReleasePage
<1>2. \A u \in Txn : (pc'[u] \in Waiting <=> pc[u] \in Waiting)
                     /\ (pc'[u] = "timedout" <=> pc[u] = "timedout")
  BY DEF ReleasePage, Wakes, Waiting
<1>3. pc[t] \notin Waiting /\ pc[t] # "timedout"
  BY DEF Waiting, Releasing
<1>4. WaitersAreQueued'
  <2> SUFFICES ASSUME NEW u \in Txn, pc'[u] \in Waiting
               PROVE  <<u, req[u].mode>> \in queue'[req[u].page]
    BY <1>1 DEF WaitersAreQueued
  <2>1. u # t /\ <<u, req[u].mode>> \in queue[req[u].page] /\ req[u].page \in Page
    BY <1>2, <1>3 DEF QueueInv, QueueKnowsWaiters, WaitersAreQueued, TypeOK, Request
  <2> QED
    BY <1>1, <2>1 DEF EntriesOfOthers, QueueInv, TypeOK
<1>5. EntriesAreExplained'
  <2> SUFFICES ASSUME NEW q \in Page, NEW e \in queue'[q]
               PROVE  \/ pc'[e[1]] \in Waiting \cup {"timedout"}
                         /\ req[e[1]] = [page |-> q, mode |-> e[2]]
                      \/ holders'[q][e[1]] \in {"X", e[2]}
    BY <1>1 DEF EntriesAreExplained
  <2>1. e \in queue[q] /\ e[1] \in Txn /\ (q # p \/ e[1] # t)
    BY <1>1 DEF EntriesOfOthers, QueueInv, TypeOK, Entry
  <2>2. \/ pc[e[1]] \in Waiting \cup {"timedout"} /\ req[e[1]] = [page |-> q, mode |-> e[2]]
        \/ holders[q][e[1]] \in {"X", e[2]}
    BY <2>1 DEF QueueInv, QueueKnowsWaiters, EntriesAreExplained
  <2>3. holders'[q][e[1]] = holders[q][e[1]]
    BY <1>1, <2>1 DEF Unlocked, QueueInv, TypeOK
  <2> QED
    BY <1>2, <2>1, <2>2, <2>3
<1>6. DequeIsOrdered'
  BY <1>1 DEF DequeIsOrdered, EntriesOfOthers, OrderOfOthers, QueueInv, QueueKnowsWaiters,
              TypeOK
<1> QED
  BY <1>4, <1>5, <1>6 DEF QueueKnowsWaiters

\* So does a time-out.
LEMMA DequeueOrdered ==
    ASSUME QueueInv, NEW t \in Txn, Dequeue(t)
    PROVE  QueueKnowsWaiters'
<1> DEFINE p == req[t].page
<1>1. /\ p \in Page /\ UNCHANGED <<holders, req>> /\ pc[t] = "timedout"
      /\ queue' = [queue EXCEPT ![p] = EntriesOfOthers(t, p)]
      /\ before' = [before EXCEPT ![p] = OrderOfOthers(t, p)]
  BY DEF Dequeue, QueueInv, TypeOK, Request
<1>2. /\ \A u \in Txn \ {t} : pc'[u] = pc[u]
      /\ pc'[t] \in {"unqueued", "idle"}
  BY DEF Dequeue, QueueInv, TypeOK
<1>3. WaitersAreQueued'
  <2> SUFFICES ASSUME NEW u \in Txn, pc'[u] \in Waiting
               PROVE  <<u, req[u].mode>> \in queue'[req[u].page]
    BY <1>1 DEF WaitersAreQueued
  <2>1. u # t /\ <<u, req[u].mode>> \in queue[req[u].page] /\ req[u].page \in Page
    BY <1>2 DEF QueueInv, QueueKnowsWaiters, WaitersAreQueued, TypeOK, Request, Waiting
  <2> QED
    BY <1>1, <2>1 DEF EntriesOfOthers, QueueInv, TypeOK
<1>4. EntriesAreExplained'
  <2> SUFFICES ASSUME NEW q \in Page, NEW e \in queue'[q]
               PROVE  \/ pc'[e[1]] \in Waiting \cup {"timedout"}
                         /\ req[e[1]] = [page |-> q, mode |-> e[2]]
                      \/ holders[q][e[1]] \in {"X", e[2]}
    BY <1>1 DEF EntriesAreExplained
  <2>1. e \in queue[q] /\ e[1] \in Txn /\ (q # p \/ e[1] # t)
    BY <1>1 DEF EntriesOfOthers, QueueInv, TypeOK, Entry
  <2>2. \/ pc[e[1]] \in Waiting \cup {"timedout"} /\ req[e[1]] = [page |-> q, mode |-> e[2]]
        \/ holders[q][e[1]] \in {"X", e[2]}
    BY <2>1 DEF QueueInv, QueueKnowsWaiters, EntriesAreExplained
  <2> QED
    BY <1>2, <2>1, <2>2
<1>5. DequeIsOrdered'
  BY <1>1, SMTT(60) DEF DequeIsOrdered, EntriesOfOthers, OrderOfOthers, QueueInv, QueueKnowsWaiters,
              TypeOK
<1> QED
  BY <1>3, <1>4, <1>5 DEF QueueKnowsWaiters

\* A lock that gets stronger explains at least the entries it explained.
LEMMA StrongerLockOrdered ==
    ASSUME QueueInv, UNCHANGED <<queue, before, req>>,
           \A q \in Page, u \in Txn : holders'[q][u] = holders[q][u]
                \/ holders'[q][u] = "X" \/ holders[q][u] = "none",
           \A u \in Txn : /\ pc'[u] \in Waiting => pc[u] \in Waiting
                          /\ pc[u] \in Waiting \cup {"timedout"} =>
                                \/ pc'[u] \in Waiting \cup {"timedout"}
                                \/ holders'[req[u].page][u] \in {"X", req[u].mode}
    PROVE  QueueKnowsWaiters'
<1>1. WaitersAreQueued'
  BY DEF QueueInv, QueueKnowsWaiters, WaitersAreQueued
<1>2. EntriesAreExplained'
  <2> SUFFICES ASSUME NEW q \in Page, NEW e \in queue[q]
               PROVE  \/ pc'[e[1]] \in Waiting \cup {"timedout"}
                         /\ req[e[1]] = [page |-> q, mode |-> e[2]]
                      \/ holders'[q][e[1]] \in {"X", e[2]}
    BY DEF EntriesAreExplained
  <2>1. e[1] \in Txn /\ e[2] \in Mode
    BY DEF QueueInv, TypeOK, Entry
  <2>2. CASE pc[e[1]] \in Waiting \cup {"timedout"} /\ req[e[1]] = [page |-> q, mode |-> e[2]]
    BY <2>1, <2>2
  <2>3. CASE holders[q][e[1]] \in {"X", e[2]}
    BY <2>1, <2>3 DEF Mode
  <2> QED
    BY <2>2, <2>3 DEF QueueInv, QueueKnowsWaiters, EntriesAreExplained
<1>3. DequeIsOrdered'
  BY DEF QueueInv, QueueKnowsWaiters, DequeIsOrdered
<1> QED
  BY <1>1, <1>2, <1>3 DEF QueueKnowsWaiters

\* Every step of a thread keeps the queues in order.
LEMMA StepQueue ==
    ASSUME QueueInv, NEW t \in Txn, ThreadStep(t)
    PROVE  QueueKnowsWaiters'
<1> USE DEF QueueInv, TypeOK
<1>1. CASE \E p \in Page, m \in Mode : AcquireGranted(t, p, m)
  BY <1>1, StrongerLockOrdered DEF AcquireGranted, Granted, Grantable, Mode
<1>2. CASE \E p \in Page, m \in Mode : AcquireQueued(t, p, m)
  BY <1>2, AppendOrdered
<1>3. CASE \E p \in Page : Upgrade(t, p)
  BY <1>3, StrongerLockOrdered DEF Upgrade
<1>4. CASE \E p \in Page : Release(t, p)
  BY <1>4, ReleaseOrdered DEF Release
<1>5. CASE ReleaseNext(t)
  BY <1>5, ReleaseOrdered DEF ReleaseNext
<1>6. CASE Dequeue(t)
  BY <1>6, DequeueOrdered, SMTT(60)
<1>7. CASE TryAgain(t)
  BY <1>7, StrongerLockOrdered DEF TryAgain, Grant, Granted, Waiting, Request, Mode
<1>8. CASE \/ \E p \in Page, m \in Mode : AcquireDeadlock(t, p, m)
           \/ GoToSleep(t) \/ Expire(t) \/ GiveUp(t) \/ ReturnTrue(t) \/ Raise(t)
           \/ ListHolders(t) \/ ForgetEdge(t) \/ ReturnFalse(t)
           \/ ReleaseAll(t) \/ Finish(t) \/ EndReleaseAll(t) \/ ClearTxn(t)
  <2>1. UNCHANGED <<holders, queue, before, req>>
    BY <1>8 DEF AcquireDeadlock, GoToSleep, Expire, GiveUp, ReturnTrue, Raise, ListHolders,
       ForgetEdge, ReturnFalse, ReleaseAll, Finish, StartReleaseAll, EndReleaseAll, ClearTxn
  <2>2. \A u \in Txn : /\ pc'[u] \in Waiting => pc[u] \in Waiting
                       /\ pc[u] \in Waiting \cup {"timedout"} =>
                             pc'[u] \in Waiting \cup {"timedout"}
    BY <1>8 DEF AcquireDeadlock, GoToSleep, Expire, GiveUp, ReturnTrue, Raise, ListHolders,
       ForgetEdge, ReturnFalse, ReleaseAll, Finish, StartReleaseAll, EndReleaseAll, ClearTxn,
       Waiting
  <2> QED
    BY <2>1, <2>2, StrongerLockOrdered
<1> QED
  BY <1>1, <1>2, <1>3, <1>4, <1>5, <1>6, <1>7, <1>8 DEF ThreadStep

\* The queues know every waiter, explain every entry and are totally ordered,
\* although a granted request leaves its entry behind.
THEOREM QueuesKnowWaiters == Spec => []QueueKnowsWaiters
<1>1. Init => QueueKnowsWaiters
  BY DEF Init, QueueKnowsWaiters, WaitersAreQueued, EntriesAreExplained, DequeIsOrdered, Waiting
<1>2. TypeOK /\ MutualExclusion /\ QueueKnowsWaiters /\ [Next]_vars => QueueKnowsWaiters'
  <2>1. QueueKnowsWaiters /\ UNCHANGED vars => QueueKnowsWaiters'
    BY DEF QueueKnowsWaiters, WaitersAreQueued, EntriesAreExplained, DequeIsOrdered, vars
  <2> QED
    BY <2>1, StepOfOneThread, StepQueue DEF QueueInv
<1> QED
  BY <1>1, <1>2, TypeCorrect, LocksExclude, PTL DEF Spec

-----------------------------------------------------------------------------
(* Wake-ups.                                                               *)

\* A release that leaves the page free wakes whoever sleeps for it.
LEMMA ReleaseWakes ==
    ASSUME QueueInv, SleepersAreBlocked, NEW t \in Txn, NEW p \in Page, ReleasePage(t, p),
           pc[t] \in {"idle"} \cup Releasing
    PROVE  SleepersAreBlocked'
<1> SUFFICES ASSUME NEW u \in Txn, pc'[u] = "asleep"
             PROVE  \E h \in Txn : holders'[req[u].page][h] # "none"
  BY DEF SleepersAreBlocked, Holders, ReleasePage
<1>1. pc[u] = "asleep" /\ ~Wakes(t, p, u) /\ u # t
  BY DEF ReleasePage, Releasing
<1>2. PICK h \in Txn : holders[req[u].page][h] # "none"
  BY <1>1 DEF SleepersAreBlocked, Holders
<1>3. req[u].page \in Page
  BY DEF QueueInv, TypeOK, Request
<1>4. CASE req[u].page # p
  BY <1>2, <1>3, <1>4 DEF ReleasePage, Unlocked, QueueInv, TypeOK
<1>5. CASE req[u].page = p
  <2>1. <<u, req[u].mode>> \in EntriesOfOthers(t, p)
    BY <1>1, <1>5 DEF QueueInv, QueueKnowsWaiters, WaitersAreQueued, Waiting, EntriesOfOthers
  <2>2. PICK g \in Others(t, p) : TRUE
    BY <1>1, <1>5, <2>1 DEF Wakes, Notified
  <2>3. g \in Txn /\ g # t /\ holders[p][g] # "none"
    BY <2>2 DEF Others, Holders
  <2> QED
    BY <1>5, <2>3 DEF ReleasePage, Unlocked, QueueInv, TypeOK
<1> QED
  BY <1>4, <1>5

\* Every step of a thread leaves nobody asleep on a free page.
LEMMA StepWakes ==
    ASSUME QueueInv, SleepersAreBlocked, NEW t \in Txn, ThreadStep(t)
    PROVE  SleepersAreBlocked'
<1> USE DEF QueueInv, TypeOK
<1>1. CASE \E p \in Page : Release(t, p)
  BY <1>1, ReleaseWakes DEF Release
<1>2. CASE ReleaseNext(t)
  BY <1>2, ReleaseWakes DEF ReleaseNext
<1>3. CASE GoToSleep(t)
  <2>1. \E h \in Txn : holders[req[t].page][h] # "none"
    BY <1>3 DEF GoToSleep, Grantable, Others, Holders
  <2> QED
    BY <1>3, <2>1 DEF GoToSleep, SleepersAreBlocked, Holders
<1>4. CASE \E p \in Page, m \in Mode : AcquireQueued(t, p, m)
  BY <1>4 DEF AcquireQueued, SleepersAreBlocked, Holders
<1>5. CASE \/ \E p \in Page, m \in Mode : AcquireGranted(t, p, m)
           \/ \E p \in Page : Upgrade(t, p)
           \/ TryAgain(t)
  <2>1. \A q \in Page, u \in Txn : holders[q][u] # "none" => holders'[q][u] # "none"
    <3>1. CASE \E p \in Page, m \in Mode : AcquireGranted(t, p, m)
      BY <3>1 DEF AcquireGranted, Granted, Mode
    <3>2. CASE \E p \in Page : Upgrade(t, p)
      BY <3>2 DEF Upgrade, Mode
    <3>3. CASE TryAgain(t)
      BY <3>3 DEF TryAgain, Grant, Granted, Mode, Request
    <3> QED
      BY <1>5, <3>1, <3>2, <3>3
  <2>2. UNCHANGED req /\ \A u \in Txn : pc'[u] = "asleep" => pc[u] = "asleep"
    <3>1. CASE \E p \in Page, m \in Mode : AcquireGranted(t, p, m)
      BY <3>1 DEF AcquireGranted
    <3>2. CASE \E p \in Page : Upgrade(t, p)
      BY <3>2 DEF Upgrade
    <3>3. CASE TryAgain(t)
      BY <3>3 DEF TryAgain, Grant
    <3> QED
      BY <1>5, <3>1, <3>2, <3>3
  <2>3. \A u \in Txn : req[u].page \in Page
    BY DEF Request
  <2> QED
    BY <2>1, <2>2, <2>3 DEF SleepersAreBlocked, Holders
<1>6. CASE \/ \E p \in Page, m \in Mode : AcquireDeadlock(t, p, m)
           \/ Expire(t) \/ GiveUp(t) \/ ReturnTrue(t) \/ Raise(t) \/ Dequeue(t)
           \/ ListHolders(t) \/ ForgetEdge(t) \/ ReturnFalse(t)
           \/ ReleaseAll(t) \/ Finish(t) \/ EndReleaseAll(t) \/ ClearTxn(t)
  <2>1. UNCHANGED <<holders, req>> /\ \A u \in Txn : pc'[u] = "asleep" => pc[u] = "asleep"
    BY <1>6 DEF AcquireDeadlock, Expire, GiveUp, ReturnTrue, Raise, Dequeue, ListHolders,
       ForgetEdge, ReturnFalse, ReleaseAll, Finish, StartReleaseAll, EndReleaseAll, ClearTxn
  <2> QED
    BY <2>1 DEF SleepersAreBlocked, Holders
<1> QED
  BY <1>1, <1>2, <1>3, <1>4, <1>5, <1>6 DEF ThreadStep

\* Nobody sleeps for a page that has no holder: the release that frees a page
\* reaches every waiter, whatever entries were left in its deque.
THEOREM NoSleeperOnFreePage == Spec => []SleepersAreBlocked
<1>1. Init => SleepersAreBlocked
  BY DEF Init, SleepersAreBlocked
<1>2. TypeOK /\ MutualExclusion /\ QueueKnowsWaiters /\ SleepersAreBlocked /\ [Next]_vars
        => SleepersAreBlocked'
  <2>1. SleepersAreBlocked /\ UNCHANGED vars => SleepersAreBlocked'
    BY DEF SleepersAreBlocked, Holders, vars
  <2> QED
    BY <2>1, StepOfOneThread, StepWakes DEF QueueInv
<1> QED
  BY <1>1, <1>2, TypeCorrect, LocksExclude, QueuesKnowWaiters, PTL DEF Spec

-----------------------------------------------------------------------------
(* The lock table.                                                         *)

\* The manager and the abstract table agree on what stands in the way.
LEMMA GrantableIsNoConflict ==
    ASSUME TypeOK, NEW t \in Txn, NEW p \in Page, NEW m \in Mode
    PROVE  Grantable(t, p, m) <=> ~Table!Conflict(p, t, m)
BY DEF Grantable, Compatible, Others, Holders, Table!Conflict, TypeOK, Mode

\* The answer so far depends on the place of the thread alone.
LEMMA CallByPlace ==
    ASSUME TypeOK, NEW t \in Txn
    PROVE  /\ pc[t] \in Waiting => CallOf(t) = Table!Asked(req[t])
           /\ pc[t] = "granted" => CallOf(t) = Table!Answered(TRUE)
           /\ pc[t] \in TimedOut => CallOf(t) = Table!Answered(FALSE)
           /\ pc[t] \in {"idle", "denied", "ended"} \cup Releasing => CallOf(t) = Table!NoCall
BY DEF CallOf, Waiting, TimedOut, Releasing, Table!Asked, Table!Answered, Table!NoCall

\* The same in the next state.
LEMMA CallByPlaceNext ==
    ASSUME TypeOK', NEW t \in Txn
    PROVE  /\ pc'[t] \in Waiting => CallOf(t)' = Table!Asked(req'[t])
           /\ pc'[t] = "granted" => CallOf(t)' = Table!Answered(TRUE)
           /\ pc'[t] \in TimedOut => CallOf(t)' = Table!Answered(FALSE)
           /\ pc'[t] \in {"idle", "denied", "ended"} \cup Releasing => CallOf(t)' = Table!NoCall
BY DEF CallOf, Waiting, TimedOut, Releasing, Table!Asked, Table!Answered, Table!NoCall

\* A step of t's thread leaves the calls of the others alone, whomever it wakes.
LEMMA OtherCalls ==
    ASSUME TypeOK, TypeOK', NEW t \in Txn, ThreadStep(t)
    PROVE  \A u \in Txn \ {t} : CallOf(u)' = CallOf(u)
<1>1. \A u \in Txn \ {t} : req'[u] = req[u]
  BY DEF ThreadStep, AcquireGranted, AcquireDeadlock, AcquireQueued, Upgrade, Release,
     TryAgain, Grant, GoToSleep, Expire, GiveUp, ReturnTrue, Raise, Dequeue, ListHolders, ForgetEdge,
     ReturnFalse, ReleaseAll, Finish, StartReleaseAll, ReleaseNext, EndReleaseAll, ClearTxn,
     ReleasePage, TypeOK
<1>2. \A u \in Txn \ {t} : pc'[u] = pc[u] \/ (pc[u] = "asleep" /\ pc'[u] = "notified")
  <2>1. CASE (\E p \in Page : Release(t, p)) \/ ReleaseNext(t)
    BY <2>1, ZenonT(60) DEF Release, ReleaseNext, ReleasePage, Wakes, TypeOK
  <2>2. CASE \/ \E p \in Page, m \in Mode :
                AcquireGranted(t, p, m) \/ AcquireDeadlock(t, p, m) \/ AcquireQueued(t, p, m)
             \/ \E p \in Page : Upgrade(t, p)
             \/ TryAgain(t) \/ GoToSleep(t) \/ Expire(t) \/ GiveUp(t) \/ ReturnTrue(t) \/ Raise(t)
             \/ Dequeue(t) \/ ListHolders(t) \/ ForgetEdge(t) \/ ReturnFalse(t)
             \/ ReleaseAll(t) \/ Finish(t) \/ EndReleaseAll(t) \/ ClearTxn(t)
    BY <2>2 DEF AcquireGranted, AcquireDeadlock, AcquireQueued, Upgrade,
       TryAgain, Grant, GoToSleep, Expire, GiveUp, ReturnTrue, Raise, Dequeue, ListHolders, ForgetEdge,
       ReturnFalse, ReleaseAll, Finish, StartReleaseAll, EndReleaseAll, ClearTxn, TypeOK
  <2> QED
    BY <2>1, <2>2 DEF ThreadStep
<1> QED
  BY <1>1, <1>2 DEF CallOf, Waiting, TimedOut

\* Every step of a thread is a step of the lock table, or none.
LEMMA StepRefines ==
    ASSUME TypeOK, TypeOK', NEW t \in Txn, ThreadStep(t)
    PROVE  [Table!TableNext]_(Table!tableVars)
<1> DEFINE calls == [u \in Txn |-> CallOf(u)]
<1>1. calls' = [calls EXCEPT ![t] = CallOf(t)']
  BY OtherCalls
<1>2. CallOf(t)' = CallOf(t) => calls' = calls
  BY OtherCalls
<1>3. calls[t] = CallOf(t)
  OBVIOUS
<1> HIDE DEF calls
<1>4. ASSUME NEW p \in Page, NEW m \in Mode,
             Grantable(t, p, m), holders' = Granted(t, p, m)
      PROVE  \E r \in Table!Requests : r = [page |-> p, mode |-> m] /\ Table!Take(t, r.page, r.mode)
  <2> DEFINE r == [page |-> p, mode |-> m]
  <2>1. Table!Take(t, p, m)
    BY <1>4, GrantableIsNoConflict DEF Table!Take, Granted
  <2>2. r \in Table!Requests /\ r.page = p /\ r.mode = m
    BY DEF Table!Requests, Table!Modes, Mode
  <2> QED
    BY <2>1, <2>2
<1>5. CASE \E p \in Page, m \in Mode : AcquireGranted(t, p, m)
  <2>1. calls' = calls /\ calls[t] = Table!NoCall
    BY <1>2, <1>3, <1>5, CallByPlace, CallByPlaceNext DEF AcquireGranted
  <2> QED
    BY <1>4, <1>5, <2>1 DEF AcquireGranted, Table!TableNext, Table!TakeAtOnce, calls
<1>6. CASE \E p \in Page : Upgrade(t, p)
  <2>1. PICK p \in Page : Upgrade(t, p)
    BY <1>6
  <2>2. calls' = calls /\ calls[t] = Table!NoCall
    BY <1>2, <1>3, <2>1, CallByPlace, CallByPlaceNext DEF Upgrade
  <2>3. Grantable(t, p, "X") /\ holders' = Granted(t, p, "X")
    BY <2>1 DEF Upgrade, Grantable, Granted, Others, TypeOK
  <2> QED
    BY <1>4, <2>2, <2>3 DEF Table!TableNext, Table!TakeAtOnce, calls, Mode
<1>7. CASE \E p \in Page, m \in Mode : AcquireQueued(t, p, m)
  <2>1. PICK p \in Page, m \in Mode : AcquireQueued(t, p, m)
    BY <1>7
  <2>2. calls[t] = Table!NoCall
    BY <1>3, <2>1, CallByPlace DEF AcquireQueued
  <2>3. CallOf(t)' = Table!Asked([page |-> p, mode |-> m])
    BY <2>1, CallByPlaceNext, ZenonT(60) DEF AcquireQueued, TypeOK, Waiting
  <2>4. [page |-> p, mode |-> m] \in Table!Requests /\ Table!Conflict(p, t, m)
    BY <2>1, GrantableIsNoConflict DEF AcquireQueued, Table!Requests, Table!Modes, Mode
  <2> QED
    BY <1>1, <2>1, <2>2, <2>3, <2>4 DEF AcquireQueued, Table!TableNext, Table!Ask, calls
<1>8. CASE TryAgain(t)
  <2>1. calls[t] = Table!Asked(req[t]) /\ CallOf(t)' = Table!Answered(TRUE)
    BY <1>3, <1>8, CallByPlace, CallByPlaceNext, ZenonT(60) DEF TryAgain, Grant, TypeOK
  <2>2. req[t] = [page |-> req[t].page, mode |-> req[t].mode]
        /\ req[t].page \in Page /\ req[t].mode \in Mode
    BY DEF TypeOK, Request
  <2> QED
    BY <1>1, <1>4, <1>8, <2>1, <2>2, ZenonT(60) DEF TryAgain, Grant, Table!TableNext, Table!AnswerYes, calls
<1>9. CASE GiveUp(t)
  <2>1. calls[t] = Table!Asked(req[t]) /\ CallOf(t)' = Table!Answered(FALSE)
    BY <1>3, <1>9, CallByPlace, CallByPlaceNext DEF GiveUp, TypeOK, Waiting, TimedOut
  <2>2. req[t] \in Table!Requests /\ Table!Conflict(req[t].page, t, req[t].mode)
    BY <1>9, GrantableIsNoConflict DEF GiveUp, TypeOK, Request, Table!Requests, Table!Modes, Mode
  <2> QED
    BY <1>1, <1>9, <2>1, <2>2 DEF GiveUp, Table!TableNext, Table!AnswerNo, calls
<1>10. CASE ReturnTrue(t) \/ ReturnFalse(t) \/ (Dequeue(t) /\ ~Detector)
  <2>1. (calls[t] = Table!Answered(TRUE) \/ calls[t] = Table!Answered(FALSE))
        /\ CallOf(t)' = Table!NoCall
    BY <1>3, <1>10, CallByPlace, CallByPlaceNext
       DEF ReturnTrue, ReturnFalse, Dequeue, TypeOK, TimedOut
  <2>2. UNCHANGED holders
    BY <1>10 DEF ReturnTrue, ReturnFalse, Dequeue
  <2> QED
    BY <1>1, <2>1, <2>2 DEF Table!TableNext, Table!Return, calls
<1>11. CASE (\E p \in Page : Release(t, p)) \/ ReleaseNext(t)
  <2>1. PICK p \in Page : ReleasePage(t, p)
    BY <1>11 DEF Release, ReleaseNext, TypeOK
  <2>2. pc'[t] = pc[t] /\ pc[t] \in {"idle", "ended"} \cup Releasing
    BY <1>11, <2>1 DEF Release, ReleaseNext, ReleasePage, Wakes, TypeOK, Releasing
  <2>3. calls' = calls /\ calls[t] = Table!NoCall
    BY <1>2, <1>3, <2>2, CallByPlace, CallByPlaceNext
  <2> QED
    BY <2>1, <2>3 DEF ReleasePage, Unlocked, Table!TableNext, Table!Drop, calls
<1>12. CASE \/ \E p \in Page, m \in Mode : AcquireDeadlock(t, p, m)
            \/ GoToSleep(t) \/ Expire(t) \/ (Dequeue(t) /\ Detector) \/ ListHolders(t)
            \/ ForgetEdge(t)
            \/ ReleaseAll(t) \/ Finish(t) \/ EndReleaseAll(t) \/ ClearTxn(t) \/ Raise(t)
  <2>1. UNCHANGED holders
    BY <1>12 DEF Raise, AcquireDeadlock, GoToSleep, Expire, Dequeue, ListHolders, ForgetEdge,
       ReleaseAll, Finish, StartReleaseAll, EndReleaseAll, ClearTxn
  <2>2. CASE \/ \E p \in Page, m \in Mode : AcquireDeadlock(t, p, m)
             \/ ReleaseAll(t) \/ Finish(t) \/ EndReleaseAll(t) \/ ClearTxn(t) \/ Raise(t)
    BY <1>2, <2>1, <2>2, CallByPlace, CallByPlaceNext, ZenonT(60)
       DEF AcquireDeadlock, Raise, ReleaseAll, Finish, StartReleaseAll, EndReleaseAll, ClearTxn,
           TypeOK, Releasing, Table!tableVars, calls
  <2>3. CASE GoToSleep(t) \/ Expire(t)
    BY <1>2, <2>1, <2>3, CallByPlace, CallByPlaceNext, ZenonT(60)
       DEF GoToSleep, Expire, TypeOK, Waiting, Table!tableVars, calls
  <2>4. CASE (Dequeue(t) /\ Detector) \/ ListHolders(t) \/ ForgetEdge(t)
    BY <1>2, <2>1, <2>4, CallByPlace, CallByPlaceNext, ZenonT(60)
       DEF Dequeue, ListHolders, ForgetEdge, TypeOK, TimedOut, Table!tableVars, calls
  <2> QED
    BY <1>12, <2>2, <2>3, <2>4
<1> QED
  BY <1>5, <1>6, <1>7, <1>8, <1>9, <1>10, <1>11, <1>12, ModesOfUse DEF ThreadStep

\* The lock manager implements the lock table: waiting, waking up, timing out
\* and detecting deadlocks never grant a lock that was not asked for, grant one
\* twice, or grant one after the caller was told that it did not get it.
THEOREM ManagerIsLockTable == Spec => ImplementsLockTable
<1>1. Init => Table!TableInit
  <2> SUFFICES ASSUME Init PROVE Table!TableInit
    OBVIOUS
  <2>1. \A t \in Txn : CallOf(t) = Table!NoCall
    BY InitTypeOK, CallByPlace DEF Init
  <2> QED
    BY <2>1 DEF Init, Table!TableInit
<1>2. TypeOK /\ TypeOK' /\ [Next]_vars => [Table!TableNext]_(Table!tableVars)
  <2>1. UNCHANGED vars => UNCHANGED Table!tableVars
    BY DEF vars, Table!tableVars, CallOf
  <2> QED
    BY <2>1, StepOfOneThread, StepRefines
<1> QED
  BY <1>1, <1>2, TypeCorrect, PTL DEF Spec, ImplementsLockTable, Table!TableSpec

-----------------------------------------------------------------------------
(* Edges, when locks are kept to the end of their transaction.             *)

\* Why u's edge to h is still in the graph: h is about to be cleared, or the
\* call of u that added it is still blocked by a lock of h.
Explained(u, h) ==
    \/ pc[h] = "finishing"
    \/ InAcquire(u) /\ Blocks(h, u) /\ (pc[u] = "clearing" => h \in edges[u])

EdgesInv ==
    /\ ~Detector => \A u \in Txn : waitFor[u] = {}
    /\ \A u \in Txn : pc[u] # "releasing"
    /\ \A u, v \in Txn : pc[u] = "finishing" /\ pc[v] = "finishing" => u = v
    /\ \A u \in Txn : pc[u] = "finishing" => waitFor[u] = {}
    /\ \A u \in Txn : \A h \in waitFor[u] : Explained(u, h)

\* A request that cannot be granted is blocked by every other holder: a page
\* with an exclusive lock has one holder, and everything blocks the request of
\* an exclusive lock.
LEMMA EveryHolderBlocks ==
    ASSUME TypeOK, MutualExclusion, NEW t \in Txn, NEW p \in Page, NEW m \in Mode,
           ~Grantable(t, p, m), NEW h \in Others(t, p)
    PROVE  ~Compatible(holders[p][h], m)
<1>1. PICK g \in Others(t, p) : ~Compatible(holders[p][g], m)
  BY DEF Grantable
<1>2. g \in Holders(p) /\ h \in Holders(p) /\ holders[p][g] \in {"S", "X"}
  BY <1>1 DEF Others, Holders, TypeOK, Mode
<1>3. CASE m = "X"
  BY <1>3 DEF Compatible
<1>4. CASE m = "S"
  <2>1. holders[p][g] = "X"
    BY <1>1, <1>2, <1>4 DEF Compatible
  <2>2. h = g
    BY <1>2, <2>1 DEF MutualExclusion
  <2> QED
    BY <1>1, <2>2
<1> QED
  BY <1>3, <1>4 DEF Mode

\* A grant or an upgrade takes away nothing that blocks a request.
LEMMA BlocksAfterGrant ==
    ASSUME TypeOK, NEW t \in Txn, NEW p \in Page, NEW m \in Mode,
           holders' = Granted(t, p, m), req' = req
    PROVE  \A u \in Txn : \A h \in Txn : Blocks(h, u) => Blocks(h, u)'
<1> SUFFICES ASSUME NEW u \in Txn, NEW h \in Txn, Blocks(h, u) PROVE Blocks(h, u)'
  OBVIOUS
<1>1. req[u].page \in Page
  BY DEF TypeOK, Request
<1>2. h # u /\ holders[req[u].page][h] # "none"
      /\ ~Compatible(holders[req[u].page][h], req[u].mode)
  BY DEF Blocks, Others, Holders
<1>3. holders'[req[u].page][h] # "none"
      /\ ~Compatible(holders'[req[u].page][h], req[u].mode)
  <2>1. CASE req[u].page = p /\ h = t
    BY <1>1, <1>2, <2>1 DEF Granted, TypeOK, Compatible, Mode
  <2>2. CASE ~(req[u].page = p /\ h = t)
    BY <1>1, <1>2, <2>2 DEF Granted, TypeOK
  <2> QED
    BY <2>1, <2>2
<1> QED
  BY <1>2, <1>3 DEF Blocks, Others, Holders

\* Nothing blocks a request that can be granted.
LEMMA GrantableIsNotBlocked ==
    ASSUME NEW u \in Txn, Grantable(u, req[u].page, req[u].mode), NEW h
    PROVE  ~Blocks(h, u)
BY DEF Blocks, Grantable

\* A step that adds no edge, moves no thread to or from the end and leaves the
\* explanations of the edges that remain.
LEMMA EdgesRemainExplained ==
    ASSUME TypeOK, EdgesInv,
           \A u \in Txn : waitFor'[u] \subseteq waitFor[u],
           \A u \in Txn : pc'[u] # "releasing" /\ (pc'[u] = "finishing" <=> pc[u] = "finishing"),
           \A u \in Txn : \A h \in waitFor'[u] :
               pc[h] # "finishing" /\ Explained(u, h) => Explained(u, h)'
    PROVE  EdgesInv'
<1>1. \A u \in Txn : waitFor[u] \subseteq Txn
  BY DEF TypeOK, Graphs
<1>2. \A u \in Txn : \A h \in waitFor'[u] : Explained(u, h)'
  <2> SUFFICES ASSUME NEW u \in Txn, NEW h \in waitFor'[u] PROVE Explained(u, h)'
    OBVIOUS
  <2>1. h \in Txn /\ Explained(u, h)
    BY <1>1 DEF EdgesInv
  <2>2. CASE pc[h] = "finishing"
    BY <2>1, <2>2 DEF Explained
  <2>3. CASE pc[h] # "finishing"
    BY <2>1, <2>3
  <2> QED
    BY <2>2, <2>3
<1> QED
  BY <1>2 DEF EdgesInv

\* A request that is queued adds edges to the transactions that block it, and
\* only those.
LEMMA QueuedEdgesExplained ==
    ASSUME TypeOK, MutualExclusion, EdgesInv,
           NEW t \in Txn, NEW p \in Page, NEW m \in Mode, AcquireQueued(t, p, m)
    PROVE  EdgesInv'
<1>1. /\ pc[t] = "idle" /\ ~Grantable(t, p, m)
      /\ waitFor' = WithRequest(t, p)
      /\ req' = [req EXCEPT ![t] = [page |-> p, mode |-> m]]
      /\ pc' = [pc EXCEPT ![t] = "queued"]
      /\ holders' = holders /\ edges' = edges
  BY DEF AcquireQueued
<1>2. /\ ~Detector => waitFor' = waitFor
      /\ \A u \in Txn \ {t} : waitFor'[u] = waitFor[u] /\ req'[u] = req[u]
      /\ waitFor'[t] \subseteq waitFor[t] \cup Others(t, p)
  BY <1>1 DEF WithRequest, AddEdges, TypeOK, Graphs
<1>3. /\ \A u \in Txn \ {t} : pc'[u] = pc[u]
      /\ pc'[t] = "queued" /\ req'[t] = [page |-> p, mode |-> m]
  BY <1>1 DEF TypeOK
<1>4. \A u \in Txn : \A h \in waitFor[u] : pc[h] = "finishing" => pc'[h] = "finishing"
  BY <1>1 DEF TypeOK, Graphs
<1>5. ASSUME NEW u \in Txn, NEW h \in waitFor'[u] PROVE Explained(u, h)'
  <2>1. CASE u # t
    <3>1. h \in waitFor[u] /\ Explained(u, h)
      BY <1>2, <1>5, <2>1 DEF EdgesInv
    <3>2. Blocks(h, u) => Blocks(h, u)'
      BY <1>1, <1>2, <2>1 DEF Blocks, Others, Holders
    <3> QED
      BY <1>1, <1>3, <1>4, <2>1, <3>1, <3>2 DEF Explained, InAcquire
  <2>2. CASE u = t /\ h \in waitFor[t]
    <3>1. pc[h] = "finishing"
      BY <1>1, <2>2 DEF EdgesInv, Explained, InAcquire, Waiting, TimedOut
    <3> QED
      BY <1>4, <2>2, <3>1 DEF Explained
  <2>3. CASE u = t /\ h \in Others(t, p)
    <3>1. ~Compatible(holders[p][h], m)
      BY <1>1, <2>3, EveryHolderBlocks
    <3>2. Blocks(h, t)'
      BY <1>1, <1>3, <2>3, <3>1 DEF Blocks, Others, Holders
    <3> QED
      BY <1>3, <2>3, <3>2 DEF Explained, InAcquire, Waiting
  <2> QED
    BY <1>2, <1>5, <2>1, <2>2, <2>3
<1>6. \A u \in Txn : pc'[u] # "releasing" /\ (pc'[u] = "finishing" <=> pc[u] = "finishing")
  BY <1>1, <1>3 DEF EdgesInv
<1> QED
  BY <1>1, <1>2, <1>5, <1>6 DEF EdgesInv

\* Every step of a thread keeps the edges explained.
LEMMA StepEdges ==
    ASSUME TypeOK, MutualExclusion, EdgesInv, ~EarlyRelease, NEW t \in Txn, ThreadStep(t)
    PROVE  EdgesInv'
<1>1. CASE \E p \in Page, m \in Mode : AcquireQueued(t, p, m)
  BY <1>1, QueuedEdgesExplained
<1>2. CASE (\E p \in Page, m \in Mode : AcquireGranted(t, p, m)) \/ (\E p \in Page : Upgrade(t, p))
  <2>1. UNCHANGED <<waitFor, pc, req, edges>>
    BY <1>2 DEF AcquireGranted, Upgrade
  <2>2. \E p \in Page, m \in Mode : holders' = Granted(t, p, m)
    <3>1. CASE \E p \in Page : Upgrade(t, p)
      <4> PICK p \in Page : Upgrade(t, p)
        BY <3>1
      <4>1. holders' = Granted(t, p, "X")
        BY DEF Upgrade, Granted, TypeOK
      <4> QED
        BY <4>1 DEF Mode
    <3> QED
      BY <1>2, <3>1 DEF AcquireGranted
  <2>3. \A u \in Txn : \A h \in Txn : Blocks(h, u) => Blocks(h, u)'
    BY <2>1, <2>2, BlocksAfterGrant
  <2>4. \A u \in Txn : waitFor[u] \subseteq Txn
    BY DEF TypeOK, Graphs
  <2>5. \A u \in Txn : \A h \in waitFor'[u] : Explained(u, h) => Explained(u, h)'
    BY <2>1, <2>3, <2>4 DEF Explained, InAcquire
  <2>6. \A u \in Txn : /\ waitFor'[u] \subseteq waitFor[u]
                       /\ pc'[u] # "releasing" /\ (pc'[u] = "finishing" <=> pc[u] = "finishing")
    BY <2>1 DEF EdgesInv
  <2> QED
    BY <2>5, <2>6, EdgesRemainExplained
<1>3. CASE TryAgain(t)
  <2>1. /\ pc[t] \in Waiting /\ Grantable(t, req[t].page, req[t].mode)
        /\ holders' = Granted(t, req[t].page, req[t].mode)
        /\ pc' = [pc EXCEPT ![t] = "granted"]
        /\ UNCHANGED <<waitFor, req, edges>>
    BY <1>3 DEF TryAgain, Grant
  <2>2. req[t].page \in Page /\ req[t].mode \in Mode
    BY DEF TypeOK, Request
  <2>3. \A u \in Txn : \A h \in Txn : Blocks(h, u) => Blocks(h, u)'
    BY <2>1, <2>2, BlocksAfterGrant
  <2>4. \A u \in Txn : waitFor[u] \subseteq Txn
    BY DEF TypeOK, Graphs
  <2>5. \A h \in Txn : ~Blocks(h, t)
    BY <2>1, GrantableIsNotBlocked
  <2>6. /\ \A u \in Txn \ {t} : pc'[u] = pc[u]
        /\ pc'[t] = "granted" /\ pc[t] # "finishing"
    BY <2>1 DEF TypeOK, Waiting
  <2>7. \A u \in Txn : \A h \in waitFor'[u] :
          pc[h] # "finishing" /\ Explained(u, h) => Explained(u, h)'
    BY <2>1, <2>3, <2>4, <2>5, <2>6 DEF Explained, InAcquire
  <2>8. \A u \in Txn : /\ waitFor'[u] \subseteq waitFor[u]
                       /\ pc'[u] # "releasing" /\ (pc'[u] = "finishing" <=> pc[u] = "finishing")
    BY <2>1, <2>6 DEF EdgesInv
  <2> QED
    BY <2>7, <2>8, EdgesRemainExplained
<1>4. CASE GoToSleep(t) \/ Expire(t) \/ GiveUp(t) \/ Raise(t) \/ (Dequeue(t) /\ Detector)
           \/ ListHolders(t)
  <2>1. /\ UNCHANGED <<holders, waitFor, req>>
        /\ \A u \in Txn \ {t} : pc'[u] = pc[u] /\ edges'[u] = edges[u]
    BY <1>4 DEF GoToSleep, Expire, GiveUp, Raise, Dequeue, ListHolders, TypeOK
  <2>2. pc[t] \notin {"finishing", "clearing"} /\ pc'[t] \notin {"finishing", "releasing"}
        /\ (InAcquire(t) => InAcquire(t)')
        /\ (pc'[t] = "clearing" => edges'[t] = Others(t, req[t].page))
    BY <1>4 DEF GoToSleep, Expire, GiveUp, Raise, Dequeue, ListHolders, TypeOK, InAcquire,
       Waiting, TimedOut
  <2>3. \A u \in Txn, h \in Txn : Blocks(h, u) => Blocks(h, u)' /\ h \in Others(u, req[u].page)
    BY <2>1 DEF Blocks, Others, Holders
  <2>4. \A u \in Txn : waitFor[u] \subseteq Txn
    BY DEF TypeOK, Graphs
  <2>5. \A u \in Txn : \A h \in waitFor'[u] :
          pc[h] # "finishing" /\ Explained(u, h) => Explained(u, h)'
    BY <2>1, <2>2, <2>3, <2>4 DEF Explained, InAcquire
  <2>6. \A u \in Txn : /\ waitFor'[u] \subseteq waitFor[u]
                       /\ pc'[u] # "releasing" /\ (pc'[u] = "finishing" <=> pc[u] = "finishing")
    BY <2>1, <2>2 DEF EdgesInv
  <2> QED
    BY <2>5, <2>6, EdgesRemainExplained
<1>5. CASE (Dequeue(t) /\ ~Detector) \/ ReturnTrue(t) \/ ReturnFalse(t) \/ ForgetEdge(t)
           \/ (\E p \in Page, m \in Mode : AcquireDeadlock(t, p, m))
  <2>1. /\ UNCHANGED <<holders, req>>
        /\ \A u \in Txn \ {t} : /\ pc'[u] = pc[u] /\ edges'[u] = edges[u]
                                /\ waitFor'[u] = waitFor[u]
        /\ waitFor'[t] \subseteq waitFor[t]
    BY <1>5 DEF Dequeue, ReturnTrue, ReturnFalse, ForgetEdge, AcquireDeadlock, RemoveEdges,
       TypeOK, Graphs
  <2>2. pc[t] # "finishing" /\ pc'[t] \notin {"finishing", "releasing"}
    BY <1>5 DEF Dequeue, ReturnTrue, ReturnFalse, ForgetEdge, AcquireDeadlock, TypeOK
  <2>3. \A u \in Txn, h \in Txn : Blocks(h, u) => Blocks(h, u)'
    BY <2>1 DEF Blocks, Others, Holders
  <2>4. \A u \in Txn : waitFor[u] \subseteq Txn
    BY DEF TypeOK, Graphs
  <2>5. \A h \in waitFor'[t] : pc[h] # "finishing" /\ Explained(t, h) => Explained(t, h)'
    <3>1. CASE Dequeue(t) /\ ~Detector
      BY <2>1, <3>1 DEF EdgesInv
    <3>2. CASE ReturnTrue(t) \/ (\E p \in Page, m \in Mode : AcquireDeadlock(t, p, m))
      BY <3>2 DEF ReturnTrue, AcquireDeadlock, Explained, InAcquire, Waiting, TimedOut
    <3>3. CASE ReturnFalse(t)
      BY <3>3 DEF ReturnFalse, Explained
    <3>4. CASE ForgetEdge(t)
      <4>1. PICK h \in edges[t] : /\ waitFor' = RemoveEdges(waitFor, t, {h})
                                  /\ edges' = [edges EXCEPT ![t] = @ \ {h}]
                                  /\ pc' = pc
        BY <3>4 DEF ForgetEdge
      <4>2. waitFor'[t] = waitFor[t] \ {h} /\ edges'[t] = edges[t] \ {h}
        BY <4>1 DEF RemoveEdges, TypeOK, Graphs
      <4> QED
        BY <2>3, <2>4, <4>1, <4>2 DEF Explained, InAcquire
    <3> QED
      BY <1>5, <3>1, <3>2, <3>3, <3>4
  <2>6. \A u \in Txn : \A h \in waitFor'[u] :
          pc[h] # "finishing" /\ Explained(u, h) => Explained(u, h)'
    BY <2>1, <2>3, <2>4, <2>5 DEF Explained, InAcquire
  <2>7. \A u \in Txn : /\ waitFor'[u] \subseteq waitFor[u]
                       /\ pc'[u] # "releasing" /\ (pc'[u] = "finishing" <=> pc[u] = "finishing")
    BY <2>1, <2>2 DEF EdgesInv
  <2> QED
    BY <2>6, <2>7, EdgesRemainExplained
<1>6. CASE Finish(t)
  <2>1. /\ UNCHANGED <<holders, waitFor, req, edges>> /\ pc' = [pc EXCEPT ![t] = "finishing"]
        /\ pc[t] = "idle" /\ \A u \in Txn : pc[u] # "finishing"
    BY <1>6 DEF Finish, StartReleaseAll
  <2>2. waitFor'[t] = {}
    <3>1. waitFor[t] \subseteq Txn
      BY DEF TypeOK, Graphs
    <3> QED
      BY <2>1, <3>1 DEF EdgesInv, Explained, InAcquire, Waiting, TimedOut
  <2>3. \A u, h \in Txn : Blocks(h, u)' <=> Blocks(h, u)
    BY <2>1 DEF Blocks, Others, Holders
  <2>4. \A u \in Txn : waitFor[u] \subseteq Txn
    BY DEF TypeOK, Graphs
  <2>5. pc'[t] = "finishing" /\ \A u \in Txn \ {t} : pc'[u] = pc[u]
    BY <2>1 DEF TypeOK
  <2>6. \A u \in Txn : \A h \in waitFor'[u] : Explained(u, h)'
    BY <2>1, <2>2, <2>3, <2>4, <2>5 DEF EdgesInv, Explained, InAcquire
  <2> QED
    BY <2>1, <2>2, <2>5, <2>6 DEF EdgesInv
<1>7. CASE ReleaseNext(t)
  <2>1. PICK p \in Page : ReleasePage(t, p)
    BY <1>7 DEF ReleaseNext, TypeOK
  <2>2. pc[t] = "finishing"
    BY <1>7 DEF ReleaseNext, Releasing, EdgesInv
  <2>3. UNCHANGED <<waitFor, req, edges>> /\ holders' = Unlocked(t, p)
    BY <2>1 DEF ReleasePage
  <2>4. \A u \in Txn : pc'[u] = pc[u] \/ (pc[u] = "asleep" /\ pc'[u] = "notified")
    BY <2>1 DEF ReleasePage, Wakes
  <2>5. \A u \in Txn, h \in Txn \ {t} : Blocks(h, u) => Blocks(h, u)'
    <3> SUFFICES ASSUME NEW u \in Txn, NEW h \in Txn \ {t} PROVE Blocks(h, u) => Blocks(h, u)'
      OBVIOUS
    <3>1. req[u].page \in Page
      BY DEF TypeOK, Request
    <3>2. holders'[req[u].page][h] = holders[req[u].page][h]
      BY <2>3, <3>1 DEF Unlocked, TypeOK
    <3> QED
      BY <2>3, <3>2 DEF Blocks, Others, Holders
  <2>6. \A u \in Txn : waitFor[u] \subseteq Txn
    BY DEF TypeOK, Graphs
  <2>7. \A u \in Txn : InAcquire(u) => InAcquire(u)'
    BY <2>4 DEF InAcquire, Waiting, TimedOut
  <2>8. \A u \in Txn : \A h \in waitFor'[u] :
          pc[h] # "finishing" /\ Explained(u, h) => Explained(u, h)'
    BY <2>2, <2>3, <2>4, <2>5, <2>6, <2>7 DEF Explained
  <2>9. \A u \in Txn : /\ waitFor'[u] \subseteq waitFor[u]
                       /\ pc'[u] # "releasing" /\ (pc'[u] = "finishing" <=> pc[u] = "finishing")
    BY <2>3, <2>4 DEF EdgesInv
  <2> QED
    BY <2>8, <2>9, EdgesRemainExplained
<1>8. CASE ClearTxn(t)
  <2>1. /\ pc[t] = "finishing" /\ waitFor' = Cleared(waitFor, t)
        /\ pc' = [pc EXCEPT ![t] = "ended"] /\ UNCHANGED <<holders, req, edges>>
    BY <1>8 DEF ClearTxn
  <2>2. \A u \in Txn : waitFor'[u] \subseteq waitFor[u] \ {t}
    BY <2>1 DEF Cleared, EdgesInv
  <2>3. pc'[t] = "ended" /\ \A u \in Txn \ {t} : pc'[u] = pc[u] /\ pc[u] # "finishing"
    BY <2>1 DEF TypeOK, EdgesInv
  <2>4. \A u, h \in Txn : Blocks(h, u)' <=> Blocks(h, u)
    BY <2>1 DEF Blocks, Others, Holders
  <2>5. \A u \in Txn : waitFor[u] \subseteq Txn
    BY DEF TypeOK, Graphs
  <2>6. \A u \in Txn : \A h \in waitFor'[u] : Explained(u, h)'
    <3> SUFFICES ASSUME NEW u \in Txn, NEW h \in waitFor'[u] PROVE Explained(u, h)'
      OBVIOUS
    <3>1. h \in Txn \ {t} /\ h \in waitFor[u] /\ u # t
      BY <2>1, <2>2, <2>5 DEF EdgesInv
    <3>2. Explained(u, h) /\ pc[h] # "finishing" /\ pc'[u] = pc[u]
      BY <2>3, <3>1 DEF EdgesInv
    <3> QED
      BY <2>1, <2>4, <3>1, <3>2 DEF Explained, InAcquire
  <2>7. \A u \in Txn : pc'[u] \notin {"finishing", "releasing"}
    BY <2>3 DEF EdgesInv
  <2>8. ~Detector => \A u \in Txn : waitFor'[u] = {}
    BY <2>2 DEF EdgesInv
  <2> QED
    BY <2>6, <2>7, <2>8 DEF EdgesInv
<1>9. CASE (\E p \in Page : Release(t, p)) \/ ReleaseAll(t) \/ EndReleaseAll(t)
  BY <1>9 DEF Release, ReleaseAll, EndReleaseAll, EdgesInv
<1> QED
  BY <1>1, <1>2, <1>3, <1>4, <1>5, <1>6, <1>7, <1>8, <1>9, ModesOfUse DEF ThreadStep

\* What the edges say of the whole, when locks are kept to the end.
LEMMA EdgesAreExplained == ASSUME ~EarlyRelease PROVE Spec => []EdgesInv
<1>1. Init => EdgesInv
  BY DEF Init, EdgesInv, NoEdges
<1>2. TypeOK /\ MutualExclusion /\ EdgesInv /\ [Next]_vars => EdgesInv'
  <2>1. EdgesInv /\ UNCHANGED vars => EdgesInv'
    BY DEF EdgesInv, Explained, InAcquire, Blocks, Others, Holders, vars
  <2> QED
    BY <2>1, StepOfOneThread, StepEdges
<1> QED
  BY <1>1, <1>2, TypeCorrect, LocksExclude, PTL DEF Spec

\* A transaction outside acquire waits for nobody but for one that is about to
\* be cleared, as long as locks are kept to the end of their transaction:
\* grants, denials and time-outs take their edges back.
THEOREM IdleHasNoEdges == ASSUME ~EarlyRelease PROVE Spec => []IdleWaitsForNobody
<1>1. TypeOK /\ EdgesInv => IdleWaitsForNobody
  <2> SUFFICES ASSUME TypeOK, EdgesInv, NEW t \in Txn, pc[t] = "idle", NEW h \in waitFor[t]
               PROVE  pc[h] = "finishing" /\ t \notin waitFor[h]
    BY DEF IdleWaitsForNobody
  <2>1. h \in Txn
    BY DEF TypeOK, Graphs
  <2>2. pc[h] = "finishing"
    BY DEF EdgesInv, Explained, InAcquire, Waiting, TimedOut
  <2> QED
    BY <2>1, <2>2 DEF EdgesInv
<1> QED
  BY <1>1, EdgesAreExplained, TypeCorrect, PTL

\* The circle behind a DeadlockError: the members of the knot that the request
\* closed, none of which is past its acquire.
LEMMA DeniedInACircle ==
    ASSUME TypeOK, MutualExclusion, WaitForAcyclic, EdgesInv,
           NEW t \in Txn, NEW p \in Page, NEW m \in Mode, AcquireDeadlock(t, p, m)
    PROVE  \E S \in SUBSET Txn :
               /\ \E h \in S \cap Others(t, p) : ~Compatible(holders[p][h], m)
               /\ \A u \in S \ {t} :
                   InAcquire(u) /\ \E h \in S \cup {t} : Blocks(h, u)
<1>1. pc[t] = "idle" /\ ~Grantable(t, p, m) /\ Detector /\ HasCycle(WithRequest(t, p))
  BY DEF AcquireDeadlock, ClosesCycle
<1>2. PICK S \in SUBSET Txn : Knot(WithRequest(t, p), S)
  BY <1>1 DEF HasCycle
<1>3. /\ WithRequest(t, p)[t] = waitFor[t] \cup Others(t, p)
      /\ \A u \in Txn \ {t} : WithRequest(t, p)[u] = waitFor[u]
  BY <1>1 DEF WithRequest, AddEdges, TypeOK, Graphs
<1>4. \A u \in S : WithRequest(t, p)[u] \cap S # {}
  BY <1>2 DEF Knot
<1>5. \A u \in S \ {t} : pc[u] # "finishing"
  BY <1>3, <1>4, ZenonT(60) DEF EdgesInv
<1>6. \A u \in S : pc[u] # "finishing"
  BY <1>1, <1>5
<1>7. t \in S
  <2> SUFFICES ASSUME t \notin S PROVE FALSE
    OBVIOUS
  <2>1. Knot(waitFor, S)
    BY <1>2, <1>3 DEF Knot
  <2> QED
    BY <2>1 DEF WaitForAcyclic, HasCycle
<1>8. \E h \in S \cap Others(t, p) : ~Compatible(holders[p][h], m)
  <2>1. PICK h \in S : h \in waitFor[t] \cup Others(t, p)
    BY <1>3, <1>4, <1>7
  <2>2. h \notin waitFor[t]
    BY <1>1, <1>6, <2>1 DEF EdgesInv, Explained, InAcquire, Waiting, TimedOut
  <2> QED
    BY <1>1, <2>1, <2>2, EveryHolderBlocks
<1>9. \A u \in S \ {t} : InAcquire(u) /\ \E h \in S \cup {t} : Blocks(h, u)
  <2> SUFFICES ASSUME NEW u \in S \ {t}
               PROVE  InAcquire(u) /\ \E h \in S : Blocks(h, u)
    OBVIOUS
  <2>1. PICK h \in S : h \in waitFor[u]
    BY <1>3, <1>4
  <2> QED
    BY <1>6, <2>1 DEF EdgesInv, Explained
<1> QED
  BY <1>8, <1>9

\* DeadlockError is raised only for a circle of requests each of which is
\* blocked by a lock of the next transaction, as long as locks are kept to the
\* end of their transaction: no edge in the graph is out of date.
THEOREM DeniedInADeadlock == ASSUME ~EarlyRelease PROVE Spec => DeadlockIsReal
<1> DEFINE Real == \A t \in Txn, p \in Page, m \in Mode :
        AcquireDeadlock(t, p, m) =>
            \E S \in SUBSET Txn :
                /\ \E h \in S \cap Others(t, p) : ~Compatible(holders[p][h], m)
                /\ \A u \in S \ {t} :
                    InAcquire(u) /\ \E h \in S \cup {t} : Blocks(h, u)
<1>1. TypeOK /\ MutualExclusion /\ WaitForAcyclic /\ EdgesInv => Real
  BY DeniedInACircle
<1>2. DeadlockIsReal <=> [][Real]_vars
  BY DEF DeadlockIsReal
<1> HIDE DEF Real
<1> QED
  BY <1>1, <1>2, TypeCorrect, LocksExclude, GraphStaysAcyclic, EdgesAreExplained, PTL
=============================================================================
