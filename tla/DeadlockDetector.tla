-------------------------- MODULE DeadlockDetector --------------------------
(***************************************************************************)
(* The wait-for graph of src/tinydb/concurrency/deadlock_detector.py.      *)
(* The graph maps every transaction to the transactions it waits for; the  *)
(* dictionary of the code leaves out the transactions that wait for        *)
(* nobody, here they are mapped to {}.                                     *)
(***************************************************************************)

CONSTANT Txn        \* transaction identifiers

Graphs == [Txn -> SUBSET Txn]

\* _wait_for of a detector that was just built
NoEdges == [t \in Txn |-> {}]

\* add_wait_edge(t, h) for every h \in hs
AddEdges(g, t, hs) == [g EXCEPT ![t] = @ \cup hs]

\* Mutants: no edge is removed; the edges that enter a cleared transaction stay.
EdgesKept(g, t, hs) == g
ClearedOutgoing(g, t) == [g EXCEPT ![t] = {}]

\* remove_wait_edge(t, h) for every h \in hs
RemoveEdges(g, t, hs) == [g EXCEPT ![t] = @ \ hs]

\* clear_txn(t): the edges that leave t and those that enter it
Cleared(g, t) == [u \in Txn |-> IF u = t THEN {} ELSE g[u] \ {t}]

\* Every member of S waits for a member of S: exactly the finite graphs with a
\* cycle have such a set.
Knot(g, S) == S # {} /\ \A u \in S : g[u] \cap S # {}

\* detect_cycle() is not None
HasCycle(g) == \E S \in SUBSET Txn : Knot(g, S)
=============================================================================
