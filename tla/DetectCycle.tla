---------------------------- MODULE DetectCycle ----------------------------
(***************************************************************************)
(* The depth-first search of DeadlockDetector.detect_cycle, one call of    *)
(* dfs being one frame of a stack.  The code iterates over a dictionary    *)
(* and over sets: any order may come out.                                  *)
(***************************************************************************)
EXTENDS Integers, Sequences, SequencesExt

CONSTANT Txn        \* transaction identifiers

VARIABLES
    graph,          \* the wait-for graph, fixed while detect_cycle has the lock
    color,          \* white, gray (on the stack) or black
    parent,         \* parent[v] = <<u>> when dfs(v) was called by dfs(u)
    stack,          \* active calls of dfs: node and successors to look at
    result          \* <<>> while searching, then <<"none">> or the cycle

vars == <<graph, color, parent, stack, result>>

INSTANCE DeadlockDetector

Searching == result = <<>>
Push(u) == Append(stack, [node |-> u, todo |-> graph[u]])
Top == stack[Len(stack)]

Init ==
    /\ graph \in Graphs
    /\ \A t \in Txn : t \notin graph[t]      \* acquire skips its own locks
    /\ color = [t \in Txn |-> "white"]
    /\ parent = [t \in Txn |-> <<>>]
    /\ stack = <<>>
    /\ result = <<>>

\* The outer loop starts a search from a key that is still white.
StartAt(u) ==
    /\ Searching /\ stack = <<>>
    /\ graph[u] # {} /\ color[u] = "white"
    /\ color' = [color EXCEPT ![u] = "gray"]
    /\ stack' = Push(u)
    /\ UNCHANGED <<graph, parent, result>>

\* Mutant: the walk stops below the root of the search only.
AncestorsToRoot(u, v) ==
    LET Up[w \in Txn] == IF parent[w] = <<>> THEN <<>> ELSE parent[w] \o Up[parent[w][1]]
    IN  Up[u]

\* The while loop: from u up to the child of v, following parent.
Ancestors(u, v) ==
    LET Up[w \in Txn] ==
            IF parent[w] \in {<<>>, <<v>>} THEN <<>> ELSE parent[w] \o Up[parent[w][1]]
    IN  Up[u]

\* Mutant: the iterator does not advance.
RestUnread(v) == stack

\* The stack once the top frame has read its successor v.
Rest(v) == [stack EXCEPT ![Len(stack)].todo = @ \ {v}]

CloseCycle(v) ==
    /\ color[v] = "gray"
    /\ result' = Reverse(<<v, Top.node>> \o Ancestors(Top.node, v))
    /\ UNCHANGED <<color, parent, stack>>

Descend(v) ==
    /\ color[v] = "white"
    /\ parent' = [parent EXCEPT ![v] = <<Top.node>>]
    /\ color' = [color EXCEPT ![v] = "gray"]
    /\ stack' = Append(Rest(v), [node |-> v, todo |-> graph[v]])
    /\ UNCHANGED result

Skip(v) ==
    /\ color[v] = "black"
    /\ stack' = Rest(v)
    /\ UNCHANGED <<color, parent, result>>

\* The next successor v of the top frame.
Look(v) ==
    /\ Searching /\ stack # <<>>
    /\ v \in Top.todo
    /\ CloseCycle(v) \/ Descend(v) \/ Skip(v)
    /\ UNCHANGED graph

\* Mutant: a frame that was left keeps its color.
LeaveGray ==
    /\ Searching /\ stack # <<>>
    /\ Top.todo = {}
    /\ stack' = Front(stack)
    /\ UNCHANGED <<graph, color, parent, result>>

Leave ==
    /\ Searching /\ stack # <<>>
    /\ Top.todo = {}
    /\ color' = [color EXCEPT ![Top.node] = "black"]
    /\ stack' = Front(stack)
    /\ UNCHANGED <<graph, parent, result>>

\* Mutant: the outer loop stops after the first search.
NoCycleFoundEarly ==
    /\ Searching /\ stack = <<>>
    /\ \E u \in Txn : color[u] # "white"
    /\ result' = <<"none">>
    /\ UNCHANGED <<graph, color, parent, stack>>

NoCycleFound ==
    /\ Searching /\ stack = <<>>
    /\ \A u \in Txn : graph[u] = {} \/ color[u] # "white"
    /\ result' = <<"none">>
    /\ UNCHANGED <<graph, color, parent, stack>>

Done == ~Searching /\ UNCHANGED vars

Next == (\E u \in Txn : StartAt(u) \/ Look(u)) \/ Leave \/ NoCycleFound \/ Done

Spec == Init /\ [][Next]_vars /\ WF_vars(Next)

-----------------------------------------------------------------------------
\* The gray transactions are the frames of the stack, from the root of the
\* search down along edges of the graph: what the walk over parent relies on.
StackIsPath ==
    /\ graph \in Graphs
    /\ \A t \in Txn : color[t] = "gray" <=> \E i \in DOMAIN stack : stack[i].node = t
    /\ \A i \in 2..Len(stack) :
        /\ stack[i].node \in graph[stack[i - 1].node]
        /\ parent[stack[i].node] = <<stack[i - 1].node>>

\* The search finds a cycle exactly when there is one: the answer does not
\* depend on the order in which dictionary and sets are iterated.
FindsCycles == ~Searching => (result # <<"none">> <=> HasCycle(graph))

\* The list that goes into the message of DeadlockError is a cycle of the
\* graph: each transaction waits for the next one, the last for the first,
\* and none is listed twice.
ReportsACycle ==
    (~Searching /\ result # <<"none">>) =>
        /\ \A i \in DOMAIN result :
            result[(i % Len(result)) + 1] \in graph[result[i]]
        /\ \A i, j \in DOMAIN result : result[i] = result[j] => i = j

\* Whatever the graph, the search ends.
SearchEnds == <>(~Searching)
=============================================================================
