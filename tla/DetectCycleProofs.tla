------------------------- MODULE DetectCycleProofs -------------------------
(***************************************************************************)
(* Proofs about DetectCycle, for any transactions and any wait-for graph   *)
(* without loops at a single transaction, and for every order in which the *)
(* dictionary and the sets of the code are iterated.                       *)
(***************************************************************************)
EXTENDS DetectCycle, SequenceTheorems, WellFoundedInduction, NaturalsInduction, TLAPS

-----------------------------------------------------------------------------
(* Induction.                                                              *)

\* A set of natural numbers has a smallest element.
LEMMA SmallestOf ==
    ASSUME NEW T \in SUBSET Nat, T # {}
    PROVE  \E x \in T : \A y \in T : x <= y
<1>1. \A x, y \in Nat : y < x => <<y, x>> \in OpToRel(<, Nat)
  BY DEF OpToRel
<1>2. \E R : IsWellFoundedOn(R, Nat) /\ \A x, y \in Nat : y < x => <<y, x>> \in R
  BY <1>1, NatLessThanWellFounded, Zenon
<1>3. PICK R : IsWellFoundedOn(R, Nat) /\ \A x, y \in Nat : y < x => <<y, x>> \in R
  BY <1>2
<1>4. \E x \in T : \A y \in T : ~ (<<y, x>> \in R)
  BY <1>3, WFMin, Zenon
<1>5. PICK x \in T : \A y \in T : ~ (<<y, x>> \in R)
  BY <1>4
<1>6. ASSUME NEW y \in T PROVE x <= y
  <2>1. ~ (y < x)
    BY <1>3, <1>5, Zenon
  <2> QED
    BY <2>1
<1> QED
  BY <1>6

\* A set with 0 and every successor has every natural number.
LEMMA EveryNumber ==
    ASSUME NEW S, 0 \in S, \A n \in Nat : n \in S => n + 1 \in S
    PROVE  \A n \in Nat : n \in S
<1> SUFFICES ASSUME Nat \ S # {} PROVE FALSE
  OBVIOUS
<1>1. PICK x \in Nat \ S : \A y \in Nat \ S : x <= y
  BY SmallestOf
<1>2. x # 0 /\ x - 1 \in Nat /\ x - 1 \notin Nat \ S
  BY <1>1
<1> QED
  BY <1>1, <1>2

-----------------------------------------------------------------------------
(* The search.                                                             *)

Color == {"white", "gray", "black"}
Frame == [node : Txn, todo : SUBSET Txn]
Node(i) == stack[i].node

\* Types: an ancestor is a transaction that some dfs has seen.
SearchTypes ==
    /\ graph \in Graphs /\ \A t \in Txn : t \notin graph[t]
    /\ color \in [Txn -> Color]
    /\ parent \in [Txn -> {<<>>} \cup {<<x>> : x \in Txn}]
    /\ \A w, x \in Txn : parent[w] = <<x>> => color[x] # "white"
    /\ stack \in Seq(Frame)

\* No call of dfs is active twice.
NodesDiffer == \A i, j \in 1 .. Len(stack) : Node(i) = Node(j) => i = j

\* A successor that a frame has read is black, or the next frame is its dfs.
FramesRead ==
    \A i \in 1 .. Len(stack) :
        /\ stack[i].todo \subseteq graph[Node(i)]
        /\ \A w \in graph[Node(i)] \ stack[i].todo :
            color[w] = "black" \/ (i < Len(stack) /\ w = Node(i + 1))

\* What was left is done: its successors were left before it ...
BlackIsClosed ==
    \A u \in Txn : color[u] = "black" => \A w \in graph[u] : color[w] = "black"

\* ... and no cycle runs through it.
NoKnotLeft ==
    \A S \in SUBSET Txn : (\A u \in S : color[u] = "black") => ~Knot(graph, S)

\* The links of parent lead up: the walk over them ends.
Rank(d, k) ==
    /\ d \in [Txn -> 0 .. k]
    /\ \A w, x \in Txn : parent[w] = <<x>> => d[x] < d[w]
ParentsEnd == \E k \in Nat : \E d : Rank(d, k)

Search ==
    SearchTypes /\ StackIsPath /\ NodesDiffer /\ FramesRead /\ BlackIsClosed
    /\ NoKnotLeft /\ ParentsEnd

\* r is a cycle of the graph.
ListsCycle(r) ==
    /\ r \in Seq(Txn) /\ Len(r) >= 2
    /\ \A i \in 1 .. Len(r) : r[(i % Len(r)) + 1] \in graph[r[i]]
    /\ \A i, j \in 1 .. Len(r) : r[i] = r[j] => i = j

Answer ==
    \/ Searching
    \/ result = <<"none">> /\ ~HasCycle(graph)
    \/ ListsCycle(result)

-----------------------------------------------------------------------------
(* The walk over parent.                                                   *)

\* f is what the walk up to v lists, for the transactions ranked below n.
WalkBelow(f, v, d, n) ==
    /\ f \in [Txn -> Seq(Txn)]
    /\ \A w \in Txn : d[w] < n =>
        f[w] = IF parent[w] \in {<<>>, <<v>>} THEN <<>> ELSE parent[w] \o f[parent[w][1]]

\* The walk is defined for every transaction: ranks are bounded.
LEMMA WalkExists ==
    ASSUME SearchTypes, NEW v \in Txn, NEW k \in Nat, NEW d, Rank(d, k)
    PROVE  \A n \in Nat : \E f : WalkBelow(f, v, d, n)
<1> DEFINE S == {n \in Nat : \E f : WalkBelow(f, v, d, n)}
<1>0. \A w \in Txn : d[w] \in Nat
  BY DEF Rank
<1>1. 0 \in S
  <2> DEFINE f == [w \in Txn |-> <<>>]
  <2>1. f \in [Txn -> Seq(Txn)]
    OBVIOUS
  <2> HIDE DEF f
  <2>2. WalkBelow(f, v, d, 0)
    <3>1. \A w \in Txn : ~ (d[w] < 0)
      BY <1>0
    <3> QED
      BY <2>1, <3>1, Zenon DEF WalkBelow
  <2> QED
    BY <2>2
<1>2. ASSUME NEW n \in Nat, n \in S PROVE n + 1 \in S
  <2>1. PICK f : WalkBelow(f, v, d, n)
    BY <1>2
  <2> DEFINE step(w) == IF parent[w] \in {<<>>, <<v>>} THEN <<>> ELSE parent[w] \o f[parent[w][1]]
             g == [w \in Txn |-> IF d[w] = n THEN step(w) ELSE f[w]]
  <2>2. f \in [Txn -> Seq(Txn)]
    BY <2>1 DEF WalkBelow
  <2>3. ASSUME NEW w \in Txn, parent[w] \notin {<<>>, <<v>>}
        PROVE  parent[w] \in Seq(Txn) /\ parent[w][1] \in Txn /\ d[parent[w][1]] < d[w]
    <3>1. PICK x \in Txn : parent[w] = <<x>>
      BY <2>3 DEF SearchTypes
    <3> QED
      BY <3>1 DEF Rank
  <2>4. \A w \in Txn : step(w) \in Seq(Txn)
    <3> SUFFICES ASSUME NEW w \in Txn, parent[w] \notin {<<>>, <<v>>} PROVE step(w) \in Seq(Txn)
      OBVIOUS
    <3> QED
      BY <2>2, <2>3
  <2>5. g \in [Txn -> Seq(Txn)]
    <3> HIDE DEF step
    <3> QED
      BY <2>2, <2>4
  <2>6. ASSUME NEW w \in Txn, d[w] < n + 1
        PROVE  g[w] = IF parent[w] \in {<<>>, <<v>>} THEN <<>> ELSE parent[w] \o g[parent[w][1]]
    <3>1. g[w] = step(w)
      <4>1. CASE d[w] = n
        BY <4>1
      <4>2. CASE d[w] # n
        <5>1. d[w] < n /\ g[w] = f[w]
          BY <1>0, <2>6, <4>2
        <5> QED
          BY <2>1, <5>1 DEF WalkBelow
      <4> QED
        BY <4>1, <4>2
    <3>2. CASE parent[w] \in {<<>>, <<v>>}
      BY <3>1, <3>2
    <3>3. CASE parent[w] \notin {<<>>, <<v>>}
      <4>1. parent[w][1] \in Txn /\ d[parent[w][1]] < n
        BY <1>0, <2>3, <2>6, <3>3
      <4>2. g[parent[w][1]] = f[parent[w][1]]
        BY <1>0, <4>1
      <4> QED
        BY <3>1, <3>3, <4>2, ZenonT(60)
    <3> QED
      BY <3>2, <3>3
  <2> HIDE DEF g
  <2>7. WalkBelow(g, v, d, n + 1)
    BY <2>5, <2>6 DEF WalkBelow
  <2> QED
    BY <2>7
<1> HIDE DEF S
<1>3. \A n \in Nat : n \in S
  BY <1>1, <1>2, EveryNumber
<1> QED
  BY <1>3 DEF S

\* So Ancestors follows parent one step at a time.
LEMMA AncestorsWalk ==
    ASSUME SearchTypes, ParentsEnd, NEW v \in Txn
    PROVE  \E f : /\ \A w \in Txn : f[w] = IF parent[w] \in {<<>>, <<v>>} THEN <<>>
                                          ELSE parent[w] \o f[parent[w][1]]
                  /\ \A u \in Txn : Ancestors(u, v) = f[u]
<1>1. PICK k \in Nat : \E d : Rank(d, k)
  BY DEF ParentsEnd
<1>2. PICK d : Rank(d, k)
  BY <1>1
<1>3. PICK f : WalkBelow(f, v, d, k + 1)
  BY <1>2, WalkExists
<1>4. f = [w \in Txn |-> f[w]]
  BY <1>3 DEF WalkBelow
<1>5. \A w \in Txn : f[w] = IF parent[w] \in {<<>>, <<v>>} THEN <<>>
                            ELSE parent[w] \o f[parent[w][1]]
  <2>1. \A w \in Txn : d[w] < k + 1
    BY <1>2 DEF Rank
  <2> QED
    BY <1>3, <2>1, Zenon DEF WalkBelow
<1>6. f = [w \in Txn |-> IF parent[w] \in {<<>>, <<v>>} THEN <<>>
                         ELSE parent[w] \o f[parent[w][1]]]
  <2> DEFINE h == [w \in Txn |-> IF parent[w] \in {<<>>, <<v>>} THEN <<>>
                                 ELSE parent[w] \o f[parent[w][1]]]
  <2>1. \A w \in Txn : h[w] = f[w]
    <3> TAKE w \in Txn
    <3>1. h[w] = IF parent[w] \in {<<>>, <<v>>} THEN <<>> ELSE parent[w] \o f[parent[w][1]]
      OBVIOUS
    <3> QED
      BY <1>5, <3>1, Zenon
  <2>2. h = [w \in Txn |-> h[w]]
    OBVIOUS
  <2> HIDE DEF h
  <2>3. f = h
    BY <1>4, <2>1, <2>2
  <2> QED
    BY <2>3 DEF h
<1>7. \E g : /\ g = [w \in Txn |-> IF parent[w] \in {<<>>, <<v>>} THEN <<>>
                                  ELSE parent[w] \o g[parent[w][1]]]
             /\ \A u \in Txn : Ancestors(u, v) = g[u]
  BY <1>6, Zenon DEF Ancestors
<1>8. PICK g : /\ g = [w \in Txn |-> IF parent[w] \in {<<>>, <<v>>} THEN <<>>
                                     ELSE parent[w] \o g[parent[w][1]]]
               /\ \A u \in Txn : Ancestors(u, v) = g[u]
  BY <1>7
<1>9. \A w \in Txn : g[w] = IF parent[w] \in {<<>>, <<v>>} THEN <<>>
                            ELSE parent[w] \o g[parent[w][1]]
  BY <1>8, Zenon
<1> QED
  BY <1>8, <1>9

\* What lies on the stack.
LEMMA FrameTypes ==
    ASSUME SearchTypes
    PROVE  /\ Len(stack) \in Nat
           /\ \A i \in 1 .. Len(stack) :
                stack[i] \in Frame /\ Node(i) \in Txn /\ stack[i].todo \subseteq Txn
<1>1. stack \in Seq(Frame)
  BY DEF SearchTypes
<1>2. Len(stack) \in Nat /\ \A i \in 1 .. Len(stack) : stack[i] \in Frame
  BY <1>1
<1> QED
  BY <1>2 DEF Frame, Node

\* From the frame above v's the walk lists the frames down to it, in reverse.
LEMMA AncestorsOnStack ==
    ASSUME SearchTypes, StackIsPath, NodesDiffer, ParentsEnd,
           NEW k \in 1 .. Len(stack), k < Len(stack)
    PROVE  Ancestors(Node(Len(stack)), Node(k))
             = [m \in 1 .. Len(stack) - k - 1 |-> Node(Len(stack) - m)]
<1> DEFINE n == Len(stack)
<1>0. n \in Nat /\ k \in Nat /\ 1 <= k /\ k < n
  BY FrameTypes
<1>1. \A i \in 1 .. n : Node(i) \in Txn
  BY FrameTypes
<1>2. Node(k) \in Txn
  BY <1>0, <1>1
<1>3. PICK f : /\ \A w \in Txn : f[w] = IF parent[w] \in {<<>>, <<Node(k)>>} THEN <<>>
                                       ELSE parent[w] \o f[parent[w][1]]
               /\ \A u \in Txn : Ancestors(u, Node(k)) = f[u]
  BY <1>2, AncestorsWalk
<1>4. \A i \in 2 .. n : parent[Node(i)] = <<Node(i - 1)>>
  BY DEF StackIsPath, Node
<1>5. \A i \in 1 .. n : Node(i) = Node(k) => i = k
  BY DEF NodesDiffer
<1> HIDE DEF n, Node
<1> DEFINE S == {j \in Nat : \A i \in 1 .. n : i = k + 1 + j =>
                    f[Node(i)] = [m \in 1 .. j |-> Node(i - m)]}
<1>6. 0 \in S
  <2>1. parent[Node(k + 1)] = <<Node(k)>>
    BY <1>0, <1>4
  <2>2. Node(k + 1) \in Txn
    BY <1>0, <1>1
  <2>3. f[Node(k + 1)] = <<>>
    BY <1>3, <2>1, <2>2, Zenon
  <2>4. \A i \in 1 .. n : i = k + 1 + 0 => i = k + 1
    BY <1>0
  <2>5. \A i \in 1 .. n : [m \in 1 .. 0 |-> Node(i - m)] = <<>>
    OBVIOUS
  <2> QED
    BY <2>3, <2>4, <2>5
<1>7. ASSUME NEW j \in Nat, j \in S PROVE j + 1 \in S
  <2> SUFFICES ASSUME NEW l \in 1 .. n, l = k + 1 + (j + 1)
               PROVE  f[Node(l)] = [m \in 1 .. j + 1 |-> Node(l - m)]
    OBVIOUS
  <2> DEFINE i == l - 1
  <2>1. /\ i \in Nat /\ l \in 2 .. n /\ i \in 1 .. n /\ i # k /\ l \in 1 .. n /\ l \in Nat
        /\ i = k + 1 + j /\ l - 1 = i /\ i + 1 = l
    BY <1>0
  <2>2. f[Node(i)] = [m \in 1 .. j |-> Node(i - m)]
    BY <1>7, <2>1
  <2>3. parent[Node(l)] = <<Node(i)>> /\ Node(i) # Node(k)
    BY <1>4, <1>5, <2>1
  <2>4. Node(l) \in Txn /\ Node(i) \in Txn
    BY <1>0, <1>1, <2>1
  <2>5. parent[Node(l)] \notin {<<>>, <<Node(k)>>} /\ parent[Node(l)][1] = Node(i)
    BY <2>3
  <2>6. f[Node(l)] = parent[Node(l)] \o f[parent[Node(l)][1]]
    BY <1>3, <2>4, <2>5, Zenon
  <2>7. f[Node(l)] = <<Node(i)>> \o f[Node(i)]
    BY <2>3, <2>5, <2>6
  <2> HIDE DEF i
  <2>8. <<Node(i)>> \o [m \in 1 .. j |-> Node(i - m)] = [m \in 1 .. j + 1 |-> Node(l - m)]
    <3> DEFINE s == [m \in 1 .. j |-> Node(i - m)]
               c == <<Node(i)>> \o s
               r == [m \in 1 .. j + 1 |-> Node(l - m)]
    <3>1. \A m \in 1 .. j : i - m \in 1 .. n
      BY <1>0, <2>1
    <3>2. s \in Seq(Txn) /\ Len(s) = j
      BY <1>1, <3>1
    <3>3. c = [m \in 1 .. 1 + j |-> IF m <= 1 THEN <<Node(i)>>[m] ELSE s[m - 1]]
      <4> HIDE DEF s
      <4> QED
        BY <2>4, <3>2
    <3>4. ASSUME NEW m \in 1 .. j + 1 PROVE c[m] = r[m]
      <4>1. CASE m = 1
        BY <2>1, <3>3, <4>1
      <4>2. CASE m # 1
        <5>1. m - 1 \in 1 .. j /\ i - (m - 1) = l - m /\ m \in 1 .. 1 + j /\ ~ (m <= 1)
          BY <2>1, <4>2
        <5>2. c[m] = s[m - 1]
          BY <3>3, <5>1
        <5>3. s[m - 1] = Node(i - (m - 1))
          BY <5>1
        <5> QED
          BY <5>1, <5>2, <5>3
      <4> QED
        BY <4>1, <4>2
    <3>5. c = [m \in 1 .. j + 1 |-> c[m]]
      <4> HIDE DEF s, r
      <4>1. 1 + j = j + 1
        OBVIOUS
      <4> QED
        BY <3>3, <4>1
    <3>6. r = [m \in 1 .. j + 1 |-> r[m]]
      OBVIOUS
    <3> HIDE DEF c, r
    <3>7. c = r
      BY <3>4, <3>5, <3>6
    <3> QED
      BY <3>7 DEF c, r
  <2> QED
    BY <2>2, <2>7, <2>8
<1> HIDE DEF S
<1>8. \A j \in Nat : j \in S
  BY <1>6, <1>7, EveryNumber
<1>9. n - k - 1 \in Nat /\ k + 1 + (n - k - 1) = n
  BY <1>0
<1>10. f[Node(n)] = [m \in 1 .. n - k - 1 |-> Node(n - m)]
  <2>1. n - k - 1 \in S
    BY <1>8, <1>9
  <2> QED
    BY <1>0, <1>9, <2>1 DEF S
<1>11. Node(n) \in Txn
  BY <1>0, <1>1
<1> QED
  BY <1>3, <1>10, <1>11 DEF n

-----------------------------------------------------------------------------
(* The answer.                                                             *)

\* When the top frame reads a gray successor, the message lists a cycle: the
\* frames from that successor's on.
LEMMA ClosedCycleIsListed ==
    ASSUME Search, NEW v \in Txn, stack # <<>>, v \in Top.todo, CloseCycle(v)
    PROVE  ListsCycle(result')
<1> DEFINE n == Len(stack)
<1>1. n \in Nat /\ n >= 1 /\ Top = stack[n] /\ Top.node = Node(n)
  BY FrameTypes DEF Search, SearchTypes, Top, Node
<1>2. \A i \in 1 .. n : Node(i) \in Txn
  BY FrameTypes DEF Search
<1>3. PICK k \in 1 .. n : Node(k) = v
  BY DEF Search, StackIsPath, CloseCycle, Node
<1>4. v \in graph[Node(n)]
  BY <1>1 DEF Search, FramesRead
<1>5. k < n
  <2>1. v # Node(n)
    BY <1>1, <1>2, <1>4 DEF Search, SearchTypes
  <2> QED
    BY <1>1, <1>3, <2>1
<1>6. \A i \in 2 .. n : Node(i) \in graph[Node(i - 1)]
  BY DEF Search, StackIsPath, Node
<1>7. \A i, j \in 1 .. n : Node(i) = Node(j) => i = j
  BY DEF Search, NodesDiffer
<1>8. Ancestors(Node(n), v) = [m \in 1 .. n - k - 1 |-> Node(n - m)]
  BY <1>3, <1>5, AncestorsOnStack DEF Search
<1>9. result' = Reverse(<<v, Node(n)>> \o Ancestors(Node(n), v))
  BY <1>1 DEF CloseCycle
<1> HIDE DEF n, Node
<1> DEFINE l == n - k + 1
           r == [i \in 1 .. l |-> IF i = l THEN v ELSE Node(k + i)]
<1>10. result' = r
  <2> DEFINE a == [m \in 1 .. n - k - 1 |-> Node(n - m)]
             s == <<v, Node(n)>> \o a
  <2>1. a \in Seq(Txn) /\ Len(a) = n - k - 1
    <3>1. \A m \in 1 .. n - k - 1 : n - m \in 1 .. n
      BY <1>1, <1>5
    <3>2. n - k - 1 \in Nat
      BY <1>1, <1>5
    <3> QED
      BY <1>2, <3>1, <3>2
  <2>2. <<v, Node(n)>> \in Seq(Txn) /\ Len(<<v, Node(n)>>) = 2
        /\ <<v, Node(n)>>[1] = v /\ <<v, Node(n)>>[2] = Node(n)
    BY <1>1, <1>2
  <2>3. \A m \in 1 .. n - k - 1 : a[m] = Node(n - m)
    OBVIOUS
  <2> HIDE DEF a
  <2>4. s \in Seq(Txn) /\ Len(s) = l
        /\ \A i \in 1 .. l : s[i] = IF i <= 2 THEN <<v, Node(n)>>[i] ELSE a[i - 2]
    BY <1>1, <1>5, <2>1, <2>2, SMTT(60)
  <2> HIDE DEF s
  <2>5. Reverse(s) = [i \in 1 .. l |-> s[(l - i) + 1]]
    BY <2>4 DEF Reverse
  <2>6. ASSUME NEW i \in 1 .. l PROVE s[(l - i) + 1] = r[i]
    <3>1. (l - i) + 1 \in 1 .. l
      BY <1>1, <1>5
    <3>2. CASE i = l
      BY <1>1, <1>5, <2>2, <2>4, <3>1, <3>2
    <3>3. CASE i = l - 1
      <4>1. (l - i) + 1 = 2 /\ k + i = n /\ i # l
        BY <1>1, <1>5, <3>3
      <4> QED
        BY <2>2, <2>4, <3>1, <4>1
    <3>4. CASE i < l - 1
      <4>1. ~ ((l - i) + 1 <= 2) /\ ((l - i) + 1) - 2 \in 1 .. n - k - 1
            /\ n - (((l - i) + 1) - 2) = k + i /\ i # l
        BY <1>1, <1>5, <3>4
      <4>2. s[(l - i) + 1] = a[((l - i) + 1) - 2]
        BY <2>4, <3>1, <4>1
      <4>3. a[((l - i) + 1) - 2] = Node(k + i)
        BY <2>3, <4>1
      <4> QED
        BY <4>1, <4>2, <4>3
    <3> QED
      BY <1>1, <1>5, <3>2, <3>3, <3>4
  <2>7. Reverse(s) = r
    <3>1. r = [i \in 1 .. l |-> r[i]]
      OBVIOUS
    <3> HIDE DEF r, l
    <3> QED
      BY <2>5, <2>6, <3>1
  <2> QED
    BY <1>8, <1>9, <2>7 DEF s, a
<1>11. l \in Nat /\ l >= 2 /\ \A i \in 1 .. l - 1 : k + i \in 1 .. n /\ k + i # k
  BY <1>1, <1>5
<1>12. /\ \A i \in 1 .. l - 1 : r[i] = Node(k + i)
       /\ r[l] = Node(k)
  BY <1>3, <1>11
<1>13. r \in Seq(Txn) /\ Len(r) = l
  <2>1. \A i \in 1 .. l : (IF i = l THEN v ELSE Node(k + i)) \in Txn
    BY <1>2, <1>11
  <2> HIDE DEF l
  <2>2. l \in Nat
    BY <1>11
  <2> QED
    BY <2>1, <2>2
<1> HIDE DEF r
<1>14. \A i \in 1 .. l : r[(i % l) + 1] \in graph[r[i]]
  <2> SUFFICES ASSUME NEW i \in 1 .. l PROVE r[(i % l) + 1] \in graph[r[i]]
    OBVIOUS
  <2>1. CASE i = l
    <3>1. i % l = 0 /\ 1 \in 1 .. l - 1 /\ k + 1 \in 2 .. n /\ (k + 1) - 1 = k
      BY <1>1, <1>5, <1>11, <2>1
    <3>2. Node(k + 1) \in graph[Node(k)]
      BY <1>6, <3>1
    <3>3. (i % l) + 1 = 1
      BY <3>1
    <3>4. r[1] = Node(k + 1) /\ r[i] = Node(k)
      BY <1>12, <2>1, <3>1, Zenon
    <3> QED
      BY <3>2, <3>3, <3>4, Zenon
  <2>2. CASE i = l - 1
    <3>1. i % l = i /\ i + 1 = l /\ i \in 1 .. l - 1 /\ k + i = n
      BY <1>1, <1>5, <1>11, <2>2
    <3> QED
      BY <1>3, <1>4, <1>12, <3>1
  <2>3. CASE i < l - 1
    <3>1. i % l = i /\ i + 1 \in 1 .. l - 1 /\ i \in 1 .. l - 1
          /\ k + (i + 1) \in 2 .. n /\ (k + (i + 1)) - 1 = k + i
      BY <1>1, <1>5, <1>11, <2>3
    <3>2. Node(k + (i + 1)) \in graph[Node(k + i)]
      BY <1>6, <3>1
    <3> QED
      BY <1>12, <3>1, <3>2
  <2> QED
    BY <1>11, <2>1, <2>2, <2>3
<1>15. \A i, j \in 1 .. l : r[i] = r[j] => i = j
  <2> SUFFICES ASSUME NEW i \in 1 .. l, NEW j \in 1 .. l, r[i] = r[j] PROVE i = j
    OBVIOUS
  <2>1. \A x \in 1 .. l : x \in 1 .. l - 1 \/ x = l
    BY <1>11
  <2>2. CASE i \in 1 .. l - 1 /\ j \in 1 .. l - 1
    <3>1. k + i = k + j
      BY <1>7, <1>11, <1>12, <2>2
    <3> QED
      BY <1>1, <3>1
  <2>3. CASE i \in 1 .. l - 1 /\ j = l
    BY <1>7, <1>11, <1>12, <2>3
  <2>4. CASE i = l /\ j \in 1 .. l - 1
    BY <1>7, <1>11, <1>12, <2>4
  <2> QED
    BY <2>1, <2>2, <2>3, <2>4
<1> QED
  BY <1>10, <1>11, <1>13, <1>14, <1>15 DEF ListsCycle

\* The members of a listed cycle all wait for one another.
LEMMA ListedCycleIsKnot ==
    ASSUME NEW r, ListsCycle(r)
    PROVE  HasCycle(graph)
<1> DEFINE S == {r[i] : i \in 1 .. Len(r)}
<1>1. S \in SUBSET Txn /\ Len(r) \in Nat /\ 1 \in 1 .. Len(r)
  BY DEF ListsCycle
<1>2. \A i \in 1 .. Len(r) : (i % Len(r)) + 1 \in 1 .. Len(r)
  <2> DEFINE l == Len(r)
  <2>1. l \in Nat
    BY <1>1
  <2> HIDE DEF l
  <2>2. \A i \in 1 .. l : (i % l) + 1 \in 1 .. l
    <3> TAKE i \in 1 .. l
    <3>1. CASE i = l
      <4>1. i % l = 0
        BY <2>1, <3>1
      <4> QED
        BY <2>1, <4>1
    <3>2. CASE i < l
      <4>1. i % l = i
        BY <2>1, <3>2
      <4> QED
        BY <2>1, <3>2, <4>1
    <3> QED
      BY <2>1, <3>1, <3>2
  <2> QED
    BY <2>2 DEF l
<1>3. \A u \in S : graph[u] \cap S # {}
  <2> SUFFICES ASSUME NEW i \in 1 .. Len(r) PROVE \E w \in S : w \in graph[r[i]]
    OBVIOUS
  <2>1. r[(i % Len(r)) + 1] \in graph[r[i]]
    BY DEF ListsCycle
  <2>2. r[(i % Len(r)) + 1] \in S
    BY <1>2
  <2> QED
    BY <2>1, <2>2
<1>4. S # {}
  BY <1>1
<1> QED
  BY <1>1, <1>3, <1>4 DEF HasCycle, Knot

\* When every search came back the graph has no cycle: it would be in black.
LEMMA NothingLeftToFind ==
    ASSUME Search, stack = <<>>, \A u \in Txn : graph[u] = {} \/ color[u] # "white"
    PROVE  ~HasCycle(graph)
<1>1. \A u \in Txn : color[u] # "gray"
  <2>1. \A i \in DOMAIN stack : FALSE
    OBVIOUS
  <2> QED
    BY <2>1 DEF Search, StackIsPath
<1>2. \A u \in Txn : graph[u] # {} => color[u] = "black"
  BY <1>1 DEF Search, SearchTypes, Color
<1> SUFFICES ASSUME NEW S \in SUBSET Txn, Knot(graph, S) PROVE FALSE
  BY DEF HasCycle
<1>3. \A u \in S : color[u] = "black"
  BY <1>2 DEF Knot
<1> QED
  BY <1>3 DEF Search, NoKnotLeft

-----------------------------------------------------------------------------
(* The search.                                                             *)

\* The stack once the top frame has read one of its successors.
LEMMA RestOfStack ==
    ASSUME SearchTypes, stack # <<>>, NEW v
    PROVE  /\ Len(stack) \in Nat /\ Len(stack) >= 1
           /\ Rest(v) \in Seq(Frame) /\ Len(Rest(v)) = Len(stack)
           /\ \A i \in 1 .. Len(stack) : Rest(v)[i].node = stack[i].node
           /\ \A i \in 1 .. Len(stack) : i # Len(stack) => Rest(v)[i] = stack[i]
           /\ Rest(v)[Len(stack)].todo = stack[Len(stack)].todo \ {v}
<1>1. stack \in Seq(Frame) /\ Len(stack) \in Nat /\ Len(stack) >= 1
  BY DEF SearchTypes
<1>2. \A i \in 1 .. Len(stack) : stack[i] \in Frame
  BY <1>1
<1> DEFINE n == Len(stack)
           top == [stack[n] EXCEPT !.todo = @ \ {v}]
<1>3. n \in 1 .. n /\ stack[n] \in Frame
  BY <1>1, <1>2
<1>4. top \in Frame /\ top.node = stack[n].node /\ top.todo = stack[n].todo \ {v}
  BY <1>3 DEF Frame
<1> HIDE DEF top
<1>5. Rest(v) = [stack EXCEPT ![n] = top]
  BY DEF Rest, top
<1> QED
  BY <1>1, <1>3, <1>4, <1>5

\* A white transaction turning gray leaves the black ones alone.
LEMMA GrayLeavesBlack ==
    ASSUME SearchTypes, BlackIsClosed, NoKnotLeft, NEW u \in Txn, color[u] = "white",
           color' = [color EXCEPT ![u] = "gray"], graph' = graph
    PROVE  BlackIsClosed' /\ NoKnotLeft'
<1>1. \A w \in Txn : color'[w] = "black" <=> color[w] = "black"
  BY DEF SearchTypes
<1>2. \A w \in Txn : graph[w] \subseteq Txn
  BY DEF SearchTypes, Graphs
<1>3. BlackIsClosed'
  BY <1>1, <1>2 DEF BlackIsClosed
<1>4. NoKnotLeft'
  <2> SUFFICES ASSUME NEW S \in SUBSET Txn, \A w \in S : color'[w] = "black"
               PROVE  ~Knot(graph, S)
    BY DEF NoKnotLeft
  <2>1. \A w \in S : color[w] = "black"
    BY <1>1
  <2> QED
    BY <2>1 DEF NoKnotLeft
<1> QED
  BY <1>3, <1>4

\* A search starts with one frame.
LEMMA StartKeepsSearch ==
    ASSUME Search, NEW u \in Txn, StartAt(u)
    PROVE  Search'
<1>1. /\ stack = <<>> /\ color[u] = "white" /\ color' = [color EXCEPT ![u] = "gray"]
      /\ stack' = Append(stack, [node |-> u, todo |-> graph[u]])
      /\ graph' = graph /\ parent' = parent
  BY DEF StartAt, Push
<1>2. graph[u] \subseteq Txn
  BY DEF Search, SearchTypes, Graphs
<1>3. stack' \in Seq(Frame) /\ Len(stack') = 1 /\ stack'[1] = [node |-> u, todo |-> graph[u]]
  BY <1>1, <1>2 DEF Frame
<1>4. stack'[1].node = u /\ stack'[1].todo = graph[u]
  BY <1>3
<1>5. \A w \in Txn : color[w] # "gray"
  <2>1. \A i \in DOMAIN stack : FALSE
    BY <1>1
  <2> QED
    BY <2>1 DEF Search, StackIsPath
<1>6. \A w \in Txn : color'[w] = IF w = u THEN "gray" ELSE color[w]
  BY <1>1 DEF Search, SearchTypes
<1>7. SearchTypes'
  BY <1>1, <1>3, <1>6 DEF Search, SearchTypes, Color
<1>8. StackIsPath'
  <2>1. DOMAIN stack' = {1}
    BY <1>3
  <2>2. graph' \in Graphs
    BY <1>1 DEF Search, SearchTypes
  <2>3. \A w \in Txn : color'[w] = "gray" <=> \E i \in DOMAIN stack' : stack'[i].node = w
    BY <1>4, <1>5, <1>6, <2>1
  <2> QED
    BY <1>3, <2>2, <2>3 DEF StackIsPath
<1>9. NodesDiffer'
  BY <1>3 DEF NodesDiffer
<1>10. FramesRead'
  BY <1>1, <1>3, <1>4 DEF FramesRead, Node
<1>11. BlackIsClosed' /\ NoKnotLeft'
  BY <1>1, GrayLeavesBlack DEF Search
<1>12. ParentsEnd'
  BY <1>1 DEF Search, ParentsEnd, Rank
<1> QED
  BY <1>7, <1>8, <1>9, <1>10, <1>11, <1>12 DEF Search

\* A black successor is passed over.
LEMMA SkipKeepsSearch ==
    ASSUME Search, NEW v, stack # <<>>, v \in Top.todo, Skip(v), graph' = graph
    PROVE  Search'
<1> DEFINE n == Len(stack)
<1>1. stack' = Rest(v) /\ color[v] = "black" /\ color' = color /\ parent' = parent
  BY DEF Skip
<1>2. /\ n \in Nat /\ n >= 1 /\ stack' \in Seq(Frame) /\ Len(stack') = n
      /\ \A i \in 1 .. n : stack'[i].node = stack[i].node
      /\ \A i \in 1 .. n : i # n => stack'[i] = stack[i]
      /\ stack'[n].todo = stack[n].todo \ {v}
  BY <1>1, RestOfStack DEF Search
<1>3. DOMAIN stack = 1 .. n /\ DOMAIN stack' = 1 .. n
  BY <1>2 DEF Search, SearchTypes
<1>4. SearchTypes'
  BY <1>1, <1>2 DEF Search, SearchTypes
<1>5. StackIsPath'
  <2>1. \A w \in Txn : color[w] = "gray" <=> \E i \in 1 .. n : stack[i].node = w
    BY <1>3 DEF Search, StackIsPath
  <2>2. \A i \in 2 .. n : /\ stack[i].node \in graph[stack[i - 1].node]
                          /\ parent[stack[i].node] = <<stack[i - 1].node>>
    BY DEF Search, StackIsPath
  <2>3. \A i \in 2 .. n : i \in 1 .. n /\ i - 1 \in 1 .. n
    BY <1>2
  <2>4. \A w \in Txn : color'[w] = "gray" <=> \E i \in DOMAIN stack' : stack'[i].node = w
    <3> TAKE w \in Txn
    <3>1. (\E i \in 1 .. n : stack[i].node = w) <=> (\E i \in 1 .. n : stack'[i].node = w)
      BY <1>2
    <3> QED
      BY <1>1, <1>3, <2>1, <3>1
  <2>5. \A i \in 2 .. n : /\ stack'[i].node \in graph'[stack'[i - 1].node]
                          /\ parent'[stack'[i].node] = <<stack'[i - 1].node>>
    <3> TAKE i \in 2 .. n
    <3>1. stack'[i].node = stack[i].node /\ stack'[i - 1].node = stack[i - 1].node
      BY <1>2, <2>3
    <3> QED
      BY <1>1, <2>2, <3>1
  <2> QED
    BY <1>2, <1>4, <2>4, <2>5 DEF StackIsPath, SearchTypes
<1>6. NodesDiffer'
  BY <1>2 DEF Search, NodesDiffer, Node
<1>7. FramesRead'
  <2> SUFFICES ASSUME NEW i \in 1 .. n
               PROVE  /\ stack'[i].todo \subseteq graph[stack'[i].node]
                      /\ \A w \in graph[stack'[i].node] \ stack'[i].todo :
                          color[w] = "black" \/ (i < n /\ w = stack'[i + 1].node)
    BY <1>1, <1>2 DEF FramesRead, Node
  <2>1. /\ stack[i].todo \subseteq graph[stack[i].node]
        /\ \A w \in graph[stack[i].node] \ stack[i].todo :
            color[w] = "black" \/ (i < n /\ w = stack[i + 1].node)
    BY DEF Search, FramesRead, Node
  <2>2. i < n => i + 1 \in 1 .. n
    BY <1>2
  <2>3. CASE i = n
    BY <1>1, <1>2, <2>1, <2>2, <2>3
  <2>4. CASE i # n
    BY <1>1, <1>2, <2>1, <2>2, <2>4
  <2> QED
    BY <2>3, <2>4
<1>8. BlackIsClosed' /\ NoKnotLeft' /\ ParentsEnd'
  BY <1>1 DEF Search, BlackIsClosed, NoKnotLeft, ParentsEnd, Rank
<1> QED
  BY <1>4, <1>5, <1>6, <1>7, <1>8 DEF Search

\* A white successor gets a frame of its own, below the one that found it.
LEMMA DescendKeepsSearch ==
    ASSUME Search, NEW v, stack # <<>>, v \in Top.todo, Descend(v), graph' = graph
    PROVE  Search'
<1> DEFINE n == Len(stack)
           rest == Rest(v)
           frame == [node |-> v, todo |-> graph[v]]
<1>1. /\ color[v] = "white" /\ parent' = [parent EXCEPT ![v] = <<Top.node>>]
      /\ color' = [color EXCEPT ![v] = "gray"] /\ stack' = Append(rest, frame)
  BY DEF Descend
<1>2. /\ n \in Nat /\ n >= 1 /\ rest \in Seq(Frame) /\ Len(rest) = n
      /\ \A i \in 1 .. n : rest[i].node = stack[i].node
      /\ \A i \in 1 .. n : i # n => rest[i] = stack[i]
      /\ rest[n].todo = stack[n].todo \ {v}
  BY RestOfStack DEF Search
<1>3. /\ v \in Txn /\ Top.node = Node(n) /\ v \in stack[n].todo
      /\ \A i \in 1 .. n : Node(i) \in Txn
  <2>1. n \in 1 .. n
    BY <1>2
  <2>2. stack[n].todo \subseteq Txn /\ \A i \in 1 .. n : Node(i) \in Txn
    BY <2>1, FrameTypes DEF Search
  <2> QED
    BY <2>2 DEF Top, Node
<1>4. graph[v] \subseteq Txn /\ frame \in Frame /\ frame.node = v /\ frame.todo = graph[v]
  BY <1>3 DEF Search, SearchTypes, Graphs, Frame
<1> HIDE DEF rest, frame
<1>5. /\ stack' \in Seq(Frame) /\ Len(stack') = n + 1 /\ stack'[n + 1] = frame
      /\ \A i \in 1 .. n : stack'[i] = rest[i]
  BY <1>1, <1>2, <1>4
<1>6. /\ \A i \in 1 .. n : stack'[i].node = Node(i)
      /\ \A i \in 1 .. n : i # n => stack'[i].todo = stack[i].todo
      /\ stack'[n].todo = stack[n].todo \ {v}
      /\ stack'[n + 1].node = v /\ stack'[n + 1].todo = graph[v]
  BY <1>2, <1>4, <1>5 DEF Node
<1>7. \A w \in Txn : color'[w] = IF w = v THEN "gray" ELSE color[w]
  BY <1>1, <1>3 DEF Search, SearchTypes
<1>8. \A w \in Txn : parent'[w] = IF w = v THEN <<Node(n)>> ELSE parent[w]
  BY <1>1, <1>3 DEF Search, SearchTypes
<1>9. \A w \in Txn : color[w] = "gray" <=> \E i \in 1 .. n : Node(i) = w
  <2>1. DOMAIN stack = 1 .. n
    BY DEF Search, SearchTypes
  <2> QED
    BY <2>1 DEF Search, StackIsPath, Node
<1>10. Node(n) \in Txn /\ color[Node(n)] = "gray" /\ \A i \in 1 .. n : Node(i) # v
  <2>1. n \in 1 .. n
    BY <1>2
  <2> QED
    BY <1>1, <1>3, <1>9, <2>1
<1>11. SearchTypes'
  <2>1. color' \in [Txn -> Color]
    BY <1>1 DEF Search, SearchTypes, Color
  <2>2. parent' \in [Txn -> {<<>>} \cup {<<x>> : x \in Txn}]
    BY <1>1, <1>3, <1>10 DEF Search, SearchTypes
  <2>3. \A w, x \in Txn : parent'[w] = <<x>> => color'[x] # "white"
    <3> SUFFICES ASSUME NEW w \in Txn, NEW x \in Txn, parent'[w] = <<x>>
                 PROVE  color'[x] # "white"
      OBVIOUS
    <3>1. CASE w = v
      BY <1>7, <1>8, <1>10, <3>1
    <3>2. CASE w # v
      BY <1>7, <1>8, <3>2 DEF Search, SearchTypes
    <3> QED
      BY <3>1, <3>2
  <2> QED
    BY <1>5, <2>1, <2>2, <2>3 DEF Search, SearchTypes
<1>12. StackIsPath'
  <2>1. DOMAIN stack' = 1 .. n + 1
    BY <1>2, <1>5
  <2>2. \A i \in 1 .. n + 1 : i \in 1 .. n \/ i = n + 1
    BY <1>2
  <2>3. n + 1 \in 1 .. n + 1 /\ \A i \in 1 .. n : i \in 1 .. n + 1
    BY <1>2
  <2>4. ASSUME NEW w \in Txn
        PROVE  color'[w] = "gray" <=> \E i \in 1 .. n + 1 : stack'[i].node = w
    <3>1. CASE w = v
      BY <1>6, <1>7, <2>3, <3>1
    <3>2. CASE w # v
      BY <1>6, <1>7, <1>9, <2>2, <2>3, <3>2
    <3> QED
      BY <3>1, <3>2
  <2>5. ASSUME NEW i \in 2 .. n + 1
        PROVE  /\ stack'[i].node \in graph[stack'[i - 1].node]
               /\ parent'[stack'[i].node] = <<stack'[i - 1].node>>
    <3>1. CASE i = n + 1
      <4>1. i - 1 = n /\ n \in 1 .. n
        BY <1>2, <3>1
      <4>2. v \in graph[Node(n)]
        BY <1>3, <4>1 DEF Search, FramesRead
      <4>3. stack'[i].node = v /\ stack'[i - 1].node = Node(n)
        BY <1>6, <3>1, <4>1, ZenonT(60)
      <4> QED
        BY <1>3, <1>8, <4>2, <4>3
    <3>2. CASE i # n + 1
      <4>1. i \in 2 .. n /\ i \in 1 .. n /\ i - 1 \in 1 .. n
        BY <1>2, <3>2
      <4>2. stack'[i].node = Node(i) /\ stack'[i - 1].node = Node(i - 1)
        BY <1>6, <4>1
      <4>3. Node(i) \in graph[Node(i - 1)] /\ parent[Node(i)] = <<Node(i - 1)>>
        BY <4>1 DEF Search, StackIsPath, Node
      <4>4. parent'[Node(i)] = parent[Node(i)]
        BY <1>3, <1>8, <1>10, <4>1
      <4> QED
        BY <4>2, <4>3, <4>4
    <3> QED
      BY <3>1, <3>2
  <2> QED
    BY <1>5, <1>11, <2>1, <2>4, <2>5 DEF StackIsPath, SearchTypes
<1>13. NodesDiffer'
  <2> SUFFICES ASSUME NEW i \in 1 .. n + 1, NEW j \in 1 .. n + 1, stack'[i].node = stack'[j].node
               PROVE  i = j
    BY <1>5 DEF NodesDiffer, Node
  <2>1. \A x \in 1 .. n + 1 : x \in 1 .. n \/ x = n + 1
    BY <1>2
  <2>2. CASE i \in 1 .. n /\ j \in 1 .. n
    BY <1>6, <2>2 DEF Search, NodesDiffer
  <2>3. CASE i = n + 1 \/ j = n + 1
    BY <1>6, <1>10, <2>1, <2>3
  <2> QED
    BY <2>1, <2>2, <2>3
<1>14. FramesRead'
  <2> SUFFICES ASSUME NEW i \in 1 .. n + 1
               PROVE  /\ stack'[i].todo \subseteq graph[stack'[i].node]
                      /\ \A w \in graph[stack'[i].node] \ stack'[i].todo :
                          color'[w] = "black" \/ (i < n + 1 /\ w = stack'[i + 1].node)
    BY <1>5 DEF FramesRead, Node
  <2>1. CASE i = n + 1
    BY <1>6, <2>1
  <2>2. CASE i # n + 1
    <3>1. i \in 1 .. n /\ i < n + 1
      BY <1>2, <2>2
    <3>2. /\ stack[i].todo \subseteq graph[Node(i)]
          /\ \A w \in graph[Node(i)] \ stack[i].todo :
              color[w] = "black" \/ (i < n /\ w = Node(i + 1))
      BY <3>1 DEF Search, FramesRead
    <3>3. graph[Node(i)] \subseteq Txn
      BY <1>3, <3>1 DEF Search, SearchTypes, Graphs
    <3>4. \A w \in Txn : color[w] = "black" => color'[w] = "black"
      BY <1>1, <1>7
    <3>5. CASE i = n
      BY <1>6, <3>1, <3>2, <3>3, <3>4, <3>5
    <3>6. CASE i # n
      <4>1. i < n /\ i + 1 \in 1 .. n
        BY <1>2, <3>1, <3>6
      <4>2. stack'[i + 1].node = Node(i + 1) /\ stack'[i].node = Node(i)
            /\ stack'[i].todo = stack[i].todo
        BY <1>6, <3>1, <3>6, <4>1
      <4> QED
        BY <3>1, <3>2, <3>3, <3>4, <4>2
    <3> QED
      BY <3>5, <3>6
  <2> QED
    BY <2>1, <2>2
<1>15. BlackIsClosed' /\ NoKnotLeft'
  BY <1>1, <1>3, GrayLeavesBlack DEF Search
<1>16. ParentsEnd'
  <2>1. PICK k \in Nat : \E d : Rank(d, k)
    BY DEF Search, ParentsEnd
  <2>2. PICK d : Rank(d, k)
    BY <2>1
  <2> DEFINE e == [d EXCEPT ![v] = k + 1]
  <2>3. d \in [Txn -> 0 .. k] /\ \A w \in Txn : d[w] \in 0 .. k
    BY <2>2 DEF Rank
  <2>4. e \in [Txn -> 0 .. k + 1] /\ \A w \in Txn : e[w] = IF w = v THEN k + 1 ELSE d[w]
    BY <1>3, <2>1, <2>3
  <2>5. ASSUME NEW w \in Txn, NEW x \in Txn, parent'[w] = <<x>> PROVE e[x] < e[w]
    <3>1. CASE w = v
      <4>1. x # v /\ e[w] = k + 1 /\ e[x] = d[x]
        BY <1>2, <1>8, <1>10, <2>4, <2>5, <3>1
      <4> QED
        BY <2>3, <4>1
    <3>2. CASE w # v
      <4>1. parent[w] = <<x>>
        BY <1>8, <2>5, <3>2
      <4>2. x # v
        BY <1>1, <4>1 DEF Search, SearchTypes
      <4>3. d[x] < d[w]
        BY <2>2, <4>1 DEF Rank
      <4> QED
        BY <2>4, <3>2, <4>2, <4>3
    <3> QED
      BY <3>1, <3>2
  <2> HIDE DEF e
  <2>6. k + 1 \in Nat
    BY <2>1
  <2> QED
    BY <2>4, <2>5, <2>6 DEF ParentsEnd, Rank
<1> QED
  BY <1>11, <1>12, <1>13, <1>14, <1>15, <1>16 DEF Search

\* The stack without its top frame.
LEMMA FrontOfStack ==
    ASSUME NEW S, NEW s \in Seq(S), s # <<>>
    PROVE  /\ Front(s) \in Seq(S) /\ Len(Front(s)) = Len(s) - 1
           /\ \A i \in 1 .. Len(s) - 1 : Front(s)[i] = s[i]
<1>1. Front(s) = SubSeq(s, 1, Len(s) - 1)
  BY Zenon DEF Front
<1>2. Len(s) \in Nat /\ Len(s) >= 1 /\ \A i \in 1 .. Len(s) : s[i] \in S
  OBVIOUS
<1> DEFINE n == Len(s) - 1
<1>3. n \in Nat /\ n \in Int /\ 1 \in Int /\ (n - 1) + 1 = n /\ \A i \in 1 .. n : s[i] \in S
  BY <1>2
<1> HIDE DEF n
<1>4. /\ SubSeq(s, 1, n) \in Seq(S)
      /\ Len(SubSeq(s, 1, n)) = IF 1 <= n THEN n - 1 + 1 ELSE 0
      /\ \A i \in 1 .. n - 1 + 1 : SubSeq(s, 1, n)[i] = s[1 + i - 1]
  BY <1>3, SubSeqProperties
<1>5. \A i \in 1 .. n : SubSeq(s, 1, n)[i] = s[i]
  <2> TAKE i \in 1 .. n
  <2>1. i \in 1 .. n - 1 + 1 /\ 1 + i - 1 = i
    BY <1>3
  <2> QED
    BY <1>4, <2>1
<1>6. Len(SubSeq(s, 1, n)) = n
  BY <1>3, <1>4
<1> QED
  BY <1>1, <1>4, <1>5, <1>6 DEF n

\* A frame without unread successors is left: all of them are black, and so a
\* cycle through its transaction would run through those left before.
LEMMA LeaveKeepsSearch ==
    ASSUME Search, Leave
    PROVE  Search'
<1> DEFINE n == Len(stack)
           u == Node(n)
<1>1. /\ stack # <<>> /\ Top.todo = {} /\ color' = [color EXCEPT ![u] = "black"]
      /\ stack' = Front(stack) /\ graph' = graph /\ parent' = parent
  BY DEF Leave, Top, Node
<1>2. /\ n \in Nat /\ n >= 1 /\ n \in 1 .. n /\ stack \in Seq(Frame)
  BY <1>1 DEF Search, SearchTypes
<1>3. /\ stack' \in Seq(Frame) /\ Len(stack') = n - 1 /\ \A i \in 1 .. n - 1 : stack'[i] = stack[i]
  BY <1>1, <1>2, FrontOfStack
<1>4. u \in Txn /\ \A i \in 1 .. n : Node(i) \in Txn
  BY <1>2, FrameTypes DEF Search
<1>5. \A w \in Txn : color'[w] = IF w = u THEN "black" ELSE color[w]
  BY <1>1, <1>4 DEF Search, SearchTypes
<1>6. \A w \in Txn : color[w] = "gray" <=> \E i \in 1 .. n : Node(i) = w
  <2>1. DOMAIN stack = 1 .. n
    BY DEF Search, SearchTypes
  <2> QED
    BY <2>1 DEF Search, StackIsPath, Node
<1>7. color[u] = "gray" /\ \A i \in 1 .. n - 1 : i \in 1 .. n /\ Node(i) # u
  BY <1>2, <1>4, <1>6 DEF Search, NodesDiffer
<1>8. \A w \in graph[u] : w \in Txn /\ color[w] = "black"
  <2>1. stack[n].todo = {}
    BY <1>1 DEF Top
  <2>2. graph[u] \subseteq Txn
    BY <1>4 DEF Search, SearchTypes, Graphs
  <2> QED
    BY <1>2, <2>1, <2>2 DEF Search, FramesRead
<1>9. SearchTypes'
  BY <1>1, <1>3, <1>4, <1>5 DEF Search, SearchTypes, Color
<1>10. StackIsPath'
  <2>1. DOMAIN stack' = 1 .. n - 1
    BY <1>2, <1>3
  <2>2. ASSUME NEW w \in Txn
        PROVE  color'[w] = "gray" <=> \E i \in 1 .. n - 1 : stack'[i].node = w
    <3>1. \A i \in 1 .. n : i = n \/ i \in 1 .. n - 1
      BY <1>2
    <3>2. \A i \in 1 .. n - 1 : stack'[i].node = Node(i) /\ i \in 1 .. n /\ Node(i) # u
      BY <1>3, <1>7 DEF Node
    <3>3. CASE w = u
      BY <1>5, <3>2, <3>3
    <3>4. CASE w # u
      BY <1>5, <1>6, <3>1, <3>2, <3>4, SMTT(60)
    <3> QED
      BY <3>3, <3>4
  <2>3. ASSUME NEW i \in 2 .. n - 1
        PROVE  /\ stack'[i].node \in graph[stack'[i - 1].node]
               /\ parent[stack'[i].node] = <<stack'[i - 1].node>>
    <3>1. i \in 2 .. n /\ i \in 1 .. n - 1 /\ i - 1 \in 1 .. n - 1
      BY <1>2
    <3>2. stack'[i] = stack[i] /\ stack'[i - 1] = stack[i - 1]
      BY <1>3, <3>1
    <3> QED
      BY <3>1, <3>2 DEF Search, StackIsPath
  <2> QED
    <3>1. graph' \in Graphs /\ graph' = graph /\ parent' = parent /\ Len(stack') = n - 1
      BY <1>1, <1>3, <1>9, Zenon DEF SearchTypes
    <3>2. \A w \in Txn : color'[w] = "gray" <=> \E i \in DOMAIN stack' : stack'[i].node = w
      BY <2>1, <2>2, Zenon
    <3> QED
      BY <2>3, <3>1, <3>2, Zenon DEF StackIsPath
<1>11. NodesDiffer'
  BY <1>3, <1>7, ZenonT(60) DEF Search, NodesDiffer, Node
<1>12. BlackIsClosed'
  <2> SUFFICES ASSUME NEW x \in Txn, color'[x] = "black", NEW w \in graph[x]
               PROVE  color'[w] = "black"
    BY <1>1 DEF BlackIsClosed
  <2>1. graph[x] \subseteq Txn
    BY DEF Search, SearchTypes, Graphs
  <2>2. color[w] = "black"
    BY <1>5, <1>8 DEF Search, BlackIsClosed
  <2> QED
    BY <1>5, <2>1, <2>2
<1>13. FramesRead'
  <2> SUFFICES ASSUME NEW i \in 1 .. n - 1
               PROVE  /\ stack'[i].todo \subseteq graph[stack'[i].node]
                      /\ \A w \in graph[stack'[i].node] \ stack'[i].todo :
                          color'[w] = "black" \/ (i < n - 1 /\ w = stack'[i + 1].node)
    BY <1>1, <1>3 DEF FramesRead, Node
  <2>1. i \in 1 .. n /\ stack'[i] = stack[i] /\ i < n
    BY <1>2, <1>3
  <2>2. /\ stack[i].todo \subseteq graph[Node(i)]
        /\ \A w \in graph[Node(i)] \ stack[i].todo :
            color[w] = "black" \/ (i < n /\ w = Node(i + 1))
    BY <2>1 DEF Search, FramesRead
  <2>3. graph[Node(i)] \subseteq Txn
    BY <1>4, <2>1 DEF Search, SearchTypes, Graphs
  <2>4. \A w \in Txn : color[w] = "black" => color'[w] = "black"
    BY <1>5
  <2>5. CASE i = n - 1
    <3>1. Node(i + 1) = u /\ color'[u] = "black"
      BY <1>2, <1>4, <1>5, <2>5
    <3> QED
      BY <2>1, <2>2, <2>3, <2>4, <3>1 DEF Node
  <2>6. CASE i # n - 1
    <3>1. i < n - 1 /\ i + 1 \in 1 .. n - 1
      BY <1>2, <2>1, <2>6
    <3>2. stack'[i + 1].node = Node(i + 1)
      BY <1>3, <3>1 DEF Node
    <3> QED
      BY <2>1, <2>2, <2>3, <2>4, <3>1, <3>2 DEF Node
  <2> QED
    BY <2>5, <2>6
<1> HIDE DEF u
<1>14. NoKnotLeft'
  <2> SUFFICES ASSUME NEW S \in SUBSET Txn, \A w \in S : color'[w] = "black", Knot(graph, S)
               PROVE  FALSE
    BY <1>1 DEF NoKnotLeft
  <2>1. \A w \in S \ {u} : color[w] = "black"
    BY <1>5
  <2>2. \A w \in S \ {u} : graph[w] \cap (S \ {u}) # {}
    <3> TAKE w \in S \ {u}
    <3>1. u \notin graph[w]
      BY <1>7, <2>1 DEF Search, BlackIsClosed
    <3> QED
      BY <3>1 DEF Knot
  <2>3. S \ {u} # {}
    <3>1. CASE u \in S
      <4>1. PICK w \in S : w \in graph[u]
        BY <3>1 DEF Knot
      <4>2. w # u
        BY <1>7, <1>8, <4>1
      <4> QED
        BY <4>1, <4>2
    <3>2. CASE u \notin S
      BY <3>2 DEF Knot
    <3> QED
      BY <3>1, <3>2
  <2>4. Knot(graph, S \ {u})
    BY <2>2, <2>3 DEF Knot
  <2> QED
    BY <2>1, <2>4 DEF Search, NoKnotLeft
<1>15. ParentsEnd'
  BY <1>1 DEF Search, ParentsEnd, Rank
<1> QED
  BY <1>9, <1>10, <1>11, <1>12, <1>13, <1>14, <1>15 DEF Search

\* The search stands where it stood when only the answer changes.
LEMMA SearchStands ==
    ASSUME Search, UNCHANGED <<graph, color, parent, stack>>
    PROVE  Search'
<1>1. SearchTypes'
  BY DEF Search, SearchTypes
<1>2. StackIsPath'
  BY DEF Search, StackIsPath
<1>3. NodesDiffer' /\ FramesRead'
  BY DEF Search, NodesDiffer, FramesRead, Node
<1>4. BlackIsClosed' /\ NoKnotLeft'
  BY DEF Search, BlackIsClosed, NoKnotLeft
<1>5. ParentsEnd'
  BY DEF Search, ParentsEnd, Rank
<1> QED
  BY <1>1, <1>2, <1>3, <1>4, <1>5 DEF Search

\* Every step keeps the search and what is said about its answer.
LEMMA StepOfSearch ==
    ASSUME Search, Answer, Next
    PROVE  Search' /\ Answer'
<1>1. CASE \E u \in Txn : StartAt(u)
  <2>1. Search'
    BY <1>1, StartKeepsSearch
  <2> QED
    BY <1>1, <2>1 DEF StartAt, Searching, Answer
<1>2. CASE \E v \in Txn : Look(v)
  <2> PICK v \in Txn : Look(v)
    BY <1>2
  <2>1. Searching /\ stack # <<>> /\ v \in Top.todo /\ graph' = graph
        /\ (CloseCycle(v) \/ Descend(v) \/ Skip(v))
    BY DEF Look
  <2>2. CASE CloseCycle(v)
    <3>1. ListsCycle(result)'
      BY <2>1, <2>2, ClosedCycleIsListed DEF ListsCycle
    <3>2. UNCHANGED <<graph, color, parent, stack>>
      BY <2>1, <2>2 DEF CloseCycle
    <3>3. Search'
      BY <3>2, SearchStands
    <3> QED
      BY <3>1, <3>3 DEF Answer
  <2>3. CASE Descend(v)
    BY <2>1, <2>3, DescendKeepsSearch DEF Descend, Searching, Answer
  <2>4. CASE Skip(v)
    BY <2>1, <2>4, SkipKeepsSearch DEF Skip, Searching, Answer
  <2> QED
    BY <2>1, <2>2, <2>3, <2>4
<1>3. CASE Leave
  BY <1>3, LeaveKeepsSearch DEF Leave, Searching, Answer
<1>4. CASE NoCycleFound
  <2>1. UNCHANGED <<graph, color, parent, stack>> /\ result' = <<"none">> /\ ~HasCycle(graph)
    BY <1>4, NothingLeftToFind DEF NoCycleFound
  <2>2. Search'
    BY <2>1, SearchStands
  <2>3. Answer'
    BY <2>1 DEF Answer
  <2> QED
    BY <2>2, <2>3
<1>5. CASE UNCHANGED vars
  <2>1. Search'
    BY <1>5, SearchStands DEF vars
  <2> QED
    BY <1>5, <2>1 DEF vars, Answer, Searching, ListsCycle
<1> QED
  BY <1>1, <1>2, <1>3, <1>4, <1>5 DEF Next, Done

\* The search starts with every transaction white and none on the stack.
LEMMA InitOfSearch == Init => Search /\ Answer
<1> SUFFICES ASSUME Init PROVE Search /\ Answer
  OBVIOUS
<1>1. stack = <<>> /\ Len(stack) = 0 /\ DOMAIN stack = {} /\ stack \in Seq(Frame)
  BY DEF Init
<1>2. \A w \in Txn : color[w] = "white" /\ parent[w] = <<>>
  BY DEF Init
<1>3. SearchTypes
  BY <1>1, <1>2 DEF Init, SearchTypes, Color
<1>4. StackIsPath /\ NodesDiffer /\ FramesRead
  BY <1>1, <1>2, <1>3 DEF SearchTypes, StackIsPath, NodesDiffer, FramesRead
<1>5. BlackIsClosed
  BY <1>2 DEF BlackIsClosed
<1>6. NoKnotLeft
  BY <1>2 DEF NoKnotLeft, Knot
<1>7. ParentsEnd
  <2> DEFINE d == [w \in Txn |-> 0]
  <2>1. d \in [Txn -> 0 .. 0]
    OBVIOUS
  <2> HIDE DEF d
  <2>2. Rank(d, 0)
    BY <1>2, <2>1 DEF Rank
  <2> QED
    BY <2>2 DEF ParentsEnd
<1>8. Answer
  BY DEF Init, Answer, Searching
<1> QED
  BY <1>3, <1>4, <1>5, <1>6, <1>7, <1>8 DEF Search

\* The inductive invariant of detect_cycle.
LEMMA SearchGoesOn == Spec => [](Search /\ Answer)
<1>1. Search /\ Answer /\ UNCHANGED vars => Search' /\ Answer'
  BY SearchStands DEF vars, Answer, Searching, ListsCycle
<1>2. Search /\ Answer /\ [Next]_vars => Search' /\ Answer'
  BY <1>1, StepOfSearch
<1> QED
  BY <1>2, InitOfSearch, PTL DEF Spec

\* The gray transactions are the frames of the stack, along edges of the graph
\* and of parent, in a graph of any size.
THEOREM GrayIsThePath == Spec => []StackIsPath
<1>1. Search => StackIsPath
  BY DEF Search
<1> QED
  BY <1>1, SearchGoesOn, PTL

\* detect_cycle finds a cycle exactly when the graph has one, whatever order
\* the dictionary and the sets are iterated in.
THEOREM CyclesAreFound == Spec => []FindsCycles
<1>1. Answer => FindsCycles
  <2> SUFFICES ASSUME Answer, ~Searching PROVE result # <<"none">> <=> HasCycle(graph)
    BY DEF FindsCycles
  <2>1. CASE ListsCycle(result)
    <3>1. HasCycle(graph)
      BY <2>1, ListedCycleIsKnot
    <3>2. Len(result) >= 2 /\ Len(result) \in Nat
      BY <2>1 DEF ListsCycle
    <3>3. result # <<"none">>
      <4>1. result = <<"none">> => Len(result) = 1
        OBVIOUS
      <4> QED
        BY <3>2, <4>1
    <3> QED
      BY <3>1, <3>3
  <2> QED
    BY <2>1 DEF Answer
<1> QED
  BY <1>1, SearchGoesOn, PTL

\* What the message of DeadlockError lists is a cycle of the graph, in which no
\* transaction is named twice.
THEOREM CycleIsListed == Spec => []ReportsACycle
<1>1. Answer => ReportsACycle
  <2> SUFFICES ASSUME ListsCycle(result)
               PROVE  /\ \A i \in DOMAIN result :
                            result[(i % Len(result)) + 1] \in graph[result[i]]
                      /\ \A i, j \in DOMAIN result : result[i] = result[j] => i = j
    BY DEF ReportsACycle, Answer
  <2>1. DOMAIN result = 1 .. Len(result)
    BY DEF ListsCycle
  <2> QED
    BY <2>1 DEF ListsCycle
<1> QED
  BY <1>1, SearchGoesOn, PTL
=============================================================================
