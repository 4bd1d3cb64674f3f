---------------------------- MODULE TreeProofs ------------------------------
(***************************************************************************)
(* Proofs about BTree: a tree stays a tree, node by node and split by      *)
(* split, and an insert adds one entry, a delete removes one, and a search *)
(* finds what is there: for nodes and keys of any size, and any series of  *)
(* operations.                                                             *)
(***************************************************************************)
EXTENDS IndexedTable, SequenceTheorems, WellFoundedInduction, NaturalsInduction, TLAPS

-----------------------------------------------------------------------------
(* Induction.                                                              *)

\* A set of natural numbers has a smallest element.
LEMMA SmallestOf ==
    ASSUME NEW T \in SUBSET Nat, T # {}
    PROVE  \E x \in T : \A y \in T : x <= y
<1>1. \A x, y \in Nat : y < x => <<y, x>> \in OpToRel(<, Nat)
  BY DEF OpToRel
<1>2. \E R : IsWellFoundedOn(R, Nat) /\ \A x, y \in Nat : y < x => <<y, x>> \in R
  BY <1>1, NatLessThanWellFounded, Zenon
<1>3. PICK R : IsWellFoundedOn(R, Nat) /\ \A x, y \in Nat : y < x => <<y, x>> \in R
  BY <1>2
<1>4. \E x \in T : \A y \in T : ~ (<<y, x>> \in R)
  BY <1>3, WFMin, Zenon
<1>5. PICK x \in T : \A y \in T : ~ (<<y, x>> \in R)
  BY <1>4
<1>6. ASSUME NEW y \in T PROVE x <= y
  <2>1. ~ (y < x)
    BY <1>3, <1>5, Zenon
  <2> QED
    BY <2>1
<1> QED
  BY <1>6

\* A set with 0 and every successor has every natural number.
LEMMA EveryNumber ==
    ASSUME NEW S, 0 \in S, \A n \in Nat : n \in S => n + 1 \in S
    PROVE  \A n \in Nat : n \in S
<1> SUFFICES ASSUME Nat \ S # {} PROVE FALSE
  OBVIOUS
<1>1. PICK x \in Nat \ S : \A y \in Nat \ S : x <= y
  BY SmallestOf
<1>2. x # 0 /\ x - 1 \in Nat /\ x - 1 \notin Nat \ S
  BY <1>1
<1> QED
  BY <1>1, <1>2

-----------------------------------------------------------------------------
(* The shape of the tree.                                                  *)

\* A sequence with one more element, at place i.
Longer(t, s, i, e) ==
    /\ Len(t) = Len(s) + 1
    /\ \A j \in 1 .. Len(s) + 1 :
        t[j] = IF j < i THEN s[j] ELSE IF j = i THEN e ELSE s[j - 1]

\* What list.insert does.
LEMMA InsertAtIs ==
    ASSUME NEW S, NEW s \in Seq(S), NEW e \in S, NEW i \in 1 .. Len(s) + 1
    PROVE  InsertAt(s, i, e) \in Seq(S) /\ Longer(InsertAt(s, i, e), s, i, e)
<1> DEFINE a == SubSeq(s, 1, i - 1)
           c == SubSeq(s, i, Len(s))
           b == a \o <<e>>
           t == InsertAt(s, i, e)
<1>1. Len(s) \in Nat /\ i \in Nat /\ i >= 1 /\ i <= Len(s) + 1 /\ \A j \in 1 .. Len(s) : s[j] \in S
  OBVIOUS
<1>2. a \in Seq(S) /\ Len(a) = i - 1 /\ \A j \in 1 .. i - 1 : a[j] = s[j]
  BY <1>1, SubSeqProperties
<1>3. /\ c \in Seq(S) /\ Len(c) = Len(s) - i + 1
      /\ \A j \in 1 .. Len(s) - i + 1 : c[j] = s[i + j - 1]
  BY <1>1, SubSeqProperties
<1>4. t = b \o c
  BY DEF InsertAt
<1> HIDE DEF a, c, t
<1>5. <<e>> \in Seq(S) /\ Len(<<e>>) = 1 /\ <<e>>[1] = e
  OBVIOUS
<1>6. b \in Seq(S) /\ Len(b) = i /\ \A j \in 1 .. i : b[j] = IF j < i THEN s[j] ELSE e
  <2>1. /\ b \in Seq(S) /\ Len(b) = Len(a) + 1
        /\ \A j \in 1 .. Len(a) + 1 : b[j] = IF j <= Len(a) THEN a[j] ELSE <<e>>[j - Len(a)]
    BY <1>2, <1>5, ConcatProperties
  <2> QED
    BY <1>1, <1>2, <1>5, <2>1
<1> HIDE DEF b
<1>7. /\ t \in Seq(S) /\ Len(t) = i + Len(c)
      /\ \A j \in 1 .. i + Len(c) : t[j] = IF j <= i THEN b[j] ELSE c[j - i]
  <2>1. /\ t \in Seq(S) /\ Len(t) = Len(b) + Len(c)
        /\ \A j \in 1 .. Len(b) + Len(c) : t[j] = IF j <= Len(b) THEN b[j] ELSE c[j - Len(b)]
    BY <1>3, <1>4, <1>6, ConcatProperties
  <2> QED
    BY <1>6, <2>1
<1>8. Len(t) = Len(s) + 1
  BY <1>1, <1>3, <1>7
<1>9. ASSUME NEW j \in 1 .. Len(s) + 1
      PROVE  t[j] = IF j < i THEN s[j] ELSE IF j = i THEN e ELSE s[j - 1]
  <2>1. t[j] = IF j <= i THEN b[j] ELSE c[j - i]
    BY <1>1, <1>3, <1>7
  <2>2. CASE j <= i
    BY <1>1, <1>6, <2>1, <2>2
  <2>3. CASE j > i
    <3>1. j - i \in 1 .. Len(s) - i + 1 /\ i + (j - i) - 1 = j - 1
      BY <1>1, <2>3
    <3>2. c[j - i] = s[j - 1]
      BY <1>3, <3>1
    <3> QED
      BY <1>1, <2>1, <2>3, <3>2
  <2> QED
    BY <1>1, <2>2, <2>3
<1> QED
  BY <1>7, <1>8, <1>9 DEF t, Longer

\* A node of a tree of n pages: an address or a child for each key, and no more
\* keys than the page is meant for.
AnyLeaf == [leaf : {TRUE}, keys : Seq(Key), ptrs : Seq(RowId)]
AnyInner(n) == [leaf : {FALSE}, keys : Seq(Key), ptrs : Seq(1 .. n)]
Arity(node) == Len(node.ptrs) = Len(node.keys) + IF node.leaf THEN 0 ELSE 1
Limit(node) == IF node.leaf THEN MaxLeaf ELSE MaxInner
Shaped(n) ==
    {node \in AnyLeaf \cup AnyInner(n) : Arity(node) /\ Len(node.keys) <= Limit(node)}

\* The limits of nodes; an address takes more room than a child.
LEMMA LimitsOfNodes ==
    /\ MaxLeaf \in Nat /\ MaxInner \in Nat
    /\ MaxLeaf >= 2 /\ MaxInner >= 3
<1> QED
  BY SplitsAreProper, NodeSizes DEF MaxLeaf, MaxInner

\* An address takes more room than the number of a page.
LEMMA LeavesAreShort == MaxLeaf <= MaxInner
<1> DEFINE a == NodeSpace - 4
           b == KeyEstimate + 4
           m == MaxLeaf
<1>1. a \in Int /\ b \in Nat /\ b > 0 /\ m \in Nat /\ m = a \div (b + 4)
  <2>1. KeyEstimate + 8 = b + 4
    BY NodeSizes
  <2> QED
    BY <2>1, NodeSizes, LimitsOfNodes DEF MaxLeaf
<1>2. MaxInner = a \div b
  BY DEF MaxInner
<1> HIDE DEF a, b, m
<1>3. m * (b + 4) <= a
  BY <1>1
<1>4. m * b <= a
  BY <1>1, <1>3
<1>5. m <= a \div b
  BY <1>1, <1>4
<1> QED
  BY <1>2, <1>5 DEF m

\* What a node consists of.
LEMMA NodeParts ==
    ASSUME NEW n \in Nat, NEW node \in Shaped(n)
    PROVE  /\ node.keys \in Seq(Key) /\ Len(node.keys) \in Nat
           /\ \A i \in 1 .. Len(node.keys) : node.keys[i] \in Key /\ node.keys[i] \in Int
           /\ node.leaf \in BOOLEAN
           /\ node.leaf => /\ node.ptrs \in Seq(RowId) /\ Len(node.ptrs) = Len(node.keys)
                           /\ Len(node.keys) <= MaxLeaf
                           /\ node = Leaf(node.keys, node.ptrs)
           /\ ~ node.leaf => /\ node.ptrs \in Seq(1 .. n) /\ Len(node.ptrs) = Len(node.keys) + 1
                             /\ Len(node.keys) <= MaxInner
                             /\ node = Inner(node.keys, node.ptrs)
                             /\ \A i \in 1 .. Len(node.keys) + 1 : node.ptrs[i] \in 1 .. n
<1>1. node \in AnyLeaf \cup AnyInner(n) /\ Arity(node) /\ Len(node.keys) <= Limit(node)
  BY DEF Shaped
<1>2. node.keys \in Seq(Key) /\ node.leaf \in BOOLEAN
  BY <1>1, ZenonT(60) DEF AnyLeaf, AnyInner
<1>3. node.leaf => node.ptrs \in Seq(RowId) /\ node = Leaf(node.keys, node.ptrs)
  BY <1>1 DEF AnyLeaf, AnyInner, Leaf
<1>4. ~ node.leaf => node.ptrs \in Seq(1 .. n) /\ node = Inner(node.keys, node.ptrs)
  BY <1>1 DEF AnyLeaf, AnyInner, Inner
<1>5. \A i \in 1 .. Len(node.keys) : node.keys[i] \in Key /\ node.keys[i] \in Int
  <2>1. \A i \in 1 .. Len(node.keys) : node.keys[i] \in Key
    BY <1>2, ElementOfSeq
  <2> QED
    BY <2>1, KeysAreOrdered
<1>6. Len(node.ptrs) = Len(node.keys) + (IF node.leaf THEN 0 ELSE 1)
  BY <1>1 DEF Arity
<1>7. Len(node.keys) <= IF node.leaf THEN MaxLeaf ELSE MaxInner
  BY <1>1 DEF Limit
<1>8. Len(node.keys) \in Nat
  BY <1>2
<1> HIDE DEF MaxLeaf, MaxInner
<1>9. ~ node.leaf => \A i \in 1 .. Len(node.keys) + 1 : node.ptrs[i] \in 1 .. n
  BY <1>4, <1>6, <1>8, SMTT(60)
<1>10. node.leaf => Len(node.ptrs) = Len(node.keys) /\ Len(node.keys) <= MaxLeaf
  BY <1>6, <1>7, <1>8
<1>11. ~ node.leaf => Len(node.ptrs) = Len(node.keys) + 1 /\ Len(node.keys) <= MaxInner
  BY <1>6, <1>7
<1> QED
  BY <1>2, <1>3, <1>4, <1>5, <1>8, <1>9, <1>10, <1>11

\* What makes a leaf, and an inner node.
LEMMA LeafShaped ==
    ASSUME NEW n, NEW keys \in Seq(Key), NEW ptrs \in Seq(RowId),
           Len(ptrs) = Len(keys), Len(keys) <= MaxLeaf
    PROVE  Leaf(keys, ptrs) \in Shaped(n)
<1> HIDE DEF MaxLeaf
<1> QED
  BY DEF Leaf, Shaped, AnyLeaf, Arity, Limit

\* What makes an inner node.
LEMMA InnerShaped ==
    ASSUME NEW n, NEW keys \in Seq(Key), NEW ptrs \in Seq(1 .. n),
           Len(ptrs) = Len(keys) + 1, Len(keys) <= MaxInner
    PROVE  Inner(keys, ptrs) \in Shaped(n)
<1> HIDE DEF MaxInner
<1> QED
  BY DEF Inner, Shaped, AnyInner, Arity, Limit

\* A node stays one if the tree gets more pages.
LEMMA ShapedGrows ==
    ASSUME NEW n \in Nat, NEW m \in Nat, n <= m
    PROVE  Shaped(n) \subseteq Shaped(m)
<1> SUFFICES ASSUME NEW node \in Shaped(n) PROVE node \in Shaped(m)
  OBVIOUS
<1>1. CASE node.leaf
  <2>1. /\ node = Leaf(node.keys, node.ptrs) /\ node.keys \in Seq(Key) /\ node.ptrs \in Seq(RowId)
        /\ Len(node.ptrs) = Len(node.keys) /\ Len(node.keys) <= MaxLeaf
    BY <1>1, NodeParts, Zenon
  <2>2. Leaf(node.keys, node.ptrs) \in Shaped(m)
    BY <2>1, LeafShaped, Zenon
  <2> QED
    BY <2>1, <2>2, Zenon
<1>2. CASE ~ node.leaf
  <2>1. /\ node = Inner(node.keys, node.ptrs) /\ node.keys \in Seq(Key) /\ node.ptrs \in Seq(1 .. n)
        /\ Len(node.ptrs) = Len(node.keys) + 1 /\ Len(node.keys) <= MaxInner
    BY <1>2, NodeParts, Zenon
  <2>2. node.ptrs \in Seq(1 .. m)
    BY <2>1
  <2>3. Inner(node.keys, node.ptrs) \in Shaped(m)
    BY <2>1, <2>2, InnerShaped, Zenon
  <2> QED
    BY <2>1, <2>3, Zenon
<1> QED
  BY <1>1, <1>2

\* Where a key goes in a node: behind all that are not greater.
PositionIs(node, key, i) ==
    /\ i \in 1 .. Len(node.keys) + 1
    /\ \A j \in 1 .. i - 1 : node.keys[j] <= key
    /\ i <= Len(node.keys) => key < node.keys[i]

\* SelectInSeq finds it.
LEMMA PositionFound ==
    ASSUME NEW n \in Nat, NEW node \in Shaped(n), NEW key \in Int
    PROVE  PositionIs(node, key, Position(node, key))
<1> DEFINE l == Len(node.keys)
           G == {i \in 1 .. Len(node.keys) : key < node.keys[i]}
<1>1. l \in Nat /\ \A i \in 1 .. l : node.keys[i] \in Int
  BY NodeParts
<1>2. Position(node, key) = IF G = {} THEN l + 1
                            ELSE IF Min(G) = 0 THEN l + 1 ELSE Min(G)
  BY DEF Position, SelectInSeq
<1> HIDE DEF l
<1>3. CASE G = {}
  <2>1. Position(node, key) = l + 1
    BY <1>2, <1>3
  <2>2. \A j \in 1 .. l : node.keys[j] <= key
    BY <1>1, <1>3 DEF l
  <2> QED
    BY <1>1, <2>1, <2>2 DEF PositionIs, l
<1>4. CASE G # {}
  <2>1. G \in SUBSET Nat
    BY <1>1 DEF l
  <2>2. \E x \in G : \A y \in G : x <= y
    BY <1>4, <2>1, SmallestOf
  <2>3. Min(G) \in G /\ \A y \in G : Min(G) <= y
    BY <2>2, ZenonT(60) DEF Min
  <2>4. Min(G) \in 1 .. l /\ key < node.keys[Min(G)]
    BY <2>3 DEF l
  <2>5. Position(node, key) = Min(G)
    BY <1>2, <1>4, <2>4
  <2>6. \A j \in 1 .. Min(G) - 1 : node.keys[j] <= key
    <3> SUFFICES ASSUME NEW j \in 1 .. Min(G) - 1, ~ (node.keys[j] <= key) PROVE FALSE
      OBVIOUS
    <3>1. j \in 1 .. l /\ ~ (Min(G) <= j)
      BY <1>1, <2>4
    <3>2. j \in G
      BY <1>1, <3>1 DEF l
    <3> QED
      BY <2>3, <3>1, <3>2
  <2> HIDE DEF G
  <2> QED
    BY <1>1, <2>4, <2>5, <2>6 DEF PositionIs, l
<1> QED
  BY <1>3, <1>4

\* There is one such place.
LEMMA PositionUnique ==
    ASSUME NEW n \in Nat, NEW node \in Shaped(n), NEW key \in Int,
           NEW i, PositionIs(node, key, i), NEW j, PositionIs(node, key, j)
    PROVE  i = j
<1> DEFINE l == Len(node.keys)
<1>1. l \in Nat /\ \A k \in 1 .. l : node.keys[k] \in Int
  BY NodeParts, ZenonT(60)
<1>2. i \in 1 .. l + 1 /\ j \in 1 .. l + 1
  BY DEF PositionIs
<1> HIDE DEF l
<1>3. ~ (i < j)
  <2> SUFFICES ASSUME i < j PROVE FALSE
    OBVIOUS
  <2>1. i \in 1 .. j - 1 /\ i \in 1 .. l
    BY <1>1, <1>2
  <2> QED
    BY <1>1, <2>1 DEF PositionIs, l
<1>4. ~ (j < i)
  <2> SUFFICES ASSUME j < i PROVE FALSE
    OBVIOUS
  <2>1. j \in 1 .. i - 1 /\ j \in 1 .. l
    BY <1>1, <1>2
  <2> QED
    BY <1>1, <2>1 DEF PositionIs, l
<1> QED
  BY <1>1, <1>2, <1>3, <1>4

\* The halves of a node, parted behind its first m keys.  The key in the middle
\* of an inner node goes up and is in neither.
Gone(node) == IF node.leaf THEN 0 ELSE 1
HalvesAre(node, half, m) ==
    /\ m \in 1 .. Len(node.keys) - 1
    /\ half.key = node.keys[m + 1]
    /\ half.left.leaf = node.leaf /\ half.right.leaf = node.leaf
    /\ Len(half.left.keys) = m /\ Len(half.right.keys) = Len(node.keys) - m - Gone(node)
    /\ \A j \in 1 .. m : half.left.keys[j] = node.keys[j]
    /\ \A j \in 1 .. m + Gone(node) : half.left.ptrs[j] = node.ptrs[j]
    /\ \A j \in 1 .. Len(node.keys) - m - Gone(node) :
        half.right.keys[j] = node.keys[m + Gone(node) + j]
    /\ \A j \in 1 .. Len(node.keys) - m :
        half.right.ptrs[j] = node.ptrs[m + Gone(node) + j]

\* Both halves of a node with two keys or more are nodes, and have room.
LEMMA HalvesShaped ==
    ASSUME NEW n \in Nat, NEW node \in Shaped(n), Len(node.keys) >= 2
    PROVE  /\ \E m : HalvesAre(node, Halves(node), m)
           /\ Halves(node).left \in Shaped(n) /\ Halves(node).right \in Shaped(n)
           /\ ~ Full(Halves(node).left) /\ ~ Full(Halves(node).right)
<1> DEFINE l == Len(node.keys)
<1>1. /\ node.keys \in Seq(Key) /\ l \in Nat /\ l >= 2
      /\ \A i \in 1 .. l : node.keys[i] \in Key
      /\ MaxLeaf \in Nat /\ MaxInner \in Nat
  BY NodeParts, LimitsOfNodes
<1>2. PICK m : m = l \div 2
  OBVIOUS
<1>3. m \in Nat /\ m >= 1 /\ m < l
  <2>1. \A k \in Nat : k >= 2 => k \div 2 \in Nat /\ k \div 2 >= 1 /\ k \div 2 < k
    OBVIOUS
  <2> HIDE DEF l
  <2> QED
    BY <1>1, <1>2, <2>1
<1> HIDE DEF l, MaxLeaf, MaxInner
<1> DEFINE keys1 == SubSeq(node.keys, 1, m)
<1>4. keys1 \in Seq(Key) /\ Len(keys1) = m /\ \A j \in 1 .. m : keys1[j] = node.keys[j]
  <2>1. \A i \in 1 .. m : node.keys[i] \in Key
    BY <1>1, <1>3
  <2>2. /\ keys1 \in Seq(Key) /\ Len(keys1) = IF 1 <= m THEN m - 1 + 1 ELSE 0
        /\ \A j \in 1 .. m - 1 + 1 : keys1[j] = node.keys[1 + j - 1]
    BY <1>3, <2>1, SubSeqProperties
  <2> QED
    BY <1>3, <2>2
<1>5. CASE node.leaf
  <2> DEFINE keys2 == SubSeq(node.keys, m + 1, l)
             ptrs1 == SubSeq(node.ptrs, 1, m)
             ptrs2 == SubSeq(node.ptrs, m + 1, l)
  <2>1. /\ node.ptrs \in Seq(RowId) /\ Len(node.ptrs) = l /\ l <= MaxLeaf
        /\ \A i \in 1 .. l : node.ptrs[i] \in RowId
    <3>1. node.ptrs \in Seq(RowId) /\ Len(node.ptrs) = l /\ l <= MaxLeaf
      BY <1>5, NodeParts DEF l
    <3> QED
      BY <3>1, ElementOfSeq
  <2>2. /\ keys2 \in Seq(Key) /\ Len(keys2) = l - m
        /\ \A j \in 1 .. l - m : keys2[j] = node.keys[m + j]
    <3>1. \A i \in m + 1 .. l : node.keys[i] \in Key
      BY <1>1, <1>3
    <3>2. /\ keys2 \in Seq(Key) /\ Len(keys2) = IF m + 1 <= l THEN l - (m + 1) + 1 ELSE 0
          /\ \A j \in 1 .. l - (m + 1) + 1 : keys2[j] = node.keys[(m + 1) + j - 1]
      BY <1>1, <1>3, <3>1, SubSeqProperties
    <3> QED
      BY <1>1, <1>3, <3>2
  <2>3. ptrs1 \in Seq(RowId) /\ Len(ptrs1) = m /\ \A j \in 1 .. m : ptrs1[j] = node.ptrs[j]
    <3>1. \A i \in 1 .. m : node.ptrs[i] \in RowId
      BY <1>1, <1>3, <2>1
    <3>2. /\ ptrs1 \in Seq(RowId) /\ Len(ptrs1) = IF 1 <= m THEN m - 1 + 1 ELSE 0
          /\ \A j \in 1 .. m - 1 + 1 : ptrs1[j] = node.ptrs[1 + j - 1]
      BY <1>3, <3>1, SubSeqProperties
    <3> QED
      BY <1>3, <3>2
  <2>4. /\ ptrs2 \in Seq(RowId) /\ Len(ptrs2) = l - m
        /\ \A j \in 1 .. l - m : ptrs2[j] = node.ptrs[m + j]
    <3>1. \A i \in m + 1 .. l : node.ptrs[i] \in RowId
      BY <1>1, <1>3, <2>1
    <3>2. /\ ptrs2 \in Seq(RowId) /\ Len(ptrs2) = IF m + 1 <= l THEN l - (m + 1) + 1 ELSE 0
          /\ \A j \in 1 .. l - (m + 1) + 1 : ptrs2[j] = node.ptrs[(m + 1) + j - 1]
      BY <1>1, <1>3, <3>1, SubSeqProperties
    <3> QED
      BY <1>1, <1>3, <3>2
  <2>5. Halves(node) = [left |-> Leaf(keys1, ptrs1), right |-> Leaf(keys2, ptrs2),
                        key |-> node.keys[m + 1]]
    BY <1>2, <1>5 DEF Halves, l
  <2> HIDE DEF keys1, keys2, ptrs1, ptrs2
  <2>6. m <= MaxLeaf /\ l - m <= MaxLeaf /\ ~ (m >= MaxLeaf) /\ ~ (l - m >= MaxLeaf)
    BY <1>1, <1>3, <2>1
  <2>7. Leaf(keys1, ptrs1) \in Shaped(n) /\ Leaf(keys2, ptrs2) \in Shaped(n)
    BY <1>4, <2>2, <2>3, <2>4, <2>6, LeafShaped
  <2>8. ~ Full(Leaf(keys1, ptrs1)) /\ ~ Full(Leaf(keys2, ptrs2))
    BY <1>4, <2>2, <2>6 DEF Full, Leaf
  <2>9. HalvesAre(node, Halves(node), m)
    <3>1. Gone(node) = 0 /\ m + 0 = m /\ l - m - 0 = l - m /\ m \in 1 .. l - 1
      BY <1>1, <1>3, <1>5 DEF Gone
    <3> DEFINE half == Halves(node)
    <3>2. /\ half.left.keys = keys1 /\ half.left.ptrs = ptrs1 /\ half.left.leaf = TRUE
          /\ half.right.keys = keys2 /\ half.right.ptrs = ptrs2 /\ half.right.leaf = TRUE
          /\ half.key = node.keys[m + 1]
      BY <2>5 DEF Leaf
    <3>3. node.leaf = TRUE
      BY <1>5, NodeParts, Zenon
    <3> HIDE DEF half
    <3>4. HalvesAre(node, half, m)
      <4> DEFINE g == Gone(node)
      <4>1. m + g = m /\ l - m - g = l - m
        BY <3>1, Zenon
      <4>2. Len(keys1) = m /\ Len(keys2) = l - m
        BY <1>4, <2>2
      <4>3. /\ \A j \in 1 .. m : keys1[j] = node.keys[j] /\ ptrs1[j] = node.ptrs[j]
            /\ \A j \in 1 .. l - m : keys2[j] = node.keys[m + j] /\ ptrs2[j] = node.ptrs[m + j]
        BY <1>4, <2>2, <2>3, <2>4, Zenon
      <4>4. /\ Len(half.left.keys) = m /\ Len(half.right.keys) = l - m - g
            /\ \A j \in 1 .. m : half.left.keys[j] = node.keys[j]
            /\ \A j \in 1 .. m + g : half.left.ptrs[j] = node.ptrs[j]
            /\ \A j \in 1 .. l - m - g : half.right.keys[j] = node.keys[m + g + j]
            /\ \A j \in 1 .. l - m : half.right.ptrs[j] = node.ptrs[m + g + j]
        <5> HIDE DEF g
        <5>1. /\ Len(half.left.keys) = m /\ Len(half.right.keys) = l - m - g
          BY <3>2, <4>1, <4>2, Zenon
        <5>2. \A j \in 1 .. m : half.left.keys[j] = node.keys[j]
          BY <3>2, <4>3, Zenon
        <5>3. \A j \in 1 .. m + g : half.left.ptrs[j] = node.ptrs[j]
          BY <3>2, <4>1, <4>3, Zenon
        <5>4. \A j \in 1 .. l - m - g : half.right.keys[j] = node.keys[m + g + j]
          BY <3>2, <4>1, <4>3, Zenon
        <5>5. \A j \in 1 .. l - m : half.right.ptrs[j] = node.ptrs[m + g + j]
          BY <3>2, <4>1, <4>3, Zenon
        <5> QED
          BY <5>1, <5>2, <5>3, <5>4, <5>5
      <4> QED
        BY <3>1, <3>2, <3>3, <4>4, Zenon DEF HalvesAre, l
    <3> QED
      BY <3>4 DEF half
  <2> QED
    BY <2>5, <2>7, <2>8, <2>9
<1>6. CASE ~ node.leaf
  <2> DEFINE keys2 == SubSeq(node.keys, m + 2, l)
             ptrs1 == SubSeq(node.ptrs, 1, m + 1)
             ptrs2 == SubSeq(node.ptrs, m + 2, l + 1)
  <2>1. /\ node.ptrs \in Seq(1 .. n) /\ Len(node.ptrs) = l + 1 /\ l <= MaxInner
        /\ \A i \in 1 .. l + 1 : node.ptrs[i] \in 1 .. n
    BY <1>6, NodeParts DEF l
  <2>2. /\ keys2 \in Seq(Key) /\ Len(keys2) = l - m - 1
        /\ \A j \in 1 .. l - m - 1 : keys2[j] = node.keys[m + 1 + j]
    <3>1. \A i \in m + 2 .. l : node.keys[i] \in Key
      BY <1>1, <1>3
    <3>2. /\ keys2 \in Seq(Key) /\ Len(keys2) = IF m + 2 <= l THEN l - (m + 2) + 1 ELSE 0
          /\ \A j \in 1 .. l - (m + 2) + 1 : keys2[j] = node.keys[(m + 2) + j - 1]
      BY <1>1, <1>3, <3>1, SubSeqProperties
    <3> QED
      BY <1>1, <1>3, <3>2
  <2>3. /\ ptrs1 \in Seq(1 .. n) /\ Len(ptrs1) = m + 1
        /\ \A j \in 1 .. m + 1 : ptrs1[j] = node.ptrs[j]
    <3>1. \A i \in 1 .. m + 1 : node.ptrs[i] \in 1 .. n
      BY <1>1, <1>3, <2>1
    <3>2. /\ ptrs1 \in Seq(1 .. n) /\ Len(ptrs1) = IF 1 <= m + 1 THEN m + 1 - 1 + 1 ELSE 0
          /\ \A j \in 1 .. m + 1 - 1 + 1 : ptrs1[j] = node.ptrs[1 + j - 1]
      BY <1>3, <3>1, SubSeqProperties
    <3> QED
      BY <1>3, <3>2
  <2>4. /\ ptrs2 \in Seq(1 .. n) /\ Len(ptrs2) = l - m
        /\ \A j \in 1 .. l - m : ptrs2[j] = node.ptrs[m + 1 + j]
    <3>1. \A i \in m + 2 .. l + 1 : node.ptrs[i] \in 1 .. n
      BY <1>1, <1>3, <2>1
    <3>2. /\ ptrs2 \in Seq(1 .. n) /\ Len(ptrs2) = IF m + 2 <= l + 1 THEN l + 1 - (m + 2) + 1 ELSE 0
          /\ \A j \in 1 .. l + 1 - (m + 2) + 1 : ptrs2[j] = node.ptrs[(m + 2) + j - 1]
      BY <1>1, <1>3, <3>1, SubSeqProperties
    <3> QED
      BY <1>1, <1>3, <3>2
  <2>5. Halves(node) = [left |-> Inner(keys1, ptrs1), right |-> Inner(keys2, ptrs2),
                        key |-> node.keys[m + 1]]
    BY <1>2, <1>6 DEF Halves, l
  <2> HIDE DEF keys1, keys2, ptrs1, ptrs2
  <2>6. /\ m <= MaxInner /\ l - m - 1 <= MaxInner /\ ~ (m >= MaxInner) /\ ~ (l - m - 1 >= MaxInner)
        /\ l - m = (l - m - 1) + 1
    BY <1>1, <1>3, <2>1
  <2>7. Inner(keys1, ptrs1) \in Shaped(n) /\ Inner(keys2, ptrs2) \in Shaped(n)
    BY <1>4, <2>2, <2>3, <2>4, <2>6, InnerShaped, ZenonT(60)
  <2>8. ~ Full(Inner(keys1, ptrs1)) /\ ~ Full(Inner(keys2, ptrs2))
    BY <1>4, <2>2, <2>6 DEF Full, Inner
  <2>9. HalvesAre(node, Halves(node), m)
    <3>1. Gone(node) = 1 /\ m \in 1 .. l - 1
      BY <1>1, <1>3, <1>6 DEF Gone
    <3> DEFINE half == Halves(node)
    <3>2. /\ half.left.keys = keys1 /\ half.left.ptrs = ptrs1 /\ half.left.leaf = FALSE
          /\ half.right.keys = keys2 /\ half.right.ptrs = ptrs2 /\ half.right.leaf = FALSE
          /\ half.key = node.keys[m + 1]
      BY <2>5 DEF Inner
    <3>3. node.leaf = FALSE
      BY <1>6, NodeParts, Zenon
    <3> HIDE DEF half
    <3>4. HalvesAre(node, half, m)
      <4>1. /\ \A j \in 1 .. l - m - Gone(node) : half.right.keys[j] = node.keys[m + Gone(node) + j]
            /\ Len(half.right.keys) = l - m - Gone(node)
        BY <2>2, <3>1, <3>2
      <4>2. \A j \in 1 .. l - m : half.right.ptrs[j] = node.ptrs[m + Gone(node) + j]
        BY <2>4, <3>1, <3>2
      <4>3. \A j \in 1 .. m + Gone(node) : half.left.ptrs[j] = node.ptrs[j]
        BY <2>3, <3>1, <3>2
      <4> QED
        BY <1>4, <3>1, <3>2, <3>3, <4>1, <4>2, <4>3 DEF HalvesAre, l
    <3> QED
      BY <3>4 DEF half
  <2> QED
    BY <2>5, <2>7, <2>8, <2>9
<1> QED
  BY <1>5, <1>6

-----------------------------------------------------------------------------
(* Trees.                                                                  *)

\* The nodes of a tree, with their heights: a child is one lower than its
\* parent, and leaves are at the bottom.
Lowers(node, h, m) ==
    IF node.leaf THEN m = 0
    ELSE \A i \in 1 .. Len(node.keys) + 1 : h[node.ptrs[i]] + 1 = m
IsTree(nodes, h) ==
    /\ nodes \in Seq(Shaped(Len(nodes)))
    /\ h \in [1 .. Len(nodes) -> Nat]
    /\ \A n \in 1 .. Len(nodes) : h[n] < Len(nodes) /\ Lowers(nodes[n], h, h[n])

\* What _split_child makes of a tree.
SplitAt(nodes, new, parent, i) ==
    LET l == Len(nodes)
        child == nodes[parent].ptrs[i]
        half == Halves(nodes[child])
    IN  /\ new \in Seq(Shaped(l + 1)) /\ Len(new) = l + 1
        /\ \A n \in 1 .. l : n # child /\ n # parent => new[n] = nodes[n]
        /\ new[child] = half.left /\ new[l + 1] = half.right
        /\ ~ new[parent].leaf
        /\ Longer(new[parent].keys, nodes[parent].keys, i, half.key)
        /\ Longer(new[parent].ptrs, nodes[parent].ptrs, i + 1, l + 1)

\* An inner node that is not full, and a child to be split.
Splits(nodes, h, parent, i) ==
    /\ IsTree(nodes, h) /\ parent \in 1 .. Len(nodes) /\ ~ nodes[parent].leaf
    /\ Len(nodes[parent].keys) < MaxInner
    /\ i \in 1 .. Len(nodes[parent].keys) + 1
    /\ Len(nodes[nodes[parent].ptrs[i]].keys) >= 2

\* The nodes of a tree.
LEMMA TreeNodes ==
    ASSUME NEW nodes, NEW h, IsTree(nodes, h)
    PROVE  /\ Len(nodes) \in Nat
           /\ \A n \in 1 .. Len(nodes) :
                nodes[n] \in Shaped(Len(nodes)) /\ h[n] \in Nat /\ h[n] < Len(nodes)
<1>1. nodes \in Seq(Shaped(Len(nodes))) /\ h \in [1 .. Len(nodes) -> Nat]
  BY DEF IsTree
<1>2. Len(nodes) \in Nat /\ \A n \in 1 .. Len(nodes) : h[n] < Len(nodes)
  BY <1>1 DEF IsTree
<1> QED
  BY <1>1, <1>2, ElementOfSeq

\* A child is a node of the tree, one below.
LEMMA Children ==
    ASSUME NEW nodes, NEW h, IsTree(nodes, h), NEW n \in 1 .. Len(nodes), ~ nodes[n].leaf,
           NEW i \in 1 .. Len(nodes[n].keys) + 1
    PROVE  /\ nodes[n].ptrs[i] \in 1 .. Len(nodes)
           /\ h[nodes[n].ptrs[i]] + 1 = h[n] /\ nodes[n].ptrs[i] # n
<1>1. nodes[n] \in Shaped(Len(nodes)) /\ Len(nodes) \in Nat /\ h[n] \in Nat
  BY TreeNodes
<1>2. nodes[n].ptrs[i] \in 1 .. Len(nodes)
  BY <1>1, NodeParts
<1>3. h[nodes[n].ptrs[i]] + 1 = h[n]
  BY SMTT(60) DEF IsTree, Lowers
<1> QED
  BY <1>1, <1>2, <1>3

\* The pages after _split_child.
LEMMA SplitIs ==
    ASSUME NEW nodes, NEW h, NEW parent, NEW i, Splits(nodes, h, parent, i)
    PROVE  SplitAt(nodes, SplitChild(nodes, parent, i), parent, i)
<1> DEFINE l == Len(nodes)
           child == nodes[parent].ptrs[i]
           node == nodes[parent]
           half == Halves(nodes[child])
           keys == InsertAt(node.keys, i, half.key)
           ptrs == InsertAt(node.ptrs, i + 1, l + 1)
           new == SplitChild(nodes, parent, i)
<1>1. /\ IsTree(nodes, h) /\ parent \in 1 .. l /\ ~ node.leaf /\ Len(node.keys) < MaxInner
      /\ i \in 1 .. Len(node.keys) + 1 /\ Len(nodes[child].keys) >= 2
  BY DEF Splits
<1>2. l \in Nat /\ child \in 1 .. l /\ child # parent
  BY <1>1, TreeNodes, Children
<1>3. node \in Shaped(l) /\ nodes[child] \in Shaped(l) /\ nodes \in Seq(Shaped(l))
  BY <1>1, <1>2, TreeNodes, SMTT(60) DEF IsTree
<1>4. half.left \in Shaped(l) /\ half.right \in Shaped(l) /\ half.key \in Key
  <2>1. half.left \in Shaped(l) /\ half.right \in Shaped(l)
    BY <1>1, <1>2, <1>3, HalvesShaped
  <2>2. PICK m : HalvesAre(nodes[child], half, m)
    BY <1>1, <1>2, <1>3, HalvesShaped
  <2>3. m + 1 \in 1 .. Len(nodes[child].keys) /\ half.key = nodes[child].keys[m + 1]
    <3>1. Len(nodes[child].keys) \in Nat
      BY <1>2, <1>3, NodeParts
    <3> HIDE DEF child, half
    <3> QED
      BY <2>2, <3>1 DEF HalvesAre
  <2> QED
    BY <1>2, <1>3, <2>1, <2>3, NodeParts
<1>5. /\ node.keys \in Seq(Key) /\ Len(node.keys) \in Nat
      /\ node.ptrs \in Seq(1 .. l) /\ Len(node.ptrs) = Len(node.keys) + 1
  BY <1>1, <1>2, <1>3, NodeParts
<1>6. new = Append([nodes EXCEPT ![child] = half.left, ![parent] = Inner(keys, ptrs)], half.right)
  BY DEF SplitChild
<1>7. keys \in Seq(Key) /\ Longer(keys, node.keys, i, half.key)
  <2>1. node.keys \in Seq(Key) /\ half.key \in Key /\ i \in 1 .. Len(node.keys) + 1
    BY <1>1, <1>4, <1>5
  <2> HIDE DEF half, node
  <2> QED
    BY <2>1, InsertAtIs, Zenon
<1>8. ptrs \in Seq(1 .. l + 1) /\ Longer(ptrs, node.ptrs, i + 1, l + 1)
  <2>1. node.ptrs \in Seq(1 .. l + 1) /\ l + 1 \in 1 .. l + 1 /\ i + 1 \in 1 .. Len(node.ptrs) + 1
    BY <1>1, <1>2, <1>5, SMTT(60)
  <2> HIDE DEF node, l
  <2> QED
    BY <2>1, InsertAtIs, Zenon
<1> HIDE DEF keys, ptrs, half, node, new
<1>9. Inner(keys, ptrs) \in Shaped(l + 1)
  <2>1. Len(ptrs) = Len(keys) + 1 /\ Len(keys) <= MaxInner
    BY <1>1, <1>5, <1>7, <1>8, LimitsOfNodes DEF Longer
  <2> QED
    BY <1>7, <1>8, <2>1, InnerShaped
<1>10. /\ new \in Seq(Shaped(l + 1)) /\ Len(new) = l + 1
       /\ \A n \in 1 .. l : new[n] = IF n = parent THEN Inner(keys, ptrs)
                                     ELSE IF n = child THEN half.left ELSE nodes[n]
       /\ new[l + 1] = half.right
  <2>1. Shaped(l) \subseteq Shaped(l + 1)
    BY <1>2, ShapedGrows
  <2> DEFINE mid == [nodes EXCEPT ![child] = half.left, ![parent] = Inner(keys, ptrs)]
  <2>2. /\ mid \in Seq(Shaped(l + 1)) /\ Len(mid) = l
        /\ \A n \in 1 .. l : mid[n] = IF n = parent THEN Inner(keys, ptrs)
                                      ELSE IF n = child THEN half.left ELSE nodes[n]
    BY <1>1, <1>2, <1>3, <1>4, <1>9, <2>1, SMTT(60)
  <2>3. new = Append(mid, half.right) /\ half.right \in Shaped(l + 1)
    BY <1>4, <1>6, <2>1
  <2> HIDE DEF mid, l
  <2> QED
    BY <1>2, <2>2, <2>3
<1>11. new[parent] = Inner(keys, ptrs)
  BY <1>1, <1>10
<1>12. ~ new[parent].leaf /\ new[parent].keys = keys /\ new[parent].ptrs = ptrs
  BY <1>11 DEF Inner
<1>13. new[child] = half.left
  BY <1>2, <1>10
<1>14. \A n \in 1 .. l : n # child /\ n # parent => new[n] = nodes[n]
  BY <1>10, SMTT(60)
<1> QED
  BY <1>7, <1>8, <1>10, <1>12, <1>13, <1>14 DEF SplitAt, half, node, new

\* The new page is as high as the one it was split from.
SplitHeights(nodes, h, child) ==
    [n \in 1 .. Len(nodes) + 1 |-> IF n = Len(nodes) + 1 THEN h[child] ELSE h[n]]

\* A split makes a tree of a tree.
LEMMA SplitTree ==
    ASSUME NEW nodes, NEW h, NEW parent, NEW i, Splits(nodes, h, parent, i),
           NEW new, SplitAt(nodes, new, parent, i)
    PROVE  IsTree(new, SplitHeights(nodes, h, nodes[parent].ptrs[i]))
<1> DEFINE l == Len(nodes)
           child == nodes[parent].ptrs[i]
           half == Halves(nodes[child])
           g == SplitHeights(nodes, h, child)
<1>1. /\ IsTree(nodes, h) /\ parent \in 1 .. l /\ ~ nodes[parent].leaf
      /\ i \in 1 .. Len(nodes[parent].keys) + 1 /\ Len(nodes[child].keys) >= 2
  BY SMTT(60) DEF Splits
<1>2. /\ new \in Seq(Shaped(l + 1)) /\ Len(new) = l + 1
      /\ \A n \in 1 .. l : n # child /\ n # parent => new[n] = nodes[n]
      /\ new[child] = half.left /\ new[l + 1] = half.right
      /\ ~ new[parent].leaf
      /\ Longer(new[parent].keys, nodes[parent].keys, i, half.key)
      /\ Longer(new[parent].ptrs, nodes[parent].ptrs, i + 1, l + 1)
  BY DEF SplitAt
<1>3. l \in Nat /\ child \in 1 .. l /\ child # parent /\ h[child] + 1 = h[parent]
  BY <1>1, TreeNodes, Children, SMTT(60)
<1>4. \A n \in 1 .. l : nodes[n] \in Shaped(l) /\ h[n] \in Nat /\ h[n] < l
  BY <1>1, TreeNodes
<1>5. PICK m : HalvesAre(nodes[child], half, m)
  BY <1>1, <1>3, <1>4, HalvesShaped, ZenonT(60)
<1>6. g \in [1 .. l + 1 -> Nat] /\ g[l + 1] = h[child] /\ \A n \in 1 .. l : g[n] = h[n]
  BY <1>3, <1>4, SMTT(60) DEF SplitHeights
<1> HIDE DEF half, g, child
<1>7. ASSUME NEW n \in 1 .. l, ~ nodes[n].leaf, NEW j \in 1 .. Len(nodes[n].keys) + 1
      PROVE  nodes[n].ptrs[j] \in 1 .. l /\ g[nodes[n].ptrs[j]] + 1 = h[n]
  <2>1. nodes[n].ptrs[j] \in 1 .. l /\ h[nodes[n].ptrs[j]] + 1 = h[n]
    BY <1>1, <1>7, Children
  <2> QED
    BY <1>6, <2>1
<1>8. \A n \in 1 .. l : nodes[n].leaf => h[n] = 0
  BY <1>1 DEF IsTree, Lowers
<1>9. nodes[child].leaf \in BOOLEAN /\ Len(nodes[child].keys) \in Nat
  BY <1>3, <1>4, NodeParts
<1>10. ASSUME NEW n \in 1 .. l + 1 PROVE Lowers(new[n], g, g[n])
  <2>1. CASE n # child /\ n # parent /\ n # l + 1
    <3>1. n \in 1 .. l /\ new[n] = nodes[n] /\ g[n] = h[n]
      BY <1>2, <1>3, <1>6, <2>1
    <3> QED
      BY <1>7, <1>8, <3>1 DEF Lowers
  <2>2. CASE n = child
    <3>1. new[n] = half.left /\ half.left.leaf = nodes[child].leaf /\ g[n] = h[child]
      BY <1>2, <1>3, <1>5, <1>6, <2>2 DEF HalvesAre
    <3>2. CASE nodes[child].leaf
      BY <1>3, <1>8, <3>1, <3>2 DEF Lowers
    <3>3. CASE ~ nodes[child].leaf
      <4>1. /\ m \in 1 .. Len(nodes[child].keys) - 1 /\ Len(half.left.keys) = m
            /\ \A j \in 1 .. m + 1 : half.left.ptrs[j] = nodes[child].ptrs[j]
        BY <1>5, <3>3 DEF HalvesAre, Gone
      <4>2. ASSUME NEW j \in 1 .. Len(half.left.keys) + 1
            PROVE  g[half.left.ptrs[j]] + 1 = h[child]
        <5>1. j \in 1 .. Len(nodes[child].keys) + 1 /\ half.left.ptrs[j] = nodes[child].ptrs[j]
          BY <1>9, <4>1
        <5> QED
          BY <1>3, <1>7, <3>3, <5>1
      <4> QED
        BY <3>1, <3>3, <4>2 DEF Lowers
    <3> QED
      BY <3>2, <3>3
  <2>3. CASE n = l + 1
    <3>1. new[n] = half.right /\ half.right.leaf = nodes[child].leaf /\ g[n] = h[child]
      BY <1>2, <1>3, <1>5, <1>6, <2>3 DEF HalvesAre
    <3>2. CASE nodes[child].leaf
      BY <1>3, <1>8, <3>1, <3>2 DEF Lowers
    <3>3. CASE ~ nodes[child].leaf
      <4>1. /\ m \in 1 .. Len(nodes[child].keys) - 1
            /\ Len(half.right.keys) = Len(nodes[child].keys) - m - 1
            /\ \A j \in 1 .. Len(nodes[child].keys) - m :
                 half.right.ptrs[j] = nodes[child].ptrs[m + 1 + j]
        BY <1>5, <3>3 DEF HalvesAre, Gone
      <4>2. ASSUME NEW j \in 1 .. Len(half.right.keys) + 1
            PROVE  g[half.right.ptrs[j]] + 1 = h[child]
        <5>1. /\ j \in 1 .. Len(nodes[child].keys) - m
              /\ m + 1 + j \in 1 .. Len(nodes[child].keys) + 1
          BY <1>9, <4>1
        <5>2. half.right.ptrs[j] = nodes[child].ptrs[m + 1 + j]
          BY <4>1, <5>1
        <5> QED
          BY <1>3, <1>7, <3>3, <5>1, <5>2, SMTT(60)
      <4> QED
        BY <3>1, <3>3, <4>2 DEF Lowers
    <3> QED
      BY <3>2, <3>3
  <2>4. CASE n = parent
    <3>1. Len(nodes[parent].keys) \in Nat /\ Len(nodes[parent].ptrs) = Len(nodes[parent].keys) + 1
      BY <1>1, <1>3, <1>4, NodeParts
    <3>2. Len(new[parent].keys) + 1 = Len(nodes[parent].ptrs) + 1
      BY <1>2, <3>1 DEF Longer
    <3>3. ASSUME NEW j \in 1 .. Len(nodes[parent].ptrs) + 1 PROVE g[new[parent].ptrs[j]] + 1 = h[parent]
      <4>1. new[parent].ptrs[j] = IF j < i + 1 THEN nodes[parent].ptrs[j]
                                  ELSE IF j = i + 1 THEN l + 1 ELSE nodes[parent].ptrs[j - 1]
        BY <1>2 DEF Longer
      <4>2. CASE j < i + 1
        <5>1. j \in 1 .. Len(nodes[parent].keys) + 1
          BY <1>1, <3>1, <4>2
        <5> QED
          BY <1>1, <1>7, <4>1, <4>2, <5>1
      <4>3. CASE j = i + 1
        BY <1>3, <1>6, <4>1, <4>3
      <4>4. CASE j > i + 1
        <5>1. j - 1 \in 1 .. Len(nodes[parent].keys) + 1 /\ ~ (j < i + 1) /\ j # i + 1
          BY <1>1, <3>1, <4>4
        <5> QED
          BY <1>1, <1>7, <4>1, <5>1, ZenonT(60)
      <4> QED
        BY <1>1, <3>1, <4>2, <4>3, <4>4
    <3> QED
      BY <1>1, <1>2, <1>6, <2>4, <3>2, <3>3 DEF Lowers
  <2> QED
    BY <2>1, <2>2, <2>3, <2>4
<1>11. \A n \in 1 .. l + 1 : g[n] < l + 1
  BY <1>3, <1>4, <1>6, SMTT(60)
<1> QED
  BY <1>2, <1>6, <1>10, <1>11 DEF IsTree, child, g

\* A place on the way down: a node that has room, and is no higher than k.
Way(at, h, k) ==
    /\ at = [nodes |-> at.nodes, page |-> at.page]
    /\ IsTree(at.nodes, h) /\ at.page \in 1 .. Len(at.nodes)
    /\ ~ Full(at.nodes[at.page]) /\ h[at.page] <= k

\* What the key is led to, and the child that is there.
Led(at, key) == at.nodes[at.page].ptrs[Position(at.nodes[at.page], key)]
Child(at, key) == at.nodes[Led(at, key)]

\* One step down: to the child, or to one of its halves.
Enters(at, key, next) == ~ Full(Child(at, key)) /\ next = [nodes |-> at.nodes, page |-> Led(at, key)]
EntersHalf(at, h, key, next) ==
    /\ Full(Child(at, key))
    /\ next = [nodes |-> next.nodes, page |-> next.page]
    /\ Splits(at.nodes, h, at.page, Position(at.nodes[at.page], key))
    /\ SplitAt(at.nodes, next.nodes, at.page, Position(at.nodes[at.page], key))
    /\ next.page = IF key > Halves(Child(at, key)).key THEN Len(at.nodes) + 1 ELSE Led(at, key)

\* _insert_nonfull at one node: it stays at a leaf, and at an inner node it enters
\* the child or, after a split, one of its halves.
LEMMA LowerCases ==
    ASSUME NEW at, NEW h, NEW k \in Nat, Way(at, h, k), NEW key \in Int
    PROVE  \/ at.nodes[at.page].leaf /\ Lower(at, key) = at
           \/ ~ at.nodes[at.page].leaf /\ Enters(at, key, Lower(at, key))
           \/ ~ at.nodes[at.page].leaf /\ EntersHalf(at, h, key, Lower(at, key))
<1> DEFINE node == at.nodes[at.page]
           i == Position(node, key)
           child == Led(at, key)
           half == Halves(Child(at, key))
           new == SplitChild(at.nodes, at.page, i)
           next == Lower(at, key)
<1>1. CASE node.leaf
  BY <1>1 DEF Lower
<1>2. CASE ~ node.leaf /\ ~ Full(at.nodes[child])
  <2>1. Lower(at, key) = [at EXCEPT !.page = child]
    BY <1>2 DEF Lower, Led
  <2>2. at = [nodes |-> at.nodes, page |-> at.page]
    BY DEF Way
  <2>3. Lower(at, key) = [nodes |-> at.nodes, page |-> child]
    BY <2>1, <2>2
  <2> QED
    BY <1>2, <2>3 DEF Enters, Child
<1>3. CASE ~ node.leaf /\ Full(at.nodes[child])
  <2>1. /\ IsTree(at.nodes, h) /\ at.page \in 1 .. Len(at.nodes) /\ ~ Full(node)
        /\ node \in Shaped(Len(at.nodes)) /\ Len(at.nodes) \in Nat
    BY TreeNodes DEF Way
  <2>2. PositionIs(node, key, i)
    BY <2>1, PositionFound
  <2>3. /\ i \in 1 .. Len(node.keys) + 1 /\ Len(node.keys) \in Nat
        /\ Len(node.ptrs) = Len(node.keys) + 1 /\ Len(node.keys) < MaxInner
    <3>1. i \in 1 .. Len(node.keys) + 1 /\ Len(node.keys) \in Nat
      BY <2>1, <2>2, NodeParts DEF PositionIs
    <3>2. Len(node.ptrs) = Len(node.keys) + 1
      BY <1>3, <2>1, NodeParts
    <3>3. ~ (Len(node.keys) >= MaxInner)
      BY <1>3, <2>1 DEF Full
    <3> QED
      BY <3>1, <3>2, <3>3, LimitsOfNodes
  <2>4. Len(at.nodes[child].keys) >= 2
    <3>1. child \in 1 .. Len(at.nodes)
      BY <1>3, <2>1, <2>3, Children, ZenonT(60) DEF Led
    <3>2. Len(at.nodes[child].keys) \in Nat
      BY <2>1, <3>1, TreeNodes, NodeParts, SMTT(60)
    <3> HIDE DEF child, MaxLeaf, MaxInner
    <3> QED
      BY <1>3, <3>2, LimitsOfNodes, SMTT(60) DEF Full
  <2>5. Splits(at.nodes, h, at.page, i)
    BY <1>3, <2>1, <2>3, <2>4 DEF Splits, Led
  <2>6. SplitAt(at.nodes, new, at.page, i)
    BY <2>5, SplitIs
  <2>7. /\ Longer(new[at.page].keys, node.keys, i, half.key)
        /\ Longer(new[at.page].ptrs, node.ptrs, i + 1, Len(at.nodes) + 1)
    BY <2>6, Zenon DEF SplitAt, Child, Led
  <2> HIDE DEF node, i, half, new
  <2>8. /\ new[at.page].keys[i] = half.key
        /\ new[at.page].ptrs[i] = node.ptrs[i] /\ new[at.page].ptrs[i + 1] = Len(at.nodes) + 1
    BY <2>3, <2>7, SMTT(60) DEF Longer
  <2>9. next = [nodes |-> new,
                page |-> new[at.page].ptrs[IF key > new[at.page].keys[i] THEN i + 1 ELSE i]]
    BY <1>3, SMTT(60) DEF Lower, node, i, new, Led
  <2>10. next = [nodes |-> new, page |-> IF key > half.key THEN Len(at.nodes) + 1 ELSE child]
    BY <2>8, <2>9 DEF Led, node, i
  <2>11. next.nodes = new /\ next.page = IF key > half.key THEN Len(at.nodes) + 1 ELSE child
    BY <2>10
  <2> HIDE DEF next
  <2>12. EntersHalf(at, h, key, next)
    BY <1>3, <2>5, <2>6, <2>10, <2>11 DEF EntersHalf, half, i, node, Child
  <2> QED
    BY <1>3, <2>12 DEF next, node
<1> QED
  BY <1>1, <1>2, <1>3

\* The step, and the heights after it.
Lowered(at, h, key, next, g) ==
    IF at.nodes[at.page].leaf THEN next = at /\ g = h
    ELSE \/ Enters(at, key, next) /\ g = h
         \/ EntersHalf(at, h, key, next) /\ g = SplitHeights(at.nodes, h, Led(at, key))

\* A step down keeps to the tree, and gets nearer to the leaves.
LEMMA LowerGoes ==
    ASSUME NEW at, NEW h, NEW k \in Nat, Way(at, h, k + 1), NEW key \in Int
    PROVE  \E g : Way(Lower(at, key), g, k) /\ Lowered(at, h, key, Lower(at, key), g)
<1> DEFINE node == at.nodes[at.page]
           i == Position(node, key)
           next == Lower(at, key)
<1>1. /\ IsTree(at.nodes, h) /\ at.page \in 1 .. Len(at.nodes) /\ ~ Full(node) /\ h[at.page] <= k + 1
      /\ node \in Shaped(Len(at.nodes)) /\ Len(at.nodes) \in Nat /\ h[at.page] \in Nat
  BY TreeNodes DEF Way
<1>2. CASE node.leaf /\ next = at
  <2>1. h[at.page] = 0
    BY <1>1, <1>2 DEF IsTree, Lowers
  <2>2. Way(at, h, k)
    BY <2>1 DEF Way
  <2>3. Lowered(at, h, key, next, h)
    BY <1>2 DEF Lowered
  <2> HIDE DEF next
  <2> QED
    BY <1>2, <2>2, <2>3 DEF next
<1>3. ~ node.leaf => /\ Led(at, key) \in 1 .. Len(at.nodes)
                     /\ h[Led(at, key)] + 1 = h[at.page] /\ Led(at, key) # at.page
                     /\ h[Led(at, key)] <= k /\ h[Led(at, key)] \in Nat
  <2> SUFFICES ASSUME ~ node.leaf
               PROVE  /\ Led(at, key) \in 1 .. Len(at.nodes)
                      /\ h[Led(at, key)] + 1 = h[at.page] /\ Led(at, key) # at.page
                      /\ h[Led(at, key)] <= k /\ h[Led(at, key)] \in Nat
    OBVIOUS
  <2>1. i \in 1 .. Len(node.keys) + 1
    BY <1>1, PositionFound DEF PositionIs
  <2>2. /\ Led(at, key) \in 1 .. Len(at.nodes)
        /\ h[Led(at, key)] + 1 = h[at.page] /\ Led(at, key) # at.page
    <3>1. Led(at, key) = node.ptrs[i]
      BY DEF Led
    <3>2. IsTree(at.nodes, h) /\ at.page \in 1 .. Len(at.nodes)
      BY <1>1
    <3> HIDE DEF i
    <3>3. /\ node.ptrs[i] \in 1 .. Len(at.nodes)
          /\ h[node.ptrs[i]] + 1 = h[at.page] /\ node.ptrs[i] # at.page
      BY <2>1, <3>2, Children, SMTT(60)
    <3> QED
      BY <3>1, <3>3, Zenon
  <2>3. h[Led(at, key)] \in Nat
    BY <1>1, <2>2, TreeNodes
  <2> QED
    BY <1>1, <2>2, <2>3
<1>4. CASE ~ node.leaf /\ Enters(at, key, next)
  <2>1. next.nodes = at.nodes /\ next.page = Led(at, key) /\ next = [nodes |-> next.nodes, page |-> next.page]
    BY <1>4 DEF Enters
  <2>2. ~ Full(next.nodes[next.page])
    BY <1>4, <2>1 DEF Enters, Child
  <2>3. Way(next, h, k)
    BY <1>1, <1>3, <1>4, <2>1, <2>2 DEF Way
  <2>4. Lowered(at, h, key, next, h)
    BY <1>4, Zenon DEF Lowered
  <2> HIDE DEF next
  <2> QED
    BY <2>3, <2>4 DEF next
<1>5. CASE ~ node.leaf /\ EntersHalf(at, h, key, next)
  <2> DEFINE g == SplitHeights(at.nodes, h, Led(at, key))
             half == Halves(Child(at, key))
  <2>1. /\ next = [nodes |-> next.nodes, page |-> next.page]
        /\ Splits(at.nodes, h, at.page, i) /\ SplitAt(at.nodes, next.nodes, at.page, i)
        /\ next.page \in {Len(at.nodes) + 1, Led(at, key)}
    BY <1>5 DEF EntersHalf
  <2>2. IsTree(next.nodes, g)
    BY <2>1, SplitTree DEF Led
  <2>3. /\ Len(next.nodes) = Len(at.nodes) + 1
        /\ next.nodes[Led(at, key)] = half.left /\ next.nodes[Len(at.nodes) + 1] = half.right
    BY <2>1, Zenon DEF SplitAt, Child, Led
  <2>4. ~ Full(half.left) /\ ~ Full(half.right)
    <3>1. Child(at, key) \in Shaped(Len(at.nodes))
      BY <1>1, <1>3, <1>5, TreeNodes, SMTT(60) DEF Child
    <3>2. Len(Child(at, key).keys) >= 2
      BY <2>1 DEF Splits, Child, Led
    <3> QED
      BY <1>1, <3>1, <3>2, HalvesShaped
  <2>5. g[next.page] = h[Led(at, key)]
    BY <1>1, <1>3, <1>5, <2>1, SMTT(60) DEF SplitHeights
  <2>7. Lowered(at, h, key, next, g)
    BY <1>5, Zenon DEF Lowered
  <2> HIDE DEF g, half, next
  <2>6. Way(next, g, k)
    BY <1>1, <1>3, <1>5, <2>1, <2>2, <2>3, <2>4, <2>5, SMTT(60) DEF Way
  <2> QED
    BY <2>6, <2>7 DEF next
<1>6. (node.leaf /\ next = at) \/ (~ node.leaf /\ Enters(at, key, next)) \/ (~ node.leaf /\ EntersHalf(at, h, key, next))
  <2>1. k + 1 \in Nat
    OBVIOUS
  <2> QED
    BY <2>1, LowerCases
<1> QED
  BY <1>2, <1>4, <1>5, <1>6

-----------------------------------------------------------------------------
(* The way down.                                                           *)

\* f[n] is where n steps down lead to.
Steps(f, l, start, key) ==
    f = [n \in 0 .. l |-> IF n = 0 THEN {start} ELSE {Lower(at, key) : at \in f[n - 1]}]

\* Any number of steps can be taken.
LEMMA StepsExist ==
    ASSUME NEW start, NEW key
    PROVE  \A l \in Nat : \E f : Steps(f, l, start, key)
<1> DEFINE S == {l \in Nat : \E f : Steps(f, l, start, key)}
<1>1. 0 \in S
  <2> DEFINE f == [i \in 0 .. 0 |-> {start}]
  <2>1. Steps(f, 0, start, key)
    BY DEF Steps
  <2> QED
    BY <2>1
<1>2. ASSUME NEW n \in Nat, n \in S PROVE n + 1 \in S
  <2>1. PICK f : Steps(f, n, start, key)
    BY <1>2
  <2> DEFINE last == {Lower(at, key) : at \in f[n]}
             g == [i \in 0 .. n + 1 |-> IF i = n + 1 THEN last ELSE f[i]]
  <2>2. \A i \in 0 .. n : f[i] = IF i = 0 THEN {start} ELSE {Lower(at, key) : at \in f[i - 1]}
    BY <2>1 DEF Steps
  <2>3. ASSUME NEW i \in 0 .. n + 1
        PROVE  g[i] = IF i = 0 THEN {start} ELSE {Lower(at, key) : at \in g[i - 1]}
    <3>1. CASE i = n + 1
      <4>1. g[i] = last /\ g[i - 1] = f[n] /\ i # 0
        BY <3>1
      <4> QED
        BY <3>1, <4>1
    <3>2. CASE i # n + 1
      <4>1. i \in 0 .. n /\ g[i] = f[i] /\ (i # 0 => g[i - 1] = f[i - 1])
        BY <3>2
      <4> QED
        BY <2>2, <4>1
    <3> QED
      BY <3>1, <3>2
  <2>4. g = [i \in 0 .. n + 1 |-> g[i]]
    OBVIOUS
  <2> HIDE DEF g
  <2>5. Steps(g, n + 1, start, key)
    <3> DEFINE h == [i \in 0 .. n + 1 |->
                        IF i = 0 THEN {start} ELSE {Lower(at, key) : at \in g[i - 1]}]
    <3>1. \A i \in 0 .. n + 1 : h[i] = g[i]
      BY <2>3
    <3>2. h = [i \in 0 .. n + 1 |-> h[i]]
      OBVIOUS
    <3> HIDE DEF h
    <3>3. g = h
      BY <2>4, <3>1, <3>2
    <3> QED
      BY <3>3 DEF h, Steps
  <2> QED
    BY <2>5
<1> HIDE DEF S
<1>3. \A n \in Nat : n \in S
  BY <1>1, <1>2, EveryNumber
<1> QED
  BY <1>3 DEF S

\* What every step down leads closer to is reached: G[k] is what may be k steps
\* away.
LEMMA ReachedIn ==
    ASSUME NEW nodes, Len(nodes) \in Nat, NEW page, NEW key, NEW G,
           [nodes |-> nodes, page |-> page] \in G[Len(nodes)],
           \A k \in Nat : \A at \in G[k + 1] : Lower(at, key) \in G[k]
    PROVE  Reached(nodes, page, key) # {} /\ Reached(nodes, page, key) \subseteq G[0]
<1> DEFINE start == [nodes |-> nodes, page |-> page]
           l == Len(nodes)
<1>1. \E f : Steps(f, l, start, key)
  BY StepsExist
<1>2. PICK f : Steps(f, l, start, key) /\ Reached(nodes, page, key) = f[l]
  BY <1>1, Zenon DEF Steps, Reached
<1>3. start \in G[l] /\ l \in Nat
  OBVIOUS
<1> HIDE DEF start, l
<1>4. \A n \in 0 .. l : f[n] = IF n = 0 THEN {start} ELSE {Lower(at, key) : at \in f[n - 1]}
  BY <1>2 DEF Steps
<1> DEFINE S == {n \in Nat : n <= l => f[n] # {} /\ f[n] \subseteq G[l - n]}
<1>5. 0 \in S
  <2>1. 0 \in 0 .. l /\ l - 0 = l
    BY <1>3
  <2>2. f[0] = {start}
    BY <1>4, <2>1
  <2> QED
    BY <1>3, <2>1, <2>2
<1>6. ASSUME NEW n \in Nat, n \in S PROVE n + 1 \in S
  <2> SUFFICES ASSUME n + 1 <= l PROVE f[n + 1] # {} /\ f[n + 1] \subseteq G[l - (n + 1)]
    OBVIOUS
  <2>1. /\ n + 1 \in 0 .. l /\ n + 1 # 0 /\ (n + 1) - 1 = n /\ n <= l
        /\ l - (n + 1) \in Nat /\ l - (n + 1) + 1 = l - n
    BY <1>3
  <2>2. f[n + 1] = {Lower(at, key) : at \in f[n]}
    BY <1>4, <2>1
  <2>3. f[n] # {} /\ f[n] \subseteq G[l - n]
    BY <1>6, <2>1
  <2>4. \A at \in f[n] : Lower(at, key) \in G[l - (n + 1)]
    BY <2>1, <2>3
  <2> QED
    BY <2>2, <2>3, <2>4
<1> HIDE DEF S
<1>7. \A n \in Nat : n \in S
  BY <1>5, <1>6, EveryNumber
<1>8. f[l] # {} /\ f[l] \subseteq G[l - l] /\ l - l = 0
  BY <1>3, <1>7 DEF S
<1> QED
  BY <1>2, <1>8

\* The nodes and the node that are reached from those given.
Trees == UNION {Seq(Shaped(n)) : n \in Nat}
Places == [nodes : Trees, page : Nat]

\* The sets of places that lie on the way.
LEMMA WayIsPlace ==
    ASSUME NEW at, NEW h, NEW k, Way(at, h, k)
    PROVE  at \in Places
<1>1. /\ at = [nodes |-> at.nodes, page |-> at.page]
      /\ IsTree(at.nodes, h) /\ at.page \in 1 .. Len(at.nodes)
  BY DEF Way
<1>2. at.nodes \in Seq(Shaped(Len(at.nodes))) /\ Len(at.nodes) \in Nat
  BY <1>1, TreeNodes DEF IsTree
<1>3. at.nodes \in Trees /\ at.page \in Nat
  BY <1>1, <1>2 DEF Trees
<1> QED
  BY <1>1, <1>3 DEF Places

\* The tree does not lose pages on the way.
LEMMA LowerGrows ==
    ASSUME NEW at, NEW h, NEW k \in Nat, Way(at, h, k), NEW key \in Int
    PROVE  Len(at.nodes) <= Len(Lower(at, key).nodes) /\ Len(at.nodes) \in Nat
<1> DEFINE next == Lower(at, key)
<1>1. Len(at.nodes) \in Nat
  BY TreeNodes DEF Way
<1>2. CASE next = at
  BY <1>1, <1>2
<1>3. CASE Enters(at, key, next)
  <2>1. next.nodes = at.nodes
    BY <1>3 DEF Enters
  <2> QED
    BY <1>1, <2>1
<1>4. CASE EntersHalf(at, h, key, next)
  <2>1. Len(next.nodes) = Len(at.nodes) + 1
    BY <1>4, Zenon DEF EntersHalf, SplitAt
  <2> QED
    BY <1>1, <2>1
<1> QED
  BY <1>2, <1>3, <1>4, LowerCases

\* Whoever goes down from a node with room arrives at a leaf with room.
LEMMA LeafReached ==
    ASSUME NEW nodes, NEW h, NEW page, NEW key \in Int,
           Way([nodes |-> nodes, page |-> page], h, Len(nodes))
    PROVE  /\ Reached(nodes, page, key) # {}
           /\ \A at \in Reached(nodes, page, key) :
                Len(nodes) <= Len(at.nodes) /\ \E g : Way(at, g, 0)
<1> DEFINE start == [nodes |-> nodes, page |-> page]
           l == Len(nodes)
           G == [k \in Nat |-> {at \in Places : l <= Len(at.nodes) /\ \E g : Way(at, g, k)}]
<1>1. l \in Nat /\ start \in Places
  <2>1. IsTree(nodes, h)
    BY DEF Way
  <2> QED
    BY <2>1, TreeNodes, WayIsPlace
<1>2. start \in G[l]
  BY <1>1
<1>3. \A k \in Nat : \A at \in G[k + 1] : Lower(at, key) \in G[k]
  <2> SUFFICES ASSUME NEW k \in Nat, NEW at \in G[k + 1] PROVE Lower(at, key) \in G[k]
    OBVIOUS
  <2>1. PICK g : Way(at, g, k + 1)
    OBVIOUS
  <2>2. l <= Len(at.nodes)
    OBVIOUS
  <2>3. PICK m : Way(Lower(at, key), m, k)
    BY <2>1, LowerGoes
  <2>4. Lower(at, key) \in Places
    BY <2>3, WayIsPlace
  <2>5. Len(at.nodes) <= Len(Lower(at, key).nodes) /\ Len(at.nodes) \in Nat
    BY <2>1, LowerGrows
  <2>6. Len(Lower(at, key).nodes) \in Nat
    BY <2>3, TreeNodes DEF Way
  <2>7. l <= Len(Lower(at, key).nodes)
    BY <1>1, <2>2, <2>5, <2>6
  <2> QED
    BY <2>3, <2>4, <2>7
<1> HIDE DEF G, l
<1>4. Reached(nodes, page, key) # {} /\ Reached(nodes, page, key) \subseteq G[0]
  BY <1>1, <1>2, <1>3, ReachedIn DEF l
<1> QED
  BY <1>4 DEF G, l

-----------------------------------------------------------------------------
(* Insertion and deletion.                                                 *)

\* A leaf is written.
LEMMA LeafWritten ==
    ASSUME NEW nodes, NEW h, IsTree(nodes, h), NEW page \in 1 .. Len(nodes), nodes[page].leaf,
           NEW leaf \in Shaped(Len(nodes)), leaf.leaf
    PROVE  /\ IsTree([nodes EXCEPT ![page] = leaf], h)
           /\ Len([nodes EXCEPT ![page] = leaf]) = Len(nodes)
<1> DEFINE new == [nodes EXCEPT ![page] = leaf]
           l == Len(nodes)
<1>1. /\ nodes \in Seq(Shaped(l)) /\ h \in [1 .. l -> Nat] /\ l \in Nat
      /\ \A n \in 1 .. l : h[n] < l /\ Lowers(nodes[n], h, h[n])
  BY DEF IsTree
<1>2. /\ new \in Seq(Shaped(l)) /\ Len(new) = l
      /\ \A n \in 1 .. l : new[n] = IF n = page THEN leaf ELSE nodes[n]
  BY <1>1
<1> HIDE DEF new
<1>3. Lowers(nodes[page], h, h[page])
  BY <1>1
<1>4. h[page] = 0
  BY <1>3 DEF Lowers
<1>5. ASSUME NEW n \in 1 .. l PROVE Lowers(new[n], h, h[n])
  BY <1>1, <1>2, <1>4, SMTT(60) DEF Lowers
<1>6. IsTree(new, h)
  BY <1>1, <1>2, <1>5 DEF IsTree
<1> QED
  BY <1>2, <1>6 DEF new

\* A leaf with one more entry fits its limit, if there was room.
LEMMA LeafGrows ==
    ASSUME NEW n \in Nat, NEW leaf \in Shaped(n), leaf.leaf, ~ Full(leaf),
           NEW key \in Key, NEW ptr \in RowId
    PROVE  LET long == LongerLeaf(leaf, key, ptr)
           IN  /\ long \in Shaped(n) /\ long.leaf
               /\ Longer(long.keys, leaf.keys, Position(leaf, key), key)
               /\ Longer(long.ptrs, leaf.ptrs, Position(leaf, key), ptr)
<1> DEFINE i == Position(leaf, key)
           keys == InsertAt(leaf.keys, i, key)
           ptrs == InsertAt(leaf.ptrs, i, ptr)
<1>1. /\ leaf.keys \in Seq(Key) /\ leaf.ptrs \in Seq(RowId) /\ Len(leaf.keys) \in Nat
      /\ Len(leaf.ptrs) = Len(leaf.keys)
  BY NodeParts
<1>2. key \in Int
  BY KeysAreOrdered
<1>3. i \in 1 .. Len(leaf.keys) + 1
  BY <1>2, PositionFound DEF PositionIs
<1>4. ~ (Len(leaf.keys) >= MaxLeaf)
  BY DEF Full
<1> HIDE DEF i, MaxLeaf
<1>5. keys \in Seq(Key) /\ Longer(keys, leaf.keys, i, key)
  BY <1>1, <1>3, InsertAtIs, Zenon
<1>6. ptrs \in Seq(RowId) /\ Longer(ptrs, leaf.ptrs, i, ptr)
  <2>1. i \in 1 .. Len(leaf.ptrs) + 1
    BY <1>1, <1>3
  <2> QED
    BY <1>1, <2>1, InsertAtIs, Zenon
<1> HIDE DEF keys, ptrs
<1>7. Len(keys) = Len(ptrs) /\ Len(keys) <= MaxLeaf
  <2>1. Len(keys) = Len(leaf.keys) + 1 /\ Len(ptrs) = Len(leaf.ptrs) + 1
    BY <1>5, <1>6 DEF Longer
  <2> QED
    BY <1>1, <1>4, <2>1, LimitsOfNodes
<1>8. Leaf(keys, ptrs) \in Shaped(n)
  BY <1>5, <1>6, <1>7, LeafShaped
<1>9. /\ LongerLeaf(leaf, key, ptr) = Leaf(keys, ptrs)
      /\ Leaf(keys, ptrs).leaf /\ Leaf(keys, ptrs).keys = keys /\ Leaf(keys, ptrs).ptrs = ptrs
  BY DEF LongerLeaf, keys, ptrs, i, Leaf
<1> QED
  BY <1>5, <1>6, <1>8, <1>9 DEF i

\* At a node of height 0 there is a leaf, with room.
LEMMA LeafAtTheEnd ==
    ASSUME NEW at, NEW h, Way(at, h, 0)
    PROVE  /\ at.nodes[at.page].leaf /\ ~ Full(at.nodes[at.page])
           /\ IsTree(at.nodes, h) /\ at.page \in 1 .. Len(at.nodes) /\ Len(at.nodes) \in Nat
           /\ at.nodes[at.page] \in Shaped(Len(at.nodes))
<1> DEFINE node == at.nodes[at.page]
<1>1. IsTree(at.nodes, h) /\ at.page \in 1 .. Len(at.nodes) /\ ~ Full(node) /\ h[at.page] <= 0
  BY DEF Way
<1>2. Len(at.nodes) \in Nat /\ node \in Shaped(Len(at.nodes)) /\ h[at.page] \in Nat
  BY <1>1, TreeNodes
<1>3. ASSUME ~ node.leaf PROVE FALSE
  <2>1. 1 \in 1 .. Len(node.keys) + 1
    BY <1>2, NodeParts
  <2>2. node.ptrs[1] \in 1 .. Len(at.nodes) /\ h[node.ptrs[1]] + 1 = h[at.page]
    BY <1>1, <1>3, <2>1, Children
  <2>3. h[node.ptrs[1]] \in Nat
    BY <1>1, <2>2, TreeNodes
  <2> QED
    BY <1>1, <1>2, <2>2, <2>3, SMTT(60)
<1> QED
  BY <1>1, <1>2, <1>3

\* The leaf that is reached gets the entry, or its page cannot hold it.
LEMMA PlacedIs ==
    ASSUME NEW at, NEW h, Way(at, h, 0), NEW key \in Key, NEW ptr \in RowId
    PROVE  /\ IsTree(Placed(at, key, ptr), h) /\ Len(Placed(at, key, ptr)) = Len(at.nodes)
           /\ Placed(at, key, ptr) =
                IF Fits(LongerLeaf(at.nodes[at.page], key, ptr))
                THEN [at.nodes EXCEPT ![at.page] = LongerLeaf(at.nodes[at.page], key, ptr)]
                ELSE at.nodes
<1> DEFINE leaf == at.nodes[at.page]
           long == LongerLeaf(leaf, key, ptr)
           new == [at.nodes EXCEPT ![at.page] = long]
<1>1. /\ leaf.leaf /\ ~ Full(leaf) /\ IsTree(at.nodes, h) /\ at.page \in 1 .. Len(at.nodes)
      /\ Len(at.nodes) \in Nat /\ leaf \in Shaped(Len(at.nodes))
  BY LeafAtTheEnd
<1>2. long \in Shaped(Len(at.nodes)) /\ long.leaf
  BY <1>1, LeafGrows
<1>3. IsTree(new, h) /\ Len(new) = Len(at.nodes)
  BY <1>1, <1>2, LeafWritten
<1>4. Placed(at, key, ptr) = IF Fits(long) THEN new ELSE at.nodes
  BY DEF Placed, LongerLeaf
<1> HIDE DEF new, long
<1>5. IsTree(Placed(at, key, ptr), h) /\ Len(Placed(at, key, ptr)) = Len(at.nodes)
  BY <1>1, <1>3, <1>4
<1> QED
  BY <1>4, <1>5 DEF new, long

\* What _insert_nonfull leaves is what placing the entry leaves in one of the
\* places that are reached.
LEMMA NonfullIs ==
    ASSUME NEW nodes, NEW page, NEW key, NEW ptr, Reached(nodes, page, key) # {}
    PROVE  \E at \in Reached(nodes, page, key) :
             InsertNonfull(nodes, page, key, ptr) = Placed(at, key, ptr)
<1> DEFINE N == {Placed(at, key, ptr) : at \in Reached(nodes, page, key)}
<1>1. N # {}
  OBVIOUS
<1>2. InsertNonfull(nodes, page, key, ptr) = CHOOSE new \in N : TRUE
  BY DEF InsertNonfull
<1> HIDE DEF N
<1>3. InsertNonfull(nodes, page, key, ptr) \in N
  BY <1>1, <1>2, Zenon
<1> QED
  BY <1>3 DEF N

\* _insert_nonfull keeps a tree.
LEMMA NonfullTree ==
    ASSUME NEW nodes, NEW h, NEW page, NEW key \in Key, NEW ptr \in RowId,
           IsTree(nodes, h), page \in 1 .. Len(nodes), ~ Full(nodes[page])
    PROVE  \E g : /\ IsTree(InsertNonfull(nodes, page, key, ptr), g)
                  /\ Len(nodes) <= Len(InsertNonfull(nodes, page, key, ptr))
<1> DEFINE start == [nodes |-> nodes, page |-> page]
<1>1. Len(nodes) \in Nat /\ h[page] \in Nat /\ h[page] < Len(nodes) /\ key \in Int
  BY TreeNodes, KeysAreOrdered
<1>2. Way(start, h, Len(nodes))
  BY <1>1 DEF Way
<1>3. /\ Reached(nodes, page, key) # {}
      /\ \A at \in Reached(nodes, page, key) :
           Len(nodes) <= Len(at.nodes) /\ \E g : Way(at, g, 0)
  BY <1>1, <1>2, LeafReached
<1>4. PICK at \in Reached(nodes, page, key) :
            InsertNonfull(nodes, page, key, ptr) = Placed(at, key, ptr)
  BY <1>3, NonfullIs
<1>5. PICK g : Way(at, g, 0)
  BY <1>3
<1>6. IsTree(Placed(at, key, ptr), g) /\ Len(Placed(at, key, ptr)) = Len(at.nodes)
  BY <1>5, PlacedIs
<1> QED
  BY <1>3, <1>4, <1>6

\* The nodes after a full root was split, and the new root above its halves.
NewRoot(tree) == Inner(<<Halves(tree.nodes[tree.root]).key>>, <<tree.root, Len(tree.nodes) + 2>>)
RootSplit(tree, new) ==
    LET n == Len(tree.nodes)
        half == Halves(tree.nodes[tree.root])
    IN  /\ new \in Seq(Shaped(n + 2)) /\ Len(new) = n + 2
        /\ \A m \in 1 .. n : new[m] = IF m = tree.root THEN half.left ELSE tree.nodes[m]
        /\ new[n + 1] = NewRoot(tree) /\ new[n + 2] = half.right
Grows(tree) == [tree.nodes EXCEPT ![tree.root] = Halves(tree.nodes[tree.root]).left]
                 \o <<NewRoot(tree), Halves(tree.nodes[tree.root]).right>>

\* A tree and its root.
IsIndex(tree, h) ==
    /\ tree = [root |-> tree.root, nodes |-> tree.nodes]
    /\ IsTree(tree.nodes, h) /\ tree.root \in 1 .. Len(tree.nodes)

\* The nodes after insert has split the root.
LEMMA RootSplitIs ==
    ASSUME NEW tree, NEW h, IsIndex(tree, h), Len(tree.nodes[tree.root].keys) >= MaxLeaf
    PROVE  RootSplit(tree, Grows(tree))
<1> DEFINE n == Len(tree.nodes)
           root == tree.nodes[tree.root]
           half == Halves(root)
           mid == [tree.nodes EXCEPT ![tree.root] = half.left]
           tail == <<NewRoot(tree), half.right>>
           new == Grows(tree)
<1>1. /\ n \in Nat /\ tree.root \in 1 .. n /\ root \in Shaped(n) /\ tree.nodes \in Seq(Shaped(n))
  BY TreeNodes DEF IsIndex, IsTree
<1>2. Len(root.keys) >= 2 /\ Len(root.keys) \in Nat
  <2>1. Len(root.keys) \in Nat
    BY <1>1, NodeParts
  <2> HIDE DEF MaxLeaf
  <2> QED
    BY <2>1, LimitsOfNodes
<1>3. half.left \in Shaped(n) /\ half.right \in Shaped(n) /\ half.key \in Key
  <2>1. half.left \in Shaped(n) /\ half.right \in Shaped(n)
    BY <1>1, <1>2, HalvesShaped
  <2>2. PICK m : HalvesAre(root, half, m)
    BY <1>1, <1>2, HalvesShaped
  <2> HIDE DEF root, half
  <2>3. m + 1 \in 1 .. Len(root.keys) /\ half.key = root.keys[m + 1]
    BY <1>2, <2>2 DEF HalvesAre
  <2> QED
    BY <1>1, <2>1, <2>3, NodeParts
<1>4. new = mid \o tail
  BY DEF Grows
<1> HIDE DEF half, root
<1>5. NewRoot(tree) \in Shaped(n + 2)
  <2>1. <<half.key>> \in Seq(Key) /\ Len(<<half.key>>) = 1
    BY <1>3
  <2>2. <<tree.root, n + 2>> \in Seq(1 .. n + 2) /\ Len(<<tree.root, n + 2>>) = 2
    <3>1. tree.root \in 1 .. n + 2 /\ n + 2 \in 1 .. n + 2
      BY <1>1
    <3> QED
      BY <3>1
  <2>3. 1 <= MaxInner
    BY LimitsOfNodes
  <2>4. NewRoot(tree) = Inner(<<half.key>>, <<tree.root, n + 2>>)
    BY DEF NewRoot, half, root
  <2> DEFINE keys == <<half.key>>
             kids == <<tree.root, n + 2>>
  <2>5. /\ keys \in Seq(Key) /\ kids \in Seq(1 .. n + 2)
        /\ Len(kids) = Len(keys) + 1 /\ Len(keys) <= MaxInner
    BY <2>1, <2>2, <2>3
  <2>6. NewRoot(tree) = Inner(keys, kids)
    BY <2>4
  <2> HIDE DEF keys, kids, n
  <2> QED
    BY <2>5, <2>6, InnerShaped, Zenon
<1>6. Shaped(n) \subseteq Shaped(n + 2)
  BY <1>1, ShapedGrows
<1>7. /\ mid \in Seq(Shaped(n + 2)) /\ Len(mid) = n
      /\ \A m \in 1 .. n : mid[m] = IF m = tree.root THEN half.left ELSE tree.nodes[m]
  BY <1>1, <1>3, <1>6
<1>8. /\ tail \in Seq(Shaped(n + 2)) /\ Len(tail) = 2
      /\ tail[1] = NewRoot(tree) /\ tail[2] = half.right
  BY <1>3, <1>5, <1>6
<1> HIDE DEF mid, tail, n, new
<1>9. /\ mid \o tail \in Seq(Shaped(n + 2)) /\ Len(mid \o tail) = Len(mid) + Len(tail)
      /\ \A i \in 1 .. Len(mid) + Len(tail) :
           (mid \o tail)[i] = IF i <= Len(mid) THEN mid[i] ELSE tail[i - Len(mid)]
  <2> DEFINE S == Shaped(n + 2)
  <2>1. mid \in Seq(S) /\ tail \in Seq(S)
    BY <1>7, <1>8
  <2> HIDE DEF S
  <2>2. /\ mid \o tail \in Seq(S) /\ Len(mid \o tail) = Len(mid) + Len(tail)
        /\ \A i \in 1 .. Len(mid) + Len(tail) :
             (mid \o tail)[i] = IF i <= Len(mid) THEN mid[i] ELSE tail[i - Len(mid)]
    BY <2>1, ConcatProperties
  <2> QED
    BY <2>2 DEF S
<1>10. /\ new \in Seq(Shaped(n + 2)) /\ Len(new) = n + 2
       /\ \A i \in 1 .. n + 2 : new[i] = IF i <= n THEN mid[i] ELSE tail[i - n]
  BY <1>1, <1>4, <1>7, <1>8, <1>9
<1>11. \A m \in 1 .. n : new[m] = mid[m]
  BY <1>1, <1>10
<1>12. new[n + 1] = tail[1] /\ new[n + 2] = tail[2]
  <2>1. /\ n + 1 \in 1 .. n + 2 /\ ~ (n + 1 <= n) /\ (n + 1) - n = 1
        /\ n + 2 \in 1 .. n + 2 /\ ~ (n + 2 <= n) /\ (n + 2) - n = 2
    BY <1>1
  <2>2. new[n + 1] = tail[(n + 1) - n] /\ new[n + 2] = tail[(n + 2) - n]
    BY <1>10, <2>1
  <2> QED
    BY <2>1, <2>2
<1> QED
  BY <1>7, <1>8, <1>10, <1>11, <1>12 DEF RootSplit, n, new, half, root

\* The tree with an inner node above its root: to split the root is to split the
\* only child of that node.
Crowned(tree) == Append(tree.nodes, Inner(<<>>, <<tree.root>>))
CrownHeights(tree, h) ==
    [m \in 1 .. Len(tree.nodes) + 1 |-> IF m = Len(tree.nodes) + 1 THEN h[tree.root] + 1 ELSE h[m]]

\* It has the nodes of the tree, and that one.
CrownSays(tree, h) ==
    LET n == Len(tree.nodes)
        crowned == Crowned(tree)
    IN  /\ n \in Nat /\ tree.root \in 1 .. n
        /\ crowned \in Seq(Shaped(n + 1)) /\ Len(crowned) = n + 1
        /\ \A m \in 1 .. n : crowned[m] = tree.nodes[m] /\ CrownHeights(tree, h)[m] = h[m]
        /\ crowned[n + 1] = Inner(<<>>, <<tree.root>>)
        /\ CrownHeights(tree, h) \in [1 .. n + 1 -> Nat]
        /\ CrownHeights(tree, h)[n + 1] = h[tree.root] + 1

\* These are nodes.
LEMMA CrownIs ==
    ASSUME NEW tree, NEW h, IsIndex(tree, h)
    PROVE  CrownSays(tree, h)
<1> DEFINE n == Len(tree.nodes)
           top == Inner(<<>>, <<tree.root>>)
           crowned == Crowned(tree)
           g == CrownHeights(tree, h)
<1>1. /\ IsTree(tree.nodes, h) /\ n \in Nat /\ tree.root \in 1 .. n
      /\ tree.nodes \in Seq(Shaped(n)) /\ \A m \in 1 .. n : h[m] \in Nat
  BY TreeNodes DEF IsIndex, IsTree
<1>2. top \in Shaped(n + 1)
  <2> DEFINE keys == <<>>
             kids == <<tree.root>>
  <2>1. keys \in Seq(Key) /\ kids \in Seq(1 .. n + 1) /\ Len(kids) = Len(keys) + 1 /\ Len(keys) <= MaxInner
    BY <1>1, LimitsOfNodes
  <2>2. top = Inner(keys, kids) /\ n + 1 \in Nat
    BY <1>1
  <2> HIDE DEF keys, kids, n, top
  <2> QED
    BY <2>1, <2>2, InnerShaped, Zenon
<1>3. Shaped(n) \subseteq Shaped(n + 1)
  BY <1>1, ShapedGrows
<1>4. /\ crowned \in Seq(Shaped(n + 1)) /\ Len(crowned) = n + 1
      /\ \A m \in 1 .. n : crowned[m] = tree.nodes[m]
      /\ crowned[n + 1] = top
  <2> HIDE DEF top
  <2> QED
    BY <1>1, <1>2, <1>3 DEF Crowned, top
<1>5. /\ g \in [1 .. n + 1 -> Nat] /\ g[n + 1] = h[tree.root] + 1
      /\ \A m \in 1 .. n : g[m] = h[m]
  BY <1>1 DEF CrownHeights
<1> HIDE DEF crowned, g, top
<1> QED
  BY <1>1, <1>4, <1>5 DEF CrownSays, crowned, g, top

\* It is a tree.
LEMMA CrownTree ==
    ASSUME NEW tree, NEW h, IsIndex(tree, h)
    PROVE  IsTree(Crowned(tree), CrownHeights(tree, h))
<1> DEFINE n == Len(tree.nodes)
           crowned == Crowned(tree)
           g == CrownHeights(tree, h)
<1>0. CrownSays(tree, h)
  BY CrownIs
<1>1. /\ n \in Nat /\ tree.root \in 1 .. n
      /\ crowned \in Seq(Shaped(n + 1)) /\ Len(crowned) = n + 1
      /\ \A m \in 1 .. n : crowned[m] = tree.nodes[m] /\ g[m] = h[m]
      /\ crowned[n + 1] = Inner(<<>>, <<tree.root>>)
      /\ g \in [1 .. n + 1 -> Nat] /\ g[n + 1] = h[tree.root] + 1
  BY <1>0, Zenon DEF CrownSays
<1>2. IsTree(tree.nodes, h) /\ \A m \in 1 .. n : h[m] \in Nat /\ h[m] < n /\ Lowers(tree.nodes[m], h, h[m])
  BY TreeNodes DEF IsIndex, IsTree
<1> HIDE DEF crowned, g
<1>3. ASSUME NEW m \in 1 .. n PROVE Lowers(crowned[m], g, g[m])
  <2>1. CASE tree.nodes[m].leaf
    BY <1>1, <1>2, <2>1 DEF Lowers
  <2>2. CASE ~ tree.nodes[m].leaf
    <3>1. ASSUME NEW i \in 1 .. Len(tree.nodes[m].keys) + 1
          PROVE  g[tree.nodes[m].ptrs[i]] + 1 = h[m]
      <4>1. tree.nodes[m].ptrs[i] \in 1 .. n /\ h[tree.nodes[m].ptrs[i]] + 1 = h[m]
        BY <1>2, <2>2, Children, SMTT(60)
      <4> QED
        BY <1>1, <4>1
    <3> QED
      BY <1>1, <2>2, <3>1 DEF Lowers
  <2> QED
    BY <2>1, <2>2
<1>4. Lowers(crowned[n + 1], g, g[n + 1])
  <2>1. /\ ~ crowned[n + 1].leaf /\ Len(crowned[n + 1].keys) = 0
        /\ crowned[n + 1].ptrs[1] = tree.root
    BY <1>1 DEF Inner
  <2>2. g[tree.root] + 1 = g[n + 1]
    BY <1>1
  <2>3. \A i \in 1 .. 0 + 1 : i = 1
    OBVIOUS
  <2> QED
    BY <2>1, <2>2, <2>3 DEF Lowers
<1>5. \A m \in 1 .. n + 1 : m \in 1 .. n \/ m = n + 1
  BY <1>1
<1>6. ASSUME NEW m \in 1 .. n + 1 PROVE g[m] < n + 1 /\ Lowers(crowned[m], g, g[m])
  <2> HIDE DEF n
  <2>1. CASE m \in 1 .. n
    <3>1. g[m] < n /\ g[m] \in Nat
      BY <1>1, <1>2, <2>1
    <3> QED
      BY <1>1, <1>3, <2>1, <3>1
  <2>2. CASE m = n + 1
    <3>1. h[tree.root] < n /\ h[tree.root] \in Nat
      BY <1>1, <1>2
    <3> QED
      BY <1>1, <1>4, <2>2, <3>1
  <2> QED
    BY <1>5, <2>1, <2>2
<1> HIDE DEF n
<1> QED
  BY <1>1, <1>6 DEF IsTree, crowned, g

\* insert splits the root as _split_child splits that child.
LEMMA CrownSplits ==
    ASSUME NEW tree, NEW h, IsIndex(tree, h), Len(tree.nodes[tree.root].keys) >= MaxLeaf
    PROVE  /\ Splits(Crowned(tree), CrownHeights(tree, h), Len(tree.nodes) + 1, 1)
           /\ SplitAt(Crowned(tree), Grows(tree), Len(tree.nodes) + 1, 1)
           /\ Crowned(tree)[Len(tree.nodes) + 1].ptrs[1] = tree.root
<1> DEFINE n == Len(tree.nodes)
           root == tree.nodes[tree.root]
           half == Halves(root)
           crowned == Crowned(tree)
           new == Grows(tree)
<1>0. CrownSays(tree, h) /\ RootSplit(tree, new)
  BY CrownIs, RootSplitIs
<1>1. /\ n \in Nat /\ tree.root \in 1 .. n /\ Len(crowned) = n + 1
      /\ \A m \in 1 .. n : crowned[m] = tree.nodes[m]
      /\ crowned[n + 1] = Inner(<<>>, <<tree.root>>)
  BY <1>0, Zenon DEF CrownSays
<1>2. /\ new \in Seq(Shaped(n + 2)) /\ Len(new) = n + 2
      /\ \A m \in 1 .. n : new[m] = IF m = tree.root THEN half.left ELSE tree.nodes[m]
      /\ new[n + 1] = NewRoot(tree) /\ new[n + 2] = half.right
  BY <1>0 DEF RootSplit
<1>3. /\ ~ new[n + 1].leaf /\ new[n + 1].keys = <<half.key>>
      /\ new[n + 1].ptrs = <<tree.root, n + 2>>
  BY <1>2 DEF NewRoot, Inner
<1>4. /\ ~ crowned[n + 1].leaf /\ crowned[n + 1].keys = <<>> /\ crowned[n + 1].ptrs = <<tree.root>>
      /\ crowned[n + 1].ptrs[1] = tree.root
  BY <1>1 DEF Inner
<1>5. IsTree(crowned, CrownHeights(tree, h))
  BY CrownTree
<1>6. Len(crowned[crowned[n + 1].ptrs[1]].keys) >= 2
  <2>1. crowned[crowned[n + 1].ptrs[1]] = root
    BY <1>1, <1>4
  <2>2. Len(root.keys) \in Nat
    BY <1>1, TreeNodes, NodeParts DEF IsIndex
  <2>3. Len(root.keys) >= MaxLeaf
    OBVIOUS
  <2> HIDE DEF root, MaxLeaf, crowned
  <2> QED
    BY <2>1, <2>2, <2>3, LimitsOfNodes
<1> HIDE DEF half, crowned, new
<1>7. Splits(crowned, CrownHeights(tree, h), n + 1, 1)
  <2>1. n + 1 \in 1 .. Len(crowned) /\ Len(crowned[n + 1].keys) = 0 /\ 1 \in 1 .. 0 + 1
    BY <1>1, <1>4
  <2>2. Len(crowned[n + 1].keys) < MaxInner
    <3> HIDE DEF MaxInner
    <3> QED
      BY <2>1, LimitsOfNodes
  <2> QED
    BY <1>4, <1>5, <1>6, <2>1, <2>2 DEF Splits
<1>8. /\ Longer(new[n + 1].keys, crowned[n + 1].keys, 1, half.key)
      /\ Longer(new[n + 1].ptrs, crowned[n + 1].ptrs, 2, n + 2)
  <2> DEFINE k == half.key
             r == tree.root
             a == <<k>>
             b == <<r, n + 2>>
  <2>1. /\ Len(a) = 0 + 1 /\ a[1] = k /\ \A j \in 1 .. 0 + 1 : j = 1 /\ ~ (j < 1)
        /\ Len(b) = 1 + 1 /\ b[1] = r /\ b[2] = n + 2
        /\ \A j \in 1 .. 1 + 1 : (j = 1 /\ j < 2) \/ (j = 2 /\ ~ (j < 2))
    OBVIOUS
  <2>2. new[n + 1].keys = a /\ new[n + 1].ptrs = b
    BY <1>3
  <2>3. /\ Len(crowned[n + 1].keys) = 0 /\ Len(crowned[n + 1].ptrs) = 1
        /\ crowned[n + 1].ptrs[1] = r
    BY <1>4
  <2> HIDE DEF k, r, a, b, n
  <2>4. Longer(a, crowned[n + 1].keys, 1, k)
    BY <2>1, <2>3 DEF Longer
  <2>5. Longer(b, crowned[n + 1].ptrs, 2, n + 2)
    BY <2>1, <2>3 DEF Longer
  <2> QED
    BY <2>2, <2>4, <2>5 DEF k
<1>9. SplitAt(crowned, new, n + 1, 1)
  <2>1. crowned[n + 1].ptrs[1] = tree.root /\ crowned[tree.root] = root
    BY <1>1, <1>4
  <2>2. Halves(crowned[crowned[n + 1].ptrs[1]]) = half
    BY <2>1 DEF half
  <2>3. Len(crowned) + 1 = n + 2 /\ (n + 1) + 1 = n + 2 /\ 1 + 1 = 2 /\ Len(crowned) = n + 1
    BY <1>1
  <2>4. ASSUME NEW m \in 1 .. n + 1, m # tree.root, m # n + 1 PROVE new[m] = crowned[m]
    <3>1. m \in 1 .. n
      BY <1>1, <2>4
    <3> QED
      BY <1>1, <1>2, <2>4, <3>1
  <2>5. new[tree.root] = half.left
    BY <1>1, <1>2
  <2> HIDE DEF n
  <2> QED
    BY <1>2, <1>3, <1>8, <2>1, <2>2, <2>3, <2>4, <2>5 DEF SplitAt
<1> QED
  BY <1>4, <1>7, <1>9 DEF crowned, new

\* It is a tree, and its root has room.
LEMMA RootSplitTree ==
    ASSUME NEW tree, NEW h, IsIndex(tree, h), Len(tree.nodes[tree.root].keys) >= MaxLeaf
    PROVE  /\ Len(Grows(tree)) = Len(tree.nodes) + 2 /\ ~ Full(Grows(tree)[Len(tree.nodes) + 1])
           /\ \E g : IsTree(Grows(tree), g)
<1> DEFINE n == Len(tree.nodes)
           new == Grows(tree)
<1>1. \E g : IsTree(new, g)
  BY CrownSplits, SplitTree
<1>2. Len(new) = n + 2 /\ new[n + 1] = NewRoot(tree)
  BY RootSplitIs DEF RootSplit
<1>3. ~ new[n + 1].leaf /\ Len(new[n + 1].keys) = 1
  BY <1>2 DEF NewRoot, Inner
<1> HIDE DEF new
<1>4. ~ Full(new[n + 1])
  <2> HIDE DEF MaxInner
  <2> QED
    BY <1>3, LimitsOfNodes DEF Full
<1> QED
  BY <1>1, <1>2, <1>4 DEF new

\* insert begins at a root with room.
LEMMA OpenedTree ==
    ASSUME NEW tree, NEW h, IsIndex(tree, h)
    PROVE  /\ \E g : IsIndex(Opened(tree), g)
           /\ ~ Full(Opened(tree).nodes[Opened(tree).root])
           /\ Opened(tree) = IF Len(tree.nodes[tree.root].keys) >= MaxLeaf
                             THEN [root |-> Len(tree.nodes) + 1, nodes |-> Grows(tree)] ELSE tree
<1> DEFINE n == Len(tree.nodes)
           root == tree.nodes[tree.root]
           open == Opened(tree)
<1>1. /\ IsTree(tree.nodes, h) /\ n \in Nat /\ tree.root \in 1 .. n /\ root \in Shaped(n)
  BY TreeNodes DEF IsIndex
<1>2. open = IF Len(root.keys) >= MaxLeaf THEN [root |-> n + 1, nodes |-> Grows(tree)] ELSE tree
  BY DEF Opened, Grows, NewRoot
<1>3. CASE Len(root.keys) >= MaxLeaf
  <2>1. open.root = n + 1 /\ open.nodes = Grows(tree) /\ open = [root |-> open.root, nodes |-> open.nodes]
    BY <1>2, <1>3
  <2>2. /\ ~ Full(Grows(tree)[n + 1]) /\ Len(Grows(tree)) = n + 2
        /\ \E f : IsTree(Grows(tree), f)
    BY <1>3, RootSplitTree
  <2>3. PICK f : IsTree(Grows(tree), f)
    BY <2>2
  <2> HIDE DEF open
  <2>4. open.root \in 1 .. Len(open.nodes)
    BY <1>1, <2>1, <2>2
  <2>5. IsIndex(open, f)
    BY <2>1, <2>3, <2>4 DEF IsIndex
  <2> QED
    BY <1>2, <2>1, <2>2, <2>5 DEF open
<1>4. CASE ~ (Len(root.keys) >= MaxLeaf)
  <2>1. open = tree
    BY <1>2, <1>4
  <2>2. ~ Full(root)
    <3>1. Len(root.keys) \in Nat /\ root.leaf \in BOOLEAN
      BY <1>1, NodeParts
    <3>2. MaxLeaf <= MaxInner
      BY LeavesAreShort
    <3> HIDE DEF MaxLeaf, MaxInner
    <3> QED
      BY <1>4, <3>1, <3>2, LimitsOfNodes DEF Full
  <2> HIDE DEF open
  <2> QED
    BY <1>2, <2>1, <2>2 DEF open
<1> QED
  BY <1>3, <1>4

\* What is inserted goes into that tree.
LEMMA InsertedIs ==
    ASSUME NEW tree, NEW h, IsIndex(tree, h), NEW key, NEW ptr
    PROVE  InsertKey(tree, key, ptr) =
             [root |-> Opened(tree).root,
              nodes |-> InsertNonfull(Opened(tree).nodes, Opened(tree).root, key, ptr)]
<1> DEFINE open == Opened(tree)
           nodes == InsertNonfull(open.nodes, open.root, key, ptr)
<1>1. InsertKey(tree, key, ptr) = [open EXCEPT !.nodes = nodes]
  BY DEF InsertKey
<1>2. open = [root |-> open.root, nodes |-> open.nodes]
  BY OpenedTree DEF IsIndex
<1> HIDE DEF open, nodes
<1> QED
  BY <1>1, <1>2 DEF open, nodes

\* insert keeps a tree.
LEMMA InsertTree ==
    ASSUME NEW tree, NEW h, IsIndex(tree, h), NEW key \in Key, NEW ptr \in RowId
    PROVE  \E g : IsIndex(InsertKey(tree, key, ptr), g)
<1> DEFINE open == Opened(tree)
           nodes == InsertNonfull(open.nodes, open.root, key, ptr)
           new == InsertKey(tree, key, ptr)
<1>1. new = [root |-> open.root, nodes |-> nodes]
  BY InsertedIs
<1>2. PICK f : IsIndex(open, f)
  BY OpenedTree
<1>3. ~ Full(open.nodes[open.root])
  BY OpenedTree
<1>4. IsTree(open.nodes, f) /\ open.root \in 1 .. Len(open.nodes) /\ Len(open.nodes) \in Nat
  BY <1>2, TreeNodes DEF IsIndex
<1> HIDE DEF open
<1>5. PICK g : IsTree(nodes, g) /\ Len(open.nodes) <= Len(nodes)
  BY <1>3, <1>4, NonfullTree
<1>6. Len(nodes) \in Nat
  BY <1>5, TreeNodes
<1> HIDE DEF nodes, new
<1>7. IsIndex(new, g)
  BY <1>1, <1>4, <1>5, <1>6 DEF IsIndex
<1> QED
  BY <1>7 DEF new

-----------------------------------------------------------------------------
(* Search and deletion.                                                    *)

\* f[n] is the leaf below n that is looked at for the key.
Leads(f, nodes, key) ==
    f = [n \in DOMAIN nodes |->
            IF nodes[n].leaf THEN n ELSE f[nodes[n].ptrs[Position(nodes[n], key)]]]

\* The way to it ends: children are lower than their parents.
LEMMA LeadsExist ==
    ASSUME NEW nodes, NEW h, IsTree(nodes, h), NEW key \in Int
    PROVE  \E f : Leads(f, nodes, key)
<1> DEFINE l == Len(nodes)
           D == 1 .. l
           To(f, n) == IF nodes[n].leaf THEN n ELSE f[nodes[n].ptrs[Position(nodes[n], key)]]
           S == {k \in Nat : \E f : \A n \in D : h[n] <= k => f[n] = To(f, n)}
<1>1. /\ DOMAIN nodes = D /\ l \in Nat
      /\ \A n \in D : nodes[n] \in Shaped(l) /\ h[n] \in Nat /\ h[n] < l
  BY TreeNodes DEF IsTree
<1>2. ASSUME NEW n \in D, ~ nodes[n].leaf
      PROVE  /\ nodes[n].ptrs[Position(nodes[n], key)] \in D
             /\ h[nodes[n].ptrs[Position(nodes[n], key)]] + 1 = h[n]
  <2>1. Position(nodes[n], key) \in 1 .. Len(nodes[n].keys) + 1
    BY <1>1, PositionFound DEF PositionIs
  <2> QED
    BY <1>2, <2>1, Children
<1>3. 0 \in S
  <2> DEFINE f == [n \in D |-> n]
  <2>1. ASSUME NEW n \in D, h[n] <= 0 PROVE f[n] = To(f, n)
    <3>1. nodes[n].leaf
      <4> SUFFICES ASSUME ~ nodes[n].leaf PROVE FALSE
        OBVIOUS
      <4>1. PICK m \in D : h[m] + 1 = h[n]
        BY <1>2
      <4> QED
        BY <1>1, <2>1, <4>1
    <3> QED
      BY <3>1
  <2> HIDE DEF f, To
  <2> QED
    BY <2>1
<1>4. ASSUME NEW k \in Nat, k \in S PROVE k + 1 \in S
  <2>1. PICK f : \A n \in D : h[n] <= k => f[n] = To(f, n)
    BY <1>4
  <2> DEFINE g == [n \in D |-> IF h[n] <= k THEN f[n] ELSE To(f, n)]
  <2>2. ASSUME NEW n \in D, h[n] <= k + 1 PROVE g[n] = To(g, n)
    <3>1. g[n] = To(f, n)
      BY <2>1
    <3>2. ASSUME ~ nodes[n].leaf
          PROVE  To(f, n) = To(g, n)
      <4> DEFINE m == nodes[n].ptrs[Position(nodes[n], key)]
      <4>1. m \in D /\ h[m] + 1 = h[n]
        BY <1>2, <3>2
      <4>2. h[m] <= k
        BY <1>1, <1>4, <2>2, <4>1, SMTT(60)
      <4>3. g[m] = f[m]
        BY <4>1, <4>2
      <4> HIDE DEF g, m
      <4>4. To(f, n) = f[m] /\ To(g, n) = g[m]
        BY <3>2 DEF m
      <4> QED
        BY <4>3, <4>4
    <3>3. nodes[n].leaf => To(f, n) = To(g, n)
      OBVIOUS
    <3> HIDE DEF g, To
    <3> QED
      BY <3>1, <3>2, <3>3
  <2> HIDE DEF g, To
  <2>3. k + 1 \in Nat
    OBVIOUS
  <2> QED
    BY <2>2, <2>3
<1> HIDE DEF S
<1>5. l \in S
  BY <1>1, <1>3, <1>4, EveryNumber
<1>6. PICK f : \A n \in D : h[n] <= l => f[n] = To(f, n)
  BY <1>5 DEF S
<1>7. \A n \in D : f[n] = To(f, n)
  BY <1>1, <1>6
<1> DEFINE e == [n \in D |-> f[n]]
<1>8. ASSUME NEW n \in D PROVE e[n] = To(e, n)
  <2>1. ~ nodes[n].leaf => nodes[n].ptrs[Position(nodes[n], key)] \in D
    BY <1>2
  <2> QED
    BY <1>7, <2>1
<1>9. e = [n \in D |-> e[n]]
  OBVIOUS
<1> HIDE DEF e
<1>10. e = [n \in D |-> To(e, n)]
  <2> DEFINE t == [n \in D |-> To(e, n)]
  <2>1. \A n \in D : t[n] = e[n]
    BY <1>8
  <2>2. t = [n \in D |-> t[n]]
    OBVIOUS
  <2> HIDE DEF t, To
  <2>3. t = e
    BY <1>9, <2>1, <2>2
  <2> QED
    BY <2>3 DEF t
<1> QED
  BY <1>1, <1>10 DEF Leads

\* Search and delete look at a leaf, in any set of pages that the way down does
\* not leave.
LEMMA LeafForIs ==
    ASSUME NEW nodes, NEW h, IsTree(nodes, h), NEW key \in Int,
           NEW G, G \subseteq 1 .. Len(nodes),
           \A n \in G : ~ nodes[n].leaf => nodes[n].ptrs[Position(nodes[n], key)] \in G,
           NEW page \in G
    PROVE  LeafFor(nodes, page, key) \in G /\ nodes[LeafFor(nodes, page, key)].leaf
<1> DEFINE l == Len(nodes)
           ToChild(n) == nodes[n].ptrs[Position(nodes[n], key)]
<1>1. /\ DOMAIN nodes = 1 .. l /\ l \in Nat
      /\ \A n \in 1 .. l : nodes[n] \in Shaped(l) /\ h[n] \in Nat /\ h[n] < l
  BY TreeNodes, SMTT(60) DEF IsTree
<1>2. ASSUME NEW n \in G, ~ nodes[n].leaf PROVE ToChild(n) \in G /\ h[ToChild(n)] + 1 = h[n]
  <2>1. Position(nodes[n], key) \in 1 .. Len(nodes[n].keys) + 1
    BY <1>1, PositionFound DEF PositionIs
  <2> QED
    BY <1>2, <2>1, Children
<1>3. \E f : Leads(f, nodes, key)
  BY LeadsExist
<1>4. PICK f : Leads(f, nodes, key) /\ LeafFor(nodes, page, key) = f[page]
  BY <1>3, ZenonT(60) DEF Leads, LeafFor
<1>5. \A n \in 1 .. l : f[n] = IF nodes[n].leaf THEN n ELSE f[ToChild(n)]
  BY <1>1, <1>4 DEF Leads
<1>6. \A n \in G : h[n] \in Nat /\ h[n] < l
  BY <1>1
<1> HIDE DEF ToChild, l
<1> DEFINE Good(n) == f[n] \in G /\ nodes[f[n]].leaf
           S == {k \in Nat : \A n \in G : h[n] <= k => Good(n)}
<1>7. 0 \in S
  <2> SUFFICES ASSUME NEW n \in G, h[n] <= 0 PROVE Good(n)
    OBVIOUS
  <2>1. nodes[n].leaf
    <3> SUFFICES ASSUME ~ nodes[n].leaf PROVE FALSE
      OBVIOUS
    <3>1. ToChild(n) \in G /\ h[ToChild(n)] + 1 = h[n]
      BY <1>2
    <3>2. h[ToChild(n)] \in Nat /\ h[n] \in Nat
      BY <1>6, <3>1
    <3> QED
      BY <3>1, <3>2
  <2>2. f[n] = n
    BY <1>5, <2>1 DEF l
  <2> QED
    BY <2>1, <2>2
<1>8. ASSUME NEW k \in Nat, k \in S PROVE k + 1 \in S
  <2> SUFFICES ASSUME NEW n \in G, h[n] <= k + 1 PROVE Good(n)
    OBVIOUS
  <2>1. CASE nodes[n].leaf
    <3>1. f[n] = n
      BY <1>5, <2>1 DEF l
    <3> QED
      BY <2>1, <3>1
  <2>2. CASE ~ nodes[n].leaf
    <3>1. ToChild(n) \in G /\ h[ToChild(n)] + 1 = h[n] /\ f[n] = f[ToChild(n)]
      BY <1>2, <1>5, <2>2 DEF l
    <3>2. h[ToChild(n)] <= k
      <4>1. h[ToChild(n)] \in Nat /\ h[n] \in Nat
        BY <1>6, <3>1
      <4> QED
        BY <1>8, <3>1, <4>1
    <3> QED
      BY <1>8, <3>1, <3>2
  <2> QED
    BY <2>1, <2>2
<1> HIDE DEF S, Good
<1>9. l \in S
  BY <1>1, <1>7, <1>8, EveryNumber
<1>10. h[page] <= l
  BY <1>1 DEF l
<1>11. Good(page)
  BY <1>9, <1>10 DEF S
<1> QED
  BY <1>4, <1>11 DEF Good

-----------------------------------------------------------------------------
(* What deletion leaves of a leaf.                                         *)

\* f[n] are the positions that are kept of the first n.
Keeps(f, leaf, key, ptr, m) ==
    f = [n \in 0 .. m |->
            IF n = 0 THEN <<>>
            ELSE IF leaf.keys[n] = key /\ leaf.ptrs[n] = ptr THEN f[n - 1]
            ELSE Append(f[n - 1], n)]

\* Any number of entries can be looked at.
LEMMA KeepsExist ==
    ASSUME NEW leaf, NEW key, NEW ptr
    PROVE  \A m \in Nat : \E f : Keeps(f, leaf, key, ptr, m)
<1> DEFINE From(f, n) == IF n = 0 THEN <<>>
                         ELSE IF leaf.keys[n] = key /\ leaf.ptrs[n] = ptr THEN f[n - 1]
                         ELSE Append(f[n - 1], n)
           S == {m \in Nat : \E f : f = [n \in 0 .. m |-> From(f, n)]}
<1>1. 0 \in S
  <2> DEFINE f == [i \in 0 .. 0 |-> <<>>]
  <2>1. f = [n \in 0 .. 0 |-> From(f, n)]
    OBVIOUS
  <2> HIDE DEF f, From
  <2> QED
    BY <2>1
<1>2. ASSUME NEW m \in Nat, m \in S PROVE m + 1 \in S
  <2>1. PICK f : f = [n \in 0 .. m |-> From(f, n)]
    BY <1>2
  <2> DEFINE last == From(f, m + 1)
             g == [i \in 0 .. m + 1 |-> IF i = m + 1 THEN last ELSE f[i]]
  <2>2. \A i \in 0 .. m : f[i] = From(f, i)
    <3> HIDE DEF From
    <3> QED
      BY <2>1
  <2>3. ASSUME NEW i \in 0 .. m + 1 PROVE g[i] = From(g, i)
    <3>1. i # 0 => g[i - 1] = f[i - 1]
      BY <1>2
    <3>2. From(g, i) = From(f, i)
      <4> HIDE DEF g
      <4> QED
        BY <3>1
    <3>3. CASE i = m + 1
      <4>1. g[i] = last
        BY <3>3
      <4> QED
        BY <3>2, <3>3, <4>1
    <3>4. CASE i # m + 1
      <4>1. i \in 0 .. m /\ g[i] = f[i]
        BY <1>2, <3>4
      <4> HIDE DEF g, From
      <4> QED
        BY <2>2, <3>2, <4>1
    <3> QED
      BY <3>3, <3>4
  <2>4. g = [i \in 0 .. m + 1 |-> g[i]]
    OBVIOUS
  <2> HIDE DEF g
  <2>5. g = [n \in 0 .. m + 1 |-> From(g, n)]
    <3> DEFINE t == [n \in 0 .. m + 1 |-> From(g, n)]
    <3>1. \A i \in 0 .. m + 1 : t[i] = g[i]
      BY <2>3
    <3>2. t = [i \in 0 .. m + 1 |-> t[i]]
      OBVIOUS
    <3> HIDE DEF t, From
    <3>3. g = t
      BY <2>4, <3>1, <3>2
    <3> QED
      BY <3>3 DEF t
  <2> HIDE DEF From
  <2>6. m + 1 \in Nat
    BY <1>2
  <2> QED
    BY <2>5, <2>6
<1> HIDE DEF S
<1>3. \A m \in Nat : m \in S
  BY <1>1, <1>2, EveryNumber
<1> QED
  BY <1>3 DEF S, Keeps

\* Positions in increasing order, of the first n entries: all but those of the key
\* and the address.
KeptOf(s, leaf, key, ptr, n) ==
    /\ s \in Seq(1 .. n) /\ Len(s) <= n
    /\ \A i, j \in 1 .. Len(s) : i < j => s[i] < s[j]
    /\ \A j \in 1 .. n : ~ (leaf.keys[j] = key /\ leaf.ptrs[j] = ptr)
                           <=> \E i \in 1 .. Len(s) : s[i] = j

\* One more position is kept.
LEMMA KeptAppended ==
    ASSUME NEW n \in Nat, NEW s, NEW leaf, NEW key, NEW ptr, KeptOf(s, leaf, key, ptr, n),
           ~ (leaf.keys[n + 1] = key /\ leaf.ptrs[n + 1] = ptr)
    PROVE  KeptOf(Append(s, n + 1), leaf, key, ptr, n + 1)
<1> DEFINE t == Append(s, n + 1)
           l == Len(s)
<1>1. /\ s \in Seq(1 .. n) /\ l \in Nat /\ l <= n
      /\ \A i, j \in 1 .. l : i < j => s[i] < s[j]
      /\ \A j \in 1 .. n : ~ (leaf.keys[j] = key /\ leaf.ptrs[j] = ptr)
                             <=> \E i \in 1 .. l : s[i] = j
  BY DEF KeptOf
<1>2. \A i \in 1 .. l : s[i] \in 1 .. n
  BY <1>1
<1>3. s \in Seq(1 .. n + 1) /\ n + 1 \in 1 .. n + 1
  BY <1>1
<1>4. /\ t \in Seq(1 .. n + 1) /\ Len(t) = l + 1 /\ t[l + 1] = n + 1
      /\ \A i \in 1 .. l : t[i] = s[i]
  BY <1>3
<1> HIDE DEF t, l
<1>5. ASSUME NEW i \in 1 .. l + 1, NEW j \in 1 .. l + 1, i < j PROVE t[i] < t[j]
  <2>1. i \in 1 .. l /\ (j \in 1 .. l \/ j = l + 1)
    BY <1>1, <1>5
  <2>2. t[i] = s[i] /\ s[i] \in 1 .. n
    BY <1>2, <1>4, <2>1
  <2>3. CASE j = l + 1
    BY <1>4, <2>2, <2>3
  <2>4. CASE j \in 1 .. l
    BY <1>1, <1>4, <1>5, <2>1, <2>2, <2>4
  <2> QED
    BY <2>1, <2>3, <2>4
<1>6. ASSUME NEW j \in 1 .. n + 1
      PROVE  ~ (leaf.keys[j] = key /\ leaf.ptrs[j] = ptr) <=> \E i \in 1 .. l + 1 : t[i] = j
  <2>1. CASE j = n + 1
    <3>1. l + 1 \in 1 .. l + 1 /\ t[l + 1] = j
      BY <1>1, <1>4, <2>1
    <3> QED
      BY <2>1, <3>1
  <2>2. CASE j # n + 1
    <3>1. j \in 1 .. n
      BY <2>2
    <3>2. (\E i \in 1 .. l + 1 : t[i] = j) <=> \E i \in 1 .. l : s[i] = j
      <4>1. \A i \in 1 .. l + 1 : i \in 1 .. l \/ i = l + 1
        BY <1>1
      <4>2. \A i \in 1 .. l : i \in 1 .. l + 1
        BY <1>1
      <4> QED
        BY <1>4, <2>2, <4>1, <4>2
    <3> QED
      BY <1>1, <3>1, <3>2
  <2> QED
    BY <2>1, <2>2
<1>7. Len(t) <= n + 1
  BY <1>1, <1>4
<1> QED
  BY <1>4, <1>5, <1>6, <1>7 DEF KeptOf, t

\* The list comprehension of _delete_from_node.
LEMMA WithoutIs ==
    ASSUME NEW leaf, Len(leaf.keys) \in Nat, NEW key, NEW ptr
    PROVE  KeptOf(Without(leaf, key, ptr), leaf, key, ptr, Len(leaf.keys))
<1> DEFINE l == Len(leaf.keys)
<1>1. \E f : Keeps(f, leaf, key, ptr, l)
  BY KeepsExist
<1>2. PICK f : Keeps(f, leaf, key, ptr, l) /\ Without(leaf, key, ptr) = f[l]
  BY <1>1, Zenon DEF Keeps, Without
<1>3. l \in Nat
  OBVIOUS
<1> HIDE DEF l
<1>4. \A n \in 0 .. l : f[n] = IF n = 0 THEN <<>>
                               ELSE IF leaf.keys[n] = key /\ leaf.ptrs[n] = ptr THEN f[n - 1]
                               ELSE Append(f[n - 1], n)
  BY <1>2 DEF Keeps
<1> DEFINE S == {n \in Nat : n <= l => KeptOf(f[n], leaf, key, ptr, n)}
<1>5. 0 \in S
  <2>1. f[0] = <<>>
    BY <1>3, <1>4
  <2>2. KeptOf(<<>>, leaf, key, ptr, 0)
    BY DEF KeptOf
  <2> QED
    BY <2>1, <2>2
<1>6. ASSUME NEW n \in Nat, n \in S PROVE n + 1 \in S
  <2> SUFFICES ASSUME n + 1 <= l PROVE KeptOf(f[n + 1], leaf, key, ptr, n + 1)
    OBVIOUS
  <2>1. n + 1 \in 0 .. l /\ n + 1 # 0 /\ (n + 1) - 1 = n /\ n <= l
    BY <1>3
  <2>2. KeptOf(f[n], leaf, key, ptr, n)
    BY <1>6, <2>1
  <2>3. CASE leaf.keys[n + 1] = key /\ leaf.ptrs[n + 1] = ptr
    <3>1. f[n + 1] = f[n]
      BY <1>4, <2>1, <2>3
    <3>2. f[n] \in Seq(1 .. n) /\ Len(f[n]) <= n
      BY <2>2 DEF KeptOf
    <3>3. f[n] \in Seq(1 .. n + 1) /\ Len(f[n]) <= n + 1 /\ \A i \in 1 .. Len(f[n]) : f[n][i] # n + 1
      BY <3>2
    <3>4. ASSUME NEW j \in 1 .. n + 1
          PROVE  ~ (leaf.keys[j] = key /\ leaf.ptrs[j] = ptr) <=> \E i \in 1 .. Len(f[n]) : f[n][i] = j
      <4>1. CASE j = n + 1
        BY <2>3, <3>3, <4>1
      <4>2. CASE j # n + 1
        <5>1. j \in 1 .. n
          BY <4>2
        <5> QED
          BY <2>2, <5>1 DEF KeptOf
      <4> QED
        BY <4>1, <4>2
    <3>5. \A i, j \in 1 .. Len(f[n]) : i < j => f[n][i] < f[n][j]
      BY <2>2 DEF KeptOf
    <3>6. KeptOf(f[n], leaf, key, ptr, n + 1)
      BY <3>3, <3>4, <3>5 DEF KeptOf
    <3> QED
      BY <3>1, <3>6
  <2>4. CASE ~ (leaf.keys[n + 1] = key /\ leaf.ptrs[n + 1] = ptr)
    <3>1. f[n + 1] = Append(f[n], n + 1)
      BY <1>4, <2>1, <2>4
    <3>2. KeptOf(Append(f[n], n + 1), leaf, key, ptr, n + 1)
      BY <2>2, <2>4, KeptAppended
    <3> QED
      BY <3>1, <3>2
  <2> QED
    BY <2>3, <2>4
<1> HIDE DEF S
<1>7. \A n \in Nat : n \in S
  BY <1>5, <1>6, EveryNumber
<1>8. KeptOf(f[l], leaf, key, ptr, l)
  BY <1>3, <1>7 DEF S
<1> QED
  BY <1>2, <1>8 DEF l

\* The leaf without the entry.
ShorterLeaf(leaf, key, ptr) ==
    LET kept == Without(leaf, key, ptr)
    IN  Leaf([i \in DOMAIN kept |-> leaf.keys[kept[i]]], [i \in DOMAIN kept |-> leaf.ptrs[kept[i]]])

\* It is a leaf.
LEMMA LeafShrinks ==
    ASSUME NEW n \in Nat, NEW leaf \in Shaped(n), leaf.leaf, NEW key, NEW ptr
    PROVE  LET short == ShorterLeaf(leaf, key, ptr)
               kept == Without(leaf, key, ptr)
           IN  /\ short \in Shaped(n) /\ short.leaf
               /\ KeptOf(kept, leaf, key, ptr, Len(leaf.keys))
               /\ Len(short.keys) = Len(kept)
               /\ \A i \in 1 .. Len(kept) : /\ short.keys[i] = leaf.keys[kept[i]]
                                            /\ short.ptrs[i] = leaf.ptrs[kept[i]]
<1> DEFINE kept == Without(leaf, key, ptr)
           l == Len(leaf.keys)
           keys == [i \in DOMAIN kept |-> leaf.keys[kept[i]]]
           ptrs == [i \in DOMAIN kept |-> leaf.ptrs[kept[i]]]
<1>1. /\ leaf.keys \in Seq(Key) /\ leaf.ptrs \in Seq(RowId) /\ l \in Nat
      /\ Len(leaf.ptrs) = l /\ l <= MaxLeaf
  BY NodeParts
<1>2. KeptOf(kept, leaf, key, ptr, l)
  BY <1>1, WithoutIs
<1>3. \A i \in 1 .. l : leaf.keys[i] \in Key /\ leaf.ptrs[i] \in RowId
  BY <1>1, ElementOfSeq
<1> HIDE DEF kept, l, MaxLeaf
<1>4. kept \in Seq(1 .. l) /\ Len(kept) <= l /\ Len(kept) \in Nat /\ DOMAIN kept = 1 .. Len(kept)
  BY <1>2 DEF KeptOf
<1>5. \A i \in 1 .. Len(kept) : kept[i] \in 1 .. l
  BY <1>4, ElementOfSeq
<1>6. /\ keys \in Seq(Key) /\ Len(keys) = Len(kept) /\ ptrs \in Seq(RowId) /\ Len(ptrs) = Len(kept)
      /\ \A i \in 1 .. Len(kept) : keys[i] = leaf.keys[kept[i]] /\ ptrs[i] = leaf.ptrs[kept[i]]
  BY <1>3, <1>4, <1>5
<1> HIDE DEF keys, ptrs
<1>7. Len(keys) <= MaxLeaf /\ Len(ptrs) = Len(keys)
  BY <1>1, <1>4, <1>6, LimitsOfNodes
<1>8. Leaf(keys, ptrs) \in Shaped(n)
  BY <1>6, <1>7, LeafShaped
<1>9. /\ ShorterLeaf(leaf, key, ptr) = Leaf(keys, ptrs)
      /\ Leaf(keys, ptrs).leaf /\ Leaf(keys, ptrs).keys = keys /\ Leaf(keys, ptrs).ptrs = ptrs
  BY DEF ShorterLeaf, keys, ptrs, kept, Leaf
<1> QED
  BY <1>2, <1>6, <1>8, <1>9 DEF kept, l

\* delete writes one leaf of the tree.
LEMMA DeleteIs ==
    ASSUME NEW tree, NEW h, IsIndex(tree, h), NEW key \in Int, NEW ptr
    PROVE  LET page == LeafFor(tree.nodes, tree.root, key)
           IN  /\ page \in 1 .. Len(tree.nodes) /\ tree.nodes[page].leaf
               /\ DeleteKey(tree, key, ptr) =
                    [root |-> tree.root,
                     nodes |-> [tree.nodes EXCEPT ![page] = ShorterLeaf(tree.nodes[page], key, ptr)]]
<1> DEFINE page == LeafFor(tree.nodes, tree.root, key)
           G == 1 .. Len(tree.nodes)
<1>1. /\ IsTree(tree.nodes, h) /\ tree.root \in G /\ tree = [root |-> tree.root, nodes |-> tree.nodes]
      /\ Len(tree.nodes) \in Nat /\ \A n \in G : tree.nodes[n] \in Shaped(Len(tree.nodes))
  BY TreeNodes DEF IsIndex
<1>2. ASSUME NEW n \in G, ~ tree.nodes[n].leaf
      PROVE  tree.nodes[n].ptrs[Position(tree.nodes[n], key)] \in G
  <2>1. Position(tree.nodes[n], key) \in 1 .. Len(tree.nodes[n].keys) + 1
    BY <1>1, PositionFound DEF PositionIs
  <2> QED
    BY <1>1, <1>2, <2>1, Children
<1>3. page \in G /\ tree.nodes[page].leaf
  BY <1>1, <1>2, LeafForIs
<1>4. DeleteKey(tree, key, ptr) =
        [tree EXCEPT !.nodes[page] = ShorterLeaf(tree.nodes[page], key, ptr)]
  BY DEF DeleteKey, ShorterLeaf
<1> HIDE DEF page
<1>5. DeleteKey(tree, key, ptr) =
        [root |-> tree.root,
         nodes |-> [tree.nodes EXCEPT ![page] = ShorterLeaf(tree.nodes[page], key, ptr)]]
  BY <1>1, <1>4
<1> QED
  BY <1>3, <1>5 DEF page

\* delete keeps a tree.
LEMMA DeleteTree ==
    ASSUME NEW tree, NEW h, IsIndex(tree, h), NEW key \in Int, NEW ptr
    PROVE  IsIndex(DeleteKey(tree, key, ptr), h)
<1> DEFINE page == LeafFor(tree.nodes, tree.root, key)
           short == ShorterLeaf(tree.nodes[page], key, ptr)
           nodes == [tree.nodes EXCEPT ![page] = short]
<1>1. /\ IsTree(tree.nodes, h) /\ tree.root \in 1 .. Len(tree.nodes) /\ Len(tree.nodes) \in Nat
      /\ \A n \in 1 .. Len(tree.nodes) : tree.nodes[n] \in Shaped(Len(tree.nodes))
  BY TreeNodes DEF IsIndex
<1>2. /\ page \in 1 .. Len(tree.nodes) /\ tree.nodes[page].leaf
      /\ DeleteKey(tree, key, ptr) = [root |-> tree.root, nodes |-> nodes]
  BY DeleteIs
<1> HIDE DEF page
<1>3. short \in Shaped(Len(tree.nodes)) /\ short.leaf
  BY <1>1, <1>2, LeafShrinks
<1> HIDE DEF short
<1>4. IsTree(nodes, h) /\ Len(nodes) = Len(tree.nodes)
  BY <1>1, <1>2, <1>3, LeafWritten
<1> HIDE DEF nodes
<1> QED
  BY <1>1, <1>2, <1>4 DEF IsIndex

\* A new tree is an empty leaf.
LEMMA EmptyIsTree == IsIndex(EmptyTree, [n \in 1 .. 1 |-> 0])
<1> DEFINE leaf == Leaf(<<>>, <<>>)
           h == [n \in 1 .. 1 |-> 0]
<1>1. leaf \in Shaped(1)
  <2>1. <<>> \in Seq(Key) /\ <<>> \in Seq(RowId) /\ Len(<<>>) = 0 /\ 0 <= MaxLeaf
    BY LimitsOfNodes
  <2> QED
    BY <2>1, LeafShaped
<1>2. leaf.leaf
  BY DEF Leaf
<1> HIDE DEF leaf
<1>3. <<leaf>> \in Seq(Shaped(1)) /\ Len(<<leaf>>) = 1 /\ <<leaf>>[1] = leaf
  BY <1>1
<1>4. IsTree(<<leaf>>, h)
  <2>1. h \in [1 .. 1 -> Nat] /\ h[1] = 0
    OBVIOUS
  <2>2. Lowers(leaf, h, 0)
    BY <1>2 DEF Lowers
  <2> HIDE DEF h
  <2>3. \A n \in 1 .. 1 : n = 1
    OBVIOUS
  <2> QED
    BY <1>3, <2>1, <2>2, <2>3 DEF IsTree
<1>5. EmptyTree = [root |-> 1, nodes |-> <<leaf>>]
  BY DEF EmptyTree, leaf
<1> QED
  BY <1>3, <1>4, <1>5 DEF IsIndex

-----------------------------------------------------------------------------
(* Nodes and their pages.                                                  *)

\* The estimate covers a key and its length.
KeysAreEstimated == KeyBytes + 2 <= KeyEstimate

\* A node that keeps its limit fits into its page, if the estimate does.
LEMMA ShapedFits ==
    ASSUME KeysAreEstimated, NEW n \in Nat, NEW node \in Shaped(n)
    PROVE  NodeOK(node)
<1> DEFINE l == Len(node.keys)
           a == NodeSpace - 4
<1>1. l \in Nat /\ a \in Int /\ KeyBytes \in Nat /\ KeyEstimate \in Nat /\ KeyBytes + 2 <= KeyEstimate
  BY NodeParts, NodeSizes DEF KeysAreEstimated
<1>2. CASE node.leaf
  <2>1. Len(node.ptrs) = l /\ l <= MaxLeaf /\ MaxLeaf \in Nat
    BY <1>2, NodeParts, LimitsOfNodes
  <2>2. MaxLeaf * (KeyEstimate + 8) <= a
    BY <1>1 DEF MaxLeaf
  <2> HIDE DEF l, a, MaxLeaf
  <2>3. l * (KeyEstimate + 8) <= MaxLeaf * (KeyEstimate + 8)
    BY <1>1, <2>1
  <2>4. l * (2 + KeyBytes) + 8 * l <= l * (KeyEstimate + 8)
    <3>1. l * (2 + KeyBytes) <= l * KeyEstimate
      BY <1>1
    <3>2. l * (KeyEstimate + 8) = l * KeyEstimate + 8 * l
      BY <1>1
    <3>3. l * (2 + KeyBytes) \in Nat /\ l * KeyEstimate \in Nat
      BY <1>1
    <3> QED
      BY <1>1, <3>1, <3>2, <3>3
  <2>5. l * (2 + KeyBytes) + 8 * l <= a
    <3> DEFINE x == l * (2 + KeyBytes)
               y == l * (KeyEstimate + 8)
               z == MaxLeaf * (KeyEstimate + 8)
    <3>1. x \in Int /\ y \in Int /\ z \in Int
      BY <1>1, <2>1
    <3>2. x + 8 * l <= y /\ y <= z /\ z <= a
      BY <2>2, <2>3, <2>4
    <3> HIDE DEF x, y, z
    <3>3. x + 8 * l <= a
      BY <1>1, <3>1, <3>2
    <3> QED
      BY <3>3 DEF x
  <2>6. l * (2 + KeyBytes) + 8 * l + 4 <= NodeSpace
    <3> DEFINE x == l * (2 + KeyBytes)
    <3>1. x \in Int /\ x + 8 * l <= NodeSpace - 4
      BY <1>1, <2>5 DEF a
    <3> HIDE DEF x
    <3>2. x + 8 * l + 4 <= NodeSpace
      BY <1>1, <3>1, NodeSizes
    <3> QED
      BY <3>2 DEF x
  <2>7. Fits(node)
    BY <1>2, <2>1, <2>6 DEF Fits, l
  <2>8. Len(node.ptrs) = Len(node.keys) + 0
    BY <1>1, <2>1 DEF l
  <2> QED
    BY <1>2, <2>7, <2>8 DEF NodeOK
<1>3. CASE ~ node.leaf
  <2>1. Len(node.ptrs) = l + 1 /\ l <= MaxInner /\ MaxInner \in Nat
    BY <1>3, NodeParts, LimitsOfNodes
  <2>2. MaxInner * (KeyEstimate + 4) <= a
    BY <1>1 DEF MaxInner
  <2> HIDE DEF l, a, MaxInner
  <2>3. l * (KeyEstimate + 4) <= MaxInner * (KeyEstimate + 4)
    BY <1>1, <2>1
  <2>4. l * (2 + KeyBytes) + 4 * l <= l * (KeyEstimate + 4)
    <3>1. l * (2 + KeyBytes) <= l * KeyEstimate
      BY <1>1
    <3>2. l * (KeyEstimate + 4) = l * KeyEstimate + 4 * l
      BY <1>1
    <3>3. l * (2 + KeyBytes) \in Nat /\ l * KeyEstimate \in Nat
      BY <1>1
    <3> QED
      BY <1>1, <3>1, <3>2, <3>3
  <2>5. l * (2 + KeyBytes) + 4 * l <= a
    <3> DEFINE x == l * (2 + KeyBytes)
               y == l * (KeyEstimate + 4)
               z == MaxInner * (KeyEstimate + 4)
    <3>1. x \in Int /\ y \in Int /\ z \in Int
      BY <1>1, <2>1
    <3>2. x + 4 * l <= y /\ y <= z /\ z <= a
      BY <2>2, <2>3, <2>4
    <3> HIDE DEF x, y, z
    <3>3. x + 4 * l <= a
      BY <1>1, <3>1, <3>2
    <3> QED
      BY <3>3 DEF x
  <2>6. l * (2 + KeyBytes) + 4 * (l + 1) + 0 <= NodeSpace
    <3> DEFINE x == l * (2 + KeyBytes)
    <3>1. x \in Int /\ x + 4 * l <= NodeSpace - 4
      BY <1>1, <2>5 DEF a
    <3> HIDE DEF x
    <3>2. x + 4 * (l + 1) + 0 <= NodeSpace
      BY <1>1, <3>1, NodeSizes
    <3> QED
      BY <3>2 DEF x
  <2>7. Fits(node)
    BY <1>3, <2>1, <2>6 DEF Fits, l
  <2> QED
    BY <1>3, <2>1, <2>7 DEF NodeOK, l
<1> QED
  BY <1>2, <1>3

-----------------------------------------------------------------------------
(* Statements on a table with an index.                                    *)

-----------------------------------------------------------------------------
(* The order of the keys.                                                  *)

\* The keys of a node ascend.
Sorted(node) == \A i, j \in 1 .. Len(node.keys) : i < j => node.keys[i] < node.keys[j]

\* The key belongs to the child at i, or goes to place i.
Between(node, key, i) ==
    /\ i \in 1 .. Len(node.keys) + 1
    /\ i > 1 => node.keys[i - 1] <= key
    /\ i <= Len(node.keys) => key < node.keys[i]

\* In ascending order it is enough to look at the neighbours.
LEMMA BetweenIsPosition ==
    ASSUME NEW n \in Nat, NEW node \in Shaped(n), Sorted(node), NEW key \in Int, NEW i
    PROVE  PositionIs(node, key, i) <=> Between(node, key, i)
<1> DEFINE l == Len(node.keys)
<1>1. l \in Nat /\ \A j \in 1 .. l : node.keys[j] \in Int
  BY NodeParts
<1>2. ASSUME PositionIs(node, key, i) PROVE Between(node, key, i)
  <2>1. i \in 1 .. l + 1 /\ (i <= l => key < node.keys[i]) /\ \A j \in 1 .. i - 1 : node.keys[j] <= key
    BY <1>2 DEF PositionIs
  <2> HIDE DEF l
  <2>2. i > 1 => i - 1 \in 1 .. i - 1
    BY <1>1, <2>1
  <2> QED
    BY <2>1, <2>2 DEF Between, l
<1>3. ASSUME Between(node, key, i) PROVE PositionIs(node, key, i)
  <2>1. i \in 1 .. l + 1 /\ (i > 1 => node.keys[i - 1] <= key) /\ (i <= l => key < node.keys[i])
    BY <1>3 DEF Between
  <2>2. ASSUME NEW j \in 1 .. i - 1 PROVE node.keys[j] <= key
    <3> HIDE DEF l
    <3>1. j \in 1 .. l /\ i - 1 \in 1 .. l /\ i > 1 /\ (j < i - 1 \/ j = i - 1)
      BY <1>1, <2>1
    <3>2. j < i - 1 => node.keys[j] < node.keys[i - 1]
      BY <3>1 DEF Sorted, l
    <3> QED
      BY <1>1, <2>1, <3>1, <3>2
  <2> QED
    BY <2>1, <2>2 DEF PositionIs
<1> QED
  BY <1>2, <1>3

\* A key belongs to one child only.
LEMMA BetweenOnce ==
    ASSUME NEW n \in Nat, NEW node \in Shaped(n), Sorted(node), NEW key \in Int,
           NEW i, Between(node, key, i), NEW j, Between(node, key, j)
    PROVE  i = j
BY BetweenIsPosition, PositionUnique

\* The left half of an inner node leads where the node does, for keys below the
\* middle one.
LEMMA LeftLeads ==
    ASSUME NEW n \in Nat, NEW node \in Shaped(n), ~ node.leaf, Sorted(node),
           NEW half, NEW m, HalvesAre(node, half, m), NEW key \in Int, NEW j \in 1 .. m + 1
    PROVE  Between(node, key, j) <=> key < half.key /\ Between(half.left, key, j)
<1> DEFINE l == Len(node.keys)
<1>1. l \in Nat /\ \A i \in 1 .. l : node.keys[i] \in Int
  BY NodeParts
<1>2. /\ m \in 1 .. l - 1 /\ half.key = node.keys[m + 1] /\ Len(half.left.keys) = m
      /\ \A i \in 1 .. m : half.left.keys[i] = node.keys[i]
  BY DEF HalvesAre
<1>3. \A a, b \in 1 .. l : a < b => node.keys[a] < node.keys[b]
  BY DEF Sorted
<1> HIDE DEF l
<1>4. j > 1 => half.left.keys[j - 1] = node.keys[j - 1]
  BY <1>1, <1>2
<1>5. CASE j <= m
  <2>1. j \in 1 .. l /\ j \in 1 .. m /\ half.left.keys[j] = node.keys[j] /\ m + 1 \in 1 .. l
    BY <1>1, <1>2, <1>5
  <2>2. node.keys[j] < node.keys[m + 1]
    <3>1. j < m + 1
      BY <1>2, <1>5, <2>1
    <3> QED
      BY <1>3, <2>1, <3>1
  <2>3. key < node.keys[j] => key < half.key
    BY <1>1, <1>2, <2>1, <2>2
  <2>4. Between(node, key, j) <=> (j > 1 => node.keys[j - 1] <= key) /\ key < node.keys[j]
    BY <1>1, <2>1 DEF Between, l
  <2>5. Between(half.left, key, j) <=> (j > 1 => node.keys[j - 1] <= key) /\ key < node.keys[j]
    BY <1>1, <1>2, <1>4, <2>1, SMTT(60) DEF Between
  <2> QED
    BY <2>3, <2>4, <2>5
<1>6. CASE j = m + 1
  <2>1. j \in 1 .. l /\ ~ (j <= m) /\ j \in 1 .. l + 1 /\ j <= l /\ m \in Nat
    BY <1>1, <1>2, <1>6
  <2>2. Between(node, key, j) <=> (j > 1 => node.keys[j - 1] <= key) /\ key < half.key
    BY <1>2, <1>6, <2>1 DEF Between, l
  <2>3. Between(half.left, key, j) <=> (j > 1 => node.keys[j - 1] <= key)
    BY <1>2, <1>4, <1>6, <2>1 DEF Between
  <2> QED
    BY <2>2, <2>3
<1>7. j <= m \/ j = m + 1
  BY <1>1, <1>2
<1> QED
  BY <1>5, <1>6, <1>7

\* And the right half for the others.
LEMMA RightLeads ==
    ASSUME NEW n \in Nat, NEW node \in Shaped(n), ~ node.leaf, Sorted(node),
           NEW half, NEW m, HalvesAre(node, half, m), NEW key \in Int,
           NEW j \in 1 .. Len(node.keys) - m
    PROVE  Between(node, key, m + 1 + j) <=> half.key <= key /\ Between(half.right, key, j)
<1> DEFINE l == Len(node.keys)
           r == Len(half.right.keys)
<1>1. l \in Nat /\ \A i \in 1 .. l : node.keys[i] \in Int
  BY NodeParts
<1>2. /\ m \in 1 .. l - 1 /\ half.key = node.keys[m + 1] /\ r = l - m - 1
      /\ \A i \in 1 .. l - m - 1 : half.right.keys[i] = node.keys[m + 1 + i]
  BY DEF HalvesAre, Gone
<1>3. \A a, b \in 1 .. l : a < b => node.keys[a] < node.keys[b]
  BY DEF Sorted
<1>4. j \in 1 .. l - m
  OBVIOUS
<1> HIDE DEF l, r
<1>5. /\ m \in Nat /\ m + 1 \in 1 .. l /\ half.key \in Int
      /\ m + 1 + j \in 1 .. l + 1 /\ j \in 1 .. r + 1 /\ m + 1 + j > 1 /\ (m + 1 + j) - 1 = m + j
      /\ (m + 1 + j <= l <=> j <= r)
  BY <1>1, <1>2, <1>4
<1>6. j <= r => half.right.keys[j] = node.keys[m + 1 + j]
  BY <1>2, <1>5
<1>7. Between(node, key, m + 1 + j) <=>
        node.keys[m + j] <= key /\ (j <= r => key < node.keys[m + 1 + j])
  BY <1>5 DEF Between, l
<1>8. Between(half.right, key, j) <=>
        (j > 1 => half.right.keys[j - 1] <= key) /\ (j <= r => key < node.keys[m + 1 + j])
  BY <1>5, <1>6 DEF Between, r
<1>9. CASE j = 1
  <2>1. m + j = m + 1 /\ ~ (j > 1)
    BY <1>5, <1>9
  <2> QED
    BY <1>2, <1>7, <1>8, <2>1
<1>10. CASE j # 1
  <2>1. /\ j > 1 /\ j - 1 \in 1 .. l - m - 1 /\ m + 1 + (j - 1) = m + j
        /\ m + j \in 1 .. l /\ m + 1 < m + j
    BY <1>1, <1>2, <1>4, <1>5, <1>10
  <2>2. half.right.keys[j - 1] = node.keys[m + j]
    BY <1>2, <2>1
  <2>3. node.keys[m + 1] < node.keys[m + j]
    BY <1>3, <1>5, <2>1
  <2>4. node.keys[m + j] <= key => half.key <= key
    BY <1>1, <1>2, <1>5, <2>1, <2>3
  <2> QED
    BY <1>7, <1>8, <2>1, <2>2, <2>4
<1> QED
  BY <1>9, <1>10

\* What becomes of the keys of a node that is split.
HalvesSay(node, half) ==
    /\ Sorted(half.left) /\ Sorted(half.right)
    /\ half.key \in Int /\ node.keys[1] < half.key
    /\ \A j \in 1 .. Len(half.left.keys) : half.left.keys[j] < half.key
    /\ \A j \in 1 .. Len(half.right.keys) : half.key <= half.right.keys[j]
    /\ \A j \in 1 .. Len(half.left.keys) :
         \E i \in 1 .. Len(node.keys) : half.left.keys[j] = node.keys[i]
    /\ \A j \in 1 .. Len(half.right.keys) :
         \E i \in 1 .. Len(node.keys) : half.right.keys[j] = node.keys[i]
    /\ \E i \in 1 .. Len(node.keys) : half.key = node.keys[i]

\* Both halves ascend; the key in the middle parts them and is above the first.
LEMMA HalvesSorted ==
    ASSUME NEW n \in Nat, NEW node \in Shaped(n), Sorted(node),
           NEW half, NEW m, HalvesAre(node, half, m)
    PROVE  HalvesSay(node, half)
<1> DEFINE l == Len(node.keys)
           g == Gone(node)
           r == Len(half.right.keys)
<1>1. l \in Nat /\ \A i \in 1 .. l : node.keys[i] \in Int
  BY NodeParts
<1>2. /\ m \in 1 .. l - 1 /\ half.key = node.keys[m + 1] /\ Len(half.left.keys) = m
      /\ \A i \in 1 .. m : half.left.keys[i] = node.keys[i]
      /\ r = l - m - g
      /\ \A i \in 1 .. l - m - g : half.right.keys[i] = node.keys[m + g + i]
  BY DEF HalvesAre
<1>3. \A a, b \in 1 .. l : a < b => node.keys[a] < node.keys[b]
  BY DEF Sorted
<1>4. g \in {0, 1}
  BY DEF Gone
<1> HIDE DEF l, g, r
<1>5. m \in Nat /\ m + 1 \in 1 .. l /\ 1 \in 1 .. l /\ 1 < m + 1
  BY <1>1, <1>2
<1>6. Sorted(half.left)
  <2>1. ASSUME NEW i \in 1 .. m, NEW j \in 1 .. m, i < j PROVE half.left.keys[i] < half.left.keys[j]
    <3>1. i \in 1 .. l /\ j \in 1 .. l
      BY <1>1, <1>2
    <3> QED
      BY <1>2, <1>3, <2>1, <3>1
  <2> QED
    BY <1>2, <2>1 DEF Sorted
<1>7. ASSUME NEW j \in 1 .. r
      PROVE  m + g + j \in 1 .. l /\ half.right.keys[j] = node.keys[m + g + j]
  BY <1>1, <1>2, <1>4, SMTT(60)
<1>8. Sorted(half.right)
  <2>1. ASSUME NEW i \in 1 .. r, NEW j \in 1 .. r, i < j PROVE half.right.keys[i] < half.right.keys[j]
    <3>1. m + g + i < m + g + j
      BY <1>4, <1>5, <2>1
    <3> QED
      BY <1>3, <1>7, <3>1
  <2> QED
    BY <2>1 DEF Sorted, r
<1>9. half.key \in Int /\ node.keys[1] < half.key
  BY <1>1, <1>2, <1>3, <1>5
<1>10. ASSUME NEW j \in 1 .. m PROVE half.left.keys[j] < half.key /\ j \in 1 .. l
  <2>1. j \in 1 .. l /\ j < m + 1
    BY <1>1, <1>2
  <2> QED
    BY <1>2, <1>3, <1>5, <2>1
<1>11. ASSUME NEW j \in 1 .. r PROVE half.key <= half.right.keys[j]
  <2>1. m + g + j = m + 1 \/ m + 1 < m + g + j
    BY <1>4, <1>5
  <2>2. node.keys[m + g + j] \in Int /\ half.right.keys[j] = node.keys[m + g + j]
    BY <1>1, <1>7
  <2>3. m + 1 < m + g + j => node.keys[m + 1] < node.keys[m + g + j]
    BY <1>3, <1>5, <1>7
  <2> QED
    BY <1>2, <1>9, <2>1, <2>2, <2>3
<1> QED
  BY <1>2, <1>5, <1>6, <1>7, <1>8, <1>9, <1>10, <1>11 DEF HalvesSay, l, r

\* The parent with the key from the middle: it leads where it led, and at i to one
\* of two.
LEMMA ParentLeads ==
    ASSUME NEW n \in Nat, NEW old \in Shaped(n), Sorted(old),
           NEW new, NEW i \in 1 .. Len(old.keys) + 1, NEW k \in Int, Longer(new.keys, old.keys, i, k),
           i > 1 => old.keys[i - 1] < k, i <= Len(old.keys) => k < old.keys[i],
           NEW key \in Int
    PROVE  /\ Sorted(new)
           /\ \A j \in 1 .. i - 1 : Between(new, key, j) <=> Between(old, key, j)
           /\ Between(new, key, i) <=> Between(old, key, i) /\ key < k
           /\ Between(new, key, i + 1) <=> Between(old, key, i) /\ k <= key
           /\ \A j \in i + 2 .. Len(old.keys) + 2 : Between(new, key, j) <=> Between(old, key, j - 1)
<1> DEFINE l == Len(old.keys)
<1>1. l \in Nat /\ \A j \in 1 .. l : old.keys[j] \in Int
  BY NodeParts
<1>2. /\ Len(new.keys) = l + 1
      /\ \A j \in 1 .. l + 1 :
           new.keys[j] = IF j < i THEN old.keys[j] ELSE IF j = i THEN k ELSE old.keys[j - 1]
  BY DEF Longer
<1>3. \A a, b \in 1 .. l : a < b => old.keys[a] < old.keys[b]
  BY DEF Sorted
<1>4. i \in 1 .. l + 1 /\ (i > 1 => old.keys[i - 1] < k) /\ (i <= l => k < old.keys[i])
  OBVIOUS
<1> HIDE DEF l
<1>5. /\ i \in 1 .. l + 1 /\ new.keys[i] = k
      /\ \A j \in 1 .. i - 1 : j \in 1 .. l /\ j \in 1 .. l + 1 /\ new.keys[j] = old.keys[j]
      /\ \A j \in i .. l : j + 1 \in 1 .. l + 1 /\ j \in 1 .. l /\ new.keys[j + 1] = old.keys[j]
  <2>1. new.keys[i] = k
    BY <1>2, <1>4
  <2>2. ASSUME NEW j \in 1 .. i - 1 PROVE j \in 1 .. l /\ j \in 1 .. l + 1 /\ new.keys[j] = old.keys[j]
    <3>1. j \in 1 .. l /\ j \in 1 .. l + 1 /\ j < i
      BY <1>1, <1>4
    <3> QED
      BY <1>2, <3>1
  <2>3. ASSUME NEW j \in i .. l PROVE j + 1 \in 1 .. l + 1 /\ j \in 1 .. l /\ new.keys[j + 1] = old.keys[j]
    <3>1. j + 1 \in 1 .. l + 1 /\ j \in 1 .. l /\ ~ (j + 1 < i) /\ j + 1 # i /\ (j + 1) - 1 = j
      BY <1>1, <1>4
    <3>2. new.keys[j + 1] = old.keys[(j + 1) - 1]
      BY <1>2, <3>1
    <3> QED
      BY <3>1, <3>2
  <2> QED
    BY <1>4, <2>1, <2>2, <2>3
<1>6. ASSUME NEW j \in 1 .. l + 1
      PROVE  j \in 1 .. i - 1 \/ j = i \/ (j - 1 \in i .. l /\ (j - 1) + 1 = j)
  BY <1>1, <1>4
<1>7. ASSUME NEW j \in 1 .. i - 1 PROVE old.keys[j] < k
  <2>1. j \in 1 .. l /\ i > 1 /\ i - 1 \in 1 .. l /\ (j = i - 1 \/ j < i - 1)
    BY <1>1, <1>4
  <2>2. j < i - 1 => old.keys[j] < old.keys[i - 1]
    BY <1>3, <2>1
  <2> QED
    BY <1>1, <1>4, <2>1, <2>2, SMTT(60)
<1>8. ASSUME NEW j \in i .. l PROVE k < old.keys[j]
  <2>1. j \in 1 .. l /\ i <= l /\ i \in 1 .. l /\ (j = i \/ i < j)
    BY <1>1, <1>4
  <2>2. i < j => old.keys[i] < old.keys[j]
    BY <1>3, <2>1
  <2> QED
    BY <1>1, <1>4, <2>1, <2>2, SMTT(60)
<1>9. Sorted(new)
  <2>1. ASSUME NEW a \in 1 .. l + 1, NEW b \in 1 .. l + 1, a < b PROVE new.keys[a] < new.keys[b]
    <3>1. CASE a \in 1 .. i - 1
      <4>1. new.keys[a] = old.keys[a] /\ a \in 1 .. l
        BY <1>5, <3>1
      <4>2. CASE b \in 1 .. i - 1
        BY <1>3, <1>5, <2>1, <4>1, <4>2
      <4>3. CASE b = i
        BY <1>5, <1>7, <3>1, <4>1, <4>3
      <4>4. CASE b - 1 \in i .. l /\ (b - 1) + 1 = b
        <5>1. new.keys[b] = old.keys[b - 1] /\ b - 1 \in 1 .. l
          BY <1>5, <4>4
        <5>2. a < b - 1
          BY <1>4, <3>1, <4>4
        <5> QED
          BY <1>3, <4>1, <5>1, <5>2
      <4> QED
        BY <1>6, <4>2, <4>3, <4>4
    <3>2. CASE a = i
      <4>1. b - 1 \in i .. l /\ (b - 1) + 1 = b
        BY <1>1, <1>4, <2>1, <3>2
      <4> QED
        BY <1>5, <1>8, <3>2, <4>1
    <3>3. CASE a - 1 \in i .. l /\ (a - 1) + 1 = a
      <4>1. b - 1 \in i .. l /\ (b - 1) + 1 = b /\ a - 1 < b - 1
        BY <1>1, <1>4, <2>1, <3>3, SMTT(60)
      <4>2. /\ new.keys[a] = old.keys[a - 1] /\ a - 1 \in 1 .. l
            /\ new.keys[b] = old.keys[b - 1] /\ b - 1 \in 1 .. l
        BY <1>5, <3>3, <4>1
      <4> QED
        BY <1>3, <4>1, <4>2
    <3> QED
      BY <1>6, <3>1, <3>2, <3>3
  <2> QED
    BY <1>2, <2>1 DEF Sorted
<1>10. ASSUME NEW j \in 1 .. i - 1 PROVE Between(new, key, j) <=> Between(old, key, j)
  <2>1. /\ j \in 1 .. l + 1 /\ j \in 1 .. (l + 1) + 1 /\ j <= l /\ j <= l + 1
        /\ new.keys[j] = old.keys[j]
    BY <1>1, <1>4, <1>5
  <2>2. j > 1 => new.keys[j - 1] = old.keys[j - 1]
    <3>1. j > 1 => j - 1 \in 1 .. i - 1
      BY <1>4
    <3> QED
      BY <1>5, <3>1
  <2> QED
    BY <1>2, <2>1, <2>2, ZenonT(60) DEF Between, l
<1>11. Between(new, key, i) <=> Between(old, key, i) /\ key < k
  <2>1. i \in 1 .. (l + 1) + 1 /\ i <= l + 1
    BY <1>1, <1>4
  <2>2. i > 1 => new.keys[i - 1] = old.keys[i - 1]
    <3>1. i > 1 => i - 1 \in 1 .. i - 1
      BY <1>4
    <3> QED
      BY <1>5, <3>1
  <2>3. Between(new, key, i) <=> (i > 1 => old.keys[i - 1] <= key) /\ key < k
    BY <1>2, <1>5, <2>1, <2>2 DEF Between
  <2>4. key < k /\ i <= l => key < old.keys[i]
    <3>1. i <= l => i \in 1 .. l
      BY <1>1, <1>4
    <3> QED
      BY <1>1, <1>4, <3>1, SMTT(60)
  <2> QED
    BY <1>4, <2>3, <2>4 DEF Between, l
<1>12. Between(new, key, i + 1) <=> Between(old, key, i) /\ k <= key
  <2>1. i + 1 \in 1 .. (l + 1) + 1 /\ i + 1 > 1 /\ (i + 1) - 1 = i /\ (i + 1 <= l + 1 <=> i <= l)
    BY <1>1, <1>4
  <2>2. i <= l => new.keys[i + 1] = old.keys[i]
    <3>1. i <= l => i \in i .. l
      BY <1>1, <1>4
    <3> QED
      BY <1>5, <3>1
  <2>3. Between(new, key, i + 1) <=> k <= key /\ (i <= l => key < old.keys[i])
    BY <1>2, <1>5, <2>1, <2>2 DEF Between
  <2>4. k <= key /\ i > 1 => old.keys[i - 1] <= key
    <3>1. i > 1 => i - 1 \in 1 .. l
      BY <1>1, <1>4
    <3> QED
      BY <1>1, <1>4, <3>1, SMTT(60)
  <2> QED
    BY <1>4, <2>3, <2>4 DEF Between, l
<1>13. ASSUME NEW j \in i + 2 .. l + 2 PROVE Between(new, key, j) <=> Between(old, key, j - 1)
  <2>1. /\ j \in 1 .. (l + 1) + 1 /\ j > 1 /\ j - 1 \in 1 .. l + 1 /\ j - 1 > 1
        /\ (j <= l + 1 <=> j - 1 <= l) /\ (j - 1) - 1 \in i .. l /\ ((j - 1) - 1) + 1 = j - 1
    BY <1>1, <1>4
  <2>2. new.keys[j - 1] = old.keys[(j - 1) - 1]
    BY <1>5, <2>1
  <2>3. j - 1 <= l => new.keys[j] = old.keys[j - 1]
    <3>1. j - 1 <= l => j - 1 \in i .. l /\ (j - 1) + 1 = j
      BY <1>1, <1>4
    <3> QED
      BY <1>5, <3>1
  <2> QED
    BY <1>2, <2>1, <2>2, <2>3, ZenonT(60) DEF Between, l
<1> QED
  BY <1>9, <1>10, <1>11, <1>12, <1>13 DEF l

-----------------------------------------------------------------------------
(* Which keys are looked for where.                                        *)

\* The keys of a node ascend and are among those that lead to it.
Owned(node, r) == Sorted(node) /\ \A i \in 1 .. Len(node.keys) : node.keys[i] \in r

\* An inner node parts the keys that lead to it among its children.
Parted(node, R, r) ==
    \A i \in 1 .. Len(node.keys) + 1, k \in Int :
        k \in R[node.ptrs[i]] <=> k \in r /\ Between(node, k, i)

\* R[n] is the set of keys that lead to page n of the tree: at each height, no
\* key leads to two pages.
Ranged(nodes, h, R) ==
    /\ IsTree(nodes, h) /\ R \in [1 .. Len(nodes) -> SUBSET Int]
    /\ \A n \in 1 .. Len(nodes) :
        Owned(nodes[n], R[n]) /\ (~ nodes[n].leaf => Parted(nodes[n], R, R[n]))
    /\ \A n, m \in 1 .. Len(nodes) : n # m /\ h[n] = h[m] => R[n] \cap R[m] = {}

\* What is said of a page.
LEMMA RangedParts ==
    ASSUME NEW nodes, NEW h, NEW R, Ranged(nodes, h, R), NEW n \in 1 .. Len(nodes)
    PROVE  /\ IsTree(nodes, h) /\ Len(nodes) \in Nat /\ nodes[n] \in Shaped(Len(nodes))
           /\ R[n] \subseteq Int /\ Owned(nodes[n], R[n]) /\ Sorted(nodes[n])
           /\ ~ nodes[n].leaf => Parted(nodes[n], R, R[n])
<1>1. IsTree(nodes, h)
  BY DEF Ranged
<1>2. Len(nodes) \in Nat /\ nodes[n] \in Shaped(Len(nodes))
  BY <1>1, TreeNodes
<1>3. R \in [1 .. Len(nodes) -> SUBSET Int] /\ Owned(nodes[n], R[n]) /\ (~ nodes[n].leaf => Parted(nodes[n], R, R[n]))
  BY DEF Ranged
<1>4. R[n] \subseteq Int
  BY <1>3
<1> QED
  BY <1>1, <1>2, <1>3, <1>4 DEF Owned

\* The page is the child of page n at i.
IsChild(nodes, n, i, page) ==
    /\ n \in 1 .. Len(nodes) /\ ~ nodes[n].leaf
    /\ i \in 1 .. Len(nodes[n].keys) + 1 /\ nodes[n].ptrs[i] = page

\* A page that a key leads to is a child of one page, at one place.
LEMMA OneParent ==
    ASSUME NEW nodes, NEW h, NEW R, Ranged(nodes, h, R), NEW page, NEW k \in R[page],
           NEW n, NEW i, IsChild(nodes, n, i, page), NEW m, NEW j, IsChild(nodes, m, j, page)
    PROVE  n = m /\ i = j
<1>0. /\ n \in 1 .. Len(nodes) /\ ~ nodes[n].leaf
      /\ i \in 1 .. Len(nodes[n].keys) + 1 /\ nodes[n].ptrs[i] = page
      /\ m \in 1 .. Len(nodes) /\ ~ nodes[m].leaf
      /\ j \in 1 .. Len(nodes[m].keys) + 1 /\ nodes[m].ptrs[j] = page
  BY DEF IsChild
<1>1. /\ IsTree(nodes, h) /\ Len(nodes) \in Nat
      /\ nodes[n] \in Shaped(Len(nodes)) /\ Sorted(nodes[n]) /\ Parted(nodes[n], R, R[n])
      /\ nodes[m] \in Shaped(Len(nodes)) /\ Sorted(nodes[m]) /\ Parted(nodes[m], R, R[m])
  BY <1>0, RangedParts
<1>2. nodes[n].ptrs[i] \in 1 .. Len(nodes) /\ h[nodes[n].ptrs[i]] + 1 = h[n]
  BY <1>0, <1>1, Children, SMTT(60)
<1>3. h[nodes[m].ptrs[j]] + 1 = h[m]
  BY <1>0, <1>1, Children
<1>4. h[n] = h[m]
  BY <1>0, <1>2, <1>3
<1>5. k \in Int
  BY <1>0, <1>2, RangedParts
<1>6. k \in R[n] /\ Between(nodes[n], k, i)
  BY <1>0, <1>1, <1>5 DEF Parted
<1>7. k \in R[m] /\ Between(nodes[m], k, j)
  BY <1>0, <1>1, <1>5 DEF Parted
<1>8. n = m
  <2>1. n # m => R[n] \cap R[m] = {}
    BY <1>0, <1>4 DEF Ranged
  <2> QED
    BY <1>6, <1>7, <2>1
<1>9. i = j
  BY <1>0, <1>1, <1>5, <1>6, <1>7, <1>8, BetweenOnce
<1> QED
  BY <1>8, <1>9

\* The split page keeps the keys below the one that parts it from the new page.
SplitRanges(nodes, R, child) ==
    [n \in 1 .. Len(nodes) + 1 |->
        IF n = Len(nodes) + 1 THEN {k \in R[child] : Halves(nodes[child]).key <= k}
        ELSE IF n = child THEN {k \in R[child] : k < Halves(nodes[child]).key}
        ELSE R[n]]

\* What a split does, in one place.
SplitSays(nodes, h, R, parent, i, new) ==
    LET l == Len(nodes)
        child == nodes[parent].ptrs[i]
        half == Halves(nodes[child])
        Q == SplitRanges(nodes, R, child)
    IN  /\ l \in Nat /\ parent \in 1 .. l /\ ~ nodes[parent].leaf
        /\ i \in 1 .. Len(nodes[parent].keys) + 1 /\ Len(nodes[parent].keys) \in Nat
        /\ child \in 1 .. l /\ child # parent /\ h[child] + 1 = h[parent]
        /\ \E m : HalvesAre(nodes[child], half, m)
        /\ half.key \in R[child] /\ half.key \in Int
        /\ Between(nodes[parent], half.key, i)
        /\ i > 1 => nodes[parent].keys[i - 1] < half.key
        /\ Q \in [1 .. l + 1 -> SUBSET Int]
        /\ Q[l + 1] = {k \in R[child] : half.key <= k}
        /\ Q[child] = {k \in R[child] : k < half.key}
        /\ \A n \in 1 .. l : n # child => Q[n] = R[n]
        /\ new \in Seq(Shaped(l + 1)) /\ Len(new) = l + 1
        /\ \A n \in 1 .. l : n # child /\ n # parent => new[n] = nodes[n]
        /\ new[child] = half.left /\ new[l + 1] = half.right
        /\ ~ new[parent].leaf
        /\ Longer(new[parent].keys, nodes[parent].keys, i, half.key)
        /\ Longer(new[parent].ptrs, nodes[parent].ptrs, i + 1, l + 1)

\* It does.
LEMMA SplitFacts ==
    ASSUME NEW nodes, NEW h, NEW R, Ranged(nodes, h, R),
           NEW parent, NEW i, Splits(nodes, h, parent, i), NEW new, SplitAt(nodes, new, parent, i)
    PROVE  SplitSays(nodes, h, R, parent, i, new)
<1> DEFINE l == Len(nodes)
           child == nodes[parent].ptrs[i]
           half == Halves(nodes[child])
           Q == SplitRanges(nodes, R, child)
<1>1. /\ IsTree(nodes, h) /\ parent \in 1 .. l /\ ~ nodes[parent].leaf
      /\ i \in 1 .. Len(nodes[parent].keys) + 1 /\ Len(nodes[child].keys) >= 2
  BY DEF Splits
<1>2. /\ l \in Nat /\ nodes[parent] \in Shaped(l) /\ Parted(nodes[parent], R, R[parent])
      /\ Sorted(nodes[parent])
  BY <1>1, RangedParts, Zenon
<1>3. child \in 1 .. l /\ child # parent /\ h[child] + 1 = h[parent] /\ Len(nodes[parent].keys) \in Nat
  BY <1>1, <1>2, Children, NodeParts, SMTT(60)
<1>4. nodes[child] \in Shaped(l) /\ Owned(nodes[child], R[child]) /\ Sorted(nodes[child]) /\ R[child] \subseteq Int
  BY <1>3, RangedParts, Zenon
<1>5. PICK m : HalvesAre(nodes[child], half, m)
  BY <1>1, <1>2, <1>4, HalvesShaped, Zenon
<1> HIDE DEF half, Q
<1>6. /\ half.key \in Int /\ nodes[child].keys[1] < half.key
      /\ \E j \in 1 .. Len(nodes[child].keys) : half.key = nodes[child].keys[j]
  <2>1. HalvesSay(nodes[child], half)
    BY <1>2, <1>4, <1>5, HalvesSorted, ZenonT(60)
  <2> QED
    BY <2>1, Zenon DEF HalvesSay
<1>7. half.key \in R[child]
  BY <1>4, <1>6, SMTT(60) DEF Owned
<1>8. Between(nodes[parent], half.key, i)
  BY <1>1, <1>2, <1>6, <1>7 DEF Parted
<1>9. i > 1 => nodes[parent].keys[i - 1] < half.key
  <2> SUFFICES ASSUME i > 1 PROVE nodes[parent].keys[i - 1] < half.key
    OBVIOUS
  <2>1. 1 \in 1 .. Len(nodes[child].keys)
    BY <1>1, <1>2, <1>4, NodeParts, SMTT(60)
  <2>2. nodes[child].keys[1] \in R[child] /\ nodes[child].keys[1] \in Int
    BY <1>4, <2>1 DEF Owned
  <2>3. Between(nodes[parent], nodes[child].keys[1], i)
    BY <1>1, <1>2, <2>2 DEF Parted
  <2>4. nodes[parent].keys[i - 1] <= nodes[child].keys[1]
    BY <2>3 DEF Between
  <2>5. nodes[parent].keys[i - 1] \in Int
    <3>1. i - 1 \in 1 .. Len(nodes[parent].keys)
      BY <1>1, <1>3
    <3> QED
      BY <1>2, <3>1, NodeParts
  <2> QED
    BY <1>6, <2>2, <2>4, <2>5, SMTT(60)
<1>10. /\ Q \in [1 .. l + 1 -> SUBSET Int]
       /\ Q[l + 1] = {k \in R[child] : half.key <= k}
       /\ Q[child] = {k \in R[child] : k < half.key}
       /\ \A n \in 1 .. l : n # child => Q[n] = R[n]
  <2>1. Q = [n \in 1 .. l + 1 |->
               IF n = l + 1 THEN {k \in R[child] : half.key <= k}
               ELSE IF n = child THEN {k \in R[child] : k < half.key} ELSE R[n]]
    BY DEF Q, SplitRanges, half
  <2>2. l + 1 \in 1 .. l + 1 /\ \A n \in 1 .. l : n \in 1 .. l + 1 /\ n # l + 1
    BY <1>2
  <2>3. \A n \in 1 .. l : R[n] \subseteq Int
    BY RangedParts
  <2>4. \A n \in 1 .. l + 1 : n = l + 1 \/ n \in 1 .. l
    BY <1>2
  <2> HIDE DEF l, child
  <2>5. Q[l + 1] = {k \in R[child] : half.key <= k}
    BY <2>1, <2>2
  <2>6. Q[child] = {k \in R[child] : k < half.key}
    BY <1>3, <2>1, <2>2
  <2>7. \A n \in 1 .. l : n # child => Q[n] = R[n]
    BY <2>1, <2>2
  <2>8. \A n \in 1 .. l + 1 : Q[n] \in SUBSET Int
    BY <1>4, <2>3, <2>4, <2>5, <2>6, <2>7
  <2>9. Q \in [1 .. l + 1 -> SUBSET Int]
    BY <2>1, <2>8, SMTT(60)
  <2> QED
    BY <2>5, <2>6, <2>7, <2>9
<1>11. /\ new \in Seq(Shaped(l + 1)) /\ Len(new) = l + 1
       /\ \A n \in 1 .. l : n # child /\ n # parent => new[n] = nodes[n]
       /\ new[child] = half.left /\ new[l + 1] = half.right
       /\ ~ new[parent].leaf
       /\ Longer(new[parent].keys, nodes[parent].keys, i, half.key)
       /\ Longer(new[parent].ptrs, nodes[parent].ptrs, i + 1, l + 1)
  BY DEF SplitAt, half
<1> QED
  BY <1>1, <1>2, <1>3, <1>5, <1>6, <1>7, <1>8, <1>9, <1>10, <1>11, Zenon DEF SplitSays, half, Q

\* Keys of the nodes after a split lead to them.
LEMMA SplitOwned ==
    ASSUME NEW nodes, NEW h, NEW R, Ranged(nodes, h, R),
           NEW parent, NEW i, Splits(nodes, h, parent, i), NEW new, SplitAt(nodes, new, parent, i),
           NEW n \in 1 .. Len(nodes) + 1
    PROVE  Owned(new[n], SplitRanges(nodes, R, nodes[parent].ptrs[i])[n])
<1> DEFINE l == Len(nodes)
           child == nodes[parent].ptrs[i]
           half == Halves(nodes[child])
           Q == SplitRanges(nodes, R, child)
<1>0. SplitSays(nodes, h, R, parent, i, new)
  BY SplitFacts
<1>1. /\ l \in Nat /\ parent \in 1 .. l /\ ~ nodes[parent].leaf
      /\ i \in 1 .. Len(nodes[parent].keys) + 1 /\ Len(nodes[parent].keys) \in Nat
      /\ child \in 1 .. l /\ child # parent
      /\ \E m : HalvesAre(nodes[child], half, m)
      /\ half.key \in R[child] /\ half.key \in Int
      /\ Between(nodes[parent], half.key, i)
      /\ i > 1 => nodes[parent].keys[i - 1] < half.key
      /\ Q[l + 1] = {k \in R[child] : half.key <= k}
      /\ Q[child] = {k \in R[child] : k < half.key}
      /\ \A j \in 1 .. l : j # child => Q[j] = R[j]
      /\ \A j \in 1 .. l : j # child /\ j # parent => new[j] = nodes[j]
      /\ new[child] = half.left /\ new[l + 1] = half.right
      /\ Longer(new[parent].keys, nodes[parent].keys, i, half.key)
  BY <1>0, Zenon DEF SplitSays
<1>10. n \in 1 .. l \/ n = l + 1
  <2>1. l \in Nat
    BY <1>1, Zenon
  <2>2. n \in 1 .. l + 1
    BY DEF l
  <2> HIDE DEF l
  <2> QED
    BY <2>1, <2>2
<1>2. \A j \in 1 .. l : nodes[j] \in Shaped(l) /\ Owned(nodes[j], R[j]) /\ Sorted(nodes[j])
  BY RangedParts, Zenon
<1>3. Parted(nodes[parent], R, R[parent])
  BY <1>1, RangedParts, Zenon
<1> HIDE DEF l, child, half, Q
<1>4. PICK m : HalvesAre(nodes[child], half, m)
  BY <1>1, Zenon
<1>5. /\ Sorted(half.left) /\ Sorted(half.right)
      /\ \A j \in 1 .. Len(half.left.keys) : half.left.keys[j] < half.key
      /\ \A j \in 1 .. Len(half.right.keys) : half.key <= half.right.keys[j]
      /\ \A j \in 1 .. Len(half.left.keys) :
           \E a \in 1 .. Len(nodes[child].keys) : half.left.keys[j] = nodes[child].keys[a]
      /\ \A j \in 1 .. Len(half.right.keys) :
           \E a \in 1 .. Len(nodes[child].keys) : half.right.keys[j] = nodes[child].keys[a]
  <2>1. nodes[child] \in Shaped(l) /\ Sorted(nodes[child]) /\ l \in Nat
    BY <1>1, <1>2
  <2>2. HalvesSay(nodes[child], half)
    BY <1>4, <2>1, HalvesSorted, ZenonT(60)
  <2> QED
    BY <2>2, Zenon DEF HalvesSay
<1>6. CASE n = child
  <2>1. \A j \in 1 .. Len(half.left.keys) : half.left.keys[j] \in R[child]
    BY <1>1, <1>2, <1>5, ZenonT(60) DEF Owned
  <2> QED
    <3>1. new[n] = half.left /\ Q[n] = {k \in R[child] : k < half.key}
      BY <1>1, <1>6, Zenon
    <3> QED
      BY <1>5, <2>1, <3>1 DEF Owned, Q, child
<1>7. CASE n = l + 1
  <2>1. \A j \in 1 .. Len(half.right.keys) : half.right.keys[j] \in R[child]
    BY <1>1, <1>2, <1>5, ZenonT(60) DEF Owned
  <2> QED
    <3>1. new[n] = half.right /\ Q[n] = {k \in R[child] : half.key <= k}
      BY <1>1, <1>7, Zenon
    <3> QED
      BY <1>5, <2>1, <3>1, SMTT(60) DEF Owned, Q, child
<1>8. CASE n = parent
  <2> DEFINE old == nodes[parent]
  <2>1. i <= Len(old.keys) => half.key < old.keys[i]
    BY <1>1 DEF Between
  <2>2. old \in Shaped(l) /\ Sorted(old) /\ Owned(old, R[parent])
    BY <1>1, <1>2
  <2>3. Sorted(new[parent])
    <3> HIDE DEF old
    <3>1. \A key \in Int : Sorted(new[parent])
      BY <1>1, <2>1, <2>2, ParentLeads, Zenon DEF old
    <3>2. 0 \in Int
      OBVIOUS
    <3> QED
      BY <3>1, <3>2
  <2>4. half.key \in R[parent]
    BY <1>1, <1>3 DEF Parted, child
  <2>5. ASSUME NEW j \in 1 .. Len(new[parent].keys) PROVE new[parent].keys[j] \in R[parent]
    <3>1. /\ j \in 1 .. Len(old.keys) + 1
          /\ new[parent].keys[j] = IF j < i THEN old.keys[j] ELSE IF j = i THEN half.key ELSE old.keys[j - 1]
      BY <1>1 DEF Longer
    <3>2. (j < i => j \in 1 .. Len(old.keys)) /\ (j > i => j - 1 \in 1 .. Len(old.keys))
      BY <1>1, <3>1
    <3> HIDE DEF old
    <3>5. i \in Int /\ j \in Int
      BY <1>1, <3>1
    <3>3. j < i \/ j = i \/ j > i
      BY <3>5
    <3>4. ~ (j > i) \/ (~ (j < i) /\ j # i)
      BY <3>5, SMTT(60)
    <3> QED
      BY <2>2, <2>4, <3>1, <3>2, <3>3, <3>4 DEF Owned
  <2> QED
    <3>1. Q[n] = R[parent]
      BY <1>1, <1>8, Zenon
    <3> QED
      BY <1>8, <2>3, <2>5, <3>1 DEF Owned, Q, child
<1>9. CASE n \in 1 .. l /\ n # child /\ n # parent
  BY <1>1, <1>2, <1>9, SMTT(60) DEF Q, child
<1> QED
  BY <1>6, <1>7, <1>8, <1>9, <1>10

\* No key leads to two of the pages after a split that are as high as each other.
LEMMA SplitApart ==
    ASSUME NEW nodes, NEW h, NEW R, Ranged(nodes, h, R),
           NEW parent, NEW i, Splits(nodes, h, parent, i), NEW new, SplitAt(nodes, new, parent, i),
           NEW n \in 1 .. Len(nodes) + 1, NEW m \in 1 .. Len(nodes) + 1, n # m,
           SplitHeights(nodes, h, nodes[parent].ptrs[i])[n] = SplitHeights(nodes, h, nodes[parent].ptrs[i])[m]
    PROVE  SplitRanges(nodes, R, nodes[parent].ptrs[i])[n]
             \cap SplitRanges(nodes, R, nodes[parent].ptrs[i])[m] = {}
<1> DEFINE l == Len(nodes)
           child == nodes[parent].ptrs[i]
           half == Halves(nodes[child])
           Q == SplitRanges(nodes, R, child)
           g == SplitHeights(nodes, h, child)
           From(j) == IF j = l + 1 THEN child ELSE j
<1>0. SplitSays(nodes, h, R, parent, i, new)
  BY SplitFacts
<1>1. /\ l \in Nat /\ child \in 1 .. l /\ half.key \in Int
      /\ Q[l + 1] = {k \in R[child] : half.key <= k}
      /\ Q[child] = {k \in R[child] : k < half.key}
      /\ \A j \in 1 .. l : j # child => Q[j] = R[j]
  BY <1>0, Zenon DEF SplitSays
<1>2. R[child] \subseteq Int
  BY <1>1, RangedParts, ZenonT(60)
<1>3. g[l + 1] = h[child] /\ \A j \in 1 .. l : g[j] = h[j]
  BY <1>1 DEF SplitHeights
<1>4. \A a, b \in 1 .. l : a # b /\ h[a] = h[b] => R[a] \cap R[b] = {}
  BY SMTT(60) DEF Ranged
<1>5. n \in 1 .. l + 1 /\ m \in 1 .. l + 1 /\ g[n] = g[m] /\ \A j \in 1 .. l + 1 : j = l + 1 \/ (j \in 1 .. l /\ j # l + 1)
  BY <1>1
<1> HIDE DEF l, child, half, Q, g
<1>6. \A j \in 1 .. l + 1 : From(j) \in 1 .. l /\ g[j] = h[From(j)] /\ Q[j] \subseteq R[From(j)]
  BY <1>1, <1>3, <1>5, SMTT(60)
<1>7. CASE From(n) # From(m)
  <2>1. R[From(n)] \cap R[From(m)] = {}
    BY <1>4, <1>5, <1>6, <1>7
  <2> QED
    BY <1>5, <1>6, <2>1 DEF Q, child
<1>8. CASE From(n) = From(m)
  <2>1. (n = l + 1 /\ m = child) \/ (m = l + 1 /\ n = child)
    BY <1>5, <1>8
  <2>2. Q[l + 1] \cap Q[child] = {}
    BY <1>1, <1>2
  <2> QED
    BY <2>1, <2>2 DEF Q, child
<1> QED
  BY <1>7, <1>8

\* To the children of the node lead the same keys.
SameBelow(node, Q, R) == \A i \in 1 .. Len(node.keys) + 1 : Q[node.ptrs[i]] = R[node.ptrs[i]]

\* The split node itself: each half parts the keys that are left to it.
LEMMA HalvesPart ==
    ASSUME NEW n \in Nat, NEW node \in Shaped(n), ~ node.leaf, Sorted(node),
           NEW half, NEW m, HalvesAre(node, half, m), NEW R, NEW r, Parted(node, R, r),
           NEW Q, SameBelow(node, Q, R)
    PROVE  /\ Parted(half.left, Q, {k \in r : k < half.key})
           /\ Parted(half.right, Q, {k \in r : half.key <= k})
<1> DEFINE l == Len(node.keys)
<1>1. l \in Nat
  BY NodeParts
<1>2. /\ m \in 1 .. l - 1 /\ Len(half.left.keys) = m /\ Len(half.right.keys) = l - m - 1
      /\ \A j \in 1 .. m + 1 : half.left.ptrs[j] = node.ptrs[j]
      /\ \A j \in 1 .. l - m : half.right.ptrs[j] = node.ptrs[m + 1 + j]
  BY DEF HalvesAre, Gone
<1>3. \A i \in 1 .. l + 1, k \in Int : k \in Q[node.ptrs[i]] <=> k \in r /\ Between(node, k, i)
  BY DEF Parted, SameBelow
<1>4. \A k \in Int, j \in 1 .. m + 1 : Between(node, k, j) <=> k < half.key /\ Between(half.left, k, j)
  BY LeftLeads
<1>5. \A k \in Int, j \in 1 .. l - m : Between(node, k, m + 1 + j) <=> half.key <= k /\ Between(half.right, k, j)
  BY RightLeads
<1> HIDE DEF l
<1>6. ASSUME NEW j \in 1 .. Len(half.left.keys) + 1, NEW k \in Int
      PROVE  k \in Q[half.left.ptrs[j]] <=> k \in {x \in r : x < half.key} /\ Between(half.left, k, j)
  <2>1. j \in 1 .. m + 1 /\ j \in 1 .. l + 1
    BY <1>1, <1>2
  <2> QED
    BY <1>2, <1>3, <1>4, <2>1
<1>7. ASSUME NEW j \in 1 .. Len(half.right.keys) + 1, NEW k \in Int
      PROVE  k \in Q[half.right.ptrs[j]] <=> k \in {x \in r : half.key <= x} /\ Between(half.right, k, j)
  <2>1. j \in 1 .. l - m /\ m + 1 + j \in 1 .. l + 1
    BY <1>1, <1>2
  <2>2. half.right.ptrs[j] = node.ptrs[m + 1 + j]
    BY <1>2, <2>1
  <2>3. k \in Q[node.ptrs[m + 1 + j]] <=> k \in r /\ Between(node, k, m + 1 + j)
    BY <1>3, <2>1
  <2>4. Between(node, k, m + 1 + j) <=> half.key <= k /\ Between(half.right, k, j)
    BY <1>5, <2>1
  <2> QED
    BY <2>2, <2>3, <2>4
<1> QED
  BY <1>6, <1>7 DEF Parted

\* The child at i shares its keys with a new page, from a key on.
SharedAt(old, i, page, key, Q, R) ==
    /\ \A j \in 1 .. Len(old.keys) + 1 : j # i => Q[old.ptrs[j]] = R[old.ptrs[j]]
    /\ Q[old.ptrs[i]] = {k \in R[old.ptrs[i]] : k < key}
    /\ Q[page] = {k \in R[old.ptrs[i]] : key <= k}

\* The node above it: the two halves have what the child had.
LEMMA ParentParts ==
    ASSUME NEW n \in Nat, NEW old \in Shaped(n), Sorted(old),
           NEW i \in 1 .. Len(old.keys) + 1, NEW key \in Int,
           i > 1 => old.keys[i - 1] < key, i <= Len(old.keys) => key < old.keys[i],
           NEW new, Longer(new.keys, old.keys, i, key), NEW page, Longer(new.ptrs, old.ptrs, i + 1, page),
           Len(old.ptrs) = Len(old.keys) + 1,
           NEW R, NEW r, Parted(old, R, r),
           NEW Q, SharedAt(old, i, page, key, Q, R)
    PROVE  Parted(new, Q, r)
<1> DEFINE l == Len(old.keys)
<1>1. l \in Nat /\ i \in 1 .. l + 1
  BY NodeParts
<1>2. /\ Len(new.keys) = l + 1
      /\ \A j \in 1 .. l + 2 : new.ptrs[j] = IF j < i + 1 THEN old.ptrs[j]
                                             ELSE IF j = i + 1 THEN page ELSE old.ptrs[j - 1]
  BY <1>1 DEF Longer
<1>3. \A j \in 1 .. l + 1, k \in Int : k \in R[old.ptrs[j]] <=> k \in r /\ Between(old, k, j)
  BY DEF Parted
<1>4. \A k \in Int :
        /\ \A j \in 1 .. i - 1 : Between(new, k, j) <=> Between(old, k, j)
        /\ Between(new, k, i) <=> Between(old, k, i) /\ k < key
        /\ Between(new, k, i + 1) <=> Between(old, k, i) /\ key <= k
        /\ \A j \in i + 2 .. l + 2 : Between(new, k, j) <=> Between(old, k, j - 1)
  BY ParentLeads
<1>5. /\ \A j \in 1 .. l + 1 : j # i => Q[old.ptrs[j]] = R[old.ptrs[j]]
      /\ Q[old.ptrs[i]] = {k \in R[old.ptrs[i]] : k < key}
      /\ Q[page] = {k \in R[old.ptrs[i]] : key <= k}
  BY DEF SharedAt
<1> HIDE DEF l
<1>6. ASSUME NEW j \in 1 .. Len(new.keys) + 1, NEW k \in Int
      PROVE  k \in Q[new.ptrs[j]] <=> k \in r /\ Between(new, k, j)
  <2>1. j \in 1 .. l + 2 /\ (j \in 1 .. i - 1 \/ j = i \/ j = i + 1 \/ j \in i + 2 .. l + 2)
    BY <1>1, <1>2, SMTT(60)
  <2>2. CASE j \in 1 .. i - 1
    <3>1. j < i + 1 /\ j # i /\ j \in 1 .. l + 1
      BY <1>1, <2>2
    <3>2. new.ptrs[j] = old.ptrs[j]
      BY <1>2, <2>1, <3>1
    <3> QED
      BY <1>3, <1>4, <1>5, <2>2, <3>1, <3>2, ZenonT(60)
  <2>3. CASE j = i
    <3>1. j < i + 1
      BY <1>1, <2>3
    <3>2. new.ptrs[j] = old.ptrs[i]
      BY <1>2, <2>1, <2>3, <3>1
    <3> QED
      BY <1>1, <1>3, <1>4, <1>5, <2>3, <3>2, SMTT(60)
  <2>4. CASE j = i + 1
    <3>1. ~ (j < i + 1)
      BY <1>1, <2>4
    <3>2. new.ptrs[j] = page
      BY <1>2, <2>1, <2>4, <3>1
    <3> QED
      BY <1>1, <1>3, <1>4, <1>5, <2>4, <3>2
  <2>5. CASE j \in i + 2 .. l + 2
    <3>1. ~ (j < i + 1) /\ j # i + 1 /\ j - 1 \in 1 .. l + 1 /\ j - 1 # i
      BY <1>1, <2>5
    <3>2. new.ptrs[j] = old.ptrs[j - 1]
      BY <1>2, <2>1, <3>1
    <3> QED
      BY <1>3, <1>4, <1>5, <2>5, <3>1, <3>2
  <2> QED
    BY <2>1, <2>2, <2>3, <2>4, <2>5
<1> QED
  BY <1>6 DEF Parted

\* After a split the keys are parted among the children as before.
LEMMA SplitParted ==
    ASSUME NEW nodes, NEW h, NEW R, Ranged(nodes, h, R),
           NEW parent, NEW i, Splits(nodes, h, parent, i), NEW new, SplitAt(nodes, new, parent, i),
           NEW n \in 1 .. Len(nodes) + 1, ~ new[n].leaf
    PROVE  Parted(new[n], SplitRanges(nodes, R, nodes[parent].ptrs[i]),
                  SplitRanges(nodes, R, nodes[parent].ptrs[i])[n])
<1> DEFINE l == Len(nodes)
           child == nodes[parent].ptrs[i]
           half == Halves(nodes[child])
           Q == SplitRanges(nodes, R, child)
<1>0. SplitSays(nodes, h, R, parent, i, new)
  BY SplitFacts
<1>1. /\ l \in Nat /\ parent \in 1 .. l /\ ~ nodes[parent].leaf
      /\ i \in 1 .. Len(nodes[parent].keys) + 1 /\ Len(nodes[parent].keys) \in Nat
      /\ child \in 1 .. l /\ child # parent
      /\ \E m : HalvesAre(nodes[child], half, m)
      /\ half.key \in R[child] /\ half.key \in Int
      /\ Between(nodes[parent], half.key, i)
      /\ i > 1 => nodes[parent].keys[i - 1] < half.key
      /\ Q[l + 1] = {k \in R[child] : half.key <= k}
      /\ Q[child] = {k \in R[child] : k < half.key}
      /\ \A j \in 1 .. l : j # child => Q[j] = R[j]
      /\ \A j \in 1 .. l : j # child /\ j # parent => new[j] = nodes[j]
      /\ new[child] = half.left /\ new[l + 1] = half.right
      /\ Longer(new[parent].keys, nodes[parent].keys, i, half.key)
      /\ Longer(new[parent].ptrs, nodes[parent].ptrs, i + 1, l + 1)
  BY <1>0, Zenon DEF SplitSays
<1>2. \A j \in 1 .. l : /\ nodes[j] \in Shaped(l) /\ Sorted(nodes[j])
                        /\ ~ nodes[j].leaf => Parted(nodes[j], R, R[j])
  BY RangedParts, Zenon
<1>3. IsTree(nodes, h)
  BY DEF Ranged
<1>5. n \in 1 .. l \/ n = l + 1
  <2>1. l \in Nat
    BY <1>1, Zenon
  <2>2. n \in 1 .. l + 1
    BY DEF l
  <2> HIDE DEF l
  <2> QED
    BY <2>1, <2>2
<1> HIDE DEF half, Q
<1>4. PICK m : HalvesAre(nodes[child], half, m)
  BY <1>1, Zenon
<1>6. ASSUME NEW p \in 1 .. l, ~ nodes[p].leaf, NEW j \in 1 .. Len(nodes[p].keys) + 1,
             ~ (p = parent /\ j = i)
      PROVE  Q[nodes[p].ptrs[j]] = R[nodes[p].ptrs[j]]
  <2>1. nodes[p].ptrs[j] \in 1 .. l
    BY <1>3, <1>6, Children
  <2>2. nodes[p].ptrs[j] # child
    <3> SUFFICES ASSUME nodes[p].ptrs[j] = child PROVE FALSE
      OBVIOUS
    <3>1. IsChild(nodes, p, j, child) /\ IsChild(nodes, parent, i, child) /\ half.key \in R[child]
      <4>1. parent \in 1 .. l /\ ~ nodes[parent].leaf /\ i \in 1 .. Len(nodes[parent].keys) + 1 /\ half.key \in R[child]
        BY <1>1, Zenon
      <4> QED
        BY <1>6, <4>1, Zenon DEF IsChild, l, child
    <3> HIDE DEF child
    <3>2. p = parent /\ j = i
      BY <3>1, OneParent, ZenonT(60)
    <3> QED
      BY <1>6, <3>2
  <2> QED
    BY <1>1, <2>1, <2>2, Zenon
<1> HIDE DEF l
<1>7. /\ half.left.leaf = nodes[child].leaf /\ half.right.leaf = nodes[child].leaf
  BY <1>4 DEF HalvesAre
<1>8. ASSUME ~ nodes[child].leaf
      PROVE  /\ Parted(half.left, Q, {k \in R[child] : k < half.key})
             /\ Parted(half.right, Q, {k \in R[child] : half.key <= k})
  <2> HIDE DEF child
  <2>1. nodes[child] \in Shaped(l) /\ Sorted(nodes[child]) /\ Parted(nodes[child], R, R[child])
    BY <1>1, <1>2, <1>8
  <2>2. SameBelow(nodes[child], Q, R)
    BY <1>1, <1>6, <1>8 DEF SameBelow
  <2>3. l \in Nat
    BY <1>1
  <2> QED
    BY <1>4, <1>8, <2>1, <2>2, <2>3, HalvesPart
<1>9. CASE n = child
  <2>1. new[n] = half.left /\ Q[n] = {k \in R[child] : k < half.key}
    BY <1>1, <1>9, Zenon
  <2>2. ~ nodes[child].leaf
    BY <1>7, <2>1
  <2> QED
    BY <1>8, <2>1, <2>2, Zenon DEF Q, child
<1>10. CASE n = l + 1
  <2>1. new[n] = half.right /\ Q[n] = {k \in R[child] : half.key <= k}
    BY <1>1, <1>10, Zenon
  <2>2. ~ nodes[child].leaf
    BY <1>7, <2>1, SMTT(60)
  <2> QED
    BY <1>8, <2>1, <2>2, Zenon DEF Q, child
<1>11. CASE n = parent
  <2>1. i <= Len(nodes[parent].keys) => half.key < nodes[parent].keys[i]
    BY <1>1 DEF Between
  <2>2. nodes[parent] \in Shaped(l) /\ Sorted(nodes[parent]) /\ Parted(nodes[parent], R, R[parent])
    BY <1>1, <1>2, ZenonT(60)
  <2>3. Len(nodes[parent].ptrs) = Len(nodes[parent].keys) + 1
    BY <1>1, <2>2, NodeParts
  <2>4. SharedAt(nodes[parent], i, l + 1, half.key, Q, R)
    <3>1. \A j \in 1 .. Len(nodes[parent].keys) + 1 : j # i => Q[nodes[parent].ptrs[j]] = R[nodes[parent].ptrs[j]]
      BY <1>1, <1>6, Zenon
    <3> QED
      BY <1>1, <3>1, Zenon DEF SharedAt, child
  <2>5. /\ l \in Nat /\ i \in 1 .. Len(nodes[parent].keys) + 1 /\ half.key \in Int
        /\ i > 1 => nodes[parent].keys[i - 1] < half.key
        /\ Longer(new[parent].keys, nodes[parent].keys, i, half.key)
        /\ Longer(new[parent].ptrs, nodes[parent].ptrs, i + 1, l + 1)
    BY <1>1, Zenon
  <2> HIDE DEF child
  <2>7. Parted(new[parent], Q, R[parent])
    BY <2>1, <2>2, <2>3, <2>4, <2>5, ParentParts
  <2> QED
    BY <1>1, <1>11, <2>7, SMTT(60) DEF Q, child
<1>12. CASE n \in 1 .. l /\ n # child /\ n # parent
  <2>1. new[n] = nodes[n] /\ Q[n] = R[n] /\ ~ nodes[n].leaf /\ n # parent
    BY <1>1, <1>12, Zenon
  <2>2. Parted(nodes[n], R, R[n])
    BY <1>2, <1>12, <2>1
  <2>3. \A j \in 1 .. Len(nodes[n].keys) + 1 : Q[nodes[n].ptrs[j]] = R[nodes[n].ptrs[j]]
    BY <1>6, <1>12, <2>1
  <2>4. Parted(nodes[n], Q, R[n])
    BY <2>2, <2>3, SMTT(60) DEF Parted
  <2> QED
    BY <2>1, <2>4 DEF Q, child
<1> QED
  BY <1>5, <1>9, <1>10, <1>11, <1>12

\* A split leaves each key one way to go.
LEMMA SplitRanged ==
    ASSUME NEW nodes, NEW h, NEW R, Ranged(nodes, h, R),
           NEW parent, NEW i, Splits(nodes, h, parent, i), NEW new, SplitAt(nodes, new, parent, i)
    PROVE  Ranged(new, SplitHeights(nodes, h, nodes[parent].ptrs[i]),
                  SplitRanges(nodes, R, nodes[parent].ptrs[i]))
<1> DEFINE g == SplitHeights(nodes, h, nodes[parent].ptrs[i])
           Q == SplitRanges(nodes, R, nodes[parent].ptrs[i])
<1>1. IsTree(new, g)
  BY SplitTree
<1>2. Q \in [1 .. Len(nodes) + 1 -> SUBSET Int] /\ Len(new) = Len(nodes) + 1
  <2>1. SplitSays(nodes, h, R, parent, i, new)
    BY SplitFacts
  <2> QED
    BY <2>1, Zenon DEF SplitSays
<1>3. \A n \in 1 .. Len(nodes) + 1 : Owned(new[n], Q[n])
  BY SplitOwned, Zenon
<1>4. \A n \in 1 .. Len(nodes) + 1 : ~ new[n].leaf => Parted(new[n], Q, Q[n])
  BY SplitParted, Zenon
<1>5. \A n, m \in 1 .. Len(nodes) + 1 : n # m /\ g[n] = g[m] => Q[n] \cap Q[m] = {}
  <2> SUFFICES ASSUME NEW n \in 1 .. Len(nodes) + 1, NEW m \in 1 .. Len(nodes) + 1, n # m, g[n] = g[m]
               PROVE  Q[n] \cap Q[m] = {}
    OBVIOUS
  <2> QED
    BY SplitApart, Zenon
<1> HIDE DEF g, Q
<1> QED
  BY <1>1, <1>2, <1>3, <1>4, <1>5 DEF Ranged, g, Q

-----------------------------------------------------------------------------
(* Entries.                                                                *)

\* A node has the key; a leaf has the key with the address.
KeyIn(node, k) == \E i \in 1 .. Len(node.keys) : node.keys[i] = k
EntryIn(node, k, p) ==
    node.leaf /\ \E i \in 1 .. Len(node.keys) : node.keys[i] = k /\ node.ptrs[i] = p

\* Some node has the key, some leaf the entry.
HasKey(nodes, k) == \E n \in 1 .. Len(nodes) : KeyIn(nodes[n], k)
HasEntry(nodes, k, p) == \E n \in 1 .. Len(nodes) : EntryIn(nodes[n], k, p)

\* The halves have the entries of the node.
LEMMA HalvesHold ==
    ASSUME NEW n \in Nat, NEW node \in Shaped(n), NEW half, NEW m, HalvesAre(node, half, m),
           NEW k, NEW p
    PROVE  EntryIn(half.left, k, p) \/ EntryIn(half.right, k, p) <=> EntryIn(node, k, p)
<1> DEFINE l == Len(node.keys)
<1>1. l \in Nat
  BY NodeParts
<1>2. half.left.leaf = node.leaf /\ half.right.leaf = node.leaf
  BY DEF HalvesAre
<1>3. CASE ~ node.leaf
  BY <1>2, <1>3 DEF EntryIn
<1>4. CASE node.leaf
  <2>1. /\ m \in 1 .. l - 1 /\ Len(half.left.keys) = m /\ Len(half.right.keys) = l - m
        /\ \A j \in 1 .. m : half.left.keys[j] = node.keys[j] /\ half.left.ptrs[j] = node.ptrs[j]
        /\ \A j \in 1 .. l - m : /\ half.right.keys[j] = node.keys[m + j]
                                 /\ half.right.ptrs[j] = node.ptrs[m + j]
    BY <1>1, <1>4 DEF HalvesAre, Gone
  <2>2. EntryIn(node, k, p) <=> \E i \in 1 .. l : node.keys[i] = k /\ node.ptrs[i] = p
    BY <1>4 DEF EntryIn
  <2> HIDE DEF l
  <2>3. EntryIn(half.left, k, p) <=> \E i \in 1 .. m : node.keys[i] = k /\ node.ptrs[i] = p
    BY <1>2, <1>4, <2>1, ZenonT(60) DEF EntryIn
  <2>4. EntryIn(half.right, k, p) <=> \E i \in 1 .. l - m : node.keys[m + i] = k /\ node.ptrs[m + i] = p
    <3>1. EntryIn(half.right, k, p) <=>
            \E i \in 1 .. l - m : half.right.keys[i] = k /\ half.right.ptrs[i] = p
      BY <1>2, <1>4, <2>1, Zenon DEF EntryIn
    <3>2. \A i \in 1 .. l - m : (half.right.keys[i] = k /\ half.right.ptrs[i] = p)
                                 <=> (node.keys[m + i] = k /\ node.ptrs[m + i] = p)
      BY <2>1, Zenon
    <3> QED
      BY <3>1, <3>2, Zenon
  <2>5. ASSUME NEW i \in 1 .. l PROVE i \in 1 .. m \/ (i - m \in 1 .. l - m /\ i = m + (i - m))
    BY <1>1, <2>1
  <2>6. ASSUME NEW i \in 1 .. l, node.keys[i] = k, node.ptrs[i] = p
        PROVE  EntryIn(half.left, k, p) \/ EntryIn(half.right, k, p)
    <3>1. CASE i \in 1 .. m
      BY <2>3, <2>6, <3>1
    <3>2. CASE i - m \in 1 .. l - m /\ i = m + (i - m)
      BY <2>4, <2>6, <3>2
    <3> QED
      BY <2>5, <3>1, <3>2
  <2>7. \A i \in 1 .. m : i \in 1 .. l
    BY <1>1, <2>1
  <2>8. \A i \in 1 .. l - m : m + i \in 1 .. l
    BY <1>1, <2>1
  <2> QED
    BY <2>2, <2>3, <2>4, <2>6, <2>7, <2>8
<1> QED
  BY <1>2, <1>3, <1>4, NodeParts

\* A split neither adds nor loses entries.
LEMMA SplitHolds ==
    ASSUME NEW nodes, NEW h, NEW R, Ranged(nodes, h, R),
           NEW parent, NEW i, Splits(nodes, h, parent, i), NEW new, SplitAt(nodes, new, parent, i),
           NEW k, NEW p
    PROVE  HasEntry(new, k, p) <=> HasEntry(nodes, k, p)
<1> DEFINE l == Len(nodes)
           child == nodes[parent].ptrs[i]
           half == Halves(nodes[child])
<1>0. SplitSays(nodes, h, R, parent, i, new)
  BY SplitFacts
<1>1. /\ l \in Nat /\ parent \in 1 .. l /\ ~ nodes[parent].leaf
      /\ child \in 1 .. l /\ child # parent
      /\ \E m : HalvesAre(nodes[child], half, m)
      /\ Len(new) = l + 1
      /\ \A n \in 1 .. l : n # child /\ n # parent => new[n] = nodes[n]
      /\ new[child] = half.left /\ new[l + 1] = half.right
      /\ ~ new[parent].leaf
  BY <1>0, Zenon DEF SplitSays
<1>3. nodes[child] \in Shaped(l)
  BY <1>1, RangedParts, Zenon
<1> HIDE DEF l, child, half
<1>2. PICK m : HalvesAre(nodes[child], half, m)
  BY <1>1, Zenon
<1>4. EntryIn(half.left, k, p) \/ EntryIn(half.right, k, p) <=> EntryIn(nodes[child], k, p)
  BY <1>1, <1>2, <1>3, HalvesHold
<1>5. ~ EntryIn(new[parent], k, p) /\ ~ EntryIn(nodes[parent], k, p)
  BY <1>1 DEF EntryIn
<1>6. \A n \in 1 .. l + 1 : n \in 1 .. l \/ n = l + 1
  BY <1>1
<1>7. \A n \in 1 .. l : n \in 1 .. l + 1
  BY <1>1
<1>8. l + 1 \in 1 .. l + 1
  BY <1>1
<1>9. HasEntry(new, k, p) <=> \E n \in 1 .. l + 1 : EntryIn(new[n], k, p)
  BY <1>1 DEF HasEntry
<1>10. HasEntry(nodes, k, p) <=> \E n \in 1 .. l : EntryIn(nodes[n], k, p)
  BY DEF HasEntry, l
<1>11. ASSUME NEW n \in 1 .. l + 1, EntryIn(new[n], k, p) PROVE HasEntry(nodes, k, p)
  <2>1. CASE n = child \/ n = l + 1
    BY <1>1, <1>4, <1>10, <1>11, <2>1
  <2>2. CASE n = parent
    BY <1>5, <1>11, <2>2
  <2>3. CASE n \in 1 .. l /\ n # child /\ n # parent
    BY <1>1, <1>10, <1>11, <2>3
  <2> QED
    BY <1>6, <2>1, <2>2, <2>3
<1>12. ASSUME NEW n \in 1 .. l, EntryIn(nodes[n], k, p) PROVE HasEntry(new, k, p)
  <2>1. CASE n = child
    <3>1. EntryIn(new[child], k, p) \/ EntryIn(new[l + 1], k, p)
      BY <1>1, <1>4, <1>12, <2>1
    <3> QED
      BY <1>1, <1>7, <1>8, <1>9, <3>1
  <2>2. CASE n = parent
    BY <1>5, <1>12, <2>2
  <2>3. CASE n # child /\ n # parent
    <3>1. new[n] = nodes[n] /\ n \in 1 .. l + 1
      BY <1>1, <1>7, <2>3
    <3> QED
      BY <1>9, <1>12, <3>1
  <2> QED
    BY <2>1, <2>2, <2>3
<1> QED
  BY <1>9, <1>10, <1>11, <1>12

\* A split does not bring keys that were not there.
LEMMA SplitBrings ==
    ASSUME NEW nodes, NEW h, NEW R, Ranged(nodes, h, R),
           NEW parent, NEW i, Splits(nodes, h, parent, i), NEW new, SplitAt(nodes, new, parent, i),
           NEW k, HasKey(new, k)
    PROVE  HasKey(nodes, k)
<1> DEFINE l == Len(nodes)
           child == nodes[parent].ptrs[i]
           half == Halves(nodes[child])
<1>0. SplitSays(nodes, h, R, parent, i, new)
  BY SplitFacts
<1>1. /\ l \in Nat /\ parent \in 1 .. l
      /\ i \in 1 .. Len(nodes[parent].keys) + 1 /\ Len(nodes[parent].keys) \in Nat
      /\ child \in 1 .. l /\ child # parent
      /\ \E m : HalvesAre(nodes[child], half, m)
      /\ Len(new) = l + 1
      /\ \A n \in 1 .. l : n # child /\ n # parent => new[n] = nodes[n]
      /\ new[child] = half.left /\ new[l + 1] = half.right
      /\ Longer(new[parent].keys, nodes[parent].keys, i, half.key)
  BY <1>0, Zenon DEF SplitSays
<1>3. nodes[child] \in Shaped(l) /\ Sorted(nodes[child])
  BY <1>1, RangedParts, Zenon
<1> HIDE DEF l, child, half
<1>2. PICK m : HalvesAre(nodes[child], half, m)
  BY <1>1, Zenon
<1>10. l \in Nat
  BY <1>1, Zenon
<1>4. HalvesSay(nodes[child], half)
  BY <1>2, <1>3, <1>10, HalvesSorted, Zenon
<1>5. /\ KeyIn(half.left, k) => KeyIn(nodes[child], k)
      /\ KeyIn(half.right, k) => KeyIn(nodes[child], k)
      /\ half.key = k => KeyIn(nodes[child], k)
  <2>1. KeyIn(half.left, k) => KeyIn(nodes[child], k)
    <3>1. \A j \in 1 .. Len(half.left.keys) :
            \E a \in 1 .. Len(nodes[child].keys) : half.left.keys[j] = nodes[child].keys[a]
      BY <1>4, Zenon DEF HalvesSay
    <3> QED
      BY <3>1, Zenon DEF KeyIn
  <2>2. KeyIn(half.right, k) => KeyIn(nodes[child], k)
    <3>1. \A j \in 1 .. Len(half.right.keys) :
            \E a \in 1 .. Len(nodes[child].keys) : half.right.keys[j] = nodes[child].keys[a]
      BY <1>4, Zenon DEF HalvesSay
    <3> QED
      BY <3>1, Zenon DEF KeyIn
  <2>3. half.key = k => KeyIn(nodes[child], k)
    BY <1>4, Zenon DEF HalvesSay, KeyIn
  <2> QED
    BY <2>1, <2>2, <2>3
<1>6. HasKey(nodes, k) <=> \E n \in 1 .. l : KeyIn(nodes[n], k)
  BY DEF HasKey, l
<1>7. PICK n \in 1 .. l + 1 : KeyIn(new[n], k)
  BY <1>1 DEF HasKey
<1>8. CASE n = parent
  <2>1. PICK j \in 1 .. Len(nodes[parent].keys) + 1 : new[parent].keys[j] = k
    BY <1>1, <1>7, <1>8 DEF KeyIn, Longer
  <2>2. k = IF j < i THEN nodes[parent].keys[j] ELSE IF j = i THEN half.key ELSE nodes[parent].keys[j - 1]
    BY <1>1, <2>1 DEF Longer
  <2>3. /\ j < i => j \in 1 .. Len(nodes[parent].keys)
        /\ j > i => j - 1 \in 1 .. Len(nodes[parent].keys)
        /\ j < i \/ j = i \/ (j > i /\ j # i /\ ~ (j < i))
    BY <1>1
  <2>4. KeyIn(nodes[parent], k) \/ half.key = k
    BY <2>2, <2>3 DEF KeyIn
  <2> QED
    BY <1>1, <1>5, <1>6, <2>4
<1>9. CASE n # parent
  <2>1. n \in 1 .. l \/ n = l + 1
    BY <1>1
  <2> QED
    BY <1>1, <1>5, <1>6, <1>7, <1>9, <2>1
<1> QED
  BY <1>8, <1>9

\* All keys lead to the root, and nothing is above it.
Rooted(nodes, h, R, root) ==
    /\ Ranged(nodes, h, R) /\ root \in 1 .. Len(nodes) /\ R[root] = Int
    /\ \A n \in 1 .. Len(nodes) : h[n] <= h[root]

\* A split below the root leaves it that.
LEMMA SplitRooted ==
    ASSUME NEW nodes, NEW h, NEW R, NEW root, Rooted(nodes, h, R, root),
           NEW parent, NEW i, Splits(nodes, h, parent, i), NEW new, SplitAt(nodes, new, parent, i)
    PROVE  Rooted(new, SplitHeights(nodes, h, nodes[parent].ptrs[i]),
                  SplitRanges(nodes, R, nodes[parent].ptrs[i]), root)
<1> DEFINE l == Len(nodes)
           child == nodes[parent].ptrs[i]
           g == SplitHeights(nodes, h, child)
           Q == SplitRanges(nodes, R, child)
<1>1. /\ Ranged(nodes, h, R) /\ root \in 1 .. l /\ R[root] = Int
      /\ \A n \in 1 .. l : h[n] <= h[root]
  BY DEF Rooted
<1>2. SplitSays(nodes, h, R, parent, i, new)
  BY <1>1, SplitFacts
<1>3. /\ l \in Nat /\ parent \in 1 .. l /\ child \in 1 .. l /\ h[child] + 1 = h[parent]
      /\ \A n \in 1 .. l : n # child => Q[n] = R[n]
      /\ Len(new) = l + 1
  BY <1>2, Zenon DEF SplitSays
<1>4. \A n \in 1 .. l : h[n] \in Nat
  BY <1>1, TreeNodes DEF Ranged
<1>5. g[l + 1] = h[child] /\ \A n \in 1 .. l : g[n] = h[n]
  BY <1>3 DEF SplitHeights
<1>6. Ranged(new, g, Q)
  BY <1>1, SplitRanged
<1> HIDE DEF l, child, g, Q
<1>7. root # child
  BY <1>1, <1>3, <1>4
<1>8. \A n \in 1 .. l + 1 : n \in 1 .. l \/ n = l + 1
  BY <1>3
<1>9. root \in 1 .. l + 1
  BY <1>1, <1>3
<1>10. \A n \in 1 .. l + 1 : g[n] <= g[root]
  BY <1>1, <1>3, <1>5, <1>8
<1> QED
  BY <1>1, <1>3, <1>6, <1>7, <1>9, <1>10 DEF Rooted, g, Q, child

\* An inner node leads a key to the child at its position, and to no other.
LEMMA ChildHasKey ==
    ASSUME NEW nodes, NEW h, NEW R, Ranged(nodes, h, R),
           NEW n \in 1 .. Len(nodes), ~ nodes[n].leaf, NEW key \in R[n]
    PROVE  /\ key \in R[nodes[n].ptrs[Position(nodes[n], key)]]
           /\ nodes[n].ptrs[Position(nodes[n], key)] \in 1 .. Len(nodes)
<1> DEFINE i == Position(nodes[n], key)
<1>1. /\ IsTree(nodes, h) /\ Len(nodes) \in Nat /\ nodes[n] \in Shaped(Len(nodes)) /\ R[n] \subseteq Int
      /\ Sorted(nodes[n]) /\ Parted(nodes[n], R, R[n])
  BY RangedParts
<1>2. key \in Int
  BY <1>1
<1>3. PositionIs(nodes[n], key, i)
  BY <1>1, <1>2, PositionFound
<1> HIDE DEF i
<1>4. Between(nodes[n], key, i)
  BY <1>1, <1>2, <1>3, BetweenIsPosition
<1>5. i \in 1 .. Len(nodes[n].keys) + 1
  BY <1>4 DEF Between
<1>6. key \in R[nodes[n].ptrs[i]]
  BY <1>1, <1>2, <1>4, <1>5 DEF Parted
<1>7. nodes[n].ptrs[i] \in 1 .. Len(nodes)
  BY <1>1, <1>5, Children
<1> QED
  BY <1>6, <1>7 DEF i

\* The nodes are others, the entries the same, and no keys new.
Rearranged(nodes, new) ==
    /\ \A k : HasKey(new, k) => HasKey(nodes, k)
    /\ \A k, p : HasEntry(new, k, p) <=> HasEntry(nodes, k, p)

\* A place on the way of a key that is new to the tree.
OnWay(nodes, root, key, at, h, R, k) ==
    /\ Way(at, h, k) /\ Rooted(at.nodes, h, R, root) /\ key \in R[at.page]
    /\ Rearranged(nodes, at.nodes)

\* A step down is on the way again.
LEMMA LowerOnWay ==
    ASSUME NEW nodes, NEW root, NEW key \in Int, ~ HasKey(nodes, key),
           NEW at, NEW h, NEW R, NEW k \in Nat, OnWay(nodes, root, key, at, h, R, k + 1)
    PROVE  \E g, Q : OnWay(nodes, root, key, Lower(at, key), g, Q, k)
<1> DEFINE node == at.nodes[at.page]
           i == Position(node, key)
           child == Led(at, key)
           half == Halves(Child(at, key))
           next == Lower(at, key)
           l == Len(at.nodes)
<1>1. /\ Way(at, h, k + 1) /\ Rooted(at.nodes, h, R, root) /\ key \in R[at.page]
      /\ Rearranged(nodes, at.nodes)
  BY DEF OnWay
<1>2. Ranged(at.nodes, h, R) /\ IsTree(at.nodes, h) /\ at.page \in 1 .. l /\ l \in Nat
  BY <1>1, TreeNodes DEF Rooted, Ranged, Way
<1>3. PICK g : Way(next, g, k) /\ Lowered(at, h, key, next, g)
  BY <1>1, LowerGoes
<1>4. ~ node.leaf => key \in R[child] /\ child \in 1 .. l
  BY <1>1, <1>2, ChildHasKey DEF Led
<1>5. CASE node.leaf
  <2>1. next = at /\ g = h
    BY <1>3, <1>5, Zenon DEF Lowered
  <2> HIDE DEF next
  <2>2. OnWay(nodes, root, key, next, h, R, k)
    BY <1>1, <1>3, <2>1 DEF OnWay
  <2> QED
    BY <2>2 DEF next
<1>6. CASE ~ node.leaf /\ Enters(at, key, next) /\ g = h
  <2>1. next.nodes = at.nodes /\ next.page = child
    BY <1>6 DEF Enters
  <2> HIDE DEF next, child
  <2>2. OnWay(nodes, root, key, next, h, R, k)
    BY <1>1, <1>3, <1>4, <1>6, <2>1 DEF OnWay
  <2> QED
    BY <2>2 DEF next
<1>7. CASE ~ node.leaf /\ EntersHalf(at, h, key, next) /\ g = SplitHeights(at.nodes, h, child)
  <2> DEFINE Q == SplitRanges(at.nodes, R, child)
  <2>1. /\ Splits(at.nodes, h, at.page, i) /\ SplitAt(at.nodes, next.nodes, at.page, i)
        /\ next.page = IF key > half.key THEN l + 1 ELSE child
    BY <1>7, Zenon DEF EntersHalf
  <2>2. child = at.nodes[at.page].ptrs[i]
    BY DEF Led
  <2>3. SplitSays(at.nodes, h, R, at.page, i, next.nodes)
    BY <1>2, <2>1, SplitFacts
  <2>4. /\ \E m : HalvesAre(at.nodes[child], half, m)
        /\ half.key \in Int
        /\ Q[l + 1] = {x \in R[child] : half.key <= x}
        /\ Q[child] = {x \in R[child] : x < half.key}
    BY <2>3, ZenonT(60) DEF SplitSays, Led, Child
  <2>5. Rooted(next.nodes, g, Q, root)
    BY <1>1, <1>7, <2>1, <2>2, SplitRooted
  <2>6. Rearranged(at.nodes, next.nodes)
    BY <1>2, <2>1, SplitBrings, SplitHolds DEF Rearranged
  <2>7. Rearranged(nodes, next.nodes)
    BY <1>1, <2>6 DEF Rearranged
  <2>8. key # half.key
    <3> SUFFICES ASSUME key = half.key PROVE FALSE
      OBVIOUS
    <3>1. PICK m : HalvesAre(at.nodes[child], half, m)
      BY <2>4
    <3>2. at.nodes[child] \in Shaped(l) /\ Sorted(at.nodes[child])
      BY <1>2, <1>4, <1>7, RangedParts
    <3>3. HalvesSay(at.nodes[child], half)
      BY <1>2, <3>1, <3>2, HalvesSorted
    <3>4. KeyIn(at.nodes[child], half.key)
      BY <3>3 DEF HalvesSay, KeyIn
    <3> HIDE DEF half, child
    <3>5. HasKey(at.nodes, key)
      BY <1>4, <1>7, <3>4 DEF HasKey
    <3> QED
      BY <1>1, <3>5 DEF Rearranged
  <2> HIDE DEF Q, next, half, child, l
  <2>9. key \in Q[next.page]
    BY <1>4, <1>7, <2>1, <2>4, <2>8
  <2>10. OnWay(nodes, root, key, next, g, Q, k)
    BY <1>3, <2>5, <2>7, <2>9 DEF OnWay
  <2> QED
    BY <2>10 DEF next
<1>8. \/ node.leaf
      \/ ~ node.leaf /\ Enters(at, key, next) /\ g = h
      \/ ~ node.leaf /\ EntersHalf(at, h, key, next) /\ g = SplitHeights(at.nodes, h, child)
  BY <1>3, Zenon DEF Lowered
<1> QED
  BY <1>5, <1>6, <1>7, <1>8

\* The insertion of a new key arrives at a leaf that the key leads to.
LEMMA LeafOnWay ==
    ASSUME NEW nodes, NEW root, NEW key \in Int, ~ HasKey(nodes, key), NEW page, NEW h, NEW R,
           OnWay(nodes, root, key, [nodes |-> nodes, page |-> page], h, R, Len(nodes))
    PROVE  /\ Reached(nodes, page, key) # {}
           /\ \A at \in Reached(nodes, page, key) : \E g, Q : OnWay(nodes, root, key, at, g, Q, 0)
<1> DEFINE start == [nodes |-> nodes, page |-> page]
           l == Len(nodes)
           G == [k \in Nat |-> {at \in Places : \E g, Q : OnWay(nodes, root, key, at, g, Q, k)}]
<1>1. Way(start, h, l)
  BY DEF OnWay
<1>2. l \in Nat /\ start \in Places
  <2>1. IsTree(nodes, h)
    BY <1>1 DEF Way
  <2> QED
    BY <1>1, <2>1, TreeNodes, WayIsPlace
<1>3. start \in G[l]
  BY <1>2
<1>4. \A k \in Nat : \A at \in G[k + 1] : Lower(at, key) \in G[k]
  <2> SUFFICES ASSUME NEW k \in Nat, NEW at \in G[k + 1] PROVE Lower(at, key) \in G[k]
    OBVIOUS
  <2>1. PICK g, Q : OnWay(nodes, root, key, at, g, Q, k + 1)
    OBVIOUS
  <2>2. PICK m, P : OnWay(nodes, root, key, Lower(at, key), m, P, k)
    BY <2>1, LowerOnWay
  <2>3. Way(Lower(at, key), m, k)
    BY <2>2 DEF OnWay
  <2>4. Lower(at, key) \in Places
    BY <2>3, WayIsPlace
  <2> QED
    BY <2>2, <2>4
<1> HIDE DEF G, l
<1>5. Reached(nodes, page, key) # {} /\ Reached(nodes, page, key) \subseteq G[0]
  BY <1>2, <1>3, <1>4, ReachedIn DEF l
<1> QED
  BY <1>5 DEF G

\* A leaf is written whose keys lead to it.
LEMMA WriteRanged ==
    ASSUME NEW nodes, NEW h, NEW R, NEW root, Rooted(nodes, h, R, root),
           NEW page \in 1 .. Len(nodes), nodes[page].leaf,
           NEW leaf \in Shaped(Len(nodes)), leaf.leaf, Owned(leaf, R[page])
    PROVE  Rooted([nodes EXCEPT ![page] = leaf], h, R, root)
<1> DEFINE new == [nodes EXCEPT ![page] = leaf]
           l == Len(nodes)
<1>1. Ranged(nodes, h, R) /\ IsTree(nodes, h)
  BY DEF Rooted, Ranged
<1>2. IsTree(new, h) /\ Len(new) = l
  BY <1>1, LeafWritten
<1>3. \A n \in 1 .. l : new[n] = IF n = page THEN leaf ELSE nodes[n]
  BY <1>1 DEF IsTree
<1> HIDE DEF new
<1>4. \A n \in 1 .. l : Owned(new[n], R[n]) /\ (~ new[n].leaf => Parted(new[n], R, R[n]))
  BY <1>1, <1>3 DEF Ranged
<1>5. R \in [1 .. l -> SUBSET Int] /\ \A n, m \in 1 .. l : n # m /\ h[n] = h[m] => R[n] \cap R[m] = {}
  BY <1>1, Zenon DEF Ranged
<1>6. Ranged(new, h, R)
  <2> HIDE DEF l
  <2> QED
    BY <1>2, <1>4, <1>5 DEF Ranged
<1> QED
  BY <1>2, <1>6 DEF Rooted, new

\* The entries then: those of the leaf and those of the other nodes.
LEMMA WriteHolds ==
    ASSUME NEW nodes, NEW h, IsTree(nodes, h), NEW page \in 1 .. Len(nodes), NEW leaf, NEW k, NEW p
    PROVE  /\ HasEntry([nodes EXCEPT ![page] = leaf], k, p) <=>
                EntryIn(leaf, k, p) \/ \E n \in 1 .. Len(nodes) : n # page /\ EntryIn(nodes[n], k, p)
           /\ HasKey([nodes EXCEPT ![page] = leaf], k) <=>
                KeyIn(leaf, k) \/ \E n \in 1 .. Len(nodes) : n # page /\ KeyIn(nodes[n], k)
<1> DEFINE new == [nodes EXCEPT ![page] = leaf]
<1>1. nodes \in Seq(Shaped(Len(nodes)))
  BY DEF IsTree
<1>2. Len(new) = Len(nodes) /\ \A n \in 1 .. Len(nodes) : new[n] = IF n = page THEN leaf ELSE nodes[n]
  BY <1>1
<1> HIDE DEF new
<1>3. HasEntry(new, k, p) <=>
        EntryIn(leaf, k, p) \/ \E n \in 1 .. Len(nodes) : n # page /\ EntryIn(nodes[n], k, p)
  BY <1>2 DEF HasEntry
<1>4. HasKey(new, k) <=> KeyIn(leaf, k) \/ \E n \in 1 .. Len(nodes) : n # page /\ KeyIn(nodes[n], k)
  BY <1>2 DEF HasKey
<1> QED
  BY <1>3, <1>4 DEF new

\* A leaf with one more entry has that and what it had; its keys still ascend.
LEMMA LongerHolds ==
    ASSUME NEW n \in Nat, NEW leaf \in Shaped(n), leaf.leaf, ~ Full(leaf), NEW r, Owned(leaf, r),
           NEW key \in Key, key \in r, ~ KeyIn(leaf, key), NEW ptr \in RowId
    PROVE  /\ Owned(LongerLeaf(leaf, key, ptr), r)
           /\ \A k, p : EntryIn(LongerLeaf(leaf, key, ptr), k, p)
                          <=> EntryIn(leaf, k, p) \/ (k = key /\ p = ptr)
           /\ \A k : KeyIn(LongerLeaf(leaf, key, ptr), k) => KeyIn(leaf, k) \/ k = key
<1> DEFINE long == LongerLeaf(leaf, key, ptr)
           i == Position(leaf, key)
           l == Len(leaf.keys)
<1>1. long.leaf /\ Longer(long.keys, leaf.keys, i, key) /\ Longer(long.ptrs, leaf.ptrs, i, ptr)
  BY LeafGrows
<1>2. key \in Int /\ l \in Nat /\ Len(leaf.ptrs) = l /\ \A j \in 1 .. l : leaf.keys[j] \in Int
  BY KeysAreOrdered, NodeParts
<1>3. PositionIs(leaf, key, i)
  BY <1>2, PositionFound
<1>4. Sorted(leaf) /\ \A j \in 1 .. l : leaf.keys[j] \in r /\ leaf.keys[j] # key
  BY DEF Owned, KeyIn
<1> HIDE DEF i, long, l
<1>5. i \in 1 .. l + 1 /\ Between(leaf, key, i)
  BY <1>2, <1>3, <1>4, BetweenIsPosition DEF PositionIs, l
<1>6. (i > 1 => leaf.keys[i - 1] < key) /\ (i <= l => key < leaf.keys[i])
  <2>1. i > 1 => i - 1 \in 1 .. l
    BY <1>2, <1>5
  <2>2. i > 1 => leaf.keys[i - 1] <= key
    BY <1>5 DEF Between
  <2>3. i <= l => key < leaf.keys[i]
    BY <1>5 DEF Between, l
  <2> QED
    BY <1>2, <1>4, <2>1, <2>2, <2>3
<1>7. Sorted(long)
  BY <1>1, <1>2, <1>4, <1>5, <1>6, ParentLeads DEF l
<1>8. /\ Len(long.keys) = l + 1
      /\ \A j \in 1 .. l + 1 :
           /\ long.keys[j] = IF j < i THEN leaf.keys[j] ELSE IF j = i THEN key ELSE leaf.keys[j - 1]
           /\ long.ptrs[j] = IF j < i THEN leaf.ptrs[j] ELSE IF j = i THEN ptr ELSE leaf.ptrs[j - 1]
  BY <1>1, <1>2 DEF Longer, l
<1>9. ASSUME NEW j \in 1 .. l + 1
      PROVE  \/ j = i /\ long.keys[j] = key /\ long.ptrs[j] = ptr
             \/ \E a \in 1 .. l : long.keys[j] = leaf.keys[a] /\ long.ptrs[j] = leaf.ptrs[a]
  <2>1. CASE j < i
    <3>1. j \in 1 .. l /\ long.keys[j] = leaf.keys[j] /\ long.ptrs[j] = leaf.ptrs[j]
      BY <1>2, <1>5, <1>8, <2>1
    <3> QED
      BY <3>1
  <2>2. CASE j = i
    <3>1. ~ (j < i)
      BY <1>5, <2>2
    <3> QED
      BY <1>8, <2>2, <3>1
  <2>3. CASE j > i
    <3>1. j - 1 \in 1 .. l /\ ~ (j < i) /\ j # i
      BY <1>2, <1>5, <2>3
    <3>2. long.keys[j] = leaf.keys[j - 1] /\ long.ptrs[j] = leaf.ptrs[j - 1]
      BY <1>8, <3>1
    <3> QED
      BY <3>1, <3>2
  <2> QED
    BY <1>5, <2>1, <2>2, <2>3
<1>10. ASSUME NEW a \in 1 .. l
       PROVE  \E j \in 1 .. l + 1 : long.keys[j] = leaf.keys[a] /\ long.ptrs[j] = leaf.ptrs[a]
  <2>1. CASE a < i
    <3>1. a \in 1 .. l + 1 /\ long.keys[a] = leaf.keys[a] /\ long.ptrs[a] = leaf.ptrs[a]
      BY <1>2, <1>8, <2>1
    <3> QED
      BY <3>1
  <2>2. CASE ~ (a < i)
    <3>1. a + 1 \in 1 .. l + 1 /\ ~ (a + 1 < i) /\ a + 1 # i /\ (a + 1) - 1 = a
      BY <1>2, <1>5, <2>2
    <3>2. long.keys[a + 1] = leaf.keys[(a + 1) - 1] /\ long.ptrs[a + 1] = leaf.ptrs[(a + 1) - 1]
      BY <1>8, <3>1
    <3>3. long.keys[a + 1] = leaf.keys[a] /\ long.ptrs[a + 1] = leaf.ptrs[a]
      BY <3>1, <3>2
    <3> QED
      BY <3>1, <3>3
  <2> QED
    BY <2>1, <2>2
<1>11. i \in 1 .. l + 1 /\ long.keys[i] = key /\ long.ptrs[i] = ptr
  <2>1. ~ (i < i)
    BY <1>5
  <2> QED
    BY <1>5, <1>8, <2>1
<1>12. Owned(long, r)
  BY <1>4, <1>7, <1>8, <1>9 DEF Owned
<1>13. ASSUME NEW k PROVE KeyIn(long, k) => KeyIn(leaf, k) \/ k = key
  BY <1>8, <1>9, SMTT(60) DEF KeyIn, l
<1>14. ASSUME NEW k, NEW p PROVE EntryIn(long, k, p) <=> EntryIn(leaf, k, p) \/ (k = key /\ p = ptr)
  <2>1. EntryIn(long, k, p) <=> \E j \in 1 .. l + 1 : long.keys[j] = k /\ long.ptrs[j] = p
    BY <1>1, <1>8 DEF EntryIn
  <2>2. EntryIn(leaf, k, p) <=> \E a \in 1 .. l : leaf.keys[a] = k /\ leaf.ptrs[a] = p
    BY DEF EntryIn, l
  <2>3. EntryIn(long, k, p) => EntryIn(leaf, k, p) \/ (k = key /\ p = ptr)
    BY <1>9, <2>1, <2>2
  <2>4. EntryIn(leaf, k, p) => EntryIn(long, k, p)
    BY <1>10, <2>1, <2>2
  <2>5. k = key /\ p = ptr => EntryIn(long, k, p)
    BY <1>11, <2>1
  <2> QED
    BY <2>3, <2>4, <2>5
<1> QED
  BY <1>12, <1>13, <1>14 DEF long

\* One entry more, and no key but its own.
Added(nodes, new, key, ptr) ==
    /\ \A k : HasKey(new, k) => HasKey(nodes, k) \/ k = key
    /\ \A k, p : HasEntry(new, k, p) <=> HasEntry(nodes, k, p) \/ (k = key /\ p = ptr)

\* The leaf arrived at gets the entry.
LEMMA PlacedHolds ==
    ASSUME KeysAreEstimated,
           NEW nodes, NEW root, NEW key \in Key, NEW ptr \in RowId, ~ HasKey(nodes, key),
           NEW at, NEW h, NEW R, OnWay(nodes, root, key, at, h, R, 0)
    PROVE  Rooted(Placed(at, key, ptr), h, R, root) /\ Added(nodes, Placed(at, key, ptr), key, ptr)
<1> DEFINE leaf == at.nodes[at.page]
           long == LongerLeaf(leaf, key, ptr)
           new == [at.nodes EXCEPT ![at.page] = long]
           l == Len(at.nodes)
<1>1. /\ Way(at, h, 0) /\ Rooted(at.nodes, h, R, root) /\ key \in R[at.page]
      /\ Rearranged(nodes, at.nodes)
  BY DEF OnWay
<1>2. /\ leaf.leaf /\ ~ Full(leaf) /\ IsTree(at.nodes, h) /\ at.page \in 1 .. l /\ l \in Nat
      /\ leaf \in Shaped(l)
  BY <1>1, LeafAtTheEnd
<1>3. long \in Shaped(l) /\ long.leaf
  <2> HIDE DEF leaf, l
  <2> QED
    BY <1>2, LeafGrows DEF long
<1>4. Fits(long)
  BY <1>2, <1>3, ShapedFits DEF NodeOK
<1>5. Placed(at, key, ptr) = new
  BY <1>1, <1>4, PlacedIs
<1>6. Ranged(at.nodes, h, R)
  BY <1>1 DEF Rooted
<1>7. Owned(leaf, R[at.page])
  BY <1>2, <1>6, RangedParts
<1>8. ~ KeyIn(leaf, key)
  BY <1>1, <1>2 DEF Rearranged, HasKey
<1>9. /\ Owned(long, R[at.page])
      /\ \A k, p : EntryIn(long, k, p) <=> EntryIn(leaf, k, p) \/ (k = key /\ p = ptr)
      /\ \A k : KeyIn(long, k) => KeyIn(leaf, k) \/ k = key
  <2> HIDE DEF leaf, l
  <2> QED
    BY <1>1, <1>2, <1>7, <1>8, LongerHolds DEF long
<1> HIDE DEF long, l
<1>10. Rooted(new, h, R, root)
  BY <1>1, <1>2, <1>3, <1>9, WriteRanged DEF l
<1>11. ASSUME NEW k, NEW p
       PROVE  /\ HasEntry(new, k, p) <=> EntryIn(long, k, p)
                                           \/ \E n \in 1 .. l : n # at.page /\ EntryIn(at.nodes[n], k, p)
              /\ HasKey(new, k) <=> KeyIn(long, k) \/ \E n \in 1 .. l : n # at.page /\ KeyIn(at.nodes[n], k)
  BY <1>2, WriteHolds, ZenonT(60) DEF l
<1>12. ASSUME NEW k, NEW p
       PROVE  /\ HasEntry(at.nodes, k, p) <=> EntryIn(leaf, k, p)
                                           \/ \E n \in 1 .. l : n # at.page /\ EntryIn(at.nodes[n], k, p)
              /\ HasKey(at.nodes, k) <=> KeyIn(leaf, k) \/ \E n \in 1 .. l : n # at.page /\ KeyIn(at.nodes[n], k)
  BY <1>2 DEF HasEntry, HasKey, l
<1> HIDE DEF new, leaf
<1>13. ASSUME NEW k, HasKey(new, k) PROVE HasKey(nodes, k) \/ k = key
  BY <1>1, <1>9, <1>11, <1>12, <1>13 DEF Rearranged
<1>14. ASSUME NEW k, NEW p PROVE HasEntry(new, k, p) <=> HasEntry(nodes, k, p) \/ (k = key /\ p = ptr)
  BY <1>1, <1>9, <1>11, <1>12 DEF Rearranged
<1>15. Added(nodes, new, key, ptr)
  BY <1>13, <1>14 DEF Added
<1> QED
  BY <1>5, <1>10, <1>15

\* So does a tree that the insertion goes through from a root with room.
LEMMA NonfullHolds ==
    ASSUME KeysAreEstimated,
           NEW nodes, NEW root, NEW key \in Key, NEW ptr \in RowId, ~ HasKey(nodes, key),
           NEW h, NEW R, Rooted(nodes, h, R, root), ~ Full(nodes[root])
    PROVE  \E g, Q : /\ Rooted(InsertNonfull(nodes, root, key, ptr), g, Q, root)
                     /\ Added(nodes, InsertNonfull(nodes, root, key, ptr), key, ptr)
<1> DEFINE start == [nodes |-> nodes, page |-> root]
<1>1. IsTree(nodes, h) /\ root \in 1 .. Len(nodes) /\ R[root] = Int /\ key \in Int
  BY KeysAreOrdered DEF Rooted, Ranged
<1>2. Len(nodes) \in Nat /\ h[root] < Len(nodes) /\ h[root] \in Nat
  BY <1>1, TreeNodes
<1>3. Way(start, h, Len(nodes))
  BY <1>1, <1>2 DEF Way
<1>4. Rearranged(nodes, nodes)
  BY DEF Rearranged
<1>5. OnWay(nodes, root, key, start, h, R, Len(nodes))
  BY <1>1, <1>3, <1>4 DEF OnWay
<1>6. /\ Reached(nodes, root, key) # {}
      /\ \A at \in Reached(nodes, root, key) : \E g, Q : OnWay(nodes, root, key, at, g, Q, 0)
  BY <1>1, <1>5, LeafOnWay
<1>7. PICK at \in Reached(nodes, root, key) : InsertNonfull(nodes, root, key, ptr) = Placed(at, key, ptr)
  BY <1>6, NonfullIs
<1>8. PICK g, Q : OnWay(nodes, root, key, at, g, Q, 0)
  BY <1>6
<1>9. Rooted(Placed(at, key, ptr), g, Q, root) /\ Added(nodes, Placed(at, key, ptr), key, ptr)
  BY <1>8, PlacedHolds
<1> QED
  BY <1>7, <1>9

\* The root that insert splits has all keys, so has the one put above it.
CrownRanges(tree, R) ==
    [m \in 1 .. Len(tree.nodes) + 1 |-> IF m = Len(tree.nodes) + 1 THEN Int ELSE R[m]]

\* Under the new root the old one keeps all keys within its range.
LEMMA CrownRooted ==
    ASSUME NEW tree, NEW h, IsIndex(tree, h), NEW R, Rooted(tree.nodes, h, R, tree.root)
    PROVE  Rooted(Crowned(tree), CrownHeights(tree, h), CrownRanges(tree, R), Len(tree.nodes) + 1)
<1> DEFINE n == Len(tree.nodes)
           crowned == Crowned(tree)
           g == CrownHeights(tree, h)
           Q == CrownRanges(tree, R)
           top == crowned[n + 1]
<1>0. CrownSays(tree, h) /\ IsTree(crowned, g)
  BY CrownIs, CrownTree
<1>1. /\ n \in Nat /\ tree.root \in 1 .. n
      /\ Len(crowned) = n + 1
      /\ \A m \in 1 .. n : crowned[m] = tree.nodes[m] /\ g[m] = h[m]
      /\ crowned[n + 1] = Inner(<<>>, <<tree.root>>)
      /\ g[n + 1] = h[tree.root] + 1
  BY <1>0, Zenon DEF CrownSays
<1>2. /\ Ranged(tree.nodes, h, R) /\ R[tree.root] = Int
      /\ \A m \in 1 .. n : h[m] <= h[tree.root] /\ h[m] \in Nat
  BY TreeNodes DEF Rooted, Ranged
<1>3. R \in [1 .. n -> SUBSET Int] /\ \A a, b \in 1 .. n : a # b /\ h[a] = h[b] => R[a] \cap R[b] = {}
  BY <1>2, Zenon DEF Ranged
<1>4. /\ Q \in [1 .. n + 1 -> SUBSET Int] /\ Q[n + 1] = Int
      /\ \A m \in 1 .. n : Q[m] = R[m]
  BY <1>1, <1>3 DEF CrownRanges
<1>5. ~ top.leaf /\ Len(top.keys) = 0 /\ top.ptrs[1] = tree.root
  BY <1>1 DEF Inner
<1> HIDE DEF crowned, g, Q, n
<1>6. \A m \in 1 .. n + 1 : m \in 1 .. n \/ m = n + 1
  BY <1>1
<1>7. Owned(top, Q[n + 1]) /\ Parted(top, Q, Q[n + 1])
  <2>1. Owned(top, Q[n + 1])
    BY <1>5 DEF Owned, Sorted
  <2>2. \A i \in 1 .. 0 + 1 : i = 1
    OBVIOUS
  <2>3. Q[top.ptrs[1]] = Int
    BY <1>1, <1>2, <1>4, <1>5
  <2>4. \A k \in Int : Between(top, k, 1)
    BY <1>5 DEF Between
  <2> HIDE DEF top
  <2>5. Parted(top, Q, Q[n + 1])
    BY <1>4, <1>5, <2>2, <2>3, <2>4 DEF Parted
  <2> QED
    BY <2>1, <2>5
<1>8. ASSUME NEW m \in 1 .. n
      PROVE  Owned(crowned[m], Q[m]) /\ (~ crowned[m].leaf => Parted(crowned[m], Q, Q[m]))
  <2>1. crowned[m] = tree.nodes[m] /\ Q[m] = R[m]
    BY <1>1, <1>4
  <2>2. Owned(tree.nodes[m], R[m]) /\ (~ tree.nodes[m].leaf => Parted(tree.nodes[m], R, R[m]))
        /\ IsTree(tree.nodes, h)
    BY <1>2, RangedParts DEF n
  <2>3. ASSUME ~ tree.nodes[m].leaf PROVE Parted(tree.nodes[m], Q, R[m])
    <3>1. \A i \in 1 .. Len(tree.nodes[m].keys) + 1 : Q[tree.nodes[m].ptrs[i]] = R[tree.nodes[m].ptrs[i]]
      BY <1>4, <2>2, <2>3, Children DEF n
    <3> QED
      BY <2>2, <2>3, <3>1 DEF Parted
  <2> QED
    BY <2>1, <2>2, <2>3
<1>9. ASSUME NEW a \in 1 .. n + 1, NEW b \in 1 .. n + 1, a # b, g[a] = g[b]
      PROVE  Q[a] \cap Q[b] = {}
  <2>1. CASE a \in 1 .. n /\ b \in 1 .. n
    BY <1>1, <1>3, <1>4, <1>9, <2>1
  <2>2. CASE a = n + 1 /\ b \in 1 .. n
    BY <1>1, <1>2, <1>9, <2>2
  <2>3. CASE b = n + 1 /\ a \in 1 .. n
    BY <1>1, <1>2, <1>9, <2>3
  <2> QED
    BY <1>6, <1>9, <2>1, <2>2, <2>3
<1>10. Ranged(crowned, g, Q)
  <2>1. ASSUME NEW m \in 1 .. n + 1
        PROVE  Owned(crowned[m], Q[m]) /\ (~ crowned[m].leaf => Parted(crowned[m], Q, Q[m]))
    BY <1>6, <1>7, <1>8
  <2> QED
    BY <1>0, <1>1, <1>4, <1>9, <2>1 DEF Ranged
<1>11. \A m \in 1 .. n + 1 : g[m] <= g[n + 1]
  <2> SUFFICES ASSUME NEW m \in 1 .. n + 1 PROVE g[m] <= g[n + 1]
    OBVIOUS
  <2>1. h[tree.root] \in Nat
    BY <1>1, <1>2
  <2>2. CASE m \in 1 .. n
    BY <1>1, <1>2, <2>1, <2>2
  <2>3. CASE m = n + 1
    BY <1>1, <2>1, <2>3
  <2> QED
    BY <1>6, <2>2, <2>3, SMTT(60)
<1>12. n + 1 \in 1 .. Len(crowned)
  BY <1>1
<1> QED
  BY <1>1, <1>4, <1>10, <1>11, <1>12 DEF Rooted, crowned, g, Q, n

\* A root without keys brings none, and no entry.
LEMMA CrownHolds ==
    ASSUME NEW tree, NEW h, IsIndex(tree, h)
    PROVE  Rearranged(tree.nodes, Crowned(tree))
<1> DEFINE n == Len(tree.nodes)
           crowned == Crowned(tree)
<1>0. CrownSays(tree, h)
  BY CrownIs
<1>1. /\ n \in Nat /\ Len(crowned) = n + 1
      /\ \A m \in 1 .. n : crowned[m] = tree.nodes[m]
      /\ crowned[n + 1] = Inner(<<>>, <<tree.root>>)
  BY <1>0, Zenon DEF CrownSays
<1>2. ~ crowned[n + 1].leaf /\ Len(crowned[n + 1].keys) = 0
  BY <1>1 DEF Inner
<1> HIDE DEF crowned
<1>3. ASSUME NEW k PROVE ~ KeyIn(crowned[n + 1], k)
  BY <1>2 DEF KeyIn
<1>4. ASSUME NEW k, NEW p PROVE ~ EntryIn(crowned[n + 1], k, p)
  BY <1>2 DEF EntryIn
<1>5. \A m : m \in 1 .. n + 1 <=> m \in 1 .. n \/ m = n + 1
  BY <1>1
<1>6. ASSUME NEW k, HasKey(crowned, k) PROVE HasKey(tree.nodes, k)
  BY <1>1, <1>3, <1>5, <1>6 DEF HasKey
<1>7. ASSUME NEW k, NEW p PROVE HasEntry(crowned, k, p) <=> HasEntry(tree.nodes, k, p)
  <2>1. HasEntry(crowned, k, p) <=> \E m \in 1 .. n + 1 : EntryIn(crowned[m], k, p)
    BY <1>1 DEF HasEntry
  <2>2. HasEntry(tree.nodes, k, p) <=> \E m \in 1 .. n : EntryIn(tree.nodes[m], k, p)
    BY DEF HasEntry
  <2> QED
    BY <1>1, <1>4, <1>5, <2>1, <2>2
<1> QED
  BY <1>6, <1>7 DEF Rearranged, crowned

\* A tree in which search finds what was inserted.
SearchTree(tree, h, R) == IsIndex(tree, h) /\ Rooted(tree.nodes, h, R, tree.root)

\* Before the insertion goes down, there are the same entries.
LEMMA OpenedHolds ==
    ASSUME NEW tree, NEW h, NEW R, SearchTree(tree, h, R)
    PROVE  /\ Rearranged(tree.nodes, Opened(tree).nodes)
           /\ \E g, Q : Rooted(Opened(tree).nodes, g, Q, Opened(tree).root)
<1> DEFINE n == Len(tree.nodes)
           full == Len(tree.nodes[tree.root].keys) >= MaxLeaf
           open == Opened(tree)
<1>1. IsIndex(tree, h) /\ Rooted(tree.nodes, h, R, tree.root)
  BY DEF SearchTree
<1>2. open = IF full THEN [root |-> n + 1, nodes |-> Grows(tree)] ELSE tree
  BY <1>1, OpenedTree
<1>3. CASE full
  <2> DEFINE crowned == Crowned(tree)
             g == CrownHeights(tree, h)
             Q == CrownRanges(tree, R)
  <2>1. open.root = n + 1 /\ open.nodes = Grows(tree)
    BY <1>2, <1>3
  <2>2. Rooted(crowned, g, Q, n + 1) /\ Rearranged(tree.nodes, crowned)
    BY <1>1, CrownRooted, CrownHolds
  <2>3. Splits(crowned, g, n + 1, 1) /\ SplitAt(crowned, Grows(tree), n + 1, 1)
    BY <1>1, <1>3, CrownSplits
  <2>4. Ranged(crowned, g, Q)
    BY <2>2 DEF Rooted
  <2> HIDE DEF crowned, g, Q, n, open
  <2>5. \E a, P : Rooted(Grows(tree), a, P, n + 1)
    BY <2>2, <2>3, SplitRooted
  <2>6. Rearranged(crowned, Grows(tree))
    BY <2>3, <2>4, SplitBrings, SplitHolds DEF Rearranged
  <2>7. Rearranged(tree.nodes, Grows(tree))
    BY <2>2, <2>6 DEF Rearranged
  <2> QED
    BY <2>1, <2>5, <2>7 DEF open
<1>4. CASE ~ full
  <2>1. open = tree
    BY <1>2, <1>4
  <2>2. Rearranged(tree.nodes, tree.nodes)
    BY DEF Rearranged
  <2> HIDE DEF open, full
  <2> QED
    BY <1>1, <2>1, <2>2 DEF open
<1> QED
  BY <1>3, <1>4

\* insert adds the entry, and the tree can still be searched.
LEMMA InsertHolds ==
    ASSUME KeysAreEstimated,
           NEW tree, NEW h, NEW R, SearchTree(tree, h, R),
           NEW key \in Key, NEW ptr \in RowId, ~ HasKey(tree.nodes, key)
    PROVE  /\ \E g, Q : SearchTree(InsertKey(tree, key, ptr), g, Q)
           /\ Added(tree.nodes, InsertKey(tree, key, ptr).nodes, key, ptr)
<1> DEFINE open == Opened(tree)
           nodes == InsertNonfull(open.nodes, open.root, key, ptr)
           new == InsertKey(tree, key, ptr)
<1>1. IsIndex(tree, h)
  BY DEF SearchTree
<1>2. new = [root |-> open.root, nodes |-> nodes]
  BY <1>1, InsertedIs
<1>3. new.root = open.root /\ new.nodes = nodes
  BY <1>2
<1>4. ~ Full(open.nodes[open.root])
  BY <1>1, OpenedTree
<1>5. Rearranged(tree.nodes, open.nodes)
  BY OpenedHolds
<1>6. PICK f, P : Rooted(open.nodes, f, P, open.root)
  BY OpenedHolds
<1>7. ~ HasKey(open.nodes, key)
  BY <1>5 DEF Rearranged
<1> HIDE DEF open, new
<1>8. PICK g, Q : Rooted(nodes, g, Q, open.root) /\ Added(open.nodes, nodes, key, ptr)
  BY <1>4, <1>6, <1>7, NonfullHolds
<1> HIDE DEF nodes
<1>9. Added(tree.nodes, nodes, key, ptr)
  BY <1>5, <1>8 DEF Added, Rearranged
<1>10. IsTree(nodes, g) /\ open.root \in 1 .. Len(nodes)
  BY <1>8 DEF Rooted, Ranged
<1>11. IsIndex(new, g)
  BY <1>2, <1>3, <1>10 DEF IsIndex
<1>12. SearchTree(new, g, Q)
  BY <1>3, <1>8, <1>11 DEF SearchTree
<1> QED
  BY <1>3, <1>9, <1>12 DEF new

\* No insertion raises.
LEMMA InsertFits ==
    ASSUME KeysAreEstimated, NEW tree, NEW h, IsIndex(tree, h), NEW key \in Key, NEW ptr \in RowId
    PROVE  ~ Raises(tree, key, ptr)
<1> DEFINE open == Opened(tree)
<1> SUFFICES ASSUME NEW at \in Reached(open.nodes, open.root, key)
             PROVE  Fits(LongerLeaf(at.nodes[at.page], key, ptr))
  BY DEF Raises
<1>1. PICK f : IsIndex(open, f)
  BY OpenedTree
<1>2. ~ Full(open.nodes[open.root])
  BY OpenedTree
<1>3. key \in Int
  BY KeysAreOrdered
<1>4. Way([nodes |-> open.nodes, page |-> open.root], f, Len(open.nodes))
  <2>1. IsTree(open.nodes, f) /\ open.root \in 1 .. Len(open.nodes)
    BY <1>1 DEF IsIndex
  <2>2. f[open.root] < Len(open.nodes) /\ f[open.root] \in Nat /\ Len(open.nodes) \in Nat
    BY <2>1, TreeNodes
  <2> HIDE DEF open
  <2> QED
    BY <1>2, <2>1, <2>2 DEF Way
<1> HIDE DEF open
<1>5. PICK g : Way(at, g, 0)
  BY <1>3, <1>4, LeafReached
<1> DEFINE leaf == at.nodes[at.page]
           l == Len(at.nodes)
<1>6. leaf.leaf /\ ~ Full(leaf) /\ l \in Nat /\ leaf \in Shaped(l)
  BY <1>5, LeafAtTheEnd
<1> HIDE DEF leaf, l
<1>7. LongerLeaf(leaf, key, ptr) \in Shaped(l)
  BY <1>6, LeafGrows
<1> QED
  BY <1>6, <1>7, ShapedFits DEF NodeOK, leaf

\* Search and delete look at the one leaf that the key leads to.
LEMMA LeafHolds ==
    ASSUME NEW tree, NEW h, NEW R, SearchTree(tree, h, R), NEW key \in Int
    PROVE  /\ LeafFor(tree.nodes, tree.root, key) \in 1 .. Len(tree.nodes)
           /\ tree.nodes[LeafFor(tree.nodes, tree.root, key)].leaf
           /\ \A n \in 1 .. Len(tree.nodes) : \A p :
                EntryIn(tree.nodes[n], key, p) => n = LeafFor(tree.nodes, tree.root, key)
<1> DEFINE nodes == tree.nodes
           page == LeafFor(nodes, tree.root, key)
           G == {n \in 1 .. Len(nodes) : key \in R[n]}
<1>1. Ranged(nodes, h, R) /\ IsTree(nodes, h) /\ tree.root \in 1 .. Len(nodes) /\ R[tree.root] = Int
  BY DEF SearchTree, Rooted, Ranged
<1> HIDE DEF nodes
<1>2. \A n \in G : ~ nodes[n].leaf => nodes[n].ptrs[Position(nodes[n], key)] \in G
  BY <1>1, ChildHasKey
<1>3. G \subseteq 1 .. Len(nodes) /\ tree.root \in G
  BY <1>1
<1>4. page \in G /\ nodes[page].leaf
  <2> HIDE DEF G
  <2> QED
    BY <1>1, <1>2, <1>3, LeafForIs
<1>5. ASSUME NEW n \in 1 .. Len(nodes), NEW p, EntryIn(nodes[n], key, p)
      PROVE  n = page
  <2>1. nodes[n].leaf /\ KeyIn(nodes[n], key)
    BY <1>5 DEF EntryIn, KeyIn
  <2>2. key \in R[n]
    BY <1>1, <2>1 DEF Ranged, Owned, KeyIn
  <2>3. h[n] = 0 /\ h[page] = 0
    BY <1>1, <1>4, <2>1 DEF IsTree, Lowers
  <2>4. key \in R[page] /\ page \in 1 .. Len(nodes)
    BY <1>4
  <2> HIDE DEF page
  <2> QED
    BY <1>1, <2>2, <2>3, <2>4 DEF Ranged
<1> QED
  BY <1>4, <1>5 DEF nodes

\* search returns the addresses that the tree has for the key.
LEMMA SearchHolds ==
    ASSUME NEW tree, NEW h, NEW R, SearchTree(tree, h, R), NEW key \in Int, NEW p
    PROVE  p \in Search(tree, key) <=> HasEntry(tree.nodes, key, p)
<1> DEFINE page == LeafFor(tree.nodes, tree.root, key)
           node == tree.nodes[page]
           l == Len(tree.nodes)
<1>1. /\ page \in 1 .. l /\ node.leaf
      /\ \A n \in 1 .. l : \A q : EntryIn(tree.nodes[n], key, q) => n = page
  BY LeafHolds
<1>2. DOMAIN node.keys = 1 .. Len(node.keys)
  <2>1. node \in Shaped(l) /\ l \in Nat
    BY <1>1, TreeNodes DEF SearchTree, IsIndex
  <2> HIDE DEF node
  <2> QED
    BY <2>1, NodeParts
<1>3. p \in Search(tree, key) <=> \E i \in DOMAIN node.keys : node.keys[i] = key /\ node.ptrs[i] = p
  BY DEF Search
<1> HIDE DEF page, l
<1>4. p \in Search(tree, key) <=> EntryIn(node, key, p)
  BY <1>1, <1>2, <1>3 DEF EntryIn
<1>5. HasEntry(tree.nodes, key, p) <=> EntryIn(node, key, p)
  BY <1>1 DEF HasEntry, l
<1> QED
  BY <1>4, <1>5

\* A leaf without the entry has the others it had.
LEMMA ShorterHolds ==
    ASSUME NEW n \in Nat, NEW leaf \in Shaped(n), leaf.leaf, NEW key, NEW ptr, NEW r, Owned(leaf, r)
    PROVE  /\ Owned(ShorterLeaf(leaf, key, ptr), r)
           /\ \A k, p : EntryIn(ShorterLeaf(leaf, key, ptr), k, p)
                          <=> EntryIn(leaf, k, p) /\ ~ (k = key /\ p = ptr)
           /\ \A k : KeyIn(ShorterLeaf(leaf, key, ptr), k) => KeyIn(leaf, k)
<1> DEFINE short == ShorterLeaf(leaf, key, ptr)
           kept == Without(leaf, key, ptr)
           l == Len(leaf.keys)
<1>1. /\ short.leaf /\ KeptOf(kept, leaf, key, ptr, l)
      /\ Len(short.keys) = Len(kept)
      /\ \A i \in 1 .. Len(kept) : /\ short.keys[i] = leaf.keys[kept[i]]
                                   /\ short.ptrs[i] = leaf.ptrs[kept[i]]
  BY LeafShrinks
<1> HIDE DEF short, kept
<1>2. /\ kept \in Seq(1 .. l)
      /\ \A i, j \in 1 .. Len(kept) : i < j => kept[i] < kept[j]
      /\ \A j \in 1 .. l : ~ (leaf.keys[j] = key /\ leaf.ptrs[j] = ptr)
                             <=> \E i \in 1 .. Len(kept) : kept[i] = j
  BY <1>1, Zenon DEF KeptOf
<1>3. \A i \in 1 .. Len(kept) : kept[i] \in 1 .. l
  BY <1>2, SMTT(60)
<1> HIDE DEF l
<1>4. Sorted(short)
  <2> SUFFICES ASSUME NEW i \in 1 .. Len(kept), NEW j \in 1 .. Len(kept), i < j
               PROVE  short.keys[i] < short.keys[j]
    BY <1>1 DEF Sorted
  <2>1. kept[i] < kept[j] /\ kept[i] \in 1 .. l /\ kept[j] \in 1 .. l
    BY <1>2, <1>3
  <2>2. leaf.keys[kept[i]] < leaf.keys[kept[j]]
    BY <2>1 DEF Owned, Sorted, l
  <2> QED
    BY <1>1, <2>2
<1>5. Owned(short, r)
  <2>1. \A j \in 1 .. l : leaf.keys[j] \in r
    BY DEF Owned, l
  <2> QED
    BY <1>1, <1>3, <1>4, <2>1 DEF Owned
<1>6. ASSUME NEW k, KeyIn(short, k) PROVE KeyIn(leaf, k)
  BY <1>1, <1>3, <1>6, SMTT(60) DEF KeyIn, l
<1>7. ASSUME NEW k, NEW p
      PROVE  EntryIn(short, k, p) <=> EntryIn(leaf, k, p) /\ ~ (k = key /\ p = ptr)
  <2>1. EntryIn(short, k, p) <=>
          \E i \in 1 .. Len(kept) : leaf.keys[kept[i]] = k /\ leaf.ptrs[kept[i]] = p
    BY <1>1, SMTT(60) DEF EntryIn
  <2>2. EntryIn(leaf, k, p) <=> \E j \in 1 .. l : leaf.keys[j] = k /\ leaf.ptrs[j] = p
    BY DEF EntryIn, l
  <2>3. EntryIn(short, k, p) => EntryIn(leaf, k, p) /\ ~ (k = key /\ p = ptr)
    <3> SUFFICES ASSUME EntryIn(short, k, p) PROVE EntryIn(leaf, k, p) /\ ~ (k = key /\ p = ptr)
      OBVIOUS
    <3>1. PICK i \in 1 .. Len(kept) : leaf.keys[kept[i]] = k /\ leaf.ptrs[kept[i]] = p
      BY <2>1
    <3>2. kept[i] \in 1 .. l
      BY <1>3
    <3>3. ~ (leaf.keys[kept[i]] = key /\ leaf.ptrs[kept[i]] = ptr)
      BY <1>2, <3>2
    <3> QED
      BY <2>2, <3>1, <3>2, <3>3
  <2>4. EntryIn(leaf, k, p) /\ ~ (k = key /\ p = ptr) => EntryIn(short, k, p)
    BY <1>2, <2>1, <2>2
  <2> QED
    BY <2>3, <2>4
<1> QED
  BY <1>5, <1>6, <1>7 DEF short

\* One entry less, and no new key.
Removed(nodes, new, key, ptr) ==
    /\ \A k : HasKey(new, k) => HasKey(nodes, k)
    /\ \A k, p : HasEntry(new, k, p) <=> HasEntry(nodes, k, p) /\ ~ (k = key /\ p = ptr)

\* delete removes the entry, and the tree can still be searched.
LEMMA DeleteHolds ==
    ASSUME NEW tree, NEW h, NEW R, SearchTree(tree, h, R), NEW key \in Int, NEW ptr
    PROVE  /\ SearchTree(DeleteKey(tree, key, ptr), h, R)
           /\ Removed(tree.nodes, DeleteKey(tree, key, ptr).nodes, key, ptr)
<1> DEFINE nodes == tree.nodes
           page == LeafFor(nodes, tree.root, key)
           leaf == nodes[page]
           short == ShorterLeaf(leaf, key, ptr)
           new == [nodes EXCEPT ![page] = short]
           next == DeleteKey(tree, key, ptr)
           l == Len(nodes)
<1>1. IsIndex(tree, h) /\ Rooted(nodes, h, R, tree.root) /\ IsTree(nodes, h)
  BY DEF SearchTree, IsIndex
<1>2. /\ page \in 1 .. l /\ leaf.leaf
      /\ next = [root |-> tree.root, nodes |-> new]
  BY <1>1, DeleteIs
<1>3. next.root = tree.root /\ next.nodes = new
  BY <1>2
<1>4. IsIndex(next, h)
  BY <1>1, DeleteTree
<1>5. \A n \in 1 .. l : \A q : EntryIn(nodes[n], key, q) => n = page
  BY LeafHolds
<1>6. leaf \in Shaped(l) /\ l \in Nat
  BY <1>1, <1>2, TreeNodes
<1>7. Owned(leaf, R[page])
  BY <1>1, <1>2, RangedParts DEF Rooted
<1>8. short \in Shaped(l) /\ short.leaf
  <2> HIDE DEF leaf, l
  <2> QED
    BY <1>2, <1>6, LeafShrinks
<1>9. /\ Owned(short, R[page])
      /\ \A k, p : EntryIn(short, k, p) <=> EntryIn(leaf, k, p) /\ ~ (k = key /\ p = ptr)
      /\ \A k : KeyIn(short, k) => KeyIn(leaf, k)
  <2> HIDE DEF leaf, l, page
  <2> QED
    BY <1>2, <1>6, <1>7, ShorterHolds
<1> HIDE DEF short, l, page, next
<1>10. Rooted(new, h, R, tree.root)
  BY <1>1, <1>2, <1>8, <1>9, WriteRanged, SMTT(60) DEF l
<1>11. ASSUME NEW k, NEW p
       PROVE  /\ HasEntry(new, k, p) <=> EntryIn(short, k, p)
                                           \/ \E n \in 1 .. l : n # page /\ EntryIn(nodes[n], k, p)
              /\ HasKey(new, k) <=> KeyIn(short, k) \/ \E n \in 1 .. l : n # page /\ KeyIn(nodes[n], k)
  BY <1>1, <1>2, WriteHolds DEF l
<1>12. ASSUME NEW k, NEW p
       PROVE  /\ HasEntry(nodes, k, p) <=> EntryIn(leaf, k, p)
                                           \/ \E n \in 1 .. l : n # page /\ EntryIn(nodes[n], k, p)
              /\ HasKey(nodes, k) <=> KeyIn(leaf, k) \/ \E n \in 1 .. l : n # page /\ KeyIn(nodes[n], k)
  BY <1>2 DEF HasEntry, HasKey, l
<1> HIDE DEF new, leaf, nodes
<1>13. ASSUME NEW k, HasKey(new, k) PROVE HasKey(nodes, k)
  BY <1>9, <1>11, <1>12, <1>13
<1>14. ASSUME NEW k, NEW p PROVE HasEntry(new, k, p) <=> HasEntry(nodes, k, p) /\ ~ (k = key /\ p = ptr)
  <2>1. CASE k = key
    <3>1. ~ \E n \in 1 .. l : n # page /\ EntryIn(nodes[n], k, p)
      BY <1>5, <2>1
    <3> QED
      BY <1>9, <1>11, <1>12, <3>1
  <2>2. CASE k # key
    BY <1>9, <1>11, <1>12, <2>2
  <2> QED
    BY <2>1, <2>2
<1>15. Removed(nodes, new, key, ptr)
  BY <1>13, <1>14 DEF Removed
<1>16. SearchTree(next, h, R)
  BY <1>3, <1>4, <1>10 DEF SearchTree
<1> QED
  BY <1>3, <1>15, <1>16 DEF next, nodes

\* A key that search does not find is in the tree only where it parts children.
LEMMA KeyIsNew ==
    ASSUME NEW tree, NEW h, NEW R, SearchTree(tree, h, R), NEW key \in Int, Search(tree, key) = {},
           \A n \in 1 .. Len(tree.nodes) : ~ tree.nodes[n].leaf => ~ KeyIn(tree.nodes[n], key)
    PROVE  ~ HasKey(tree.nodes, key)
<1> SUFFICES ASSUME HasKey(tree.nodes, key) PROVE FALSE
  OBVIOUS
<1>1. PICK n \in 1 .. Len(tree.nodes) : KeyIn(tree.nodes[n], key)
  BY DEF HasKey
<1>2. tree.nodes[n].leaf
  BY <1>1
<1>3. \E p : EntryIn(tree.nodes[n], key, p)
  BY <1>1, <1>2 DEF KeyIn, EntryIn
<1>4. \E p : HasEntry(tree.nodes, key, p)
  BY <1>3 DEF HasEntry
<1> QED
  BY <1>4, SearchHolds

\* The tree of a new index can be searched; there is nothing in it.
LEMMA EmptyHolds ==
    /\ \E h, R : SearchTree(EmptyTree, h, R)
    /\ \A k : ~ HasKey(EmptyTree.nodes, k)
    /\ \A k, p : ~ HasEntry(EmptyTree.nodes, k, p)
<1> DEFINE h == [n \in 1 .. 1 |-> 0]
           R == [n \in 1 .. 1 |-> Int]
           leaf == Leaf(<<>>, <<>>)
           nodes == EmptyTree.nodes
<1>1. IsIndex(EmptyTree, h) /\ IsTree(nodes, h)
  BY EmptyIsTree DEF IsIndex
<1>2. /\ EmptyTree.root = 1 /\ Len(nodes) = 1 /\ nodes[1].leaf /\ Len(nodes[1].keys) = 0
  BY DEF EmptyTree, Leaf
<1>3. h[1] = 0 /\ R[1] = Int /\ R \in [1 .. 1 -> SUBSET Int]
  OBVIOUS
<1>4. \A n \in 1 .. 1 : n = 1
  OBVIOUS
<1> HIDE DEF h, R, nodes
<1>5. Owned(nodes[1], R[1])
  BY <1>2 DEF Owned, Sorted
<1>6. Ranged(nodes, h, R)
  BY <1>1, <1>2, <1>3, <1>4, <1>5 DEF Ranged
<1>7. Rooted(nodes, h, R, 1)
  BY <1>2, <1>3, <1>4, <1>6 DEF Rooted
<1>8. SearchTree(EmptyTree, h, R)
  BY <1>1, <1>2, <1>7 DEF SearchTree, nodes
<1>9. ASSUME NEW k PROVE ~ HasKey(nodes, k)
  BY <1>2, <1>4 DEF HasKey, KeyIn
<1>10. ASSUME NEW k, NEW p PROVE ~ HasEntry(nodes, k, p)
  BY <1>2, <1>4 DEF HasEntry, EntryIn
<1> QED
  BY <1>8, <1>9, <1>10 DEF nodes
=============================================================================
