---------------------------- MODULE SelectProofs ----------------------------
(***************************************************************************)
(* Proofs about Select: for expressions, tables and lists of any size.     *)
(***************************************************************************)
EXTENDS Select, FiniteSetTheorems, SequenceTheorems, WellFoundedInduction, NaturalsInduction, TLAPS

-----------------------------------------------------------------------------
(* Induction.                                                              *)

\* A set of natural numbers has a smallest element.
LEMMA SmallestOf ==
    ASSUME NEW T \in SUBSET Nat, T # {}
    PROVE  \E x \in T : \A y \in T : x <= y
<1>1. \A x, y \in Nat : y < x => <<y, x>> \in OpToRel(<, Nat)
  BY DEF OpToRel
<1>2. \E R : IsWellFoundedOn(R, Nat) /\ \A x, y \in Nat : y < x => <<y, x>> \in R
  BY <1>1, NatLessThanWellFounded, Zenon
<1>3. PICK R : IsWellFoundedOn(R, Nat) /\ \A x, y \in Nat : y < x => <<y, x>> \in R
  BY <1>2
<1>4. \E x \in T : \A y \in T : ~ (<<y, x>> \in R)
  BY <1>3, WFMin, Zenon
<1>5. PICK x \in T : \A y \in T : ~ (<<y, x>> \in R)
  BY <1>4
<1>6. ASSUME NEW y \in T PROVE x <= y
  <2>1. ~ (y < x)
    BY <1>3, <1>5, Zenon
  <2> QED
    BY <2>1
<1> QED
  BY <1>6

\* A set with 0 and every successor has every natural number.
LEMMA EveryNumber ==
    ASSUME NEW S, 0 \in S, \A n \in Nat : n \in S => n + 1 \in S
    PROVE  \A n \in Nat : n \in S
<1> SUFFICES ASSUME Nat \ S # {} PROVE FALSE
  OBVIOUS
<1>1. PICK x \in Nat \ S : \A y \in Nat \ S : x <= y
  BY SmallestOf
<1>2. x # 0 /\ x - 1 \in Nat /\ x - 1 \notin Nat \ S
  BY <1>1
<1> QED
  BY <1>1, <1>2

-----------------------------------------------------------------------------
(* Ranks.                                                                  *)

StrictOrder(R, S) ==
    /\ \A x \in S : <<x, x>> \notin R
    /\ \A x, y, z \in S : <<x, y>> \in R /\ <<y, z>> \in R => <<x, z>> \in R
    /\ \A x, y \in S : x # y => <<x, y>> \in R \/ <<y, x>> \in R

Preceding(R, S, x) == {y \in S : <<y, x>> \in R}
Rank(R, S, x) == Cardinality(Preceding(R, S, x))

\* Who comes before another has the smaller rank.
LEMMA RankGrows ==
    ASSUME NEW S, IsFiniteSet(S), NEW R, StrictOrder(R, S), NEW x \in S, NEW y \in S
    PROVE  /\ Rank(R, S, x) \in 0 .. Cardinality(S) - 1
           /\ <<x, y>> \in R <=> Rank(R, S, x) < Rank(R, S, y)
<1> DEFINE Before(z) == Preceding(R, S, z)
<1>0. \A z \in S : z \notin Before(z) /\ Before(z) \subseteq S
  BY DEF StrictOrder, Preceding
<1>1. \A z \in S : IsFiniteSet(Before(z)) /\ Cardinality(Before(z)) \in Nat
  <2> SUFFICES ASSUME NEW z \in S PROVE IsFiniteSet(Before(z)) /\ Cardinality(Before(z)) \in Nat
    OBVIOUS
  <2>1. IsFiniteSet(Before(z))
    BY <1>0, FS_Subset
  <2> QED
    BY <2>1, FS_CardinalityType
<1>2. Cardinality(S) \in Nat
  BY FS_CardinalityType
<1>3. ASSUME NEW u \in S, NEW v \in S, <<u, v>> \in R
      PROVE  Cardinality(Before(u)) < Cardinality(Before(v))
  <2>1. Before(u) \subseteq Before(v) /\ u \in Before(v) /\ u \notin Before(u)
    BY <1>0, <1>3 DEF StrictOrder, Preceding
  <2> HIDE DEF Before
  <2>2. /\ Cardinality(Before(u)) <= Cardinality(Before(v))
        /\ Cardinality(Before(u)) = Cardinality(Before(v)) => Before(u) = Before(v)
    <3>1. IsFiniteSet(Before(v)) /\ Before(u) \in SUBSET Before(v)
      BY <1>1, <2>1
    <3>2. /\ Cardinality(Before(u)) <= Cardinality(Before(v))
          /\ Cardinality(Before(v)) = Cardinality(Before(u)) => Before(v) = Before(u)
      BY <3>1, FS_Subset
    <3> QED
      BY <3>2
  <2> QED
    BY <1>1, <2>1, <2>2
<1>4. Rank(R, S, x) < Cardinality(S)
  <2>1. x \notin Before(x) /\ Before(x) \in SUBSET S
    BY <1>0
  <2> HIDE DEF Before
  <2>2. /\ Cardinality(Before(x)) <= Cardinality(S)
        /\ Cardinality(S) = Cardinality(Before(x)) => S = Before(x)
    BY <2>1, FS_Subset
  <2>3. Cardinality(Before(x)) < Cardinality(S)
    BY <1>1, <1>2, <2>1, <2>2
  <2> QED
    BY <2>3 DEF Rank, Before
<1>5. ASSUME Rank(R, S, x) < Rank(R, S, y) PROVE <<x, y>> \in R
  <2>1. CASE x = y
    BY <1>1, <1>5, <2>1 DEF Rank
  <2>2. CASE <<y, x>> \in R
    <3>1. Cardinality(Before(y)) < Cardinality(Before(x))
      BY <1>3, <2>2
    <3> HIDE DEF Before
    <3> QED
      BY <1>1, <1>5, <3>1 DEF Rank, Before
  <2> QED
    BY <2>1, <2>2 DEF StrictOrder
<1>6. ASSUME <<x, y>> \in R PROVE Rank(R, S, x) < Rank(R, S, y)
  BY <1>3, <1>6 DEF Rank
<1>7. Rank(R, S, x) \in Nat
  BY <1>1 DEF Rank
<1> QED
  BY <1>2, <1>4, <1>5, <1>6, <1>7

\* The ranks of n elements are the numbers below n, one for each of them.
LEMMA RanksAreNumbers ==
    ASSUME NEW S, IsFiniteSet(S), NEW R, StrictOrder(R, S)
    PROVE  /\ \A x, y \in S : Rank(R, S, x) = Rank(R, S, y) => x = y
           /\ \A i \in 0 .. Cardinality(S) - 1 : \E x \in S : Rank(R, S, x) = i
<1> DEFINE n == Cardinality(S)
           T == 0 .. n - 1
           f == [x \in S |-> Rank(R, S, x)]
<1>0. n \in Nat
  BY FS_CardinalityType
<1>1. \A x, y \in S : Rank(R, S, x) \in T /\ (<<x, y>> \in R <=> Rank(R, S, x) < Rank(R, S, y))
  BY RankGrows
<1>2. ASSUME NEW x \in S, NEW y \in S, Rank(R, S, x) = Rank(R, S, y) PROVE x = y
  <2>1. Rank(R, S, x) \in T /\ Rank(R, S, y) \in T
    BY <1>1
  <2> HIDE DEF n
  <2>2. Rank(R, S, x) \in Int /\ Rank(R, S, y) \in Int
    BY <1>0, <2>1
  <2>3. <<x, y>> \notin R /\ <<y, x>> \notin R
    BY <1>1, <1>2, <2>2
  <2> QED
    BY <2>3 DEF StrictOrder
<1>3. IsFiniteSet(T) /\ Cardinality(T) = n
  <2>1. IsFiniteSet(T) /\ Cardinality(T) = IF 0 > n - 1 THEN 0 ELSE n - 1 - 0 + 1
    BY <1>0, FS_Interval, SMTT(60)
  <2> QED
    BY <1>0, <2>1
<1>4. f \in Injection(S, T)
  BY <1>1, <1>2 DEF Injection, IsInjective
<1> HIDE DEF T, f
<1>5. f \in Surjection(S, T)
  <2>1. Cardinality(S) = Cardinality(T) <=> f \in Surjection(S, T)
    BY <1>3, <1>4, FS_Injection, Zenon
  <2> QED
    BY <1>3, <2>1
<1>6. ASSUME NEW i \in T PROVE \E x \in S : Rank(R, S, x) = i
  <2>1. PICK x \in S : f[x] = i
    BY <1>5 DEF Surjection, Range
  <2> QED
    BY <2>1 DEF f
<1> QED
  BY <1>2, <1>6 DEF T

\* A one-to-one map turns R into Q.
Maps(f, R, Q, S) ==
    f \in Bijection(S, S) /\ \A x, y \in S : <<x, y>> \in R <=> <<f[x], f[y]>> \in Q

\* Two orders that a one-to-one map turns into each other give the same ranks.
LEMMA RanksAreMapped ==
    ASSUME NEW S, IsFiniteSet(S), NEW R, NEW Q, NEW f, Maps(f, R, Q, S), StrictOrder(Q, S)
    PROVE  StrictOrder(R, S) /\ \A x \in S : Rank(R, S, x) = Rank(Q, S, f[x])
<1>1. /\ f \in [S -> S] /\ \A y \in S : \E x \in S : f[x] = y
      /\ \A x, y \in S : f[x] = f[y] => x = y
  BY DEF Maps, Bijection, Injection, IsInjective, Surjection
<1>0. \A x, y \in S : <<x, y>> \in R <=> <<f[x], f[y]>> \in Q
  BY DEF Maps
<1>2. StrictOrder(R, S)
  <2>1. \A x \in S : f[x] \in S
    BY <1>1
  <2>2. \A x \in S : <<x, x>> \notin R
    BY <1>0, <2>1 DEF StrictOrder
  <2>3. \A x, y, z \in S : <<x, y>> \in R /\ <<y, z>> \in R => <<x, z>> \in R
    BY <1>0, <2>1, ZenonT(60) DEF StrictOrder
  <2>4. \A x, y \in S : x # y => <<x, y>> \in R \/ <<y, x>> \in R
    BY <1>0, <1>1, <2>1 DEF StrictOrder
  <2> QED
    BY <2>2, <2>3, <2>4 DEF StrictOrder
<1>3. ASSUME NEW x \in S PROVE Rank(R, S, x) = Rank(Q, S, f[x])
  <2> DEFINE A == Preceding(R, S, x)
             B == Preceding(Q, S, f[x])
             g == [y \in A |-> f[y]]
  <2>1. /\ A \in SUBSET S /\ \A y \in A : f[y] \in B
        /\ \A z \in B : \E y \in A : f[y] = z
    BY <1>0, <1>1 DEF Preceding
  <2>2. IsFiniteSet(A)
    BY <2>1, FS_Subset
  <2> HIDE DEF A, B
  <2>3. g \in [A -> B] /\ \A y \in A : g[y] = f[y]
    BY <2>1
  <2> HIDE DEF g
  <2>4. g \in Bijection(A, B)
    <3>1. IsInjective(g)
      BY <1>1, <2>1, <2>3 DEF IsInjective
    <3>2. \A z \in B : \E y \in A : g[y] = z
      BY <2>1, <2>3
    <3> QED
      BY <2>3, <3>1, <3>2 DEF Bijection, Injection, Surjection
  <2>5. Cardinality(A) = Cardinality(B)
    BY <2>2, <2>4, FS_Bijection DEF ExistsBijection
  <2> QED
    BY <2>5 DEF A, B, Rank
<1> QED
  BY <1>2, <1>3

\* The places of the elements of a sorted list.
LEMMA PlaceIs ==
    ASSUME NEW n \in Nat, NEW R, StrictOrder(R, 1 .. n)
    PROVE  /\ [p \in 1 .. n |-> Rank(R, 1 .. n, p) + 1] \in Bijection(1 .. n, 1 .. n)
           /\ \A p \in 1 .. n : Rank(R, 1 .. n, p) \in Nat
           /\ \A p, q \in 1 .. n : Rank(R, 1 .. n, p) = Rank(R, 1 .. n, q) => p = q
<1> DEFINE D == 1 .. n
           f == [p \in D |-> Rank(R, D, p) + 1]
<1>1. IsFiniteSet(D) /\ Cardinality(D) = n
  <2>1. IsFiniteSet(D) /\ Cardinality(D) = IF 1 > n THEN 0 ELSE n - 1 + 1
    BY FS_Interval
  <2> QED
    BY <2>1
<1> HIDE DEF D
<1>2. /\ \A p \in D : Rank(R, D, p) \in 0 .. n - 1
      /\ \A p, q \in D : Rank(R, D, p) = Rank(R, D, q) => p = q
      /\ \A i \in 0 .. n - 1 : \E p \in D : Rank(R, D, p) = i
  <2>1. StrictOrder(R, D)
    BY DEF D
  <2>2. \A p \in D : Rank(R, D, p) \in 0 .. Cardinality(D) - 1
    BY <1>1, <2>1, RankGrows
  <2>3. /\ \A p, q \in D : Rank(R, D, p) = Rank(R, D, q) => p = q
        /\ \A i \in 0 .. Cardinality(D) - 1 : \E p \in D : Rank(R, D, p) = i
    BY <1>1, <2>1, RanksAreNumbers
  <2> QED
    BY <1>1, <2>2, <2>3
<1>3. \A p \in D : Rank(R, D, p) \in Int /\ Rank(R, D, p) + 1 \in D
  BY <1>2, SMTT(60) DEF D
<1>4. f \in [D -> D] /\ \A p \in D : f[p] = Rank(R, D, p) + 1
  BY <1>3
<1>5. f \in Bijection(D, D)
  <2> HIDE DEF f
  <2>1. ASSUME NEW p \in D, NEW q \in D, f[p] = f[q] PROVE p = q
    <3>1. Rank(R, D, p) + 1 = Rank(R, D, q) + 1
      BY <1>4, <2>1
    <3>2. Rank(R, D, p) = Rank(R, D, q)
      BY <1>3, <3>1
    <3> QED
      BY <1>2, <3>2
  <2>2. ASSUME NEW i \in D PROVE \E p \in D : f[p] = i
    <3>1. i - 1 \in 0 .. n - 1 /\ i \in Int /\ (i - 1) + 1 = i
      BY DEF D
    <3>2. PICK p \in D : Rank(R, D, p) = i - 1
      BY <1>2, <3>1
    <3> QED
      BY <1>4, <3>1, <3>2
  <2> QED
    BY <1>4, <2>1, <2>2 DEF Bijection, Injection, IsInjective, Surjection
<1>6. \A p \in D : Rank(R, D, p) \in Nat
  BY <1>2
<1> QED
  BY <1>2, <1>5, <1>6 DEF D

-----------------------------------------------------------------------------
(* Sorting.                                                                *)

Comparable == Int \cup {Null}
KeyValue(key, row) == Eval(key.expr, row)
Smaller(key, a, b) == IF key.desc THEN Below(b, a) ELSE Below(a, b)

\* The order of one pass over the list s.
PassOrder(s, key, n) ==
    {x \in (1 .. n) \X (1 .. n) :
        LET a == KeyValue(key, s[x[1]])
            b == KeyValue(key, s[x[2]])
        IN  Smaller(key, a, b) \/ (x[1] < x[2] /\ ~ Smaller(key, b, a))}

\* Among numbers and NULL, smaller is a strict order.
LEMMA SmallerOrders ==
    ASSUME NEW key
    PROVE  /\ \A a \in Comparable : ~ Smaller(key, a, a)
           /\ \A a, b \in Comparable : a # b => Smaller(key, a, b) \/ Smaller(key, b, a)
           /\ \A a, b, c \in Comparable : Smaller(key, a, b) /\ Smaller(key, b, c) => Smaller(key, a, c)
<1>1. /\ \A a \in Comparable : ~ Below(a, a)
      /\ \A a, b \in Comparable : a # b => Below(a, b) \/ Below(b, a)
      /\ \A a, b, c \in Comparable : Below(a, b) /\ Below(b, c) => Below(a, c)
  BY DEF Below, Comparable
<1> QED
  BY <1>1 DEF Smaller

\* The order of one pass is a strict total order of the positions.
LEMMA PassIsStrict ==
    ASSUME NEW n \in Nat, NEW s, NEW key, \A p \in 1 .. n : KeyValue(key, s[p]) \in Comparable
    PROVE  StrictOrder(PassOrder(s, key, n), 1 .. n)
<1> DEFINE v(p) == KeyValue(key, s[p])
           Lt(p, q) == Smaller(key, v(p), v(q))
           R == PassOrder(s, key, n)
<1>1. \A p, q \in 1 .. n : <<p, q>> \in R <=> Lt(p, q) \/ (p < q /\ ~ Lt(q, p))
  BY DEF PassOrder
<1>2. /\ \A p \in 1 .. n : ~ Lt(p, p)
      /\ \A p, q \in 1 .. n : v(p) # v(q) => Lt(p, q) \/ Lt(q, p)
      /\ \A p, q, r \in 1 .. n : Lt(p, q) /\ Lt(q, r) => Lt(p, r)
  BY SmallerOrders
<1>3. \A p, q, r \in 1 .. n : v(p) = v(q) => (Lt(p, r) <=> Lt(q, r)) /\ (Lt(r, p) <=> Lt(r, q))
  OBVIOUS
<1> HIDE DEF v, Lt, R
<1>4. \A p \in 1 .. n : <<p, p>> \notin R
  BY <1>1, <1>2
<1>5. \A p, q \in 1 .. n : p # q => <<p, q>> \in R \/ <<q, p>> \in R
  BY <1>1
<1>6. ASSUME NEW p \in 1 .. n, NEW q \in 1 .. n, NEW r \in 1 .. n, <<p, q>> \in R, <<q, r>> \in R
      PROVE  <<p, r>> \in R
  <2>1. CASE Lt(p, q) /\ Lt(q, r)
    BY <1>1, <1>2, <2>1
  <2>2. CASE Lt(p, q) /\ ~ Lt(q, r)
    <3>1. v(q) = v(r)
      BY <1>1, <1>2, <1>6, <2>2
    <3> QED
      BY <1>1, <1>3, <2>2, <3>1
  <2>3. CASE ~ Lt(p, q)
    <3>1. v(p) = v(q) /\ p < q
      BY <1>1, <1>2, <1>6, <2>3
    <3>2. CASE Lt(q, r)
      BY <1>1, <1>3, <3>1, <3>2
    <3>3. CASE ~ Lt(q, r)
      <4>1. q < r /\ ~ Lt(r, q)
        BY <1>1, <1>6, <3>3
      <4>2. p < r /\ ~ Lt(r, p)
        BY <1>3, <3>1, <4>1
      <4> QED
        BY <1>1, <4>2
    <3> QED
      BY <3>2, <3>3
  <2> QED
    BY <2>1, <2>2, <2>3
<1> QED
  BY <1>4, <1>5, <1>6 DEF StrictOrder, R

\* What Sorted returns: every row at the place its rank gives it.
LEMMA SortedIs ==
    ASSUME NEW n \in Nat, NEW s, DOMAIN s = 1 .. n, NEW key,
           \A p \in 1 .. n : KeyValue(key, s[p]) \in Comparable
    PROVE  /\ Sorted(s, key) = [i \in 1 .. n |-> Sorted(s, key)[i]]
           /\ \A p \in 1 .. n : Sorted(s, key)[Rank(PassOrder(s, key, n), 1 .. n, p) + 1] = s[p]
<1> DEFINE D == 1 .. n
           R == PassOrder(s, key, n)
           v(p) == Eval(key.expr, s[p])
           Less(q, p) == IF key.desc THEN Below(v(p), v(q)) ELSE Below(v(q), v(p))
           Ahead(p) == {q \in DOMAIN s : Less(q, p) \/ (Earlier(q, p) /\ ~ Less(p, q))}
           t == [i \in DOMAIN s |-> s[CHOOSE p \in DOMAIN s : Cardinality(Ahead(p)) = i - 1]]
<1>1. Sorted(s, key) = t
  BY DEF Sorted
<1>2. \A p \in D : Ahead(p) = Preceding(R, D, p)
  BY DEF Preceding, PassOrder, KeyValue, Smaller, Earlier
<1>3. StrictOrder(R, D)
  BY PassIsStrict
<1> HIDE DEF D, R, Ahead
<1>4. ASSUME NEW p \in D PROVE t[Rank(R, D, p) + 1] = s[p]
  <2>1. /\ [q \in D |-> Rank(R, D, q) + 1] \in Bijection(D, D)
        /\ Rank(R, D, p) \in Nat
        /\ \A q \in D : Rank(R, D, q) = Rank(R, D, p) => q = p
    BY <1>3, PlaceIs DEF D
  <2>2. Rank(R, D, p) + 1 \in D
    BY <2>1 DEF Bijection, Injection
  <2>3. \A q \in D : Cardinality(Ahead(q)) = (Rank(R, D, p) + 1) - 1 <=> q = p
    BY <1>2, <2>1 DEF Rank
  <2>4. (CHOOSE q \in D : Cardinality(Ahead(q)) = (Rank(R, D, p) + 1) - 1) = p
    BY <2>3
  <2> QED
    BY <2>2, <2>4 DEF D
<1> QED
  BY <1>1, <1>4 DEF D, R

\* The order by the keys from the m-th on: the first of them that tells two
\* rows apart counts, and the rows' places if there is none.
Apart(s, order, m, p, q) ==
    {k \in DOMAIN order : k >= m /\ KeyValue(order[k], s[p]) # KeyValue(order[k], s[q])}
Comes(s, order, m, p, q) ==
    LET first == Min(Apart(s, order, m, p, q))
    IN  IF Apart(s, order, m, p, q) = {} THEN p < q
        ELSE Smaller(order[first], KeyValue(order[first], s[p]), KeyValue(order[first], s[q]))
KeyOrder(s, order, m, n) == {x \in (1 .. n) \X (1 .. n) : Comes(s, order, m, x[1], x[2])}

\* One more key in front.
LEMMA ComesNext ==
    ASSUME NEW s, NEW order, NEW k \in Nat, DOMAIN order = 1 .. k, NEW m \in 1 .. k, NEW p, NEW q,
           LET a == KeyValue(order[m], s[p])
               b == KeyValue(order[m], s[q])
           IN  a \in Comparable /\ b \in Comparable
    PROVE  LET a == KeyValue(order[m], s[p])
               b == KeyValue(order[m], s[q])
           IN  Comes(s, order, m, p, q) <=>
                Smaller(order[m], a, b) \/ (~ Smaller(order[m], b, a) /\ Comes(s, order, m + 1, p, q))
<1> DEFINE a == KeyValue(order[m], s[p])
           b == KeyValue(order[m], s[q])
           A == Apart(s, order, m, p, q)
           B == Apart(s, order, m + 1, p, q)
<1>1. /\ ~ Smaller(order[m], a, a)
      /\ a # b => Smaller(order[m], a, b) \/ Smaller(order[m], b, a)
      /\ ~ (Smaller(order[m], a, b) /\ Smaller(order[m], b, a))
  BY SmallerOrders, SMTT(60)
<1>2. CASE a = b
  <2>1. A = B
    BY <1>2 DEF Apart
  <2>2. Comes(s, order, m, p, q) <=> Comes(s, order, m + 1, p, q)
    <3> HIDE DEF A, B
    <3> QED
      BY <2>1, Zenon DEF Comes, A, B
  <2> HIDE DEF a, b, A, B
  <2> QED
    BY <1>1, <1>2, <2>2 DEF a, b
<1>3. CASE a # b
  <2>1. m \in A /\ \A k1 \in A : m <= k1
    BY <1>3 DEF Apart
  <2> HIDE DEF A
  <2>2. Min(A) = m
    <3>1. \A x \in A : x \in Int
      BY DEF A, Apart
    <3>2. \A x \in A : (\A y \in A : x <= y) <=> x = m
      BY <2>1, <3>1
    <3> QED
      BY <2>1, <3>2 DEF Min
  <2>3. A # {}
    BY <2>1
  <2>4. Comes(s, order, m, p, q) <=> Smaller(order[m], a, b)
    BY <2>2, <2>3 DEF Comes, A
  <2> HIDE DEF a, b
  <2> QED
    BY <1>1, <1>3, <2>4 DEF a, b
<1> QED
  BY <1>2, <1>3

\* The rows after n passes.
Passes(f, s, order, n) ==
    f = [i \in 0 .. n |-> IF i = 0 THEN s ELSE Sorted(f[i - 1], order[Len(order) - i + 1])]

\* The recursive function of SortedBy exists: as many passes as there are keys.
LEMMA PassesExist ==
    ASSUME NEW s, NEW order
    PROVE  \A n \in Nat : \E f : Passes(f, s, order, n)
<1> DEFINE On(x, i) == Sorted(x, order[Len(order) - i + 1])
           S == {n \in Nat : \E f : Passes(f, s, order, n)}
<1>1. 0 \in S
  <2> DEFINE f == [i \in 0 .. 0 |-> s]
  <2>1. f = [i \in 0 .. 0 |-> IF i = 0 THEN s ELSE On(f[i - 1], i)]
    <3>1. \A i \in 0 .. 0 : i = 0
      OBVIOUS
    <3> QED
      BY <3>1
  <2> QED
    BY <2>1 DEF Passes
<1>2. ASSUME NEW n \in Nat, n \in S PROVE n + 1 \in S
  <2>1. PICK f : Passes(f, s, order, n)
    BY <1>2
  <2>2. \A i \in 0 .. n : f[i] = IF i = 0 THEN s ELSE On(f[i - 1], i)
    <3>1. f = [i \in 0 .. n |-> IF i = 0 THEN s ELSE On(f[i - 1], i)]
      BY <2>1 DEF Passes
    <3> HIDE DEF On
    <3> QED
      BY <3>1
  <2> DEFINE g == [i \in 0 .. n + 1 |-> IF i <= n THEN f[i] ELSE On(f[n], n + 1)]
             h == [i \in 0 .. n + 1 |-> IF i = 0 THEN s ELSE On(g[i - 1], i)]
  <2> HIDE DEF On
  <2>3. ASSUME NEW i \in 0 .. n + 1 PROVE g[i] = h[i]
    <3>1. CASE i <= n
      <4>1. i = 0 \/ g[i - 1] = f[i - 1]
        BY <3>1
      <4>2. g[i] = f[i] /\ f[i] = IF i = 0 THEN s ELSE On(f[i - 1], i)
        BY <2>2, <3>1
      <4> QED
        BY <4>1, <4>2
    <3>2. CASE ~ (i <= n)
      <4>1. i = n + 1 /\ i - 1 = n /\ i # 0 /\ n <= n
        BY <3>2
      <4> QED
        BY <3>2, <4>1
    <3> QED
      BY <3>1, <3>2
  <2>4. g = h
    <3>1. DOMAIN g = DOMAIN h /\ g = [i \in 0 .. n + 1 |-> g[i]] /\ h = [i \in 0 .. n + 1 |-> h[i]]
      OBVIOUS
    <3> HIDE DEF g, h
    <3> QED
      BY <2>3, <3>1
  <2>5. Passes(g, s, order, n + 1)
    <3> HIDE DEF g
    <3> QED
      BY <2>4 DEF Passes, On
  <2> QED
    BY <2>5
<1> HIDE DEF S
<1>3. \A n \in Nat : n \in S
  BY <1>1, <1>2, EveryNumber
<1> QED
  BY <1>3 DEF S

\* The list t has the rows of s in the order of R.
InOrder(t, s, R, n) ==
    /\ t = [i \in 1 .. n |-> t[i]]
    /\ StrictOrder(R, 1 .. n)
    /\ \A p \in 1 .. n : t[Rank(R, 1 .. n, p) + 1] = s[p]

\* No key: the places.
LEMMA PlacesAreOrdered ==
    ASSUME NEW n \in Nat, NEW s, s = [i \in 1 .. n |-> s[i]],
           NEW R, \A p, q \in 1 .. n : <<p, q>> \in R <=> p < q
    PROVE  InOrder(s, s, R, n)
<1>1. StrictOrder(R, 1 .. n)
  BY DEF StrictOrder
<1>2. ASSUME NEW p \in 1 .. n PROVE Rank(R, 1 .. n, p) + 1 = p
  <2>1. Preceding(R, 1 .. n, p) = 1 .. p - 1
    BY DEF Preceding
  <2>2. Cardinality(1 .. p - 1) = IF 1 > p - 1 THEN 0 ELSE p - 1 - 1 + 1
    BY FS_Interval, SMTT(60)
  <2>3. Cardinality(1 .. p - 1) = p - 1
    BY <2>2
  <2> QED
    BY <2>1, <2>3 DEF Rank
<1> QED
  BY <1>1, <1>2 DEF InOrder

\* One pass more.
LEMMA PassOrders ==
    ASSUME NEW n \in Nat, NEW s, NEW t, NEW R, InOrder(t, s, R, n), NEW key, NEW Q,
           \A p \in 1 .. n : KeyValue(key, s[p]) \in Comparable,
           \A p, q \in 1 .. n : <<p, q>> \in Q <=>
                LET a == KeyValue(key, s[p])
                    b == KeyValue(key, s[q])
                IN  Smaller(key, a, b) \/ (~ Smaller(key, b, a) /\ <<p, q>> \in R)
    PROVE  InOrder(Sorted(t, key), s, Q, n)
<1> DEFINE D == 1 .. n
           f == [p \in D |-> Rank(R, D, p) + 1]
           O == PassOrder(t, key, n)
<1>1. IsFiniteSet(D)
  BY FS_Interval
<1>2. /\ f \in Bijection(D, D)
      /\ \A p \in D : Rank(R, D, p) \in Nat
  BY PlaceIs DEF InOrder
<1>3. /\ f \in [D -> D] /\ \A y \in D : \E x \in D : f[x] = y
  BY <1>2 DEF Bijection, Injection, Surjection
<1>4. \A p \in D : t[f[p]] = s[p]
  BY DEF InOrder
<1>5. DOMAIN t = D
  BY DEF InOrder
<1>6. \A p, q \in D : <<p, q>> \in R <=> f[p] < f[q]
  <2> SUFFICES ASSUME NEW p \in D, NEW q \in D PROVE <<p, q>> \in R <=> f[p] < f[q]
    OBVIOUS
  <2>1. <<p, q>> \in R <=> Rank(R, D, p) < Rank(R, D, q)
    <3> HIDE DEF D, f
    <3>1. StrictOrder(R, D)
      BY DEF InOrder, D
    <3> QED
      BY <1>1, <3>1, RankGrows
  <2>2. f[p] = Rank(R, D, p) + 1 /\ f[q] = Rank(R, D, q) + 1
    OBVIOUS
  <2> HIDE DEF f, D
  <2> QED
    BY <1>2, <2>1, <2>2
<1> HIDE DEF f
<1>7. \A i \in D : KeyValue(key, t[i]) \in Comparable
  BY <1>3, <1>4, ZenonT(60)
<1>8. StrictOrder(O, D)
  BY <1>7, PassIsStrict
<1>9. \A i, j \in D : <<i, j>> \in O <=>
        Smaller(key, KeyValue(key, t[i]), KeyValue(key, t[j]))
            \/ (i < j /\ ~ Smaller(key, KeyValue(key, t[j]), KeyValue(key, t[i])))
  BY DEF PassOrder
<1>10. \A p, q \in D : <<p, q>> \in Q <=> <<f[p], f[q]>> \in O
  <2> SUFFICES ASSUME NEW p \in D, NEW q \in D PROVE <<p, q>> \in Q <=> <<f[p], f[q]>> \in O
    OBVIOUS
  <2> HIDE DEF D, O
  <2>1. f[p] \in D /\ f[q] \in D /\ t[f[p]] = s[p] /\ t[f[q]] = s[q]
    BY <1>3, <1>4
  <2>2. <<f[p], f[q]>> \in O <=>
            Smaller(key, KeyValue(key, s[p]), KeyValue(key, s[q]))
                \/ (f[p] < f[q] /\ ~ Smaller(key, KeyValue(key, s[q]), KeyValue(key, s[p])))
    BY <1>9, <2>1
  <2> QED
    BY <1>6, <2>2 DEF D
<1>11. StrictOrder(Q, D) /\ \A p \in D : Rank(Q, D, p) = Rank(O, D, f[p])
  <2> HIDE DEF D, O
  <2>1. Maps(f, Q, O, D)
    BY <1>2, <1>10 DEF Maps
  <2> QED
    BY <1>1, <1>8, <2>1, RanksAreMapped
<1>12. /\ Sorted(t, key) = [i \in D |-> Sorted(t, key)[i]]
       /\ \A i \in D : Sorted(t, key)[Rank(O, D, i) + 1] = t[i]
  BY <1>5, <1>7, SortedIs
<1> HIDE DEF O
<1>13. \A p \in D : Sorted(t, key)[Rank(Q, D, p) + 1] = s[p]
  BY <1>3, <1>4, <1>11, <1>12, ZenonT(60)
<1> QED
  BY <1>11, <1>12, <1>13 DEF InOrder

\* What SortedBy returns: the rows in the order of all keys.
LEMMA SortedByIs ==
    ASSUME NEW n \in Nat, NEW s, s = [i \in 1 .. n |-> s[i]], NEW order, IsList(order),
           \A k \in DOMAIN order, p \in 1 .. n : KeyValue(order[k], s[p]) \in Comparable
    PROVE  InOrder(SortedBy(s, order), s, KeyOrder(s, order, 1, n), n)
<1> DEFINE l == Len(order)
           R(i) == KeyOrder(s, order, l - i + 1, n)
           S == {i \in Nat : i <= l => \A f : Passes(f, s, order, l) => InOrder(f[i], s, R(i), n)}
<1>1. l \in Nat /\ DOMAIN order = 1 .. l
  BY DEF IsList
<1>2. \A m \in Nat, p, q \in 1 .. n : <<p, q>> \in KeyOrder(s, order, m, n) <=> Comes(s, order, m, p, q)
  BY DEF KeyOrder
<1>3. 0 \in S
  <2> SUFFICES ASSUME NEW f, Passes(f, s, order, l) PROVE InOrder(f[0], s, R(0), n)
    OBVIOUS
  <2>1. f[0] = s
    BY <1>1 DEF Passes
  <2>2. \A p, q \in 1 .. n : Comes(s, order, l + 1, p, q) <=> p < q
    <3>1. \A p, q \in 1 .. n : Apart(s, order, l + 1, p, q) = {}
      BY <1>1 DEF Apart
    <3> QED
      BY <3>1, Zenon DEF Comes
  <2>3. l - 0 + 1 = l + 1 /\ l + 1 \in Nat
    BY <1>1
  <2>4. \A p, q \in 1 .. n : <<p, q>> \in R(0) <=> p < q
    BY <1>2, <2>2, <2>3
  <2> HIDE DEF R
  <2> QED
    BY <2>1, <2>4, PlacesAreOrdered
<1>4. ASSUME NEW i \in Nat, i \in S PROVE i + 1 \in S
  <2> SUFFICES ASSUME i + 1 <= l, NEW f, Passes(f, s, order, l) PROVE InOrder(f[i + 1], s, R(i + 1), n)
    OBVIOUS
  <2> DEFINE m == l - i
  <2>0. m \in 1 .. l /\ m \in Nat /\ m + 1 \in Nat /\ l - (i + 1) + 1 = m /\ l - i + 1 = m + 1
    BY <1>1, SMTT(60)
  <2>1. InOrder(f[i], s, KeyOrder(s, order, m + 1, n), n)
    BY <1>1, <1>4, <2>0, SMTT(60)
  <2>2. f[i + 1] = Sorted(f[i], order[m])
    <3>1. f = [j \in 0 .. l |-> IF j = 0 THEN s ELSE Sorted(f[j - 1], order[l - j + 1])]
      BY DEF Passes
    <3>2. i + 1 \in 0 .. l /\ i + 1 # 0 /\ (i + 1) - 1 = i
      BY <1>1, SMTT(60)
    <3> QED
      BY <2>0, <3>1, <3>2
  <2> HIDE DEF m
  <2>3. \A p \in 1 .. n : KeyValue(order[m], s[p]) \in Comparable
    BY <1>1, <2>0
  <2>4. ASSUME NEW p \in 1 .. n, NEW q \in 1 .. n
        PROVE  <<p, q>> \in KeyOrder(s, order, m, n) <=>
                LET a == KeyValue(order[m], s[p])
                    b == KeyValue(order[m], s[q])
                IN  Smaller(order[m], a, b)
                    \/ (~ Smaller(order[m], b, a) /\ <<p, q>> \in KeyOrder(s, order, m + 1, n))
    <3>1. <<p, q>> \in KeyOrder(s, order, m, n) <=> Comes(s, order, m, p, q)
      BY <1>2, <2>0
    <3>2. <<p, q>> \in KeyOrder(s, order, m + 1, n) <=> Comes(s, order, m + 1, p, q)
      BY <1>2, <2>0
    <3>3. Comes(s, order, m, p, q) <=>
            LET a == KeyValue(order[m], s[p])
                b == KeyValue(order[m], s[q])
            IN  Smaller(order[m], a, b) \/ (~ Smaller(order[m], b, a) /\ Comes(s, order, m + 1, p, q))
      <4> HIDE DEF l
      <4> QED
        BY <1>1, <2>0, <2>3, ComesNext, ZenonT(60)
    <3> QED
      BY <3>1, <3>2, <3>3
  <2>5. InOrder(Sorted(f[i], order[m]), s, KeyOrder(s, order, m, n), n)
    <3> HIDE DEF l
    <3> QED
      BY <2>1, <2>3, <2>4, PassOrders
  <2> QED
    BY <2>0, <2>2, <2>5
<1> HIDE DEF S
<1>5. \A i \in Nat : i \in S
  BY <1>3, <1>4, EveryNumber
<1>6. \E f : Passes(f, s, order, l)
  BY <1>1, PassesExist
<1>7. PICK f : Passes(f, s, order, l) /\ SortedBy(s, order) = f[l]
  BY <1>6, Zenon DEF Passes, SortedBy
<1>8. InOrder(f[l], s, R(l), n)
  BY <1>1, <1>5, <1>7 DEF S
<1>9. l - l + 1 = 1
  BY <1>1
<1> QED
  BY <1>7, <1>8, <1>9

\* How many places a part of a list has.
LEMMA PlacesIn ==
    ASSUME NEW n \in Nat, NEW R, StrictOrder(R, 1 .. n), NEW offset \in Nat, NEW last \in Int
    PROVE  Cardinality({p \in 1 .. n : Rank(R, 1 .. n, p) \in offset .. last - 1})
            = IF last <= offset \/ n <= offset THEN 0 ELSE IF last <= n THEN last - offset ELSE n - offset
<1> DEFINE D == 1 .. n
           A == {p \in D : Rank(R, D, p) \in offset .. last - 1}
           end == IF last <= n THEN last ELSE n
           T == offset .. end - 1
           g == [p \in A |-> Rank(R, D, p)]
<1>1. IsFiniteSet(D) /\ Cardinality(D) = n
  <2>1. IsFiniteSet(D) /\ Cardinality(D) = IF 1 > n THEN 0 ELSE n - 1 + 1
    BY FS_Interval
  <2> QED
    BY <2>1
<1>2. /\ \A p \in D : Rank(R, D, p) \in 0 .. n - 1
      /\ \A p, q \in D : Rank(R, D, p) = Rank(R, D, q) => p = q
      /\ \A i \in 0 .. n - 1 : \E p \in D : Rank(R, D, p) = i
  <2> HIDE DEF D
  <2>1. StrictOrder(R, D)
    BY DEF D
  <2>2. \A p \in D : Rank(R, D, p) \in 0 .. Cardinality(D) - 1
    BY <1>1, <2>1, RankGrows
  <2>3. /\ \A p, q \in D : Rank(R, D, p) = Rank(R, D, q) => p = q
        /\ \A i \in 0 .. Cardinality(D) - 1 : \E p \in D : Rank(R, D, p) = i
    BY <1>1, <2>1, RanksAreNumbers
  <2> QED
    BY <1>1, <2>2, <2>3
<1> HIDE DEF D
<1>3. A \in SUBSET D /\ \A p \in A : Rank(R, D, p) \in T
  BY <1>2
<1>4. \A i \in T : \E p \in A : Rank(R, D, p) = i
  <2> SUFFICES ASSUME NEW i \in T PROVE \E p \in A : Rank(R, D, p) = i
    OBVIOUS
  <2>1. i \in 0 .. n - 1 /\ i \in offset .. last - 1
    OBVIOUS
  <2>2. PICK p \in D : Rank(R, D, p) = i
    BY <1>2, <2>1
  <2> QED
    BY <2>1, <2>2
<1> HIDE DEF A, T
<1>5. g \in [A -> T] /\ \A p \in A : g[p] = Rank(R, D, p)
  BY <1>3
<1> HIDE DEF g
<1>6. g \in Bijection(A, T)
  <2>1. \A p, q \in A : g[p] = g[q] => p = q
    BY <1>2, <1>3, <1>5
  <2>2. \A i \in T : \E p \in A : g[p] = i
    BY <1>4, <1>5
  <2> QED
    BY <1>5, <2>1, <2>2 DEF Bijection, Injection, IsInjective, Surjection
<1>7. Cardinality(A) = Cardinality(T)
  <2>1. IsFiniteSet(A)
    BY <1>1, <1>3, FS_Subset
  <2> QED
    BY <1>6, <2>1, FS_Bijection DEF ExistsBijection
<1>8. Cardinality(T) = IF offset > end - 1 THEN 0 ELSE end - 1 - offset + 1
  <2>1. offset \in Int /\ end - 1 \in Int
    OBVIOUS
  <2> HIDE DEF end
  <2> QED
    BY <2>1, FS_Interval DEF T
<1> QED
  BY <1>7, <1>8 DEF A, D

\* The list out is the part of t from one place to before another.
PartOf(out, t, n, offset, last) ==
    /\ Len(out) =
        IF last <= offset \/ n <= offset THEN 0 ELSE IF last <= n THEN last - offset ELSE n - offset
    /\ \A i \in 1 .. n : i - 1 \in offset .. last - 1 => out[i - offset] = t[i]
LastOf(n, limit, offset) == IF limit = None THEN n ELSE offset + limit

\* What Limited returns: the part that LIMIT and OFFSET name.
LEMMA LimitedIs ==
    ASSUME NEW n \in Nat, NEW t, t = [i \in 1 .. n |-> t[i]], NEW offset \in Nat,
           NEW limit, limit = None \/ limit \in Nat
    PROVE  PartOf(Limited(t, limit, offset), t, n, offset, LastOf(n, limit, offset))
<1> DEFINE T == {t[i] : i \in 1 .. n}
           rest == SubSeq(t, offset + 1, Len(t))
           out == Limited(t, limit, offset)
           last == LastOf(n, limit, offset)
<1>0. Len(t) = n /\ \A i \in 1 .. n : t[i] \in T
  <2>1. DOMAIN t = 1 .. n
    OBVIOUS
  <2>2. t \in Seq(T)
    OBVIOUS
  <2> QED
    BY <2>1, <2>2
<1>1. /\ rest \in Seq(T)
      /\ Len(rest) = IF offset < n THEN n - offset ELSE 0
      /\ \A i \in 1 .. n - offset : rest[i] = t[offset + i]
  <2>1. \A i \in offset + 1 .. n : t[i] \in T
    BY <1>0
  <2>3. offset + 1 \in Int /\ n \in Int
    OBVIOUS
  <2> HIDE DEF T, rest
  <2> DEFINE m == offset + 1
             cut == SubSeq(t, m, n)
  <2>4. m \in Int /\ \A i \in m .. n : t[i] \in T
    BY <2>1, SMTT(60)
  <2>5. cut = rest
    BY <1>0 DEF rest
  <2> HIDE DEF m
  <2>2. /\ cut \in Seq(T)
        /\ Len(cut) = IF m <= n THEN n - m + 1 ELSE 0
        /\ \A i \in 1 .. n - m + 1 : cut[i] = t[m + i - 1]
    BY <2>3, <2>4, SubSeqProperties, SMTT(60)
  <2> HIDE DEF cut
  <2>6. ASSUME NEW i \in 1 .. n - offset PROVE rest[i] = t[offset + i]
    <3>1. i \in 1 .. n - m + 1 /\ m + i - 1 = offset + i
      BY DEF m
    <3> QED
      BY <2>2, <2>5, <3>1
  <2>7. Len(rest) = IF offset < n THEN n - offset ELSE 0
    BY <2>2, <2>5 DEF m
  <2> QED
    BY <2>2, <2>5, <2>6, <2>7
<1>2. Len(rest) \in Nat /\ rest \in Seq(T)
  BY <1>1
<1> HIDE DEF T, rest
<1>3. out = IF limit = None \/ limit > Len(rest) THEN rest ELSE SubSeq(rest, 1, limit)
  BY DEF Limited, rest
<1>6. last = IF limit = None THEN n ELSE offset + limit
  BY DEF LastOf
<1> HIDE DEF out, last
<1>4. CASE limit = None \/ limit > Len(rest)
  <2>1. out = rest
    BY <1>3, <1>4
  <2>2. ASSUME NEW i \in 1 .. n, i - 1 \in offset .. last - 1 PROVE out[i - offset] = t[i]
    <3>1. i - offset \in 1 .. n - offset /\ offset + (i - offset) = i
      BY <1>6, <2>2
    <3> QED
      BY <1>1, <2>1, <3>1
  <2>3. Len(out) = IF last <= offset \/ n <= offset THEN 0 ELSE IF last <= n THEN last - offset ELSE n - offset
    BY <1>1, <1>4, <1>6, <2>1
  <2> QED
    BY <2>2, <2>3 DEF PartOf, out, last
<1>5. CASE ~ (limit = None \/ limit > Len(rest))
  <2>1. limit \in Nat /\ limit <= Len(rest) /\ last = offset + limit
    BY <1>2, <1>5, <1>6
  <2>2. out = SubSeq(rest, 1, limit)
    BY <1>3, <1>5
  <2>3. /\ Len(out) = IF 1 <= limit THEN limit - 1 + 1 ELSE 0
        /\ \A i \in 1 .. limit - 1 + 1 : out[i] = rest[1 + i - 1]
    <3>1. \A i \in 1 .. limit : rest[i] \in T
      BY <1>2, <2>1
    <3> QED
      BY <2>1, <2>2, <3>1, SubSeqProperties, SMTT(60)
  <2>4. ASSUME NEW i \in 1 .. n, i - 1 \in offset .. last - 1 PROVE out[i - offset] = t[i]
    <3>1. /\ i - offset \in 1 .. limit - 1 + 1 /\ offset + (i - offset) = i
          /\ 1 + (i - offset) - 1 = i - offset /\ i - offset \in 1 .. n - offset
      BY <2>1, <2>4, SMTT(60)
    <3> QED
      BY <1>1, <2>3, <3>1, ZenonT(60)
  <2>5. (Len(out) = limit /\ limit <= n - offset) \/ limit = 0
    BY <1>1, <2>1, <2>3
  <2>6. Len(out) = IF last <= offset \/ n <= offset THEN 0 ELSE IF last <= n THEN last - offset ELSE n - offset
    BY <1>1, <2>1, <2>3, <2>5
  <2> QED
    BY <2>4, <2>6 DEF PartOf, out, last
<1> QED
  BY <1>4, <1>5

\* The rows that OrderRows passes on, of the rows it reads.
AnswerTo(query, s) ==
    Limited(IF query.order = None THEN s ELSE SortedBy(s, query.order),
            IF query.limit = None THEN None ELSE ValueOf[query.limit],
            IF query.offset = None THEN 0 ELSE ValueOf[query.offset])

\* The order the property states is the one the passes give.
LEMMA PrecedesIsComes ==
    ASSUME IsList(stmt.order), NEW p, NEW q
    PROVE  Precedes(p, q) <=> Comes(read, stmt.order, 1, p, q)
<1> DEFINE first == {k \in DOMAIN stmt.order : KeyAt(k, p) # KeyAt(k, q)}
           A == Apart(read, stmt.order, 1, p, q)
<1>1. DOMAIN stmt.order = 1 .. Len(stmt.order) /\ Len(stmt.order) \in Nat
  BY DEF IsList
<1>2. first = A
  BY <1>1 DEF KeyAt, KeyValue, Apart
<1>3. Precedes(p, q) <=>
        IF first = {} THEN p < q
        ELSE Smaller(stmt.order[Min(first)], KeyAt(Min(first), p), KeyAt(Min(first), q))
  BY DEF Precedes, Smaller
<1>4. Comes(read, stmt.order, 1, p, q) <=>
        IF A = {} THEN p < q
        ELSE Smaller(stmt.order[Min(A)], KeyAt(Min(A), p), KeyAt(Min(A), q))
  <2> HIDE DEF A
  <2> QED
    BY SMTT(60) DEF Comes, KeyAt, KeyValue, A
<1> HIDE DEF first, A
<1> QED
  BY <1>2, <1>3, <1>4

\* What AnswerIsOrdered says of the rows.
LEMMA AnswerOrdered ==
    ASSUME IsList(read), IsQuery(stmt), stmt.order # None, Sortable, rows = AnswerTo(stmt, read)
    PROVE  LET rank(p) == Cardinality({q \in DOMAIN read : q # p /\ Precedes(q, p)})
               offset == IF stmt.offset = None THEN 0 ELSE ValueOf[stmt.offset]
               last == IF stmt.limit = None THEN Len(read) ELSE offset + ValueOf[stmt.limit]
           IN  /\ Len(rows) = Cardinality({p \in DOMAIN read : rank(p) \in offset .. last - 1})
               /\ \A p \in DOMAIN read : rank(p) \in offset .. last - 1 => rows[rank(p) - offset + 1] = read[p]
<1> DEFINE n == Len(read)
           D == 1 .. n
           R == KeyOrder(read, stmt.order, 1, n)
           sorted == SortedBy(read, stmt.order)
           rank(p) == Cardinality({q \in DOMAIN read : q # p /\ Precedes(q, p)})
           offset == IF stmt.offset = None THEN 0 ELSE ValueOf[stmt.offset]
           limit == IF stmt.limit = None THEN None ELSE ValueOf[stmt.limit]
           last == IF stmt.limit = None THEN Len(read) ELSE offset + ValueOf[stmt.limit]
<1>1. n \in Nat /\ read = [i \in 1 .. n |-> read[i]] /\ DOMAIN read = D
  BY DEF IsList
<1>2. offset \in Nat /\ (limit = None <=> stmt.limit = None) /\ (limit = None \/ limit \in Nat)
  <2>1. None \notin Nat
    BY NoneAssumption
  <2> QED
    BY <2>1 DEF IsQuery
<1>3. InOrder(sorted, read, R, n)
  <2>1. \A k \in DOMAIN stmt.order, p \in 1 .. n : KeyValue(stmt.order[k], read[p]) \in Comparable
    BY <1>1 DEF Sortable, KeyAt, KeyValue, Comparable
  <2>2. IsList(stmt.order)
    BY DEF IsQuery
  <2> HIDE DEF n
  <2> QED
    BY <1>1, <2>1, <2>2, SortedByIs
<1>4. rows = Limited(sorted, limit, offset)
  BY DEF AnswerTo
<1>5. ASSUME NEW p \in D PROVE rank(p) = Rank(R, D, p)
  <2>1. \A q \in D : <<q, p>> \in R <=> Precedes(q, p)
    <3>1. IsList(stmt.order)
      BY DEF IsQuery
    <3>2. \A q : Precedes(q, p) <=> Comes(read, stmt.order, 1, q, p)
      BY <3>1, PrecedesIsComes
    <3> HIDE DEF n
    <3> QED
      BY <3>2 DEF KeyOrder
  <2>2. <<p, p>> \notin R
    BY <1>3 DEF InOrder, StrictOrder
  <2> HIDE DEF R, n
  <2>3. {q \in DOMAIN read : q # p /\ Precedes(q, p)} = Preceding(R, D, p)
    BY <1>1, <2>1, <2>2 DEF Preceding
  <2> QED
    BY <2>3 DEF Rank
<1> DEFINE end == LastOf(n, limit, offset)
<1>6. last = end /\ end \in Int
  BY <1>1, <1>2 DEF LastOf
<1> HIDE DEF n, R, sorted, rank, offset, limit, last, end
<1>7. /\ sorted = [i \in 1 .. n |-> sorted[i]]
      /\ StrictOrder(R, D)
      /\ \A p \in D : sorted[Rank(R, D, p) + 1] = read[p]
  BY <1>3 DEF InOrder
<1>8. /\ Len(rows) =
            IF last <= offset \/ n <= offset THEN 0 ELSE IF last <= n THEN last - offset ELSE n - offset
      /\ \A i \in 1 .. n : i - 1 \in offset .. last - 1 => rows[i - offset] = sorted[i]
  <2> DEFINE out == Limited(sorted, limit, offset)
  <2>1. PartOf(out, sorted, n, offset, LastOf(n, limit, offset))
    BY <1>1, <1>2, <1>7, LimitedIs, SMTT(60)
  <2>2. PartOf(out, sorted, n, offset, end)
    BY <2>1 DEF end
  <2> HIDE DEF out
  <2>3. rows = out
    BY <1>4 DEF out
  <2> QED
    BY <1>6, <2>2, <2>3 DEF PartOf
<1>9. Len(rows) = Cardinality({p \in D : Rank(R, D, p) \in offset .. last - 1})
  <2>1. last \in Int
    BY <1>6
  <2>2. Cardinality({p \in 1 .. n : Rank(R, 1 .. n, p) \in offset .. last - 1})
          = IF last <= offset \/ n <= offset THEN 0 ELSE IF last <= n THEN last - offset ELSE n - offset
    BY <1>1, <1>2, <1>7, <2>1, PlacesIn
  <2> QED
    BY <1>8, <2>2
<1>10. {p \in D : Rank(R, D, p) \in offset .. last - 1} = {p \in DOMAIN read : rank(p) \in offset .. last - 1}
  BY <1>1, <1>5
<1>11. ASSUME NEW p \in D, rank(p) \in offset .. last - 1 PROVE rows[rank(p) - offset + 1] = read[p]
  <2>1. Rank(R, D, p) + 1 \in D /\ Rank(R, D, p) \in Nat
    <3>1. /\ [q \in D |-> Rank(R, D, q) + 1] \in Bijection(D, D)
          /\ Rank(R, D, p) \in Nat
      BY <1>1, <1>7, PlaceIs
    <3> QED
      BY <3>1 DEF Bijection, Injection
  <2> DEFINE i == Rank(R, D, p) + 1
  <2>2. /\ i \in 1 .. n /\ i - 1 = rank(p) /\ i - 1 \in offset .. last - 1
        /\ i - offset = rank(p) - offset + 1
    BY <1>2, <1>5, <1>11, <2>1, SMTT(60)
  <2>3. rows[i - offset] = sorted[i]
    BY <1>8, <2>2
  <2>4. sorted[i] = read[p]
    BY <1>7
  <2> QED
    BY <2>2, <2>3, <2>4
<1> QED
  BY <1>1, <1>9, <1>10, <1>11 DEF rank, offset, last

-----------------------------------------------------------------------------
(* Lists.                                                                  *)

\* What has the elements of a list is a list.
LEMMA ListIs ==
    ASSUME NEW n \in Nat, NEW s, s = [i \in 1 .. n |-> s[i]]
    PROVE  IsList(s) /\ Len(s) = n
<1> DEFINE T == {s[i] : i \in 1 .. n}
<1>1. s \in Seq(T) /\ DOMAIN s = 1 .. n
  OBVIOUS
<1> HIDE DEF T
<1>2. Len(s) = n
  BY <1>1
<1> QED
  BY <1>2 DEF IsList

\* Lists, one after the other, are a list.
LEMMA ConcatIsList ==
    ASSUME NEW s, IsList(s), NEW t, IsList(t)
    PROVE  IsList(s \o t)
<1> DEFINE S == {s[i] : i \in DOMAIN s} \cup {t[i] : i \in DOMAIN t}
<1>1. s \in Seq(S) /\ t \in Seq(S)
  BY DEF IsList
<1> HIDE DEF S
<1>2. s \o t \in Seq(S)
  BY <1>1
<1> DEFINE c == s \o t
<1> HIDE DEF c
<1>3. c \in Seq(S)
  BY <1>2 DEF c
<1>4. Len(c) \in Nat /\ c = [i \in 1 .. Len(c) |-> c[i]]
  BY <1>3
<1> QED
  BY <1>4 DEF IsList, c

\* The rows at some positions are a list.
LEMMA AtIsList ==
    ASSUME NEW s, IsList(s), NEW P \in SUBSET DOMAIN s
    PROVE  IsList(At(s, P)) /\ DOMAIN At(s, P) = 1 .. Cardinality(P) /\ Cardinality(P) \in Nat
<1>1. IsFiniteSet(DOMAIN s)
  <2>1. Len(s) \in Nat /\ DOMAIN s = 1 .. Len(s)
    BY DEF IsList
  <2>2. IsFiniteSet(1 .. Len(s))
    BY <2>1, FS_Interval
  <2> QED
    BY <2>1, <2>2
<1>2. Cardinality(P) \in Nat
  <2>1. IsFiniteSet(P)
    BY <1>1, FS_Subset
  <2> QED
    BY <2>1, FS_CardinalityType
<1> DEFINE n == Cardinality(P)
           t == At(s, P)
<1>3. t = [i \in 1 .. n |-> t[i]]
  BY DEF At
<1>4. DOMAIN t = 1 .. n
  BY DEF At
<1> HIDE DEF n, t
<1>5. IsList(t)
  BY <1>2, <1>3, ListIs DEF n
<1> QED
  BY <1>2, <1>4, <1>5 DEF n, t

\* Lists in a list, one after the other.
Flattens(f, s, n) == f = [i \in 1 .. n |-> IF i = 1 THEN s[i] ELSE f[i - 1] \o s[i]]

\* The recursive function that joins a list of lists exists.
LEMMA FlatteningExists ==
    ASSUME NEW s
    PROVE  \A n \in Nat : \E f : Flattens(f, s, n)
<1> DEFINE S == {n \in Nat : \E f : Flattens(f, s, n)}
<1>1. 0 \in S
  <2> DEFINE f == [i \in 1 .. 0 |-> i]
  <2>1. Flattens(f, s, 0)
    <3>1. f = <<>> /\ [i \in 1 .. 0 |-> IF i = 1 THEN s[i] ELSE f[i - 1] \o s[i]] = <<>>
      OBVIOUS
    <3> HIDE DEF f
    <3> QED
      BY <3>1 DEF Flattens
  <2> QED
    BY <2>1
<1>2. ASSUME NEW n \in Nat, n \in S PROVE n + 1 \in S
  <2>1. PICK f : Flattens(f, s, n)
    BY <1>2
  <2>2. \A i \in 1 .. n : f[i] = IF i = 1 THEN s[i] ELSE f[i - 1] \o s[i]
    BY <2>1 DEF Flattens
  <2> DEFINE last == IF n = 0 THEN s[1] ELSE f[n] \o s[n + 1]
             g == [i \in 1 .. n + 1 |-> IF i <= n THEN f[i] ELSE last]
             h == [i \in 1 .. n + 1 |-> IF i = 1 THEN s[i] ELSE g[i - 1] \o s[i]]
  <2>3. ASSUME NEW i \in 1 .. n + 1 PROVE g[i] = h[i]
    <3>1. CASE i <= n
      <4>1. i = 1 \/ g[i - 1] = f[i - 1]
        BY <3>1
      <4>2. g[i] = f[i] /\ f[i] = IF i = 1 THEN s[i] ELSE f[i - 1] \o s[i]
        BY <2>2, <3>1
      <4> QED
        BY <4>1, <4>2
    <3>2. CASE ~ (i <= n)
      <4>1. i = n + 1 /\ g[i] = last /\ (i = 1 <=> n = 0) /\ (n # 0 => g[i - 1] = f[n])
        BY <3>2
      <4> QED
        BY <4>1
    <3> QED
      BY <3>1, <3>2
  <2>4. g = h
    <3>1. DOMAIN g = DOMAIN h /\ g = [i \in 1 .. n + 1 |-> g[i]] /\ h = [i \in 1 .. n + 1 |-> h[i]]
      OBVIOUS
    <3> HIDE DEF g, h
    <3> QED
      BY <2>3, <3>1
  <2>5. Flattens(g, s, n + 1)
    <3> HIDE DEF g
    <3> QED
      BY <2>4 DEF Flattens
  <2> QED
    BY <2>5
<1> HIDE DEF S
<1>3. \A n \in Nat : n \in S
  BY <1>1, <1>2, EveryNumber
<1> QED
  BY <1>3 DEF S

\* A list of lists, joined, is a list.
LEMMA FlatIsList ==
    ASSUME NEW s, IsList(s), \A i \in DOMAIN s : IsList(s[i])
    PROVE  IsList(FlattenSeq(s))
<1> DEFINE n == Len(s)
<1>1. n \in Nat /\ DOMAIN s = 1 .. n
  BY DEF IsList
<1>2. CASE n = 0
  BY <1>2 DEF FlattenSeq
<1>3. CASE n # 0
  <2>1. \E f : Flattens(f, s, n)
    BY <1>1, FlatteningExists
  <2>2. PICK f : Flattens(f, s, n) /\ FlattenSeq(s) = f[n]
    BY <1>3, <2>1, Zenon DEF Flattens, FlattenSeq
  <2>3. \A i \in 1 .. n : f[i] = IF i = 1 THEN s[i] ELSE f[i - 1] \o s[i]
    BY <2>2 DEF Flattens
  <2> DEFINE S == {i \in Nat : i + 1 <= n => IsList(f[i + 1])}
  <2>4. 0 \in S
    <3>1. 1 \in 1 .. n
      BY <1>1, <1>3
    <3>2. f[1] = s[1] /\ IsList(s[1])
      BY <1>1, <2>3, <3>1
    <3> QED
      BY <3>2
  <2>5. ASSUME NEW i \in Nat, i \in S PROVE i + 1 \in S
    <3> SUFFICES ASSUME (i + 1) + 1 <= n PROVE IsList(f[(i + 1) + 1])
      OBVIOUS
    <3> DEFINE j == (i + 1) + 1
    <3>1. j \in 1 .. n /\ j # 1 /\ j - 1 = i + 1 /\ i + 1 <= n
      BY <1>1
    <3>2. f[j] = f[i + 1] \o s[j] /\ IsList(f[i + 1]) /\ IsList(s[j])
      BY <1>1, <2>3, <2>5, <3>1
    <3> QED
      BY <3>2, ConcatIsList
  <2> HIDE DEF S
  <2>6. \A i \in Nat : i \in S
    BY <2>4, <2>5, EveryNumber
  <2>7. n - 1 \in Nat /\ (n - 1) + 1 = n
    BY <1>1, <1>3
  <2>8. n - 1 \in S
    BY <2>6, <2>7
  <2>9. IsList(f[n])
    BY <2>7, <2>8 DEF S
  <2> QED
    BY <2>2, <2>9
<1> QED
  BY <1>2, <1>3

\* A join passes a list on.
LEMMA JoinIsList ==
    ASSUME NEW join, NEW side, IsList(side.rows), NEW right, IsList(right.rows)
    PROVE  IsList(JoinSides(join, side, right))
<1> DEFINE Row(l, P) ==
             IF At(right.rows, P) = <<>>
             THEN IF join.type \in {"LEFT", "FULL"} THEN <<Combined(l, Nulls(right.columns), side, right)>> ELSE <<>>
             ELSE [i \in DOMAIN At(right.rows, P) |-> Combined(l, At(right.rows, P)[i], side, right)]
           Rest(P) == IF join.type \in {"RIGHT", "FULL"} THEN At(right.rows, P) ELSE <<>>
<1>1. ASSUME NEW l, NEW P \in SUBSET DOMAIN right.rows PROVE IsList(Row(l, P))
  <2>1. IsList(<<>>) /\ IsList(<<Combined(l, Nulls(right.columns), side, right)>>)
    BY DEF IsList
  <2>2. IsList([i \in DOMAIN At(right.rows, P) |-> Combined(l, At(right.rows, P)[i], side, right)])
    <3> DEFINE n == Cardinality(P)
               t == [i \in DOMAIN At(right.rows, P) |-> Combined(l, At(right.rows, P)[i], side, right)]
    <3>1. n \in Nat /\ DOMAIN At(right.rows, P) = 1 .. n
      BY AtIsList
    <3>2. t = [i \in 1 .. n |-> t[i]]
      BY <3>1
    <3> HIDE DEF n, t
    <3>3. IsList(t)
      BY <3>1, <3>2, ListIs
    <3> QED
      BY <3>3 DEF t
  <2> QED
    BY <2>1, <2>2
<1>2. ASSUME NEW P \in SUBSET DOMAIN right.rows PROVE IsList(Rest(P))
  <2>1. IsList(<<>>)
    BY DEF IsList
  <2>2. IsList(At(right.rows, P))
    BY AtIsList
  <2> QED
    BY <2>1, <2>2
<1> HIDE DEF Row, Rest
<1>3. ASSUME NEW t, DOMAIN t = DOMAIN side.rows, t = [i \in DOMAIN side.rows |-> t[i]],
             \A i \in DOMAIN side.rows : \E l : \E P \in SUBSET DOMAIN right.rows : t[i] = Row(l, P),
             NEW Q \in SUBSET DOMAIN right.rows
      PROVE  IsList(FlattenSeq(t) \o Rest(Q))
  <2>1. IsList(t)
    <3>1. Len(side.rows) \in Nat /\ DOMAIN side.rows = 1 .. Len(side.rows)
      BY DEF IsList
    <3> QED
      BY <1>3, <3>1, ListIs
  <2>2. \A i \in DOMAIN t : IsList(t[i])
    BY <1>1, <1>3
  <2>3. IsList(FlattenSeq(t))
    BY <2>1, <2>2, FlatIsList
  <2> QED
    BY <1>2, <2>3, ConcatIsList
<1>4. IsList(NestedLoopJoin(join, side, right))
  <2> DEFINE Found(l) == {p \in DOMAIN right.rows : NestedLoopMatch(join, l, right.rows[p], side, right)}
             t == [i \in DOMAIN side.rows |-> Row(side.rows[i], Found(side.rows[i]))]
             Q == {p \in DOMAIN right.rows :
                    \A l \in ToSet(side.rows) : ~ NestedLoopMatch(join, l, right.rows[p], side, right)}
  <2>1. NestedLoopJoin(join, side, right) = FlattenSeq(t) \o Rest(Q)
    BY DEF NestedLoopJoin, JoinRows, Row, Rest
  <2>2. \A i \in DOMAIN side.rows : \E l : \E P \in SUBSET DOMAIN right.rows : t[i] = Row(l, P)
    OBVIOUS
  <2>3. Q \in SUBSET DOMAIN right.rows
    OBVIOUS
  <2>4. DOMAIN t = DOMAIN side.rows /\ t = [i \in DOMAIN side.rows |-> t[i]]
    OBVIOUS
  <2> HIDE DEF t, Q
  <2> QED
    BY <1>3, <2>1, <2>2, <2>3, <2>4
<1>5. IsList(HashJoin(join, side, right))
  <2> DEFINE Found(l) == {p \in DOMAIN right.rows : HashMatch(join, l, right.rows[p], side, right)}
             t == [i \in DOMAIN side.rows |-> Row(side.rows[i], Found(side.rows[i]))]
             Q == {p \in DOMAIN right.rows :
                    \A l \in ToSet(side.rows) : ~ HashMatch(join, l, right.rows[p], side, right)}
  <2>1. HashJoin(join, side, right) = FlattenSeq(t) \o Rest(Q)
    BY DEF HashJoin, JoinRows, Row, Rest
  <2>2. \A i \in DOMAIN side.rows : \E l : \E P \in SUBSET DOMAIN right.rows : t[i] = Row(l, P)
    OBVIOUS
  <2>3. Q \in SUBSET DOMAIN right.rows
    OBVIOUS
  <2>4. DOMAIN t = DOMAIN side.rows /\ t = [i \in DOMAIN side.rows |-> t[i]]
    OBVIOUS
  <2> HIDE DEF t, Q
  <2> QED
    BY <1>3, <2>1, <2>2, <2>3, <2>4
<1> QED
  BY <1>4, <1>5 DEF JoinSides

\* A hash join gives the rows that nested loops give, in the same order: over a
\* name both sides have, when no left row has NULL for it (None is equal to
\* itself as a key of the hash table, and to nothing in _compare_eq).
THEOREM AlgorithmsAgree ==
    ASSUME NEW join, NEW side, NEW right, SameName(join.on),
           join.using \in {None, <<>>, <<Left(join.on).name>>},
           \A l \in ToSet(side.rows) : Value(l, <<Left(join.on).name>>) # Null
    PROVE  HashJoin(join, side, right) = NestedLoopJoin(join, side, right)
<1> DEFINE name == Left(join.on).name
           Row(l, P) ==
             IF At(right.rows, P) = <<>>
             THEN IF join.type \in {"LEFT", "FULL"} THEN <<Combined(l, Nulls(right.columns), side, right)>> ELSE <<>>
             ELSE [i \in DOMAIN At(right.rows, P) |-> Combined(l, At(right.rows, P)[i], side, right)]
           Rest(P) == IF join.type \in {"RIGHT", "FULL"} THEN At(right.rows, P) ELSE <<>>
           Hashed(l) == {p \in DOMAIN right.rows : HashMatch(join, l, right.rows[p], side, right)}
           Looped(l) == {p \in DOMAIN right.rows : NestedLoopMatch(join, l, right.rows[p], side, right)}
           NotHashed ==
             {p \in DOMAIN right.rows :
                \A l \in ToSet(side.rows) : ~ HashMatch(join, l, right.rows[p], side, right)}
           NotLooped ==
             {p \in DOMAIN right.rows :
                \A l \in ToSet(side.rows) : ~ NestedLoopMatch(join, l, right.rows[p], side, right)}
<1>1. JoinKeys(join) = <<name>> /\ RightKey(join) = name
  <2>1. IsEquation(join.on) /\ Right(join.on).name = name
    BY DEF SameName
  <2>2. JoinKeys(join) = <<name>>
    BY <2>1, Zenon DEF JoinKeys
  <2> QED
    BY <2>1, <2>2, Zenon DEF RightKey
<1> HIDE DEF name
<1>2. ASSUME NEW l \in ToSet(side.rows), NEW r
      PROVE  HashMatch(join, l, r, side, right) <=> NestedLoopMatch(join, l, r, side, right)
  <2>1. HashMatch(join, l, r, side, right) <=> Value(l, <<name>>) = Value(r, <<name>>)
    <3>1. KeyOf(l, <<name>>) = <<Value(l, <<name>>)>> /\ KeyOf(r, <<name>>) = <<Value(r, <<name>>)>>
      BY DEF KeyOf
    <3> QED
      BY <1>1, <3>1 DEF HashMatch
  <2>2. NestedLoopMatch(join, l, r, side, right) <=> CompareEq(Value(l, <<name>>), Value(r, <<name>>))
    <3>1. ToSet(<<name>>) = {name}
      BY DEF ToSet
    <3> QED
      BY <1>1, <3>1, Zenon DEF NestedLoopMatch
  <2>3. Value(l, <<name>>) # Null
    BY DEF name
  <2> QED
    BY <2>1, <2>2, <2>3 DEF CompareEq, Known
<1>3. NotHashed = NotLooped
  BY <1>2
<1>4. \A i \in DOMAIN side.rows : Hashed(side.rows[i]) = Looped(side.rows[i])
  BY <1>2 DEF ToSet
<1> DEFINE hashed == [i \in DOMAIN side.rows |-> Row(side.rows[i], Hashed(side.rows[i]))]
           looped == [i \in DOMAIN side.rows |-> Row(side.rows[i], Looped(side.rows[i]))]
<1>5. HashJoin(join, side, right) = FlattenSeq(hashed) \o Rest(NotHashed)
  BY DEF HashJoin, JoinRows, Row, Rest
<1>6. NestedLoopJoin(join, side, right) = FlattenSeq(looped) \o Rest(NotLooped)
  BY DEF NestedLoopJoin, JoinRows, Row, Rest
<1>7. hashed = looped
  <2> HIDE DEF Row, Hashed, Looped
  <2> QED
    BY <1>4
<1> HIDE DEF hashed, looped, Rest, NotHashed, NotLooped
<1> QED
  BY <1>3, <1>5, <1>6, <1>7

-----------------------------------------------------------------------------
(* Expressions.                                                            *)

\* What the value, the truth and the form of an expression are made of: those
\* of its parts, which f gives.
ValueAt(f, e, row) ==
    IF "lit" \in DOMAIN e THEN ValueOf[e.lit]
    ELSE IF "name" \in DOMAIN e THEN ColumnValue(e, row)
    ELSE Operated(e.op, [i \in DOMAIN e.args |-> f[e.args[i]]])
OperandTruth(e, row) == IF Eval(e, row) = Null THEN Null ELSE Bit(Eval(e, row) # 0)
ConditionTruth(e, row) ==
    IF e.op = "IS NULL" THEN Bit(Eval(e.args[1], row) = Null)
    ELSE IF e.op = "IS NOT NULL" THEN Bit(Eval(e.args[1], row) # Null)
    ELSE IF \E i \in DOMAIN e.args : Eval(e.args[i], row) = Null THEN Null
    ELSE Bit(Holds(e.op, Eval(e.args[1], row), Eval(e.args[2], row)))
TruthAt(f, e, row) ==
    LET both == {f[e.args[i]] : i \in DOMAIN e.args}
    IN  IF "op" \notin DOMAIN e THEN OperandTruth(e, row)
        ELSE IF e.op = "AND" THEN IF 0 \in both THEN 0 ELSE IF Null \in both THEN Null ELSE 1
        ELSE IF e.op = "OR" THEN IF 1 \in both THEN 1 ELSE IF Null \in both THEN Null ELSE 0
        ELSE ConditionTruth(e, row)
FormAt(f, e) ==
    LET All(forms) == \A i \in DOMAIN e.args : f[e.args[i]] \in forms
    IN  IF "op" \notin DOMAIN e THEN "operand"
        ELSE IF e.op \in {"+", "-", "*", "minus"} /\ All({"operand", "sum"}) THEN "sum"
        ELSE IF e.op \in Comparison \cup {"IS NULL", "IS NOT NULL"} /\ All({"operand", "sum"})
        THEN "condition"
        ELSE IF e.op \in {"AND", "OR"} /\ All({"operand", "condition"}) THEN "condition"
        ELSE "other"
NodeAt(kind, row, f, e) ==
    IF kind = "value" THEN ValueAt(f, e, row)
    ELSE IF kind = "truth" THEN TruthAt(f, e, row)
    ELSE FormAt(f, e)

SmallerThan(n) == {e \in Expression : Size[e] < n}
Computes(f, kind, row, n) == f = [e \in SmallerThan(n) |-> NodeAt(kind, row, f, e)]

\* What ExpressionsAssumption says of one expression.
LEMMA PartsAreSmaller ==
    ASSUME NEW e \in Expression
    PROVE  /\ Size[e] \in Nat
           /\ "op" \in DOMAIN e <=> {"lit", "name"} \cap DOMAIN e = {}
           /\ "op" \in DOMAIN e =>
                /\ DOMAIN e.args = IF e.op \in Unary THEN {1} ELSE {1, 2}
                /\ \A i \in DOMAIN e.args : e.args[i] \in Expression /\ Size[e.args[i]] < Size[e]
BY ExpressionsAssumption DEF ExpressionsAreTrees

\* Only the parts of an expression matter.
LEMMA OnlyPartsMatter ==
    ASSUME NEW kind, NEW row, NEW f, NEW g, NEW e \in Expression,
           "op" \in DOMAIN e => \A i \in DOMAIN e.args : f[e.args[i]] = g[e.args[i]]
    PROVE  NodeAt(kind, row, f, e) = NodeAt(kind, row, g, e)
<1>1. CASE "op" \in DOMAIN e
  <2>1. \A i \in DOMAIN e.args : f[e.args[i]] = g[e.args[i]]
    BY <1>1
  <2>2. ValueAt(f, e, row) = ValueAt(g, e, row)
    <3>1. [i \in DOMAIN e.args |-> f[e.args[i]]] = [i \in DOMAIN e.args |-> g[e.args[i]]]
      BY <2>1
    <3> QED
      BY <3>1, Zenon DEF ValueAt
  <2>3. TruthAt(f, e, row) = TruthAt(g, e, row)
    <3>1. {f[e.args[i]] : i \in DOMAIN e.args} = {g[e.args[i]] : i \in DOMAIN e.args}
      BY <2>1
    <3> QED
      BY <3>1, Zenon DEF TruthAt
  <2>4. FormAt(f, e) = FormAt(g, e)
    <3>1. \A forms : (\A i \in DOMAIN e.args : f[e.args[i]] \in forms)
                        <=> (\A i \in DOMAIN e.args : g[e.args[i]] \in forms)
      BY <2>1, Zenon
    <3> QED
      BY <3>1, Zenon DEF FormAt
  <2> QED
    BY <2>2, <2>3, <2>4 DEF NodeAt
<1>2. CASE "op" \notin DOMAIN e
  <2>1. "lit" \in DOMAIN e \/ "name" \in DOMAIN e
    BY <1>2, PartsAreSmaller
  <2>2. ValueAt(f, e, row) = ValueAt(g, e, row)
    BY <2>1, Zenon DEF ValueAt
  <2>3. TruthAt(f, e, row) = TruthAt(g, e, row)
    BY <1>2, Zenon DEF TruthAt
  <2>4. FormAt(f, e) = FormAt(g, e)
    BY <1>2, Zenon DEF FormAt
  <2> QED
    BY <2>2, <2>3, <2>4 DEF NodeAt
<1> QED
  BY <1>1, <1>2

\* The recursive functions over expressions exist, up to any size.
LEMMA ComputesExist ==
    ASSUME NEW kind, NEW row
    PROVE  \A n \in Nat : \E f : Computes(f, kind, row, n)
<1> DEFINE S == {n \in Nat : \E f : Computes(f, kind, row, n)}
<1>1. 0 \in S
  <2> DEFINE f == [e \in SmallerThan(0) |-> e]
  <2>1. SmallerThan(0) = {}
    BY PartsAreSmaller DEF SmallerThan
  <2>2. f = [e \in SmallerThan(0) |-> NodeAt(kind, row, f, e)]
    BY <2>1
  <2> QED
    BY <2>2 DEF Computes
<1>2. ASSUME NEW n \in Nat, n \in S PROVE n + 1 \in S
  <2>1. PICK f : Computes(f, kind, row, n)
    BY <1>2
  <2>2. \A e \in SmallerThan(n) : f[e] = NodeAt(kind, row, f, e)
    BY <2>1 DEF Computes
  <2> DEFINE g == [e \in SmallerThan(n + 1) |-> NodeAt(kind, row, f, e)]
             h == [e \in SmallerThan(n + 1) |-> NodeAt(kind, row, g, e)]
  <2>3. ASSUME NEW e \in SmallerThan(n + 1) PROVE g[e] = h[e]
    <3>1. e \in Expression /\ Size[e] < n + 1 /\ Size[e] \in Nat
      BY PartsAreSmaller DEF SmallerThan
    <3>2. ASSUME "op" \in DOMAIN e, NEW i \in DOMAIN e.args PROVE f[e.args[i]] = g[e.args[i]]
      <4> DEFINE a == e.args[i]
      <4>1. a \in Expression /\ Size[a] < Size[e]
        BY <3>1, <3>2, PartsAreSmaller
      <4>2. Size[a] \in Nat
        BY <4>1, PartsAreSmaller
      <4> HIDE DEF a
      <4>3. Size[a] < n /\ Size[a] < n + 1
        BY <3>1, <4>1, <4>2
      <4>4. a \in SmallerThan(n) /\ a \in SmallerThan(n + 1)
        BY <4>1, <4>3 DEF SmallerThan
      <4>5. f[a] = g[a]
        BY <2>2, <4>4
      <4> QED
        BY <4>5 DEF a
    <3> HIDE DEF g
    <3>3. NodeAt(kind, row, f, e) = NodeAt(kind, row, g, e)
      BY <3>1, <3>2, OnlyPartsMatter
    <3> QED
      BY <3>3 DEF g
  <2>4. g = h
    <3>1. DOMAIN g = DOMAIN h /\ g = [e \in SmallerThan(n + 1) |-> g[e]] /\ h = [e \in SmallerThan(n + 1) |-> h[e]]
      OBVIOUS
    <3> HIDE DEF g, h
    <3> QED
      BY <2>3, <3>1
  <2>5. Computes(g, kind, row, n + 1)
    <3> HIDE DEF g
    <3> QED
      BY <2>4 DEF Computes
  <2> QED
    BY <2>5
<1> HIDE DEF S
<1>3. \A n \in Nat : n \in S
  BY <1>1, <1>2, EveryNumber
<1> QED
  BY <1>3 DEF S

\* Two of them agree wherever both are defined.
LEMMA ComputesAgree ==
    ASSUME NEW kind, NEW row, NEW f, NEW m \in Nat, Computes(f, kind, row, m),
           NEW g, NEW n \in Nat, Computes(g, kind, row, n),
           NEW e \in Expression, Size[e] < m, Size[e] < n
    PROVE  f[e] = g[e]
<1> DEFINE S == {k \in Nat : \A x \in Expression : Size[x] < k /\ Size[x] < m /\ Size[x] < n => f[x] = g[x]}
<1>1. 0 \in S
  BY PartsAreSmaller
<1>2. ASSUME NEW k \in Nat, k \in S PROVE k + 1 \in S
  <2> SUFFICES ASSUME NEW x \in Expression, Size[x] < k + 1, Size[x] < m, Size[x] < n PROVE f[x] = g[x]
    OBVIOUS
  <2>1. f[x] = NodeAt(kind, row, f, x) /\ g[x] = NodeAt(kind, row, g, x)
    BY DEF Computes, SmallerThan
  <2>2. ASSUME "op" \in DOMAIN x, NEW i \in DOMAIN x.args PROVE f[x.args[i]] = g[x.args[i]]
    <3> DEFINE a == x.args[i]
    <3>1. a \in Expression /\ Size[a] < Size[x] /\ Size[x] \in Nat
      BY <2>2, PartsAreSmaller
    <3>2. Size[a] \in Nat
      BY <3>1, PartsAreSmaller
    <3> HIDE DEF a
    <3>3. Size[a] < k /\ Size[a] < m /\ Size[a] < n
      BY <3>1, <3>2
    <3>4. f[a] = g[a]
      BY <1>2, <3>1, <3>3
    <3> QED
      BY <3>4 DEF a
  <2>3. NodeAt(kind, row, f, x) = NodeAt(kind, row, g, x)
    BY <2>2, OnlyPartsMatter
  <2> QED
    BY <2>1, <2>3
<1> HIDE DEF S
<1>3. \A k \in Nat : k \in S
  BY <1>1, <1>2, EveryNumber
<1>4. Size[e] \in Nat
  BY PartsAreSmaller
<1>5. Size[e] + 1 \in S
  BY <1>3, <1>4
<1> QED
  BY <1>4, <1>5 DEF S

\* So there is one for all expressions.
LEMMA ComputedExists ==
    ASSUME NEW kind, NEW row
    PROVE  \E h : h = [e \in Expression |-> NodeAt(kind, row, h, e)]
<1> DEFINE F(n) == CHOOSE f : Computes(f, kind, row, n)
<1>1. \A n \in Nat : Computes(F(n), kind, row, n)
  BY ComputesExist
<1> HIDE DEF F
<1> DEFINE h == [e \in Expression |-> F(Size[e] + 1)[e]]
           g == [e \in Expression |-> NodeAt(kind, row, h, e)]
<1>2. ASSUME NEW e \in Expression PROVE h[e] = g[e]
  <2> DEFINE f == F(Size[e] + 1)
  <2>1. Size[e] \in Nat /\ Size[e] + 1 \in Nat /\ Size[e] < Size[e] + 1
    BY PartsAreSmaller
  <2>2. Computes(f, kind, row, Size[e] + 1)
    BY <1>1, <2>1
  <2> HIDE DEF f
  <2>3. f[e] = NodeAt(kind, row, f, e)
    BY <2>1, <2>2 DEF Computes, SmallerThan
  <2>4. ASSUME "op" \in DOMAIN e, NEW i \in DOMAIN e.args PROVE f[e.args[i]] = h[e.args[i]]
    <3> DEFINE a == e.args[i]
               b == F(Size[a] + 1)
    <3>1. a \in Expression /\ Size[a] < Size[e]
      BY <2>4, PartsAreSmaller
    <3> HIDE DEF a
    <3>2. Size[a] \in Nat
      BY <3>1, PartsAreSmaller
    <3>3. Size[a] + 1 \in Nat /\ Size[a] < Size[a] + 1 /\ Size[a] < Size[e] + 1
      BY <2>1, <3>1, <3>2
    <3>4. Computes(b, kind, row, Size[a] + 1)
      BY <1>1, <3>3
    <3>5. h[a] = b[a]
      BY <3>1
    <3> HIDE DEF b, h
    <3>6. f[a] = b[a]
      BY <2>1, <2>2, <3>1, <3>3, <3>4, ComputesAgree
    <3> QED
      BY <3>5, <3>6 DEF a
  <2>5. h[e] = f[e]
    BY DEF f
  <2> HIDE DEF h
  <2>6. NodeAt(kind, row, f, e) = NodeAt(kind, row, h, e)
    BY <2>4, OnlyPartsMatter
  <2> QED
    BY <2>3, <2>5, <2>6
<1>3. h = g
  <2>1. DOMAIN h = DOMAIN g /\ h = [e \in Expression |-> h[e]] /\ g = [e \in Expression |-> g[e]]
    OBVIOUS
  <2> HIDE DEF h, g
  <2> QED
    BY <1>2, <2>1
<1> HIDE DEF h
<1> QED
  BY <1>3

\* The functions that Eval, Truth3 and Positive take their results from.
Values(row) == CHOOSE f : f = [e \in Expression |-> ValueAt(f, e, row)]
Truths(row) == CHOOSE f : f = [e \in Expression |-> TruthAt(f, e, row)]
Forms == CHOOSE f : f = [e \in Expression |-> FormAt(f, e)]

\* The value of an expression, by the values of its parts.
LEMMA EvalIs ==
    ASSUME NEW row, NEW e \in Expression
    PROVE  Eval(e, row) = IF "lit" \in DOMAIN e THEN ValueOf[e.lit]
                          ELSE IF "name" \in DOMAIN e THEN ColumnValue(e, row)
                          ELSE Operated(e.op, [i \in DOMAIN e.args |-> Eval(e.args[i], row)])
<1>1. \E f : f = [x \in Expression |-> ValueAt(f, x, row)]
  <2>1. PICK f : f = [x \in Expression |-> NodeAt("value", row, f, x)]
    BY ComputedExists
  <2>2. [x \in Expression |-> NodeAt("value", row, f, x)] = [x \in Expression |-> ValueAt(f, x, row)]
    BY DEF NodeAt
  <2> QED
    BY <2>1, <2>2
<1>2. Values(row) = [x \in Expression |-> ValueAt(Values(row), x, row)]
  BY <1>1, Zenon DEF Values
<1>3. \A x : Eval(x, row) = Values(row)[x]
  BY Zenon DEF Eval, Values, ValueAt
<1>4. Eval(e, row) = ValueAt(Values(row), e, row)
  BY <1>2, <1>3
<1>5. [i \in DOMAIN e.args |-> Values(row)[e.args[i]]] = [i \in DOMAIN e.args |-> Eval(e.args[i], row)]
  BY <1>3
<1> QED
  BY <1>4, <1>5, Zenon DEF ValueAt

\* The truth value of an expression, by those of its operands.
LEMMA Truth3Is ==
    ASSUME NEW row, NEW e \in Expression
    PROVE  LET both == {Truth3(e.args[i], row) : i \in DOMAIN e.args}
           IN  Truth3(e, row) =
                IF "op" \notin DOMAIN e THEN OperandTruth(e, row)
                ELSE IF e.op = "AND" THEN IF 0 \in both THEN 0 ELSE IF Null \in both THEN Null ELSE 1
                ELSE IF e.op = "OR" THEN IF 1 \in both THEN 1 ELSE IF Null \in both THEN Null ELSE 0
                ELSE ConditionTruth(e, row)
<1>1. \E f : f = [x \in Expression |-> TruthAt(f, x, row)]
  <2>1. PICK f : f = [x \in Expression |-> NodeAt("truth", row, f, x)]
    BY ComputedExists
  <2>2. [x \in Expression |-> NodeAt("truth", row, f, x)] = [x \in Expression |-> TruthAt(f, x, row)]
    BY DEF NodeAt
  <2> QED
    BY <2>1, <2>2
<1>2. Truths(row) = [x \in Expression |-> TruthAt(Truths(row), x, row)]
  BY <1>1, Zenon DEF Truths
<1>3. \A x : Truth3(x, row) = Truths(row)[x]
  BY Zenon DEF Truth3, Truths, TruthAt, OperandTruth, ConditionTruth
<1>4. Truth3(e, row) = TruthAt(Truths(row), e, row)
  BY <1>2, <1>3
<1>5. {Truths(row)[e.args[i]] : i \in DOMAIN e.args} = {Truth3(e.args[i], row) : i \in DOMAIN e.args}
  BY <1>3
<1> QED
  BY <1>4, <1>5, Zenon DEF TruthAt

\* A positive condition is an operand, a comparison, or an AND or OR of positive ones.
LEMMA PositiveIs ==
    ASSUME NEW e \in Expression, Positive(e), "op" \in DOMAIN e
    PROVE  \/ e.op \in Comparison \cup {"IS NULL", "IS NOT NULL"}
           \/ e.op \in {"AND", "OR"} /\ \A i \in DOMAIN e.args : Positive(e.args[i])
<1>1. \E f : f = [x \in Expression |-> FormAt(f, x)]
  <2>1. PICK f : f = [x \in Expression |-> NodeAt("form", 0, f, x)]
    BY ComputedExists
  <2>2. [x \in Expression |-> NodeAt("form", 0, f, x)] = [x \in Expression |-> FormAt(f, x)]
    BY DEF NodeAt
  <2> QED
    BY <2>1, <2>2
<1>2. Forms = [x \in Expression |-> FormAt(Forms, x)]
  BY <1>1, Zenon DEF Forms
<1>3. \A x \in Expression : Positive(x) <=> Forms[x] \in {"operand", "condition"}
  BY Zenon DEF Positive, Forms, FormAt
<1>4. FormAt(Forms, e) \in {"operand", "condition"}
  BY <1>2, <1>3
<1>5. \A i \in DOMAIN e.args : e.args[i] \in Expression
  BY PartsAreSmaller
<1>6. \/ e.op \in Comparison \cup {"IS NULL", "IS NOT NULL"}
      \/ e.op \in {"AND", "OR"} /\ \A i \in DOMAIN e.args : Forms[e.args[i]] \in {"operand", "condition"}
  BY <1>4 DEF FormAt
<1> QED
  BY <1>3, <1>5, <1>6, Zenon

\* The value of an operation, by those of its operands.
LEMMA OperationIs ==
    ASSUME NEW row, NEW e \in Expression, "op" \in DOMAIN e
    PROVE  Eval(e, row) = Operated(e.op, [i \in DOMAIN e.args |-> Eval(e.args[i], row)])
<1> DEFINE values == [i \in DOMAIN e.args |-> Eval(e.args[i], row)]
<1>1. "lit" \notin DOMAIN e /\ "name" \notin DOMAIN e
  BY PartsAreSmaller
<1>2. Eval(e, row) = IF "lit" \in DOMAIN e THEN ValueOf[e.lit]
                     ELSE IF "name" \in DOMAIN e THEN ColumnValue(e, row) ELSE Operated(e.op, values)
  BY EvalIs
<1> HIDE DEF values
<1>3. Eval(e, row) = Operated(e.op, values)
  BY <1>1, <1>2
<1> QED
  BY <1>3 DEF values

\* The two numbers that stand for truth values.
LEMMA BitIs ==
    /\ Null # 1 /\ Null # 0 /\ 0 # 1
    /\ \A b \in BOOLEAN : Bit(b) \in {0, 1} /\ (Truth(Bit(b)) <=> b) /\ (Bit(b) = 1 <=> b)
BY NoneAssumption DEF Bit, Truth

\* A comparison is NULL in SQL's logic where it is false in the code's.
LEMMA ComparisonTruth ==
    ASSUME NEW row, NEW e \in Expression, "op" \in DOMAIN e, e.op \in Comparison \cup {"IS NULL", "IS NOT NULL"}
    PROVE  /\ Truth3(e, row) \in {0, 1, Null}
           /\ Truth3(e, row) = 1 <=> Truth(Eval(e, row))
<1> DEFINE values == [i \in DOMAIN e.args |-> Eval(e.args[i], row)]
<1>1. Eval(e, row) = Operated(e.op, values)
  BY OperationIs
<1>2. Truth3(e, row) = ConditionTruth(e, row)
  <2> DEFINE both == {Truth3(e.args[i], row) : i \in DOMAIN e.args}
  <2>1. Truth3(e, row) =
            IF "op" \notin DOMAIN e THEN OperandTruth(e, row)
            ELSE IF e.op = "AND" THEN IF 0 \in both THEN 0 ELSE IF Null \in both THEN Null ELSE 1
            ELSE IF e.op = "OR" THEN IF 1 \in both THEN 1 ELSE IF Null \in both THEN Null ELSE 0
            ELSE ConditionTruth(e, row)
    BY Truth3Is
  <2>2. e.op # "AND" /\ e.op # "OR"
    BY DEF Comparison
  <2> HIDE DEF both
  <2> QED
    BY <2>1, <2>2
<1>3. DOMAIN e.args = IF e.op \in Unary THEN {1} ELSE {1, 2}
  BY PartsAreSmaller
<1>4. Null # 1 /\ Null # 0 /\ 0 # 1
  BY BitIs
<1>5. \A b \in BOOLEAN : Bit(b) \in {0, 1} /\ (Truth(Bit(b)) <=> b) /\ (Bit(b) = 1 <=> b)
  BY BitIs
<1>6. CASE e.op \in Comparison
  <2>1. DOMAIN e.args = {1, 2}
    BY <1>3, <1>6 DEF Unary, Comparison
  <2> DEFINE a == Eval(e.args[1], row)
             b == Eval(e.args[2], row)
  <2>2. values[1] = a /\ values[2] = b
    BY <2>1
  <2>3. (\E i \in DOMAIN e.args : Eval(e.args[i], row) = Null) <=> ~ Known(a, b)
    BY <2>1 DEF Known
  <2>4. Truth3(e, row) = IF Known(a, b) THEN Bit(Holds(e.op, a, b)) ELSE Null
    <3>1. e.op # "IS NULL" /\ e.op # "IS NOT NULL"
      BY <1>6 DEF Comparison
    <3> HIDE DEF a, b
    <3> QED
      BY <1>2, <2>3, <3>1 DEF ConditionTruth, a, b
  <2> HIDE DEF a, b, values
  <2>5. Eval(e, row) = Operate(e.op, a, b)
    BY <1>1, <1>6, <2>2, Zenon DEF Operated, Comparison
  <2>6. Eval(e, row) = Bit(Known(a, b) /\ Holds(e.op, a, b))
    <3>1. Known(a, b) <=> Known(b, a)
      BY DEF Known
    <3> QED
      BY <1>6, <2>5, <3>1, Zenon DEF Comparison, Operate, Holds, CompareEq, CompareLt, CompareLe
  <2>7. (Known(a, b) /\ Holds(e.op, a, b)) \in BOOLEAN
    OBVIOUS
  <2>8. Truth(Eval(e, row)) <=> (Known(a, b) /\ Holds(e.op, a, b))
    BY <1>5, <2>6, <2>7, Zenon
  <2>9. CASE Known(a, b) /\ Holds(e.op, a, b)
    <3>1. Truth3(e, row) = 1
      BY <2>4, <2>9, Zenon DEF Bit
    <3> QED
      BY <2>8, <2>9, <3>1
  <2>10. CASE ~ (Known(a, b) /\ Holds(e.op, a, b))
    <3>1. Truth3(e, row) \in {0, Null}
      BY <2>4, <2>10, Zenon DEF Bit
    <3>2. Truth3(e, row) # 1
      BY <1>4, <3>1, Zenon
    <3>3. ~ Truth(Eval(e, row))
      BY <2>8, <2>10, Zenon
    <3> QED
      BY <3>1, <3>2, <3>3
  <2> QED
    BY <2>9, <2>10
<1>7. CASE e.op \in {"IS NULL", "IS NOT NULL"}
  <2>1. DOMAIN e.args = {1}
    BY <1>3, <1>7 DEF Unary
  <2> DEFINE a == Eval(e.args[1], row)
  <2>2. values[1] = a
    BY <2>1
  <2>3. Truth3(e, row) = IF e.op = "IS NULL" THEN Bit(a = Null) ELSE Bit(a # Null)
    BY <1>2, <1>7, Zenon DEF ConditionTruth
  <2> HIDE DEF a, values
  <2>4. Eval(e, row) = IF e.op = "IS NULL" THEN Bit(a = Null) ELSE Bit(a # Null)
    BY <1>1, <1>7, <2>2, Zenon DEF Operated
  <2>5. (a = Null) \in BOOLEAN /\ (a # Null) \in BOOLEAN
    OBVIOUS
  <2> QED
    BY <1>5, <2>3, <2>4, <2>5
<1> QED
  BY <1>6, <1>7

\* The two logics agree on what is true of a condition without NOT and unequal.
LEMMA PositiveTruth ==
    ASSUME NEW row
    PROVE  \A e \in Expression : Positive(e) => (Truth3(e, row) = 1 <=> Truth(Eval(e, row)))
<1> DEFINE Agrees(e) == /\ Truth3(e, row) \in {0, 1, Null}
                        /\ Truth3(e, row) = 1 <=> Truth(Eval(e, row))
           S == {n \in Nat : \A e \in Expression : Size[e] < n /\ Positive(e) => Agrees(e)}
<1>0. /\ Null # 1 /\ Null # 0
      /\ \A b \in BOOLEAN : Bit(b) \in {0, 1} /\ (Truth(Bit(b)) <=> b) /\ (Bit(b) = 1 <=> b)
  BY BitIs
<1>1. 0 \in S
  <2> HIDE DEF Agrees
  <2> QED
    BY PartsAreSmaller
<1>2. ASSUME NEW n \in Nat, n \in S PROVE n + 1 \in S
  <2> HIDE DEF Agrees
  <2> SUFFICES ASSUME NEW e \in Expression, Size[e] < n + 1, Positive(e) PROVE Agrees(e)
    OBVIOUS
  <2> USE DEF Agrees
  <2> DEFINE both == {Truth3(e.args[i], row) : i \in DOMAIN e.args}
  <2>1. Truth3(e, row) =
            IF "op" \notin DOMAIN e THEN OperandTruth(e, row)
            ELSE IF e.op = "AND" THEN IF 0 \in both THEN 0 ELSE IF Null \in both THEN Null ELSE 1
            ELSE IF e.op = "OR" THEN IF 1 \in both THEN 1 ELSE IF Null \in both THEN Null ELSE 0
            ELSE ConditionTruth(e, row)
    BY Truth3Is
  <2>2. CASE "op" \notin DOMAIN e
    <3> HIDE DEF both
    <3>1. Truth3(e, row) = OperandTruth(e, row)
      BY <2>1, <2>2
    <3>2. (Eval(e, row) # 0) \in BOOLEAN
      OBVIOUS
    <3>3. Truth(Eval(e, row)) <=> Eval(e, row) # Null /\ Eval(e, row) # 0
      BY DEF Truth
    <3> QED
      BY <1>0, <3>1, <3>2, <3>3 DEF OperandTruth
  <2>3. CASE "op" \in DOMAIN e /\ e.op \in Comparison \cup {"IS NULL", "IS NOT NULL"}
    BY <2>3, ComparisonTruth
  <2>4. CASE "op" \in DOMAIN e /\ e.op \in {"AND", "OR"}
    <3> DEFINE a == e.args[1]
               b == e.args[2]
               values == [i \in DOMAIN e.args |-> Eval(e.args[i], row)]
    <3>1. DOMAIN e.args = {1, 2} /\ Size[e] \in Nat
      BY <2>4, PartsAreSmaller DEF Unary
    <3>2. Positive(a) /\ Positive(b)
      BY <2>4, <3>1, PositiveIs DEF Comparison
    <3>3. a \in Expression /\ b \in Expression /\ Size[a] < Size[e] /\ Size[b] < Size[e]
      BY <2>4, <3>1, PartsAreSmaller
    <3>4. Size[a] \in Nat /\ Size[b] \in Nat
      BY <3>3, PartsAreSmaller
    <3>5. Agrees(a) /\ Agrees(b)
      <4> HIDE DEF a, b, Agrees
      <4>1. Size[a] < n /\ Size[b] < n
        BY <3>1, <3>3, <3>4
      <4> QED
        BY <1>2, <3>2, <3>3, <4>1
    <3>6. values[1] = Eval(a, row) /\ values[2] = Eval(b, row) /\ both = {Truth3(a, row), Truth3(b, row)}
      BY <3>1
    <3>7. Eval(e, row) = Operated(e.op, values)
      BY <2>4, OperationIs
    <3> HIDE DEF a, b, values, both
    <3>8. (Truth(values[1]) /\ Truth(values[2])) \in BOOLEAN /\ (Truth(values[1]) \/ Truth(values[2])) \in BOOLEAN
      OBVIOUS
    <3>9. CASE e.op = "AND"
      <4>1. Eval(e, row) = Bit(Truth(values[1]) /\ Truth(values[2]))
        BY <3>7, <3>9, Zenon DEF Operated, Operate
      <4>2. Truth(Eval(e, row)) <=> Truth(Eval(a, row)) /\ Truth(Eval(b, row))
        BY <1>0, <3>6, <3>8, <4>1, Zenon
      <4>3. Truth3(e, row) = IF 0 \in both THEN 0 ELSE IF Null \in both THEN Null ELSE 1
        BY <2>1, <2>4, <3>9
      <4> QED
        BY <1>0, <3>5, <3>6, <4>2, <4>3
    <3>10. CASE e.op = "OR"
      <4>1. Eval(e, row) = Bit(Truth(values[1]) \/ Truth(values[2]))
        BY <3>7, <3>10, Zenon DEF Operated, Operate
      <4>2. Truth(Eval(e, row)) <=> Truth(Eval(a, row)) \/ Truth(Eval(b, row))
        BY <1>0, <3>6, <3>8, <4>1, Zenon
      <4>3. Truth3(e, row) = IF 1 \in both THEN 1 ELSE IF Null \in both THEN Null ELSE 0
        BY <2>1, <2>4, <3>10
      <4> QED
        BY <1>0, <3>5, <3>6, <4>2, <4>3
    <3> QED
      BY <2>4, <3>9, <3>10
  <2> QED
    <3> HIDE DEF Agrees
    <3> QED
      BY <2>2, <2>3, <2>4, PositiveIs
<1> HIDE DEF S
<1>3. \A n \in Nat : n \in S
  BY <1>1, <1>2, EveryNumber
<1>4. ASSUME NEW e \in Expression, Positive(e) PROVE Truth3(e, row) = 1 <=> Truth(Eval(e, row))
  <2>1. Size[e] \in Nat /\ Size[e] + 1 \in Nat /\ Size[e] < Size[e] + 1
    BY PartsAreSmaller
  <2>2. Size[e] + 1 \in S
    BY <1>3, <2>1
  <2>3. Agrees(e)
    <3> HIDE DEF Agrees
    <3> QED
      BY <1>4, <2>1, <2>2 DEF S
  <2> QED
    BY <2>3
<1> QED
  BY <1>4

\* What WhereKeepsTrueRows says of the rows.
LEMMA FilterKeepsTrueRows ==
    ASSUME NEW s, NEW where, Positive(where)
    PROVE  Filter(s, where) = At(s, {p \in DOMAIN s : Truth3(where, s[p]) = 1})
<1>1. where \in Expression
  BY Zenon DEF Positive
<1>2. \A p \in DOMAIN s : Truth3(where, s[p]) = 1 <=> Truth(Eval(where, s[p]))
  BY <1>1, PositiveTruth
<1>3. {p \in DOMAIN s : Truth(Eval(where, s[p]))} = {p \in DOMAIN s : Truth3(where, s[p]) = 1}
  BY <1>2
<1> QED
  BY <1>3, Zenon DEF Filter

-----------------------------------------------------------------------------
(* Groups.                                                                 *)

\* A nonempty set of the numbers up to n has a greatest element.
LEMMA MaxOf ==
    ASSUME NEW n \in Nat, NEW P \in SUBSET (1 .. n), P # {}
    PROVE  Max(P) \in P
<1> DEFINE T == {n - p : p \in P}
<1>1. T \in SUBSET Nat /\ T # {}
  <2>1. \A p \in P : n - p \in Nat
    OBVIOUS
  <2>2. PICK p \in P : TRUE
    OBVIOUS
  <2> QED
    BY <2>1, <2>2
<1>2. PICK x \in T : \A y \in T : x <= y
  <2> HIDE DEF T
  <2> QED
    BY <1>1, SmallestOf
<1>3. PICK p \in P : x = n - p
  BY <1>2
<1>4. \A q \in P : q <= p
  <2> SUFFICES ASSUME NEW q \in P PROVE q <= p
    OBVIOUS
  <2>1. n - q \in T
    OBVIOUS
  <2> HIDE DEF T
  <2>2. n - p <= n - q
    BY <1>2, <1>3, <2>1
  <2> QED
    BY <2>2
<1>5. \E x1 \in P : \A y \in P : x1 >= y
  BY <1>4
<1> QED
  BY <1>5 DEF Max

\* What a lookup finds.
LEMMA GroupOfIs ==
    ASSUME NEW groups, IsList(groups), NEW key
    PROVE  /\ GroupOf(groups, key) \in 0 .. Len(groups)
           /\ GroupOf(groups, key) = 0 => \A g \in DOMAIN groups : groups[g].key # key
           /\ GroupOf(groups, key) # 0 => groups[GroupOf(groups, key)].key = key
<1> DEFINE I == {g \in 1 .. Len(groups) : groups[g].key = key}
<1>1. GroupOf(groups, key) = IF I # {} THEN Min(I) ELSE 0
  BY DEF GroupOf, SelectInSeq
<1>2. Len(groups) \in Nat /\ DOMAIN groups = 1 .. Len(groups)
  BY DEF IsList
<1>3. CASE I = {}
  BY <1>1, <1>2, <1>3
<1>4. CASE I # {}
  <2>1. I \in SUBSET Nat
    BY <1>2
  <2>2. \E x \in I : \A y \in I : x <= y
    <3> HIDE DEF I
    <3> QED
      BY <1>4, <2>1, SmallestOf
  <2>3. Min(I) \in I
    <3> HIDE DEF I
    <3> QED
      BY <2>2 DEF Min
  <2>4. GroupOf(groups, key) \in I
    BY <1>1, <1>4, <2>3
  <2> QED
    BY <1>2, <2>4
<1> QED
  BY <1>3, <1>4

\* The groups after the first n rows of s.
Groupings(f, s, keys, columns, n) ==
    f = [i \in 0 .. n |-> IF i = 0 THEN <<>> ELSE Absorb(f[i - 1], s[i], keys, columns)]

\* The recursive function of Aggregated exists, for rows of any number.
LEMMA GroupingsExist ==
    ASSUME NEW s, NEW keys, NEW columns
    PROVE  \A n \in Nat : \E f : Groupings(f, s, keys, columns, n)
<1> DEFINE On(x, i) == Absorb(x, s[i], keys, columns)
           S == {n \in Nat : \E f : Groupings(f, s, keys, columns, n)}
<1>1. 0 \in S
  <2> DEFINE f == [i \in 0 .. 0 |-> <<>>]
  <2>1. f = [i \in 0 .. 0 |-> IF i = 0 THEN <<>> ELSE On(f[i - 1], i)]
    <3>1. \A i \in 0 .. 0 : i = 0
      OBVIOUS
    <3> HIDE DEF On
    <3> QED
      BY <3>1
  <2> QED
    BY <2>1 DEF Groupings
<1>2. ASSUME NEW n \in Nat, n \in S PROVE n + 1 \in S
  <2>1. PICK f : Groupings(f, s, keys, columns, n)
    BY <1>2
  <2>2. \A i \in 0 .. n : f[i] = IF i = 0 THEN <<>> ELSE On(f[i - 1], i)
    <3>1. f = [i \in 0 .. n |-> IF i = 0 THEN <<>> ELSE On(f[i - 1], i)]
      BY <2>1 DEF Groupings
    <3> HIDE DEF On
    <3> QED
      BY <3>1
  <2> DEFINE g == [i \in 0 .. n + 1 |-> IF i <= n THEN f[i] ELSE On(f[n], n + 1)]
             h == [i \in 0 .. n + 1 |-> IF i = 0 THEN <<>> ELSE On(g[i - 1], i)]
  <2> HIDE DEF On
  <2>3. ASSUME NEW i \in 0 .. n + 1 PROVE g[i] = h[i]
    <3>1. CASE i <= n
      <4>1. i = 0 \/ g[i - 1] = f[i - 1]
        BY <3>1
      <4>2. g[i] = f[i] /\ f[i] = IF i = 0 THEN <<>> ELSE On(f[i - 1], i)
        BY <2>2, <3>1
      <4> QED
        BY <4>1, <4>2
    <3>2. CASE ~ (i <= n)
      <4>1. i = n + 1 /\ i - 1 = n /\ i # 0 /\ n <= n
        BY <3>2
      <4> QED
        BY <3>2, <4>1
    <3> QED
      BY <3>1, <3>2
  <2>4. g = h
    <3>1. DOMAIN g = DOMAIN h /\ g = [i \in 0 .. n + 1 |-> g[i]] /\ h = [i \in 0 .. n + 1 |-> h[i]]
      OBVIOUS
    <3> HIDE DEF g, h
    <3> QED
      BY <2>3, <3>1
  <2>5. Groupings(g, s, keys, columns, n + 1)
    <3> HIDE DEF g
    <3> QED
      BY <2>4 DEF Groupings, On
  <2> QED
    BY <2>5
<1> HIDE DEF S
<1>3. \A n \in Nat : n \in S
  BY <1>1, <1>2, EveryNumber
<1> QED
  BY <1>3 DEF S

\* Aggregated is the rows of the last of them.
LEMMA AggregatedIs ==
    ASSUME NEW s, IsList(s), NEW keys, NEW columns
    PROVE  \E f : /\ Groupings(f, s, keys, columns, Len(s))
                  /\ Aggregated(s, keys, columns) =
                        [g \in DOMAIN f[Len(s)] |-> GroupRow(f[Len(s)][g], keys, columns)]
<1>1. Len(s) \in Nat
  BY DEF IsList
<1>2. \E f : Groupings(f, s, keys, columns, Len(s))
  BY <1>1, GroupingsExist
<1> QED
  BY <1>2, Zenon DEF Groupings, Aggregated

\* Groups stay a list when a row is absorbed.
LEMMA AbsorbIsList ==
    ASSUME NEW groups, IsList(groups), NEW row, NEW keys, NEW columns
    PROVE  IsList(Absorb(groups, row, keys, columns))
<1> DEFINE key == [i \in DOMAIN keys |-> Eval(keys[i], row)]
           found == GroupOf(groups, key)
           states == IF found = 0 THEN [i \in DOMAIN columns |-> Null] ELSE groups[found].states
           after == [key |-> key, states |-> [i \in DOMAIN columns |-> Step(columns[i], states[i], row)]]
<1>1. Absorb(groups, row, keys, columns)
        = IF found = 0 THEN Append(groups, after) ELSE [groups EXCEPT ![found] = after]
  BY DEF Absorb
<1> HIDE DEF key, found, states, after
<1> DEFINE n == Len(groups)
<1>2. n \in Nat /\ groups = [i \in 1 .. n |-> groups[i]]
  BY DEF IsList
<1>3. IsList(Append(groups, after))
  <2>1. IsList(<<after>>)
    BY DEF IsList
  <2>2. IsList(groups \o <<after>>)
    BY <2>1, ConcatIsList
  <2>3. groups \in Seq({groups[i] : i \in 1 .. n} \cup {after})
    BY <1>2
  <2>4. Append(groups, after) = groups \o <<after>>
    BY <2>3
  <2> QED
    BY <2>2, <2>4
<1>4. IsList([groups EXCEPT ![found] = after])
  <2> DEFINE t == [groups EXCEPT ![found] = after]
  <2> HIDE DEF n
  <2>1. t = [i \in 1 .. n |-> t[i]]
    BY <1>2
  <2> HIDE DEF t
  <2>2. IsList(t)
    BY <1>2, <2>1, ListIs
  <2> QED
    BY <2>2 DEF t
<1> QED
  BY <1>1, <1>3, <1>4

\* The groups are a list after each row.
LEMMA GroupingsAreLists ==
    ASSUME NEW s, IsList(s), NEW keys, NEW columns, NEW f, Groupings(f, s, keys, columns, Len(s))
    PROVE  \A n \in Nat : n <= Len(s) => IsList(f[n])
<1> DEFINE l == Len(s)
           S == {n \in Nat : n <= l => IsList(f[n])}
<1>1. l \in Nat
  BY DEF IsList
<1>2. \A i \in 0 .. l : f[i] = IF i = 0 THEN <<>> ELSE Absorb(f[i - 1], s[i], keys, columns)
  BY SMTT(60) DEF Groupings
<1> HIDE DEF l
<1>3. 0 \in S
  <2>1. 0 \in 0 .. l
    BY <1>1
  <2>2. f[0] = IF 0 = 0 THEN <<>> ELSE Absorb(f[0 - 1], s[0], keys, columns)
    BY <1>2, <2>1
  <2>3. f[0] = <<>>
    BY <2>2
  <2> QED
    BY <2>3 DEF IsList
<1>4. ASSUME NEW n \in Nat, n \in S PROVE n + 1 \in S
  <2> SUFFICES ASSUME n + 1 <= l PROVE IsList(f[n + 1])
    OBVIOUS
  <2>1. n + 1 \in 0 .. l /\ n + 1 # 0 /\ (n + 1) - 1 = n /\ n <= l
    BY <1>1
  <2>2. IsList(f[n]) /\ f[n + 1] = Absorb(f[n], s[n + 1], keys, columns)
    BY <1>2, <1>4, <2>1
  <2> QED
    BY <2>2, AbsorbIsList
<1> HIDE DEF S
<1>5. \A n \in Nat : n \in S
  BY <1>3, <1>4, EveryNumber
<1> QED
  BY <1>5 DEF S, l

\* What is grouped is a list.
LEMMA AggregatedIsList ==
    ASSUME NEW s, IsList(s), NEW keys, NEW columns
    PROVE  IsList(Aggregated(s, keys, columns))
<1> DEFINE n == Len(s)
<1>1. n \in Nat
  BY DEF IsList
<1>2. PICK f : /\ Groupings(f, s, keys, columns, n)
               /\ Aggregated(s, keys, columns) = [g \in DOMAIN f[n] |-> GroupRow(f[n][g], keys, columns)]
  BY AggregatedIs
<1> DEFINE groups == f[n]
           t == [g \in DOMAIN groups |-> GroupRow(groups[g], keys, columns)]
<1>3. IsList(groups)
  BY <1>1, <1>2, GroupingsAreLists
<1> HIDE DEF n, groups
<1>4. Len(groups) \in Nat /\ DOMAIN groups = 1 .. Len(groups)
  BY <1>3 DEF IsList
<1>5. t = [g \in 1 .. Len(groups) |-> t[g]]
  BY <1>4
<1> HIDE DEF t
<1>6. IsList(t)
  BY <1>4, <1>5, ListIs
<1> QED
  BY <1>2, <1>6 DEF t, groups

\* Running sums over the rows that were read.
Sums(f, members, expr, n) ==
    f = [i \in 0 .. n |->
            IF i = 0 THEN 0
            ELSE IF i \in Known3(members, expr) THEN f[i - 1] + Eval(expr, read[i]) ELSE f[i - 1]]
SumTo(members, expr) == CHOOSE f : Sums(f, members, expr, Len(read))

\* The recursive function of Total exists, for rows of any number.
LEMMA SumsExist ==
    ASSUME NEW members, NEW expr
    PROVE  \A n \in Nat : \E f : Sums(f, members, expr, n)
<1> DEFINE On(x, i) == IF i \in Known3(members, expr) THEN x + Eval(expr, read[i]) ELSE x
           S == {n \in Nat : \E f : Sums(f, members, expr, n)}
<1>1. 0 \in S
  <2> DEFINE f == [i \in 0 .. 0 |-> 0]
  <2>1. f = [i \in 0 .. 0 |-> IF i = 0 THEN 0 ELSE On(f[i - 1], i)]
    <3>1. \A i \in 0 .. 0 : i = 0
      OBVIOUS
    <3> HIDE DEF On
    <3> QED
      BY <3>1
  <2> QED
    BY <2>1 DEF Sums
<1>2. ASSUME NEW n \in Nat, n \in S PROVE n + 1 \in S
  <2>1. PICK f : Sums(f, members, expr, n)
    BY <1>2
  <2>2. \A i \in 0 .. n : f[i] = IF i = 0 THEN 0 ELSE On(f[i - 1], i)
    <3>1. f = [i \in 0 .. n |-> IF i = 0 THEN 0 ELSE On(f[i - 1], i)]
      BY <2>1 DEF Sums
    <3> HIDE DEF On
    <3> QED
      BY <3>1
  <2> DEFINE g == [i \in 0 .. n + 1 |-> IF i <= n THEN f[i] ELSE On(f[n], n + 1)]
             h == [i \in 0 .. n + 1 |-> IF i = 0 THEN 0 ELSE On(g[i - 1], i)]
  <2> HIDE DEF On
  <2>3. ASSUME NEW i \in 0 .. n + 1 PROVE g[i] = h[i]
    <3>1. CASE i <= n
      <4>1. i = 0 \/ g[i - 1] = f[i - 1]
        BY <3>1
      <4>2. g[i] = f[i] /\ f[i] = IF i = 0 THEN 0 ELSE On(f[i - 1], i)
        BY <2>2, <3>1
      <4> QED
        BY <4>1, <4>2
    <3>2. CASE ~ (i <= n)
      <4>1. i = n + 1 /\ i - 1 = n /\ i # 0 /\ n <= n
        BY <3>2
      <4> QED
        BY <3>2, <4>1
    <3> QED
      BY <3>1, <3>2
  <2>4. g = h
    <3>1. DOMAIN g = DOMAIN h /\ g = [i \in 0 .. n + 1 |-> g[i]] /\ h = [i \in 0 .. n + 1 |-> h[i]]
      OBVIOUS
    <3> HIDE DEF g, h
    <3> QED
      BY <2>3, <3>1
  <2>5. Sums(g, members, expr, n + 1)
    <3> HIDE DEF g
    <3> QED
      BY <2>4 DEF Sums, On
  <2> QED
    BY <2>5
<1> HIDE DEF S
<1>3. \A n \in Nat : n \in S
  BY <1>1, <1>2, EveryNumber
<1> QED
  BY <1>3 DEF S

\* How the sums grow, and that Total is the last of them.
LEMMA SumToIs ==
    ASSUME IsList(read), NEW members, NEW expr
    PROVE  /\ Total(members, expr) = SumTo(members, expr)[Len(read)]
           /\ SumTo(members, expr)[0] = 0
           /\ \A i \in 1 .. Len(read) :
                SumTo(members, expr)[i] =
                    IF i \in Known3(members, expr) THEN SumTo(members, expr)[i - 1] + Eval(expr, read[i])
                    ELSE SumTo(members, expr)[i - 1]
<1> DEFINE n == Len(read)
           f == SumTo(members, expr)
<1>1. n \in Nat
  BY DEF IsList
<1>2. Sums(f, members, expr, n)
  <2>1. \E s : Sums(s, members, expr, n)
    BY <1>1, SumsExist
  <2> QED
    BY <2>1, Zenon DEF SumTo
<1>3. Total(members, expr) = f[n]
  BY Zenon DEF Total, SumTo, Sums
<1> HIDE DEF n, f
<1>4. \A i \in 0 .. n : f[i] = IF i = 0 THEN 0
                               ELSE IF i \in Known3(members, expr) THEN f[i - 1] + Eval(expr, read[i]) ELSE f[i - 1]
  BY <1>2 DEF Sums
<1>5. f[0] = 0
  BY <1>1, <1>4
<1>6. \A i \in 1 .. n :
        f[i] = IF i \in Known3(members, expr) THEN f[i - 1] + Eval(expr, read[i]) ELSE f[i - 1]
  BY <1>1, <1>4
<1> QED
  BY <1>3, <1>5, <1>6 DEF n, f

\* Sums of numbers are numbers, and a sum of nothing is 0.
LEMMA SumsAreNumbers ==
    ASSUME IsList(read), NEW members, NEW expr,
           \A p \in DOMAIN read : Eval(expr, read[p]) \in Int \cup {Null}
    PROVE  \A n \in Nat : n <= Len(read) =>
                /\ SumTo(members, expr)[n] \in Int
                /\ Known3(members, expr) \cap 1 .. n = {} => SumTo(members, expr)[n] = 0
<1> DEFINE l == Len(read)
           f == SumTo(members, expr)
           known == Known3(members, expr)
           S == {n \in Nat : n <= l => f[n] \in Int /\ (known \cap 1 .. n = {} => f[n] = 0)}
<1>1. l \in Nat /\ DOMAIN read = 1 .. l
  BY DEF IsList
<1>2. /\ f[0] = 0
      /\ \A i \in 1 .. l : f[i] = IF i \in known THEN f[i - 1] + Eval(expr, read[i]) ELSE f[i - 1]
  BY SumToIs
<1>3. \A i \in known : Eval(expr, read[i]) # Null
  BY DEF Known3
<1> HIDE DEF l, f, known
<1>4. 0 \in S
  BY <1>2
<1>5. ASSUME NEW n \in Nat, n \in S PROVE n + 1 \in S
  <2> SUFFICES ASSUME n + 1 <= l
               PROVE  f[n + 1] \in Int /\ (known \cap 1 .. n + 1 = {} => f[n + 1] = 0)
    OBVIOUS
  <2>1. n + 1 \in 1 .. l /\ (n + 1) - 1 = n /\ n <= l
    BY <1>1
  <2>2. f[n] \in Int /\ (known \cap 1 .. n = {} => f[n] = 0)
    BY <1>5, <2>1
  <2>3. f[n + 1] = IF n + 1 \in known THEN f[n] + Eval(expr, read[n + 1]) ELSE f[n]
    BY <1>2, <2>1
  <2>4. n + 1 \in known => Eval(expr, read[n + 1]) \in Int
    BY <1>1, <1>3, <2>1
  <2>5. f[n + 1] \in Int
    BY <2>2, <2>3, <2>4
  <2>6. ASSUME known \cap 1 .. n + 1 = {} PROVE f[n + 1] = 0
    <3>1. n + 1 \notin known /\ known \cap 1 .. n = {}
      BY <2>6
    <3> QED
      BY <2>2, <2>3, <3>1
  <2> QED
    BY <2>5, <2>6
<1> HIDE DEF S
<1>6. \A n \in Nat : n \in S
  BY <1>4, <1>5, EveryNumber
<1> QED
  BY <1>6 DEF S, l, f, known
\* The key of a row, and the first m rows that have it.
KeyOfRow(p) == [k \in DOMAIN GroupKeys |-> Eval(GroupKeys[k], read[p])]
With(key, m) == {p \in 1 .. m : KeyOfRow(p) = key}

\* What a group's state for a column is after the first m rows.
SumOf(key, expr, m) == SumTo(With(key, Len(read)), expr)[m]
KnownOf(key, expr, m) == Known3(With(key, m), expr)
StateIs(column, state, key, m) ==
    /\ IsColumn(column) /\ With(key, m) # {} =>
        \E p \in With(key, m) : state = Value(read[p], <<column.name>>)
    /\ ~ IsColumn(column) /\ column.func = "COUNT" =>
        state = IF With(key, m) = {} THEN Null ELSE Cardinality(With(key, m))
    /\ ~ IsColumn(column) /\ column.func = "SUM" =>
        state = IF KnownOf(key, column.arg, m) = {} THEN Null ELSE SumOf(key, column.arg, m)
    /\ ~ IsColumn(column) /\ column.func = "AVG" =>
        state = IF With(key, m) = {} THEN Null
                ELSE <<SumOf(key, column.arg, m), Cardinality(KnownOf(key, column.arg, m))>>

\* The rows with a key, and their number, by one more row.
LEMMA WithGrows ==
    ASSUME NEW m \in Nat, NEW key
    PROVE  /\ With(key, m + 1) = With(key, m) \cup (IF KeyOfRow(m + 1) = key THEN {m + 1} ELSE {})
           /\ m + 1 \notin With(key, m)
           /\ IsFiniteSet(With(key, m)) /\ Cardinality(With(key, m)) \in Nat
           /\ KeyOfRow(m + 1) = key => Cardinality(With(key, m + 1)) = Cardinality(With(key, m)) + 1
<1>1. 1 .. m + 1 = (1 .. m) \cup {m + 1} /\ m + 1 \notin 1 .. m
  OBVIOUS
<1>2. With(key, m + 1) = With(key, m) \cup (IF KeyOfRow(m + 1) = key THEN {m + 1} ELSE {})
  BY <1>1 DEF With
<1>3. m + 1 \notin With(key, m) /\ With(key, m) \subseteq 1 .. m
  BY <1>1 DEF With
<1>4. IsFiniteSet(With(key, m)) /\ Cardinality(With(key, m)) \in Nat
  <2>1. IsFiniteSet(1 .. m)
    BY FS_Interval
  <2>2. IsFiniteSet(With(key, m))
    BY <1>3, <2>1, FS_Subset
  <2> QED
    BY <2>2, FS_CardinalityType
<1>5. Cardinality(With(key, m) \cup {m + 1}) = Cardinality(With(key, m)) + 1
  BY <1>3, <1>4, FS_AddElement
<1> QED
  BY <1>2, <1>3, <1>4, <1>5

\* The rows with a key and a value that is not NULL, by one more row.
LEMMA KnownGrows ==
    ASSUME NEW m \in Nat, NEW key, NEW expr
    PROVE  /\ KnownOf(key, expr, m + 1)
                = KnownOf(key, expr, m) \cup
                    (IF KeyOfRow(m + 1) = key /\ Eval(expr, read[m + 1]) # Null THEN {m + 1} ELSE {})
           /\ m + 1 \notin KnownOf(key, expr, m)
           /\ IsFiniteSet(KnownOf(key, expr, m)) /\ Cardinality(KnownOf(key, expr, m)) \in Nat
           /\ KeyOfRow(m + 1) = key /\ Eval(expr, read[m + 1]) # Null =>
                Cardinality(KnownOf(key, expr, m + 1)) = Cardinality(KnownOf(key, expr, m)) + 1
<1>1. /\ With(key, m + 1) = With(key, m) \cup (IF KeyOfRow(m + 1) = key THEN {m + 1} ELSE {})
      /\ m + 1 \notin With(key, m)
      /\ IsFiniteSet(With(key, m))
  BY WithGrows
<1>2. KnownOf(key, expr, m + 1)
        = KnownOf(key, expr, m) \cup
            (IF KeyOfRow(m + 1) = key /\ Eval(expr, read[m + 1]) # Null THEN {m + 1} ELSE {})
  BY <1>1 DEF KnownOf, Known3
<1>3. m + 1 \notin KnownOf(key, expr, m) /\ KnownOf(key, expr, m) \subseteq With(key, m)
  BY <1>1 DEF KnownOf, Known3
<1>4. IsFiniteSet(KnownOf(key, expr, m))
  BY <1>1, <1>3, FS_Subset
<1>5. Cardinality(KnownOf(key, expr, m)) \in Nat
  BY <1>4, FS_CardinalityType
<1>6. Cardinality(KnownOf(key, expr, m) \cup {m + 1}) = Cardinality(KnownOf(key, expr, m)) + 1
  BY <1>3, <1>4, FS_AddElement
<1> QED
  BY <1>2, <1>3, <1>4, <1>5, <1>6

\* Running sums of the rows with a key.
LEMMA SumOfGrows ==
    ASSUME IsList(read), NEW key, NEW expr,
           \A p \in DOMAIN read : Eval(expr, read[p]) \in Int \cup {Null},
           NEW m \in Nat, m + 1 <= Len(read)
    PROVE  /\ SumOf(key, expr, m) \in Int
           /\ KnownOf(key, expr, m) = {} => SumOf(key, expr, m) = 0
           /\ SumOf(key, expr, m + 1) =
                IF KeyOfRow(m + 1) = key /\ Eval(expr, read[m + 1]) # Null
                THEN SumOf(key, expr, m) + Eval(expr, read[m + 1]) ELSE SumOf(key, expr, m)
<1> DEFINE n == Len(read)
           members == With(key, n)
<1>1. n \in Nat /\ m <= n /\ m + 1 \in 1 .. n /\ (m + 1) - 1 = m
  BY DEF IsList
<1>2. Known3(members, expr) \cap 1 .. m = KnownOf(key, expr, m)
  <2>1. 1 .. m \subseteq 1 .. n
    BY <1>1
  <2> HIDE DEF n
  <2> QED
    BY <2>1 DEF Known3, KnownOf, With
<1>3. m + 1 \in Known3(members, expr) <=> KeyOfRow(m + 1) = key /\ Eval(expr, read[m + 1]) # Null
  <2> HIDE DEF n
  <2> QED
    BY <1>1 DEF Known3, With
<1> HIDE DEF members
<1>4. /\ SumTo(members, expr)[m] \in Int
      /\ Known3(members, expr) \cap 1 .. m = {} => SumTo(members, expr)[m] = 0
  BY <1>1, SumsAreNumbers
<1>5. SumTo(members, expr)[m + 1] =
        IF m + 1 \in Known3(members, expr) THEN SumTo(members, expr)[m] + Eval(expr, read[m + 1])
        ELSE SumTo(members, expr)[m]
  <2>1. \A i \in 1 .. n :
            SumTo(members, expr)[i] =
                IF i \in Known3(members, expr) THEN SumTo(members, expr)[i - 1] + Eval(expr, read[i])
                ELSE SumTo(members, expr)[i - 1]
    BY SumToIs
  <2> HIDE DEF n
  <2> QED
    BY <1>1, <2>1
<1>6. \A i : SumOf(key, expr, i) = SumTo(members, expr)[i]
  BY DEF SumOf, members
<1> QED
  BY <1>2, <1>3, <1>4, <1>5, <1>6

\* A column that ClearGrouping allows.
ClearColumn(column) == IsColumn(column) \/ IsAggregate(column)

\* An aggregate is told from a column by its fields.
LEMMA AggregateIsNoColumn ==
    ASSUME NEW column, IsAggregate(column)
    PROVE  /\ ~ IsColumn(column) /\ column.func \in {"COUNT", "SUM", "AVG"}
           /\ column.func # "COUNT" =>
                column.arg # Star /\ \A p \in DOMAIN read : Eval(column.arg, read[p]) \in Int \cup {Null}
<1>1. DOMAIN column = {"func", "arg"}
  BY DEF IsAggregate, Aggregate
<1>2. ~ IsColumn(column)
  BY <1>1 DEF IsColumn
<1> QED
  BY <1>2 DEF IsAggregate

\* The next row has the key: its group's state takes it in.
LEMMA StepKeeps ==
    ASSUME IsList(read), NEW column, ClearColumn(column), NEW m \in Nat, m + 1 <= Len(read),
           NEW state, StateIs(column, state, KeyOfRow(m + 1), m)
    PROVE  StateIs(column, Step(column, state, read[m + 1]), KeyOfRow(m + 1), m + 1)
<1> DEFINE key == KeyOfRow(m + 1)
           row == read[m + 1]
           next == Step(column, state, row)
           arg == column.arg
<1>0. m + 1 \in DOMAIN read
  BY DEF IsList
<1>1. /\ m + 1 \in With(key, m + 1)
      /\ Cardinality(With(key, m + 1)) = Cardinality(With(key, m)) + 1
  BY WithGrows, ZenonT(60)
<1> DEFINE known == KnownOf(key, arg, m)
           after == KnownOf(key, arg, m + 1)
           sum == SumOf(key, arg, m)
           total == SumOf(key, arg, m + 1)
           value == Eval(arg, row)
<1>2. /\ after = known \cup (IF value # Null THEN {m + 1} ELSE {})
      /\ Cardinality(known) \in Nat
      /\ value # Null => Cardinality(after) = Cardinality(known) + 1
  BY KnownGrows, ZenonT(60)
<1>3. CASE IsColumn(column)
  <2>1. next = Value(row, <<column.name>>)
    BY <1>3 DEF Step
  <2> HIDE DEF key, row, next
  <2>2. \E p \in With(key, m + 1) : next = Value(read[p], <<column.name>>)
    BY <1>1, <2>1 DEF row
  <2> QED
    BY <1>3, <2>2 DEF StateIs, key, next, row
<1>4. CASE IsAggregate(column)
  <2>1. /\ ~ IsColumn(column) /\ column.func \in {"COUNT", "SUM", "AVG"}
        /\ column.func # "COUNT" => arg # Star /\ \A p \in DOMAIN read : Eval(arg, read[p]) \in Int \cup {Null}
    BY <1>4, AggregateIsNoColumn
  <2>2. next = Accumulate(column.func, state, IF arg = Star THEN Star ELSE value)
    BY <2>1 DEF Step
  <2>3. CASE column.func = "COUNT"
    <3>1. next = (IF state = Null THEN 0 ELSE state) + 1
      BY <2>2, <2>3, Zenon DEF Accumulate
    <3>2. state = IF With(key, m) = {} THEN Null ELSE Cardinality(With(key, m))
      BY <2>1, <2>3 DEF StateIs
    <3>3. With(key, m) = {} => Cardinality(With(key, m)) = 0
      BY FS_EmptySet
    <3>4. Cardinality(With(key, m)) \in Nat
      BY WithGrows
    <3>5. Null \notin Nat
      BY NoneAssumption
    <3> HIDE DEF key, next
    <3>6. next = Cardinality(With(key, m + 1)) /\ With(key, m + 1) # {}
      BY <1>1, <3>1, <3>2, <3>3, <3>4, <3>5
    <3>7. StateIs(column, next, key, m + 1)
      BY <2>1, <2>3, <3>6 DEF StateIs
    <3> QED
      BY <3>7 DEF key, next, row
  <2>4. CASE column.func \in {"SUM", "AVG"}
    <3>1. value \in Int \cup {Null} /\ arg # Star
      BY <1>0, <2>1, <2>4
    <3>2. /\ sum \in Int
          /\ known = {} => sum = 0
          /\ total = IF value # Null THEN sum + value ELSE sum
      <4>1. \A p \in DOMAIN read : Eval(arg, read[p]) \in Int \cup {Null}
        BY <2>1, <2>4
      <4> HIDE DEF arg
      <4> QED
        BY <4>1, SumOfGrows
    <3>3. next = Accumulate(column.func, state, value)
      BY <2>2, <3>1
    <3>4. Null \notin Int /\ Null \notin Int \X Int
      BY NoneAssumption
    <3>5. CASE column.func = "SUM"
      <4>1. next = IF value = Null THEN state ELSE (IF state = Null THEN 0 ELSE state) + value
        BY <3>3, <3>5, Zenon DEF Accumulate
      <4>2. state = IF known = {} THEN Null ELSE sum
        BY <2>1, <3>5 DEF StateIs
      <4> HIDE DEF key, next, known, after, sum, total, value
      <4>3. next = IF after = {} THEN Null ELSE total
        BY <1>2, <3>1, <3>2, <3>4, <4>1, <4>2, SMTT(60)
      <4>4. StateIs(column, next, key, m + 1)
        BY <2>1, <3>5, <4>3 DEF StateIs, after, total
      <4> QED
        BY <4>4 DEF key, next, row
    <3>6. CASE column.func = "AVG"
      <4> DEFINE pair == IF state = Null THEN <<0, 0>> ELSE state
      <4>1. next = IF value = Null THEN pair ELSE <<pair[1] + value, pair[2] + 1>>
        BY <3>3, <3>6, Zenon DEF Accumulate
      <4>2. state = IF With(key, m) = {} THEN Null ELSE <<sum, Cardinality(known)>>
        BY <2>1, <3>6 DEF StateIs
      <4>3. With(key, m) = {} => known = {} /\ Cardinality(known) = 0
        BY FS_EmptySet DEF KnownOf, Known3
      <4>4. With(key, m + 1) # {}
        BY <1>1
      <4> HIDE DEF key, next, known, after, sum, total, value
      <4>5. <<sum, Cardinality(known)>> # Null
        BY <1>2, <3>2, <3>4
      <4>6. pair = <<sum, Cardinality(known)>>
        BY <3>2, <4>2, <4>3, <4>5
      <4> HIDE DEF pair
      <4>7. value = Null => after = known
        BY <1>2
      <4>8. next = <<total, Cardinality(after)>>
        BY <1>2, <3>2, <4>1, <4>6, <4>7
      <4>9. StateIs(column, next, key, m + 1)
        BY <2>1, <3>6, <4>4, <4>8 DEF StateIs, after, total
      <4> QED
        BY <4>9 DEF key, next, row
    <3> QED
      BY <2>4, <3>5, <3>6
  <2> QED
    BY <2>1, <2>3, <2>4
<1> QED
  BY <1>3, <1>4 DEF ClearColumn

\* The next row has another key: the group's state stays.
LEMMA OtherKeeps ==
    ASSUME IsList(read), NEW column, ClearColumn(column), NEW m \in Nat, m + 1 <= Len(read),
           NEW key, key # KeyOfRow(m + 1), NEW state, StateIs(column, state, key, m)
    PROVE  StateIs(column, state, key, m + 1)
<1>1. With(key, m + 1) = With(key, m)
  <2>1. With(key, m + 1) = With(key, m) \cup (IF KeyOfRow(m + 1) = key THEN {m + 1} ELSE {})
    BY WithGrows
  <2> QED
    BY <2>1
<1>2. KnownOf(key, column.arg, m + 1) = KnownOf(key, column.arg, m)
  BY <1>1 DEF KnownOf
<1>3. IsAggregate(column) /\ column.func # "COUNT" =>
        SumOf(key, column.arg, m + 1) = SumOf(key, column.arg, m)
  <2> SUFFICES ASSUME IsAggregate(column), column.func # "COUNT"
               PROVE  SumOf(key, column.arg, m + 1) = SumOf(key, column.arg, m)
    OBVIOUS
  <2>1. \A p \in DOMAIN read : Eval(column.arg, read[p]) \in Int \cup {Null}
    BY AggregateIsNoColumn
  <2> QED
    BY <2>1, SumOfGrows
<1>4. ~ IsColumn(column) => IsAggregate(column)
  BY DEF ClearColumn
<1> QED
  BY <1>1, <1>2, <1>3, <1>4 DEF StateIs

\* The groups after the first m rows: one for each key those rows have.
GroupIs(group, m) ==
    /\ With(group.key, m) # {}
    /\ \A i \in DOMAIN stmt.columns : StateIs(stmt.columns[i], group.states[i], group.key, m)
Grouped(groups, m) ==
    /\ IsList(groups)
    /\ \A g, h \in DOMAIN groups : g # h => groups[g].key # groups[h].key
    /\ \A p \in 1 .. m : \E g \in DOMAIN groups : groups[g].key = KeyOfRow(p)
    /\ \A g \in DOMAIN groups : GroupIs(groups[g], m)

\* Before the first row there are no groups.
LEMMA NothingIsGrouped == Grouped(<<>>, 0)
BY DEF Grouped, IsList

\* A row that is absorbed keeps the states those of the rows so far, in every
\* group: in its own it is counted and summed up, a new one has it alone.
LEMMA AbsorbKeeps ==
    ASSUME IsList(read), \A i \in DOMAIN stmt.columns : ClearColumn(stmt.columns[i]),
           NEW m \in Nat, m + 1 <= Len(read), NEW groups, Grouped(groups, m)
    PROVE  Grouped(Absorb(groups, read[m + 1], GroupKeys, stmt.columns), m + 1)
<1> DEFINE key == KeyOfRow(m + 1)
           found == GroupOf(groups, key)
           states == IF found = 0 THEN [i \in DOMAIN stmt.columns |-> Null] ELSE groups[found].states
           after == [key |-> key, states |-> [i \in DOMAIN stmt.columns |-> Step(stmt.columns[i], states[i], read[m + 1])]]
           new == Absorb(groups, read[m + 1], GroupKeys, stmt.columns)
           n == Len(groups)
<1>1. new = IF found = 0 THEN Append(groups, after) ELSE [groups EXCEPT ![found] = after]
  BY DEF Absorb, KeyOfRow
<1>2. /\ IsList(groups)
      /\ \A g, h \in DOMAIN groups : g # h => groups[g].key # groups[h].key
      /\ \A p \in 1 .. m : \E g \in DOMAIN groups : groups[g].key = KeyOfRow(p)
      /\ \A g \in DOMAIN groups : GroupIs(groups[g], m)
  BY DEF Grouped
<1>3. n \in Nat /\ DOMAIN groups = 1 .. n /\ groups = [g \in 1 .. n |-> groups[g]]
  BY <1>2 DEF IsList
<1>4. /\ found \in 0 .. n
      /\ found = 0 => \A g \in DOMAIN groups : groups[g].key # key
      /\ found # 0 => groups[found].key = key
  BY <1>2, GroupOfIs
<1>5. IsList(new)
  BY <1>2, AbsorbIsList
<1>6. m + 1 \in With(key, m + 1)
  BY WithGrows, ZenonT(60)
<1>7. ASSUME NEW i \in DOMAIN stmt.columns PROVE StateIs(stmt.columns[i], states[i], key, m)
  <2>1. CASE found = 0
    <3>1. With(key, m) = {}
      <4>1. ASSUME NEW p \in 1 .. m PROVE KeyOfRow(p) # key
        <5>1. PICK g \in DOMAIN groups : groups[g].key = KeyOfRow(p)
          BY <1>2
        <5> HIDE DEF key, found
        <5> QED
          BY <1>4, <2>1, <5>1
      <4> HIDE DEF key
      <4> QED
        BY <4>1 DEF With
    <3>2. states[i] = Null
      BY <2>1
    <3>3. \A e : KnownOf(key, e, m) = {}
      BY <3>1 DEF KnownOf, Known3
    <3> HIDE DEF key, states, found
    <3> QED
      BY <3>1, <3>2, <3>3 DEF StateIs
  <2>2. CASE found # 0
    <3>1. found \in DOMAIN groups
      <4> HIDE DEF found
      <4> QED
        BY <1>3, <1>4, <2>2
    <3>2. GroupIs(groups[found], m)
      BY <1>2, <3>1
    <3>3. groups[found].key = key /\ states = groups[found].states
      BY <1>4, <2>2
    <3> HIDE DEF key, states, found
    <3> QED
      BY <3>2, <3>3 DEF GroupIs
  <2> QED
    BY <2>1, <2>2
<1>8. GroupIs(after, m + 1)
  <2> DEFINE next(i) == Step(stmt.columns[i], states[i], read[m + 1])
  <2>1. ASSUME NEW i \in DOMAIN stmt.columns PROVE StateIs(stmt.columns[i], next(i), key, m + 1)
    <3>1. StateIs(stmt.columns[i], states[i], key, m)
      BY <1>7
    <3>2. ClearColumn(stmt.columns[i])
      OBVIOUS
    <3> HIDE DEF states
    <3> QED
      BY <3>1, <3>2, StepKeeps
  <2>2. after.key = key /\ \A i \in DOMAIN stmt.columns : after.states[i] = next(i)
    OBVIOUS
  <2> HIDE DEF after, next, key
  <2> QED
    BY <1>6, <2>1, <2>2 DEF GroupIs
<1>9. ASSUME NEW g \in DOMAIN groups, groups[g].key # key PROVE GroupIs(groups[g], m + 1)
  <2>1. GroupIs(groups[g], m)
    BY <1>2
  <2>2. With(groups[g].key, m) \subseteq With(groups[g].key, m + 1)
    BY DEF With
  <2>3. ASSUME NEW i \in DOMAIN stmt.columns
        PROVE  StateIs(stmt.columns[i], groups[g].states[i], groups[g].key, m + 1)
    <3>1. StateIs(stmt.columns[i], groups[g].states[i], groups[g].key, m) /\ ClearColumn(stmt.columns[i])
      BY <2>1 DEF GroupIs
    <3> QED
      BY <1>9, <3>1, OtherKeeps
  <2> QED
    BY <2>1, <2>2, <2>3 DEF GroupIs
<1>10. after.key = key
  OBVIOUS
<1> HIDE DEF key, found, states, after, new, n
<1>11. ASSUME NEW p \in 1 .. m + 1 PROVE p \in 1 .. m \/ KeyOfRow(p) = key
  BY DEF key
<1>12. CASE found = 0
  <2>1. /\ DOMAIN new = 1 .. n + 1
        /\ \A g \in 1 .. n : new[g] = groups[g]
        /\ new[n + 1] = after
    <3>1. groups \in Seq({groups[g] : g \in 1 .. n} \cup {after})
      BY <1>3
    <3>2. Len(groups) = n /\ new = Append(groups, after)
      BY <1>1, <1>12 DEF n
    <3> QED
      BY <3>1, <3>2
  <2>2. \A g \in DOMAIN new : g \in 1 .. n \/ g = n + 1
    BY <1>3, <2>1
  <2>3. \A g \in 1 .. n : groups[g].key # key
    BY <1>3, <1>4, <1>12
  <2>4. \A g, h \in DOMAIN new : g # h => new[g].key # new[h].key
    BY <1>2, <1>3, <1>10, <2>1, <2>2, <2>3, SMTT(60)
  <2>5. \A p \in 1 .. m + 1 : \E g \in DOMAIN new : new[g].key = KeyOfRow(p)
    <3>1. n + 1 \in DOMAIN new /\ 1 .. n \subseteq DOMAIN new
      BY <1>3, <2>1
    <3>2. ASSUME NEW p \in 1 .. m PROVE \E g \in DOMAIN new : new[g].key = KeyOfRow(p)
      BY <1>2, <1>3, <2>1, <3>1, SMTT(60)
    <3>3. ASSUME NEW p, KeyOfRow(p) = key PROVE \E g \in DOMAIN new : new[g].key = KeyOfRow(p)
      BY <1>10, <2>1, <3>1, <3>3
    <3> QED
      BY <1>11, <3>2, <3>3
  <2>6. \A g \in DOMAIN new : GroupIs(new[g], m + 1)
    BY <1>3, <1>8, <1>9, <2>1, <2>2, <2>3
  <2>7. Grouped(new, m + 1)
    BY <1>5, <2>4, <2>5, <2>6 DEF Grouped
  <2> QED
    BY <2>7 DEF new
<1>13. CASE found # 0
  <2>0. found \in DOMAIN groups /\ groups[found].key = key
    BY <1>3, <1>4, <1>13
  <2>1. /\ DOMAIN new = DOMAIN groups
        /\ \A g \in DOMAIN groups : g # found => new[g] = groups[g]
        /\ new[found] = after
    BY <1>1, <1>13, <2>0
  <2>2. \A g \in DOMAIN new : new[g].key = groups[g].key
    BY <1>10, <2>0, <2>1
  <2>3. \A g, h \in DOMAIN new : g # h => new[g].key # new[h].key
    BY <1>2, <2>1, <2>2
  <2>4. \A p \in 1 .. m + 1 : \E g \in DOMAIN new : new[g].key = KeyOfRow(p)
    BY <1>2, <1>11, <2>0, <2>1, <2>2
  <2>5. \A g \in DOMAIN new : GroupIs(new[g], m + 1)
    <3>1. \A g \in DOMAIN groups : g # found => groups[g].key # key
      BY <1>2, <2>0
    <3> QED
      BY <1>8, <1>9, <2>1, <3>1
  <2>6. Grouped(new, m + 1)
    BY <1>5, <2>3, <2>4, <2>5 DEF Grouped
  <2> QED
    BY <2>6 DEF new
<1> QED
  BY <1>12, <1>13

\* So the groups after all rows are the ones of the rows' keys.
LEMMA AggregatedGroups ==
    ASSUME IsList(read), \A i \in DOMAIN stmt.columns : ClearColumn(stmt.columns[i])
    PROVE  \E groups : /\ Grouped(groups, Len(read))
                       /\ Aggregated(read, GroupKeys, stmt.columns)
                            = [g \in DOMAIN groups |-> GroupRow(groups[g], GroupKeys, stmt.columns)]
<1> DEFINE n == Len(read)
<1>1. n \in Nat
  BY DEF IsList
<1>2. PICK f : /\ Groupings(f, read, GroupKeys, stmt.columns, n)
               /\ Aggregated(read, GroupKeys, stmt.columns)
                    = [g \in DOMAIN f[n] |-> GroupRow(f[n][g], GroupKeys, stmt.columns)]
  <2> DEFINE keys == GroupKeys
             columns == stmt.columns
  <2> HIDE DEF keys, columns
  <2>1. \E f : /\ Groupings(f, read, keys, columns, Len(read))
               /\ Aggregated(read, keys, columns) = [g \in DOMAIN f[Len(read)] |-> GroupRow(f[Len(read)][g], keys, columns)]
    BY AggregatedIs
  <2> QED
    BY <2>1 DEF keys, columns
<1>3. \A i \in 0 .. n : f[i] = IF i = 0 THEN <<>> ELSE Absorb(f[i - 1], read[i], GroupKeys, stmt.columns)
  BY <1>2, SMTT(60) DEF Groupings
<1> DEFINE S == {m \in Nat : m <= n => Grouped(f[m], m)}
<1>4. 0 \in S
  <2>1. 0 \in 0 .. n
    BY <1>1
  <2>2. f[0] = IF 0 = 0 THEN <<>> ELSE Absorb(f[0 - 1], read[0], GroupKeys, stmt.columns)
    BY <1>3, <2>1
  <2>3. f[0] = <<>>
    BY <2>2
  <2> QED
    BY <2>3, NothingIsGrouped
<1>5. ASSUME NEW m \in Nat, m \in S PROVE m + 1 \in S
  <2> SUFFICES ASSUME m + 1 <= n PROVE Grouped(f[m + 1], m + 1)
    OBVIOUS
  <2>1. m + 1 \in 0 .. n /\ m + 1 # 0 /\ (m + 1) - 1 = m /\ m <= n
    BY <1>1
  <2>2. f[m + 1] = Absorb(f[m], read[m + 1], GroupKeys, stmt.columns)
    BY <1>3, <2>1
  <2>3. Grouped(f[m], m)
    BY <1>5, <2>1
  <2> QED
    BY <2>2, <2>3, AbsorbKeeps
<1> HIDE DEF S
<1>6. \A m \in Nat : m \in S
  BY <1>4, <1>5, EveryNumber
<1>7. Grouped(f[n], n)
  BY <1>1, <1>6 DEF S
<1> QED
  BY <1>2, <1>7

\* A row of the answer names the values of the key, and the state of every aggregate.
LEMMA KeyIsNamed ==
    ASSUME IsQuery(stmt), ClearGrouping, NEW m \in Nat, NEW group, GroupIs(group, m), NEW k \in DOMAIN GroupKeys
    PROVE  GroupRow(group, GroupKeys, stmt.columns)[<<GroupKeys[k].name>>] = group.key[k]
<1> DEFINE keys == GroupKeys
           columns == stmt.columns
           name == <<keys[k].name>>
           Cs == {i \in DOMAIN columns : Alias(columns[i]) = name}
           Ks == {j \in DOMAIN keys : <<keys[j].name>> = name}
           Final(i) == IF IsColumn(columns[i]) THEN group.states[i] ELSE Finalize(columns[i].func, group.states[i])
           aliases == {Alias(columns[i]) : i \in DOMAIN columns}
           names == {<<keys[j].name>> : j \in DOMAIN keys}
<1>1. GroupRow(group, keys, columns) =
        [x \in aliases \cup names |->
            IF x \in aliases THEN Final(Max({i \in DOMAIN columns : Alias(columns[i]) = x}))
            ELSE group.key[Max({j \in DOMAIN keys : <<keys[j].name>> = x})]]
  BY Zenon DEF GroupRow
<1>2. GroupRow(group, keys, columns)[name] =
        IF name \in aliases THEN Final(Max(Cs)) ELSE group.key[Max(Ks)]
  <2>1. name \in aliases \cup names
    OBVIOUS
  <2> HIDE DEF aliases, names, name, Final
  <2> QED
    BY <1>1, <2>1
<1>3. /\ Len(columns) \in Nat /\ DOMAIN columns = 1 .. Len(columns)
      /\ Len(keys) \in Nat /\ DOMAIN keys = 1 .. Len(keys)
  BY DEF IsQuery, IsList, GroupKeys
<1>4. PICK p \in With(group.key, m) : TRUE
  BY DEF GroupIs
<1>5. group.key = KeyOfRow(p)
  BY <1>4 DEF With
<1>6. \A j \in DOMAIN keys : group.key[j] = Eval(keys[j], read[p])
  BY <1>5 DEF KeyOfRow
<1>7. CASE name \in aliases
  <2>1. Cs # {} /\ Cs \in SUBSET (1 .. Len(columns))
    BY <1>3, <1>7
  <2> DEFINE i == Max(Cs)
  <2>2. i \in Cs
    <3> HIDE DEF Cs
    <3> QED
      BY <1>3, <2>1, MaxOf
  <2>3. GroupRow(group, keys, columns)[name] = Final(i)
    BY <1>2, <1>7
  <2> HIDE DEF i
  <2>4. i \in DOMAIN columns /\ Alias(columns[i]) = name
    BY <2>2
  <2>5. IsColumn(columns[i])
    BY <2>4 DEF ClearGrouping
  <2>6. columns[i].name = keys[k].name
    BY <2>4, <2>5 DEF Alias
  <2>7. GroupRow(group, keys, columns)[name] = group.states[i]
    BY <2>3, <2>5
  <2>8. StateIs(columns[i], group.states[i], group.key, m)
    BY <2>4 DEF GroupIs
  <2>9. PICK q \in With(group.key, m) : group.states[i] = Value(read[q], <<columns[i].name>>)
    BY <1>4, <2>5, <2>8 DEF StateIs
  <2>10. group.key = KeyOfRow(q)
    BY <2>9 DEF With
  <2>11. group.key[k] = Eval(keys[k], read[q])
    BY <2>10 DEF KeyOfRow
  <2>12. Eval(keys[k], read[q]) = Value(read[q], <<keys[k].name>>)
    <3>1. keys[k] \in Expression /\ keys[k] = Column(None, keys[k].name)
      BY DEF ClearGrouping
    <3> DEFINE e == keys[k]
    <3>2. "lit" \notin DOMAIN e /\ "name" \in DOMAIN e /\ e.table = None
      BY <3>1 DEF Column
    <3>3. e \in Expression
      BY <3>1
    <3> HIDE DEF e
    <3>4. Eval(e, read[q]) =
            IF "lit" \in DOMAIN e THEN ValueOf[e.lit]
            ELSE IF "name" \in DOMAIN e THEN ColumnValue(e, read[q])
            ELSE Operated(e.op, [x \in DOMAIN e.args |-> Eval(e.args[x], read[q])])
      BY <3>3, EvalIs
    <3>5. Eval(e, read[q]) = ColumnValue(e, read[q])
      BY <3>2, <3>4, Zenon
    <3>6. ColumnValue(e, read[q]) = Value(read[q], <<e.name>>)
      BY <3>2, Zenon DEF ColumnValue
    <3> QED
      BY <3>5, <3>6 DEF e
  <2> QED
    BY <2>6, <2>7, <2>9, <2>11, <2>12
<1>8. CASE name \notin aliases
  <2>1. k \in Ks /\ Ks \in SUBSET (1 .. Len(keys))
    BY <1>3
  <2> DEFINE j == Max(Ks)
  <2>2. j \in Ks
    <3> HIDE DEF Ks
    <3> QED
      BY <1>3, <2>1, MaxOf
  <2>3. GroupRow(group, keys, columns)[name] = group.key[j]
    BY <1>2, <1>8
  <2> HIDE DEF j
  <2>4. j \in DOMAIN keys /\ keys[j].name = keys[k].name
    BY <2>2
  <2>5. keys[j] = Column(None, keys[j].name) /\ keys[k] = Column(None, keys[k].name)
    BY <2>4 DEF ClearGrouping
  <2>6. keys[j] = keys[k]
    BY <2>4, <2>5
  <2>7. group.key[j] = group.key[k]
    BY <1>6, <2>4, <2>6
  <2> QED
    BY <2>3, <2>7
<1> QED
  BY <1>7, <1>8

\* A row of a group has the aggregate under its alias.
LEMMA AggregateIsNamed ==
    ASSUME IsQuery(stmt), ClearGrouping, NEW group, NEW c \in DOMAIN stmt.columns, ~ IsColumn(stmt.columns[c])
    PROVE  GroupRow(group, GroupKeys, stmt.columns)[Alias(stmt.columns[c])]
            = Finalize(stmt.columns[c].func, group.states[c])
<1> DEFINE keys == GroupKeys
           columns == stmt.columns
           name == Alias(columns[c])
           Cs == {i \in DOMAIN columns : Alias(columns[i]) = name}
           Final(i) == IF IsColumn(columns[i]) THEN group.states[i] ELSE Finalize(columns[i].func, group.states[i])
           aliases == {Alias(columns[i]) : i \in DOMAIN columns}
           names == {<<keys[j].name>> : j \in DOMAIN keys}
<1>1. GroupRow(group, keys, columns) =
        [x \in aliases \cup names |->
            IF x \in aliases THEN Final(Max({i \in DOMAIN columns : Alias(columns[i]) = x}))
            ELSE group.key[Max({j \in DOMAIN keys : <<keys[j].name>> = x})]]
  BY Zenon DEF GroupRow
<1>2. name \in aliases
  OBVIOUS
<1>3. GroupRow(group, keys, columns)[name] = Final(Max(Cs))
  <2> HIDE DEF aliases, names, name, Final
  <2> QED
    BY <1>1, <1>2
<1>4. Len(columns) \in Nat /\ DOMAIN columns = 1 .. Len(columns)
  BY DEF IsQuery, IsList
<1>5. \A j \in DOMAIN columns \ {c} : Alias(columns[j]) # name
  BY DEF ClearGrouping
<1>6. Cs = {c}
  <2> HIDE DEF name
  <2>1. c \in Cs
    BY DEF name
  <2> QED
    BY <1>5, <2>1
<1>7. Max(Cs) = c
  <2>1. Cs # {} /\ Cs \in SUBSET (1 .. Len(columns))
    BY <1>4, <1>6
  <2>2. Max(Cs) \in Cs
    <3> HIDE DEF Cs
    <3> QED
      BY <1>4, <2>1, MaxOf
  <2> HIDE DEF Cs
  <2> QED
    BY <1>6, <2>2
<1>8. Final(c) = Finalize(columns[c].func, group.states[c])
  OBVIOUS
<1> HIDE DEF Final, Cs, name
<1> QED
  BY <1>3, <1>7, <1>8 DEF name

\* Its state is what the property expects of the rows with the key.
LEMMA StateIsExpected ==
    ASSUME IsList(read), NEW column, IsAggregate(column), NEW key, With(key, Len(read)) # {},
           column.func = "COUNT" /\ column.arg # Star => \A p \in DOMAIN read : Eval(column.arg, read[p]) # Null,
           NEW state, StateIs(column, state, key, Len(read))
    PROVE  Finalize(column.func, state) = Expected(column, With(key, Len(read)))
<1> DEFINE n == Len(read)
           members == With(key, n)
           known == Known3(members, column.arg)
           total == Total(members, column.arg)
<1>1. n \in Nat
  BY DEF IsList
<1>2. ~ IsColumn(column) /\ column.func \in {"COUNT", "SUM", "AVG"}
  BY AggregateIsNoColumn
<1>3. SumOf(key, column.arg, n) = total /\ KnownOf(key, column.arg, n) = known
  <2>1. Total(members, column.arg) = SumTo(members, column.arg)[n]
    BY SumToIs
  <2> QED
    BY <2>1, Zenon DEF SumOf, KnownOf
<1>4. IsFiniteSet(known) /\ Cardinality(known) \in Nat /\ (Cardinality(known) = 0 <=> known = {})
  <2>1. IsFiniteSet(known) /\ Cardinality(known) \in Nat
    <3> HIDE DEF n
    <3> QED
      BY <1>1, <1>3, KnownGrows
  <2> QED
    BY <2>1, FS_EmptySet
<1>5. Expected(column, members) =
        IF column.func = "COUNT" THEN Cardinality(IF column.arg = Star THEN members ELSE known)
        ELSE IF known = {} THEN Null
        ELSE IF column.func = "SUM" THEN total
        ELSE <<total, Cardinality(known)>>
  BY Zenon DEF Expected
<1>9. column.func = "COUNT" /\ column.arg # Star => known = members
  <2>1. members \subseteq DOMAIN read
    BY <1>1 DEF With, IsList
  <2> QED
    BY <2>1 DEF Known3
<1> HIDE DEF n, members, known, total
<1>6. CASE column.func = "COUNT"
  <2>1. state = Cardinality(members)
    BY <1>2, <1>6 DEF StateIs, members, n
  <2> QED
    BY <1>5, <1>6, <1>9, <2>1 DEF Finalize, members, n
<1>7. CASE column.func = "SUM"
  <2>1. state = IF known = {} THEN Null ELSE total
    BY <1>2, <1>3, <1>7 DEF StateIs, n
  <2> QED
    BY <1>5, <1>7, <2>1 DEF Finalize, members, n
<1>8. CASE column.func = "AVG"
  <2>1. state = <<total, Cardinality(known)>>
    BY <1>2, <1>3, <1>8 DEF StateIs, n
  <2>2. state # Null
    <3>1. total \in Int
      <4>1. \A p \in DOMAIN read : Eval(column.arg, read[p]) \in Int \cup {Null}
        BY <1>8, AggregateIsNoColumn
      <4>2. n \in Nat /\ n <= Len(read)
        BY <1>1 DEF n
      <4>3. SumTo(members, column.arg)[n] \in Int
        BY <4>1, <4>2, SumsAreNumbers
      <4> QED
        BY <1>3, <4>3 DEF SumOf, members, n
    <3> QED
      BY <1>4, <2>1, <3>1, NoneAssumption
  <2>3. Finalize(column.func, state) = IF Cardinality(known) = 0 THEN Null ELSE state
    BY <1>8, <2>1, <2>2 DEF Finalize
  <2> QED
    BY <1>4, <1>5, <1>8, <2>1, <2>3 DEF members, n
<1> QED
  BY <1>2, <1>6, <1>7, <1>8

\* The rows a row of the answer stands for.
LEMMA MembersAre ==
    ASSUME IsList(read), IsQuery(stmt), ClearGrouping, NEW group, GroupIs(group, Len(read))
    PROVE  Members(GroupRow(group, GroupKeys, stmt.columns)) = With(group.key, Len(read))
<1> DEFINE row == GroupRow(group, GroupKeys, stmt.columns)
           n == Len(read)
<1>1. n \in Nat /\ DOMAIN read = 1 .. n
  BY DEF IsList
<1>2. \A k \in DOMAIN GroupKeys : row[<<GroupKeys[k].name>>] = group.key[k]
  BY <1>1, KeyIsNamed
<1> HIDE DEF row
<1>3. PICK q \in 1 .. n : group.key = KeyOfRow(q)
  BY DEF GroupIs, With
<1>4. ASSUME NEW p \in 1 .. n
      PROVE  (\A k \in DOMAIN GroupKeys : Eval(GroupKeys[k], read[p]) = row[<<GroupKeys[k].name>>])
                <=> KeyOfRow(p) = group.key
  BY <1>2, <1>3, ZenonT(60) DEF KeyOfRow
<1>5. Members(row) = With(group.key, n)
  <2> HIDE DEF n
  <2> QED
    BY <1>1, <1>4 DEF Members, With
<1> QED
  BY <1>5 DEF row

\* What GroupsAreReference says of the rows.
LEMMA GroupsReference ==
    ASSUME IsList(read), IsQuery(stmt), ClearGrouping, IsList(rows),
           rows = Aggregated(read, GroupKeys, stmt.columns), SomethingIsCounted, NoNullIsCounted
    PROVE  /\ \A p \in DOMAIN read : \E i \in DOMAIN rows : p \in Members(rows[i])
           /\ \A i, j \in DOMAIN rows : i # j => Members(rows[i]) \cap Members(rows[j]) = {}
           /\ IF GroupKeys = <<>> THEN Len(rows) = 1 ELSE \A i \in DOMAIN rows : Members(rows[i]) # {}
           /\ \A i \in DOMAIN rows, c \in DOMAIN stmt.columns :
                LET column == stmt.columns[c]
                IN  ~ IsColumn(column) => rows[i][Alias(column)] = Expected(column, Members(rows[i]))
<1> DEFINE n == Len(read)
<1>1. n \in Nat /\ DOMAIN read = 1 .. n
  BY DEF IsList
<1>2. \A i \in DOMAIN stmt.columns : ClearColumn(stmt.columns[i])
  BY DEF ClearGrouping, ClearColumn
<1>3. PICK groups : /\ Grouped(groups, n)
                    /\ rows = [g \in DOMAIN groups |-> GroupRow(groups[g], GroupKeys, stmt.columns)]
  BY <1>2, AggregatedGroups
<1>4. /\ \A g, h \in DOMAIN groups : g # h => groups[g].key # groups[h].key
      /\ \A p \in 1 .. n : \E g \in DOMAIN groups : groups[g].key = KeyOfRow(p)
      /\ \A g \in DOMAIN groups : GroupIs(groups[g], n)
  BY <1>3 DEF Grouped
<1>5. ASSUME NEW g \in DOMAIN groups PROVE Members(rows[g]) = With(groups[g].key, n)
  <2>1. rows[g] = GroupRow(groups[g], GroupKeys, stmt.columns)
    BY <1>3
  <2> QED
    BY <1>4, <2>1, MembersAre
<1>6. DOMAIN rows = DOMAIN groups
  BY <1>3
<1>7. ASSUME NEW p \in DOMAIN read PROVE \E i \in DOMAIN rows : p \in Members(rows[i])
  <2>1. PICK g \in DOMAIN groups : groups[g].key = KeyOfRow(p)
    BY <1>1, <1>4
  <2>2. p \in With(groups[g].key, n)
    BY <1>1, <2>1 DEF With
  <2> QED
    BY <1>5, <1>6, <2>1, <2>2
<1>8. ASSUME NEW i \in DOMAIN rows, NEW j \in DOMAIN rows, i # j PROVE Members(rows[i]) \cap Members(rows[j]) = {}
  <2>1. groups[i].key # groups[j].key
    BY <1>4, <1>6, <1>8
  <2>2. With(groups[i].key, n) \cap With(groups[j].key, n) = {}
    BY <2>1 DEF With
  <2> QED
    BY <1>5, <1>6, <2>2
<1>9. ASSUME NEW i \in DOMAIN rows PROVE Members(rows[i]) # {}
  <2>1. With(groups[i].key, n) # {}
    BY <1>4, <1>6 DEF GroupIs
  <2> QED
    BY <1>5, <1>6, <2>1
<1>10. ASSUME NEW i \in DOMAIN rows, NEW c \in DOMAIN stmt.columns, ~ IsColumn(stmt.columns[c])
       PROVE  rows[i][Alias(stmt.columns[c])] = Expected(stmt.columns[c], Members(rows[i]))
  <2> DEFINE column == stmt.columns[c]
             group == groups[i]
  <2>1. rows[i] = GroupRow(group, GroupKeys, stmt.columns)
    BY <1>3, <1>6
  <2>2. rows[i][Alias(column)] = Finalize(column.func, group.states[c])
    BY <1>10, <2>1, AggregateIsNamed
  <2>3. GroupIs(group, n)
    BY <1>4, <1>6
  <2>4. With(group.key, n) # {} /\ StateIs(column, group.states[c], group.key, n)
    BY <2>3 DEF GroupIs
  <2>5. IsAggregate(column)
    BY <1>10 DEF ClearGrouping
  <2>6. Finalize(column.func, group.states[c]) = Expected(column, With(group.key, n))
    <3>1. column.func = "COUNT" /\ column.arg # Star => \A p \in DOMAIN read : Eval(column.arg, read[p]) # Null
      BY <1>10 DEF NoNullIsCounted
    <3> HIDE DEF column, group
    <3> QED
      BY <2>4, <2>5, <3>1, StateIsExpected
  <2> QED
    BY <1>5, <1>6, <2>2, <2>6
<1>11. ASSUME GroupKeys = <<>> PROVE Len(rows) = 1
  <2>1. Len(rows) \in Nat /\ DOMAIN rows = 1 .. Len(rows)
    BY DEF IsList
  <2>2. n # 0
    BY <1>11 DEF SomethingIsCounted, IsList
  <2>3. 1 \in DOMAIN read
    BY <1>1, <2>2
  <2>4. Len(rows) >= 1
    <3>1. PICK i \in DOMAIN rows : 1 \in Members(rows[i])
      BY <1>7, <2>3
    <3> QED
      BY <2>1, <3>1
  <2>5. ASSUME Len(rows) >= 2 PROVE FALSE
    <3>1. 1 \in DOMAIN rows /\ 2 \in DOMAIN rows
      BY <2>1, <2>5
    <3>2. DOMAIN GroupKeys = {}
      BY <1>11
    <3>3. 1 \in Members(rows[1]) /\ 1 \in Members(rows[2])
      BY <2>3, <3>2, Zenon DEF Members
    <3>4. Members(rows[1]) \cap Members(rows[2]) = {}
      BY <1>8, <3>1
    <3> QED
      BY <3>3, <3>4
  <2> DEFINE l == Len(rows)
  <2>6. l \in Nat /\ l >= 1 /\ ~ l >= 2
    BY <2>1, <2>4, <2>5
  <2> HIDE DEF l
  <2>7. l = 1
    BY <2>6
  <2> QED
    BY <2>7 DEF l
<1> QED
  BY <1>7, <1>8, <1>9, <1>10, <1>11

-----------------------------------------------------------------------------
(* The invariant.                                                          *)

\* What the operators read and pass on are lists.
ListsArePassed ==
    /\ \A t \in DOMAIN tables : IsList(tables[t].rows)
    /\ stage = "written" => \E case \in Asked : asked = case.query
    /\ stage = "parsed" /\ stmt.kind = "select" => IsQuery(stmt)
    /\ stage \in {"joining", "filtered", "shaped", "answered"} => IsQuery(stmt)
    /\ stage \in {"joining", "filtered", "shaped"} => IsList(rows)
    /\ stage \in {"filtered", "shaped", "answered"} => IsList(read)

\* The left side of the next join has the rows, and every table is there.
JoinsArePlanned ==
    stage = "joining" =>
        /\ "rows" \in DOMAIN left /\ left.rows = rows
        /\ TablesOf(stmt) \subseteq DOMAIN tables

\* The rows are what the last operator makes of the ones it read.
OperatorsArePlanned ==
    /\ stage = "filtered" /\ stmt.where # None => rows = Filter(read, stmt.where)
    /\ stage = "shaped" /\ Grouping => rows = Aggregated(read, GroupKeys, stmt.columns)
    /\ stage = "answered" => rows = AnswerTo(stmt, read)

Inv == ListsArePassed /\ JoinsArePlanned /\ OperatorsArePlanned

\* What a filter keeps is a list.
LEMMA FilterIsList ==
    ASSUME NEW s, IsList(s), NEW where
    PROVE  IsList(Filter(s, where))
BY AtIsList DEF Filter

\* What is projected is a list.
LEMMA ProjectIsList ==
    ASSUME NEW s, IsList(s), NEW columns
    PROVE  IsList(Project(s, columns))
<1> DEFINE t == Project(s, columns)
<1>1. CASE columns = <<Star>>
  BY <1>1 DEF Project
<1>2. CASE columns # <<Star>>
  <2>1. Len(s) \in Nat /\ DOMAIN s = 1 .. Len(s)
    BY DEF IsList
  <2>2. t = [p \in 1 .. Len(s) |-> t[p]]
    BY <1>2, <2>1 DEF Project
  <2> HIDE DEF t
  <2>3. IsList(t)
    BY <2>1, <2>2, ListIs
  <2> QED
    BY <2>3 DEF t
<1> QED
  BY <1>1, <1>2

\* What is left of the joins is a list whose tables are among the former ones.
LEMMA RestIsQuery ==
    ASSUME IsQuery(stmt), stmt.joins # <<>>, TablesOf(stmt) \subseteq DOMAIN tables
    PROVE  /\ IsQuery([stmt EXCEPT !.joins = Tail(@)])
           /\ TablesOf([stmt EXCEPT !.joins = Tail(@)]) \subseteq DOMAIN tables
           /\ Head(stmt.joins).table.name \in DOMAIN tables
<1> DEFINE next == [stmt EXCEPT !.joins = Tail(@)]
           joins == stmt.joins
<1>1. Len(joins) \in Nat /\ joins = [i \in 1 .. Len(joins) |-> joins[i]]
  BY DEF IsQuery, IsList
<1>2. joins \in Seq(ToSet(joins))
  BY <1>1 DEF ToSet
<1>3. next.joins = Tail(joins)
  BY DEF IsQuery
<1>4. Tail(joins) \in Seq(ToSet(joins)) /\ Head(joins) \in ToSet(joins)
  <2> DEFINE T == ToSet(joins)
  <2>1. joins \in Seq(T)
    BY <1>2
  <2> HIDE DEF T, joins
  <2>2. Tail(joins) \in Seq(T) /\ Head(joins) \in T
    BY <2>1 DEF joins
  <2> QED
    BY <2>2 DEF T
<1>5. IsList(Tail(joins)) /\ ToSet(Tail(joins)) \subseteq ToSet(joins)
  <2> DEFINE T == ToSet(joins)
             t == Tail(joins)
  <2>1. t \in Seq(T)
    BY <1>4
  <2> HIDE DEF t, T
  <2>2. Len(t) \in Nat /\ t = [i \in 1 .. Len(t) |-> t[i]] /\ \A i \in 1 .. Len(t) : t[i] \in T
    BY <2>1
  <2>3. IsList(t)
    BY <2>2 DEF IsList
  <2>4. ToSet(t) \subseteq T
    BY <2>2 DEF ToSet
  <2> QED
    BY <2>3, <2>4 DEF t, T
<1> HIDE DEF joins
<1>6. /\ DOMAIN next = DOMAIN stmt /\ next.from = stmt.from
      /\ next.columns = stmt.columns /\ next.group = stmt.group /\ next.order = stmt.order
      /\ next.limit = stmt.limit /\ next.offset = stmt.offset
  BY DEF IsQuery
<1> HIDE DEF next
<1>7. IsQuery(next)
  BY <1>3, <1>5, <1>6 DEF IsQuery
<1>8. TablesOf(next) \subseteq DOMAIN tables
  BY <1>3, <1>5, <1>6 DEF TablesOf, joins
<1>9. Head(joins).table.name \in DOMAIN tables
  BY <1>4 DEF TablesOf, joins
<1> QED
  BY <1>7, <1>8, <1>9 DEF next, joins

\* The invariant holds of a statement that was only written.
LEMMA InvInit == Init => Inv
<1> SUFFICES ASSUME Init PROVE Inv
  OBVIOUS
<1>1. stage = "written"
  BY DEF Init
<1>2. PICK case \in Asked : tables = case.tables /\ asked = case.query
  BY DEF Init
<1>3. \A t \in DOMAIN tables : IsList(tables[t].rows)
  BY <1>2, AskedAssumption
<1> QED
  BY <1>1, <1>2, <1>3 DEF Inv, ListsArePassed, JoinsArePlanned, OperatorsArePlanned

\* Every operator of the plan keeps the invariant.
LEMMA InvNext == Inv /\ [Next]_vars => Inv'
<1> SUFFICES ASSUME Inv, [Next]_vars PROVE Inv'
  OBVIOUS
<1>0. ListsArePassed /\ JoinsArePlanned /\ OperatorsArePlanned
  BY DEF Inv
<1>1. CASE ParseText
  <2>1. stage' \in {"failed", "parsed"} /\ (stage' = "parsed" => stmt' # None)
    BY <1>1 DEF ParseText
  <2>2. PICK case \in Asked : asked = case.query
    BY <1>0, <1>1 DEF ParseText, ListsArePassed
  <2>3. stage' = "parsed" /\ stmt'.kind = "select" => IsQuery(stmt')
    BY <1>1, <2>1, <2>2, AskedAssumption DEF ParseText
  <2>4. ListsArePassed'
    BY <1>0, <1>1, <2>1, <2>3 DEF ParseText, ListsArePassed, IsQuery
  <2>5. JoinsArePlanned' /\ OperatorsArePlanned'
    BY <2>1 DEF JoinsArePlanned, OperatorsArePlanned
  <2> QED
    BY <2>4, <2>5 DEF Inv
<1>2. CASE Plan
  <2>1. IsQuery(stmt) /\ stmt' = stmt /\ tables' = tables /\ stage' \in {"joining", "failed"}
    BY <1>0, <1>2 DEF Plan, ListsArePassed
  <2>2. CASE stage' = "joining"
    <3>1. /\ TablesOf(stmt) \subseteq DOMAIN tables
          /\ left' = ScanOf(tables, stmt.from) /\ rows' = left'.rows
      BY <1>2, <2>2 DEF Plan
    <3>2. stmt.from.name \in DOMAIN tables
      BY <3>1 DEF TablesOf
    <3>3. rows' = tables[stmt.from.name].rows /\ "rows" \in DOMAIN left'
      BY <3>1 DEF ScanOf
    <3>4. IsList(rows')
      BY <1>0, <3>2, <3>3 DEF ListsArePassed
    <3>5. ListsArePassed'
      BY <1>0, <2>1, <2>2, <3>4 DEF ListsArePassed, IsQuery, IsList
    <3>6. JoinsArePlanned'
      BY <2>1, <3>1, <3>3 DEF JoinsArePlanned, TablesOf
    <3> QED
      BY <2>2, <3>5, <3>6 DEF Inv, OperatorsArePlanned
  <2>3. CASE stage' = "failed"
    <3>1. ListsArePassed' /\ JoinsArePlanned' /\ OperatorsArePlanned'
      BY <1>0, <2>1, <2>3 DEF ListsArePassed, JoinsArePlanned, OperatorsArePlanned, IsList
    <3> QED
      BY <3>1 DEF Inv
  <2> QED
    BY <2>1, <2>2, <2>3
<1>3. CASE JoinNext
  <2>1. /\ stage = "joining" /\ stage' = "joining" /\ tables' = tables /\ stmt.joins # <<>>
        /\ stmt' = [stmt EXCEPT !.joins = Tail(@)]
    BY <1>3 DEF JoinNext
  <2>2. /\ IsQuery(stmt) /\ IsList(rows) /\ left.rows = rows /\ "rows" \in DOMAIN left
        /\ TablesOf(stmt) \subseteq DOMAIN tables
    BY <1>0, <2>1 DEF ListsArePassed, JoinsArePlanned
  <2>3. /\ IsQuery(stmt') /\ TablesOf(stmt') \subseteq DOMAIN tables
        /\ Head(stmt.joins).table.name \in DOMAIN tables
    BY <2>1, <2>2, RestIsQuery
  <2> DEFINE right == ScanOf(tables, Head(stmt.joins).table)
             out == JoinSides(Resolved(Head(stmt.joins), left, right), left, right)
  <2>4. rows' = out /\ left' = [left EXCEPT !.rows = out]
    BY <1>3 DEF JoinNext
  <2>5. IsList(right.rows)
    BY <1>0, <2>3 DEF ScanOf, ListsArePassed
  <2> HIDE DEF right
  <2>6. IsList(out)
    BY <2>2, <2>5, JoinIsList
  <2> HIDE DEF out
  <2>7. "rows" \in DOMAIN left' /\ left'.rows = rows'
    BY <2>2, <2>4
  <2>8. ListsArePassed'
    BY <1>0, <2>1, <2>3, <2>4, <2>6 DEF ListsArePassed, IsQuery, IsList
  <2>9. JoinsArePlanned'
    BY <2>1, <2>3, <2>7 DEF JoinsArePlanned, TablesOf
  <2> QED
    BY <2>1, <2>8, <2>9 DEF Inv, OperatorsArePlanned
<1>4. CASE FilterRows
  <2>1. /\ stage = "joining" /\ stage' = "filtered" /\ tables' = tables /\ stmt' = stmt /\ read' = rows
        /\ rows' = IF stmt.where = None THEN rows ELSE Filter(rows, stmt.where)
    BY <1>4 DEF FilterRows, Pass
  <2>2. IsQuery(stmt) /\ IsList(rows)
    BY <1>0, <2>1 DEF ListsArePassed
  <2>3. IsList(rows')
    BY <2>1, <2>2, FilterIsList
  <2>4. ListsArePassed'
    BY <1>0, <2>1, <2>2, <2>3 DEF ListsArePassed, IsQuery, IsList
  <2>5. OperatorsArePlanned'
    <3>1. stmt.where # None => rows' = Filter(rows, stmt.where)
      BY <2>1
    <3>2. Filter(rows, stmt.where) = Filter(read', stmt'.where)
      BY <2>1
    <3> QED
      BY <2>1, <3>1, <3>2 DEF OperatorsArePlanned, Filter
  <2> QED
    BY <2>1, <2>4, <2>5 DEF Inv, JoinsArePlanned
<1>5. CASE GroupRows
  <2>1. /\ stage = "filtered" /\ stage' = "shaped" /\ tables' = tables /\ stmt' = stmt /\ read' = rows
        /\ rows' = Aggregated(rows, GroupKeys, stmt.columns)
    BY <1>5 DEF GroupRows, Pass
  <2>2. IsQuery(stmt) /\ IsList(rows)
    BY <1>0, <2>1 DEF ListsArePassed
  <2>3. IsList(rows')
    BY <2>1, <2>2, AggregatedIsList
  <2>4. ListsArePassed'
    BY <1>0, <2>1, <2>2, <2>3 DEF ListsArePassed, IsQuery, IsList
  <2>5. OperatorsArePlanned'
    BY <2>1 DEF OperatorsArePlanned, GroupKeys
  <2> QED
    BY <2>1, <2>4, <2>5 DEF Inv, JoinsArePlanned
<1>6. CASE ProjectRows
  <2>1. /\ stage = "filtered" /\ stage' = "shaped" /\ tables' = tables /\ stmt' = stmt /\ read' = rows
        /\ rows' = Project(rows, stmt.columns) /\ ~ Grouping
    BY <1>6 DEF ProjectRows, Pass
  <2>2. IsQuery(stmt) /\ IsList(rows)
    BY <1>0, <2>1 DEF ListsArePassed
  <2>3. IsList(rows')
    BY <2>1, <2>2, ProjectIsList
  <2>4. ListsArePassed'
    BY <1>0, <2>1, <2>2, <2>3 DEF ListsArePassed, IsQuery, IsList
  <2>5. OperatorsArePlanned'
    BY <2>1 DEF OperatorsArePlanned, Grouping
  <2> QED
    BY <2>1, <2>4, <2>5 DEF Inv, JoinsArePlanned
<1>7. CASE OrderRows
  <2>1. stage = "shaped" /\ stage' = "answered" /\ tables' = tables /\ stmt' = stmt /\ read' = rows
    BY <1>7 DEF OrderRows, Pass
  <2>2. rows' = AnswerTo(stmt, rows)
    BY <1>7 DEF OrderRows, Pass, AnswerTo
  <2>3. IsQuery(stmt) /\ IsList(rows)
    BY <1>0, <2>1 DEF ListsArePassed
  <2>4. ListsArePassed'
    BY <1>0, <2>1, <2>3 DEF ListsArePassed, IsQuery, IsList
  <2>5. OperatorsArePlanned'
    <3>1. AnswerTo(stmt', read') = AnswerTo(stmt, rows)
      BY <2>1
    <3> QED
      BY <2>1, <2>2, <3>1 DEF OperatorsArePlanned, AnswerTo
  <2> QED
    BY <2>1, <2>4, <2>5 DEF Inv, JoinsArePlanned
<1>8. CASE UNCHANGED vars
  BY <1>0, <1>8 DEF vars, Inv, ListsArePassed, JoinsArePlanned, OperatorsArePlanned, TablesOf, Grouping, GroupKeys
<1> QED
  BY <1>1, <1>2, <1>3, <1>4, <1>5, <1>6, <1>7, <1>8 DEF Next

\* In every stage the rows are a list, made by that stage's operator from the
\* rows before, and what is left to join is a list of joins over known tables:
\* what the plan of a SELECT passes from one operator to the next.
LEMMA SelectInvariant == Spec => []Inv
BY InvInit, InvNext, PTL DEF Spec

\* The answer is the part that LIMIT and OFFSET name of the rows in the order
\* of ORDER BY: the passes of a stable sort, one for each key from the last to
\* the first, come to the order in which the first key counts most.
THEOREM AnswersAreOrdered == Spec => []AnswerIsOrdered
<1>1. Inv => AnswerIsOrdered
  <2> SUFFICES ASSUME Inv, stage = "answered", stmt.order # None, Sortable PROVE AnswerIsOrdered
    BY DEF AnswerIsOrdered
  <2>1. IsList(read) /\ IsQuery(stmt) /\ rows = AnswerTo(stmt, read)
    BY DEF Inv, ListsArePassed, OperatorsArePlanned
  <2> QED
    BY <2>1, AnswerOrdered DEF AnswerIsOrdered
<1> QED
  BY <1>1, SelectInvariant, PTL

\* WHERE keeps exactly the rows for which the condition is true in SQL's logic
\* of three values, for every condition without NOT and unequal, plain columns
\* and numbers among its operands.
THEOREM WhereKeepsTrue == Spec => []WhereKeepsTrueRows
<1>1. Inv => WhereKeepsTrueRows
  <2> SUFFICES ASSUME Inv, stage = "filtered", stmt.where # None, Positive(stmt.where)
               PROVE  rows = At(read, {p \in DOMAIN read : Truth3(stmt.where, read[p]) = 1})
    BY DEF WhereKeepsTrueRows
  <2>1. rows = Filter(read, stmt.where)
    BY DEF Inv, OperatorsArePlanned
  <2> QED
    BY <2>1, FilterKeepsTrueRows
<1> QED
  BY <1>1, SelectInvariant, PTL

\* GROUP BY makes one row for each combination of the keys' values, with the
\* count, the sum and the average over the rows that have it, and without GROUP BY
\* just one row: the states that the code updates row by row come to those of the
\* whole group, unless there was no row or a COUNT of a column meets a NULL.
THEOREM GroupsReferred == Spec => []GroupsAreReference
<1>1. Inv => GroupsAreReference
  <2> SUFFICES ASSUME Inv, stage = "shaped", Grouping, ClearGrouping, SomethingIsCounted, NoNullIsCounted
               PROVE  GroupsAreSql
    BY DEF GroupsAreReference, GroupsAreSql
  <2>1. /\ IsList(read) /\ IsQuery(stmt) /\ IsList(rows)
        /\ rows = Aggregated(read, GroupKeys, stmt.columns)
    BY DEF Inv, ListsArePassed, OperatorsArePlanned
  <2> QED
    BY <2>1, GroupsReference DEF GroupsAreSql
<1> QED
  BY <1>1, SelectInvariant, PTL
=============================================================================
