--------------------------- MODULE StorageProofs ---------------------------
(***************************************************************************)
(* Proofs about Storage: what it keeps has its type, no page has two       *)
(* owners, and it is an SqlStore as long as no page is freed and the       *)
(* process does not die between two copies of a COMMIT: for any tables,    *)
(* rows, sizes of a page and of the file, and any series of statements,    *)
(* restarts and crashes.                                                   *)
(***************************************************************************)
EXTENDS Storage, FiniteSetTheorems, SequenceTheorems, WellFoundedInduction, NaturalsInduction, TLAPS

-----------------------------------------------------------------------------
(* Induction.                                                              *)

\* A set of natural numbers has a smallest element.
LEMMA SmallestOf ==
    ASSUME NEW T \in SUBSET Nat, T # {}
    PROVE  \E x \in T : \A y \in T : x <= y
<1>1. \A x, y \in Nat : y < x => <<y, x>> \in OpToRel(<, Nat)
  BY DEF OpToRel
<1>2. \E R : IsWellFoundedOn(R, Nat) /\ \A x, y \in Nat : y < x => <<y, x>> \in R
  BY <1>1, NatLessThanWellFounded, Zenon
<1>3. PICK R : IsWellFoundedOn(R, Nat) /\ \A x, y \in Nat : y < x => <<y, x>> \in R
  BY <1>2
<1>4. \E x \in T : \A y \in T : ~ (<<y, x>> \in R)
  BY <1>3, WFMin, Zenon
<1>5. PICK x \in T : \A y \in T : ~ (<<y, x>> \in R)
  BY <1>4
<1>6. ASSUME NEW y \in T PROVE x <= y
  <2>1. ~ (y < x)
    BY <1>3, <1>5, Zenon
  <2> QED
    BY <2>1
<1> QED
  BY <1>6

\* A set with 0 and every successor has every natural number.
LEMMA EveryNumber ==
    ASSUME NEW S, 0 \in S, \A n \in Nat : n \in S => n + 1 \in S
    PROVE  \A n \in Nat : n \in S
<1> SUFFICES ASSUME Nat \ S # {} PROVE FALSE
  OBVIOUS
<1>1. PICK x \in Nat \ S : \A y \in Nat \ S : x <= y
  BY SmallestOf
<1>2. x # 0 /\ x - 1 \in Nat /\ x - 1 \notin Nat \ S
  BY <1>1
<1> QED
  BY <1>1, <1>2

-----------------------------------------------------------------------------
(* Page chains.                                                            *)

\* f[left][p] are the pages from p on, left of them at most.
Walks(f, c, n) ==
    f = [left \in 0 .. n |->
            [p \in Link |->
                IF p = 0 \/ left = 0 THEN <<>> ELSE <<p>> \o f[left - 1][c[p].next]]]

\* A chain can be followed for any number of pages.
LEMMA WalksExist == ASSUME NEW c PROVE \A n \in Nat : \E f : Walks(f, c, n)
<1> DEFINE On(g, left) ==
             [p \in Link |-> IF p = 0 \/ left = 0 THEN <<>> ELSE <<p>> \o g[c[p].next]]
           S == {n \in Nat : \E f : Walks(f, c, n)}
           none == [p \in Link |-> <<>>]
<1>1. 0 \in S
  <2> DEFINE f == [i \in 0 .. 0 |-> none]
  <2>1. \A left \in 0 .. 0 : On(f[left - 1], left) = none
    OBVIOUS
  <2>2. f = [left \in 0 .. 0 |-> On(f[left - 1], left)]
    BY <2>1
  <2>3. Walks(f, c, 0)
    BY <2>2 DEF Walks
  <2> QED
    BY <2>3
<1>2. ASSUME NEW n \in Nat, n \in S PROVE n + 1 \in S
  <2>1. PICK f : Walks(f, c, n)
    BY <1>2, SMTT(60)
  <2>2. f = [left \in 0 .. n |-> On(f[left - 1], left)]
    BY <2>1 DEF Walks
  <2> DEFINE g == [i \in 0 .. n + 1 |-> IF i = n + 1 THEN On(f[n], n + 1) ELSE f[i]]
             h == [left \in 0 .. n + 1 |-> On(g[left - 1], left)]
  <2>3. ASSUME NEW i \in 0 .. n + 1 PROVE g[i] = h[i]
    <3>1. CASE i = n + 1
      <4>1. i - 1 = n /\ g[i - 1] = f[n] /\ g[i] = On(f[n], n + 1)
        BY <3>1
      <4>2. h[i] = On(g[i - 1], i)
        OBVIOUS
      <4> HIDE DEF On, g, h
      <4> QED
        BY <3>1, <4>1, <4>2
    <3>2. CASE i = 0
      <4> HIDE DEF On
      <4>0. 0 \in 0 .. n /\ 0 \in 0 .. n + 1 /\ 0 # n + 1
        OBVIOUS
      <4>1. g[0] = f[0] /\ f[0] = On(f[0 - 1], 0)
        BY <2>2, <4>0
      <4> USE DEF On
      <4>2. On(f[0 - 1], 0) = none /\ On(g[0 - 1], 0) = none
        OBVIOUS
      <4> HIDE DEF On, g
      <4>3. h[0] = On(g[0 - 1], 0)
        BY <4>0
      <4> HIDE DEF On, g, h, none
      <4> QED
        BY <3>2, <4>1, <4>2, <4>3
    <3>3. CASE i # n + 1 /\ i # 0
      <4>1. i \in 0 .. n /\ i - 1 \in 0 .. n /\ i - 1 # n + 1
        BY <3>3
      <4>2. g[i] = f[i] /\ g[i - 1] = f[i - 1]
        BY <3>3, <4>1
      <4>3. h[i] = On(g[i - 1], i)
        OBVIOUS
      <4> HIDE DEF On, g, h
      <4>4. f[i] = On(f[i - 1], i)
        BY <2>2, <4>1
      <4> QED
        BY <4>2, <4>3, <4>4
    <3> QED
      BY <3>1, <3>2, <3>3, ZenonT(60)
  <2>4. g = [i \in 0 .. n + 1 |-> g[i]] /\ h = [i \in 0 .. n + 1 |-> h[i]]
    OBVIOUS
  <2>5. g = [left \in 0 .. n + 1 |-> On(g[left - 1], left)]
    <3> HIDE DEF g
    <3>1. h = [left \in 0 .. n + 1 |-> On(g[left - 1], left)]
      OBVIOUS
    <3> HIDE DEF h, On
    <3>2. g = h
      BY <2>3, <2>4, SMTT(60)
    <3> QED
      BY <3>1, <3>2
  <2> HIDE DEF g
  <2>6. Walks(g, c, n + 1)
    BY <2>5 DEF Walks
  <2> QED
    BY <2>6
<1> HIDE DEF S
<1>3. \A n \in Nat : n \in S
  BY <1>1, <1>2, EveryNumber
<1> QED
  BY <1>3 DEF S

\* Links that do not leave a set of pages lead to pages of the set only.
LEMMA ChainStaysIn ==
    ASSUME NEW c, NEW O \in SUBSET Page, \A p \in O : c[p].next \in O \cup {0},
           NEW root \in O \cup {0}
    PROVE  /\ Chain(c, root) \in Seq(O)
           /\ root # 0 => Chain(c, root) # <<>>
<1>1. MaxPage \in Nat
  BY PagesAreNumbered
<1>2. O \cup {0} \subseteq Link /\ 0 \notin O
  BY <1>1 DEF Page, Link
<1>3. \E f : Walks(f, c, MaxPage)
  BY <1>1, WalksExist
<1>4. PICK f : Walks(f, c, MaxPage) /\ Chain(c, root) = f[MaxPage][root]
  BY <1>3, Zenon DEF Walks, Chain
<1>5. \A left \in 0 .. MaxPage, p \in Link :
        f[left][p] = IF p = 0 \/ left = 0 THEN <<>> ELSE <<p>> \o f[left - 1][c[p].next]
  <2> SUFFICES ASSUME NEW left \in 0 .. MaxPage, NEW p \in Link
               PROVE  f[left][p] = IF p = 0 \/ left = 0 THEN <<>> ELSE <<p>> \o f[left - 1][c[p].next]
    OBVIOUS
  <2>1. f[left] = [q \in Link |->
                    IF q = 0 \/ left = 0 THEN <<>> ELSE <<q>> \o f[left - 1][c[q].next]]
    BY <1>4, Zenon DEF Walks
  <2> QED
    BY <2>1, Zenon
<1> DEFINE S == {n \in Nat : n <= MaxPage => \A p \in O \cup {0} : f[n][p] \in Seq(O)}
<1>6. 0 \in S
  <2>1. 0 \in 0 .. MaxPage
    BY <1>1
  <2>2. \A p \in O \cup {0} : f[0][p] = <<>>
    BY <1>2, <1>5, <2>1, Zenon
  <2>3. <<>> \in Seq(O)
    OBVIOUS
  <2>4. \A p \in O \cup {0} : f[0][p] \in Seq(O)
    BY <2>2, <2>3, Zenon
  <2> QED
    BY <2>4
<1>7. ASSUME NEW n \in Nat, n \in S PROVE n + 1 \in S
  <2> SUFFICES ASSUME n + 1 <= MaxPage, NEW p \in O \cup {0} PROVE f[n + 1][p] \in Seq(O)
    OBVIOUS
  <2>1. n + 1 \in 0 .. MaxPage /\ n + 1 # 0 /\ (n + 1) - 1 = n /\ n <= MaxPage /\ p \in Link
    BY <1>1, <1>2
  <2>2. f[n + 1][p] = IF p = 0 THEN <<>> ELSE <<p>> \o f[n][c[p].next]
    BY <1>5, <2>1
  <2>3. CASE p = 0
    BY <2>2, <2>3
  <2>4. CASE p # 0
    <3>1. p \in O /\ c[p].next \in O \cup {0}
      BY <2>4
    <3>2. f[n][c[p].next] \in Seq(O)
      BY <1>7, <2>1, <3>1
    <3>3. <<p>> \in Seq(O)
      BY <3>1
    <3> QED
      BY <2>2, <2>4, <3>2, <3>3
  <2> QED
    BY <2>3, <2>4
<1> HIDE DEF S
<1>8. \A n \in Nat : n \in S
  BY <1>6, <1>7, EveryNumber
<1>9. Chain(c, root) \in Seq(O)
  BY <1>1, <1>4, <1>8 DEF S
<1>10. ASSUME root # 0 PROVE Chain(c, root) # <<>>
  <2>1. root \in O /\ MaxPage # 0
    <3>1. root \in O /\ root \in 1 .. MaxPage
      BY <1>10 DEF Page
    <3> QED
      BY <1>1, <3>1
  <2>2. MaxPage \in 0 .. MaxPage /\ MaxPage - 1 \in Nat /\ MaxPage - 1 <= MaxPage
    BY <1>1, <2>1
  <2>3. Chain(c, root) = <<root>> \o f[MaxPage - 1][c[root].next]
    BY <1>2, <1>4, <1>5, <1>10, <2>1, <2>2
  <2>4. f[MaxPage - 1][c[root].next] \in Seq(O)
    <3>1. c[root].next \in O \cup {0}
      BY <2>1
    <3> QED
      BY <1>8, <2>2, <3>1 DEF S
  <2>5. Len(<<root>> \o f[MaxPage - 1][c[root].next]) # 0
    <3> DEFINE s == f[MaxPage - 1][c[root].next]
    <3>1. s \in Seq(O)
      BY <2>4
    <3> HIDE DEF s
    <3>2. Len(<<root>> \o s) = 1 + Len(s) /\ Len(s) \in Nat
      BY <2>1, <3>1
    <3>3. Len(<<root>> \o s) # 0
      BY <3>2
    <3> QED
      BY <3>3 DEF s
  <2> QED
    BY <2>3, <2>5
<1> QED
  BY <1>9, <1>10

-----------------------------------------------------------------------------
(* The parts of the store.                                                 *)

StoreRecord ==
    [disk : [Page -> Content], count : Link, free : Link,
     cache : [Page -> Content \cup {NoPage}], dirty : SUBSET Page,
     active : BOOLEAN, shadows : Seq(Page \X Page)]

\* A page of the pool is dirty only if the pool has it.
Stores == {st \in StoreRecord : \A p \in st.dirty : st.cache[p] # NoPage}

\* Pages are numbers; 0 is none.
LEMMA PageNumbers ==
    /\ MaxPage \in Nat /\ Page \subseteq Link /\ Link \subseteq Nat /\ 0 \in Link /\ 0 \notin Page
    /\ \A p \in Link : p # 0 => p \in Page
BY PagesAreNumbered DEF Page, Link

\* A new page and an empty one are pages.
LEMMA NewPages ==
    /\ Zero \in Content /\ Empty \in Content
    /\ Zero.next = 0 /\ Empty.next = 0 /\ Empty.room = Room
BY PageNumbers, RowsFit DEF Zero, Empty, Content

\* What stands for a page is a page, in the pool or in the file.
LEMMA ViewTypes ==
    ASSUME NEW st \in Stores
    PROVE  /\ \A p \in Page : Base(st, p) \in Content /\ Where(st, p) \in Page
           /\ BaseView(st) \in [Page -> Content] /\ SessionView(st) \in [Page -> Content]
           /\ \A p \in Page : /\ BaseView(st)[p] = Base(st, p)
                              /\ SessionView(st)[p] = Base(st, Where(st, p))
<1>1. /\ st.disk \in [Page -> Content] /\ st.cache \in [Page -> Content \cup {NoPage}]
      /\ st.shadows \in Seq(Page \X Page)
  BY DEF Stores, StoreRecord
<1>2. \A p \in Page : Base(st, p) \in Content
  BY <1>1 DEF Base
<1>3. ASSUME NEW p \in Page PROVE Where(st, p) \in Page
  <2>1. CASE ShadowOf(st, p) = {}
    BY <2>1 DEF Where
  <2>2. CASE ShadowOf(st, p) # {}
    <3> DEFINE i == CHOOSE k \in ShadowOf(st, p) : TRUE
    <3>1. i \in ShadowOf(st, p)
      BY <2>2
    <3>2. Where(st, p) = st.shadows[i][2]
      BY <2>2 DEF Where
    <3> HIDE DEF i
    <3>3. i \in DOMAIN st.shadows
      BY <3>1 DEF ShadowOf
    <3>4. st.shadows[i] \in Page \X Page
      BY <1>1, <3>3
    <3> QED
      BY <3>2, <3>4
  <2> QED
    BY <2>1, <2>2
<1> QED
  BY <1>2, <1>3 DEF BaseView, SessionView

\* alloc_page takes the head of the free list, or grows the file by a page.
LEMMA TakenType ==
    ASSUME NEW st \in Stores, st.count < MaxPage
    PROVE  /\ NextPage(st) \in Page
           /\ Taken(st) \in Stores
           /\ Taken(st).count \in st.count .. st.count + 1
           /\ Taken(st).disk = st.disk /\ Taken(st).cache = st.cache
           /\ Taken(st).dirty = st.dirty /\ Taken(st).active = st.active
           /\ Taken(st).shadows = st.shadows
           /\ st.free = 0 => /\ NextPage(st) = st.count + 1
                             /\ Taken(st).free = 0 /\ Taken(st).count = st.count + 1
<1>1. st \in StoreRecord /\ \A p \in st.dirty : st.cache[p] # NoPage
  BY DEF Stores
<1>2. st.count \in Link /\ st.free \in Link /\ st.disk \in [Page -> Content]
  BY <1>1 DEF StoreRecord
<1>3. CASE st.free = 0
  <2>1. st.count + 1 \in Page /\ st.count + 1 \in Link /\ st.count \in Nat
    BY <1>2, PageNumbers DEF Page, Link
  <2>2. Taken(st) = [st EXCEPT !.count = st.count + 1] /\ NextPage(st) = st.count + 1
    BY <1>3 DEF Taken, NextPage
  <2>3. Taken(st) \in StoreRecord
    BY <1>1, <2>1, <2>2 DEF StoreRecord
  <2>4. /\ Taken(st).disk = st.disk /\ Taken(st).cache = st.cache
        /\ Taken(st).dirty = st.dirty /\ Taken(st).active = st.active
        /\ Taken(st).shadows = st.shadows
        /\ Taken(st).free = st.free /\ Taken(st).count = st.count + 1
    BY <1>1, <2>2 DEF StoreRecord
  <2>5. st.count + 1 \in st.count .. st.count + 1
    BY <2>1
  <2>6. Taken(st) \in Stores
    BY <1>1, <2>3, <2>4 DEF Stores
  <2> QED
    BY <1>3, <2>1, <2>2, <2>4, <2>5, <2>6
<1>4. CASE st.free # 0
  <2>1. st.free \in Page
    BY <1>2, <1>4, PageNumbers
  <2>2. st.disk[st.free].next \in Link
    BY <1>2, <2>1 DEF Content
  <2>3. Taken(st) = [st EXCEPT !.free = st.disk[st.free].next] /\ NextPage(st) = st.free
    BY <1>4 DEF Taken, NextPage
  <2>4. Taken(st) \in StoreRecord
    BY <1>1, <2>2, <2>3 DEF StoreRecord
  <2>5. /\ Taken(st).disk = st.disk /\ Taken(st).cache = st.cache
        /\ Taken(st).dirty = st.dirty /\ Taken(st).active = st.active
        /\ Taken(st).shadows = st.shadows /\ Taken(st).count = st.count
    BY <1>1, <2>3 DEF StoreRecord
  <2>6. st.count \in st.count .. st.count + 1
    BY <1>2, PageNumbers DEF Link
  <2> QED
    BY <1>1, <1>4, <2>1, <2>3, <2>4, <2>5, <2>6 DEF Stores
<1> QED
  BY <1>3, <1>4

\* Reading pages changes the pool only.
LEMMA LoadedType ==
    ASSUME NEW st \in Stores, NEW P
    PROVE  /\ Loaded(st, P) \in Stores
           /\ Loaded(st, P).disk = st.disk /\ Loaded(st, P).count = st.count
           /\ Loaded(st, P).free = st.free /\ Loaded(st, P).dirty = st.dirty
           /\ Loaded(st, P).active = st.active /\ Loaded(st, P).shadows = st.shadows
           /\ \A p \in Page : Loaded(st, P).cache[p]
                = IF p \in P /\ st.cache[p] = NoPage THEN st.disk[p] ELSE st.cache[p]
           /\ \A p \in Page : Base(Loaded(st, P), p) = Base(st, p)
<1> DEFINE cache == [p \in Page |-> IF p \in P /\ st.cache[p] = NoPage THEN st.disk[p] ELSE st.cache[p]]
           new == Loaded(st, P)
<1>1. st \in StoreRecord /\ \A p \in st.dirty : st.cache[p] # NoPage
  BY DEF Stores
<1>2. /\ st.disk \in [Page -> Content] /\ st.cache \in [Page -> Content \cup {NoPage}]
      /\ st.dirty \in SUBSET Page
  BY <1>1 DEF StoreRecord
<1>3. cache \in [Page -> Content \cup {NoPage}]
  BY <1>2
<1>4. new = [st EXCEPT !.cache = cache]
  BY DEF Loaded
<1>5. \A p \in Page : cache[p] = IF p \in P /\ st.cache[p] = NoPage THEN st.disk[p] ELSE st.cache[p]
  OBVIOUS
<1>6. \A p \in st.dirty : cache[p] # NoPage
  BY <1>1, <1>2, <1>5
<1> HIDE DEF cache, new
<1>7. /\ new \in StoreRecord /\ new.cache = cache
      /\ new.disk = st.disk /\ new.count = st.count /\ new.free = st.free
      /\ new.dirty = st.dirty /\ new.active = st.active /\ new.shadows = st.shadows
  BY <1>1, <1>3, <1>4 DEF StoreRecord
<1>8. new \in Stores
  BY <1>6, <1>7 DEF Stores
<1>9. \A p \in Page : Base(new, p) = Base(st, p)
  BY <1>2, <1>5, <1>7, NoPageIsNoContent DEF Base
<1> QED
  BY <1>5, <1>7, <1>8, <1>9 DEF new

\* _ensure_shadow: a shadow page is a new page, with the content of the original.
LEMMA ShadowedType ==
    ASSUME NEW st \in Stores, NEW p \in Page, st.count < MaxPage, ShadowOf(st, p) = {}
    PROVE  LET s == NextPage(st)
               new == Shadowed(st, p)
           IN  /\ new \in Stores /\ s \in Page
               /\ new.disk = [st.disk EXCEPT ![s] = Base(st, p)]
               /\ \A q \in Page : new.cache[q] =
                    IF q = s THEN Base(st, p)
                    ELSE IF q = p /\ st.cache[p] = NoPage THEN st.disk[p] ELSE st.cache[q]
               /\ new.shadows = Append(st.shadows, <<p, s>>)
               /\ new.active = st.active /\ new.dirty = st.dirty \ {s}
               /\ new.count = Taken(st).count /\ new.free = Taken(st).free
<1> DEFINE s == NextPage(st)
           t == Taken(st)
           l == Loaded(t, {p})
           b == Base(st, p)
           new == Shadowed(st, p)
<1>1. b \in Content
  BY ViewTypes
<1>2. /\ s \in Page /\ t \in Stores /\ t.disk = st.disk /\ t.cache = st.cache
      /\ t.active = st.active /\ t.shadows = st.shadows /\ t.dirty = st.dirty
  BY TakenType
<1>3. new = [l EXCEPT !.disk[s] = b, !.cache[s] = b, !.dirty = @ \ {s},
                      !.shadows = Append(@, <<p, s>>)]
  BY DEF Shadowed
<1> HIDE DEF s, t, b, new
<1>4. /\ l \in Stores /\ l.disk = st.disk /\ l.count = t.count /\ l.free = t.free
      /\ l.active = st.active /\ l.shadows = st.shadows /\ l.dirty = st.dirty
      /\ \A q \in Page : l.cache[q] =
            IF q = p /\ st.cache[p] = NoPage THEN st.disk[p] ELSE st.cache[q]
  BY <1>2, LoadedType
<1> HIDE DEF l
<1>5. l \in StoreRecord /\ \A q \in l.dirty : l.cache[q] # NoPage
  BY <1>4 DEF Stores
<1>6. /\ new.disk = [l.disk EXCEPT ![s] = b] /\ new.cache = [l.cache EXCEPT ![s] = b]
      /\ new.dirty = l.dirty \ {s} /\ new.shadows = Append(l.shadows, <<p, s>>)
      /\ new.active = l.active /\ new.count = l.count /\ new.free = l.free
      /\ new \in StoreRecord
  <2> DEFINE disk == [l.disk EXCEPT ![s] = b]
             cache == [l.cache EXCEPT ![s] = b]
             dirty == l.dirty \ {s}
             shadows == Append(l.shadows, <<p, s>>)
  <2>1. new = [l EXCEPT !.disk = disk, !.cache = cache, !.dirty = dirty, !.shadows = shadows]
    BY <1>3
  <2>2. disk \in [Page -> Content]
    BY <1>1, <1>2, <1>5 DEF StoreRecord
  <2>3. cache \in [Page -> Content \cup {NoPage}]
    BY <1>1, <1>2, <1>5 DEF StoreRecord
  <2>4. dirty \in SUBSET Page
    BY <1>5 DEF StoreRecord
  <2>5. shadows \in Seq(Page \X Page)
    BY <1>2, <1>5 DEF StoreRecord
  <2> HIDE DEF disk, cache, dirty, shadows
  <2>6. /\ new.disk = disk /\ new.cache = cache /\ new.dirty = dirty /\ new.shadows = shadows
        /\ new.active = l.active /\ new.count = l.count /\ new.free = l.free
        /\ new \in StoreRecord
    BY <1>5, <2>1, <2>2, <2>3, <2>4, <2>5 DEF StoreRecord
  <2> QED
    BY <2>6 DEF disk, cache, dirty, shadows
<1>7. \A q \in Page : new.cache[q] = IF q = s THEN b ELSE l.cache[q]
  BY <1>5, <1>6 DEF StoreRecord
<1>8. \A q \in new.dirty : new.cache[q] # NoPage
  BY <1>5, <1>6 DEF StoreRecord
<1>9. new \in Stores
  BY <1>6, <1>8 DEF Stores
<1> QED
  BY <1>2, <1>4, <1>6, <1>7, <1>9 DEF new, s, t, b

\* Where set_page_data writes: to the shadow, once there is one.
Target(st, p) == IF st.active THEN Shadowed(st, p) ELSE st

\* _ensure_shadow makes a shadow page or does nothing.
LEMMA TargetType ==
    ASSUME NEW st \in Stores, NEW p \in Page, st.count < MaxPage
    PROVE  /\ Target(st, p) \in Stores
           /\ Target(st, p).count \in st.count .. st.count + 1
           /\ Target(st, p).active = st.active
<1>1. st.count \in Nat /\ st.count \in st.count .. st.count + 1
  <2>1. st.count \in Nat
    BY PageNumbers DEF Stores, StoreRecord
  <2> QED
    BY <2>1
<1>2. CASE st.active /\ ShadowOf(st, p) = {}
  <2>1. Target(st, p) = Shadowed(st, p)
    BY <1>2 DEF Target
  <2>2. Taken(st).count \in st.count .. st.count + 1
    BY TakenType
  <2>3. /\ Shadowed(st, p) \in Stores /\ Shadowed(st, p).count = Taken(st).count
        /\ Shadowed(st, p).active = st.active
    BY <1>2, ShadowedType
  <2> QED
    BY <2>1, <2>2, <2>3
<1>3. CASE ~ (st.active /\ ShadowOf(st, p) = {})
  <2>1. Target(st, p) = st
    BY <1>3 DEF Target, Shadowed
  <2> QED
    BY <1>1, <2>1
<1> QED
  BY <1>2, <1>3

\* set_page_data leaves the page dirty in the pool, and the others alone.
LEMMA WrittenType ==
    ASSUME NEW st \in Stores, NEW p \in Page, NEW content \in Content, st.count < MaxPage
    PROVE  LET t == Target(st, p)
               q == Where(t, p)
               new == Written(st, p, content)
           IN  /\ new \in Stores /\ q \in Page
               /\ new.disk = t.disk /\ new.shadows = t.shadows /\ new.active = t.active
               /\ new.dirty = t.dirty \cup {q}
               /\ new.count = t.count /\ new.free = t.free
               /\ \A r \in Page : new.cache[r] = IF r = q THEN content ELSE t.cache[r]
<1> DEFINE t == Target(st, p)
           q == Where(t, p)
           new == Written(st, p, content)
           cache == [t.cache EXCEPT ![q] = content]
           dirty == t.dirty \cup {q}
<1>1. t \in Stores
  BY TargetType
<1>2. new = [t EXCEPT !.cache = cache, !.dirty = dirty]
  BY DEF Written, Target
<1> HIDE DEF t, new
<1>3. q \in Page
  BY <1>1, ViewTypes
<1> HIDE DEF q
<1>4. t \in StoreRecord /\ \A r \in t.dirty : t.cache[r] # NoPage
  BY <1>1 DEF Stores
<1>5. cache \in [Page -> Content \cup {NoPage}] /\ dirty \in SUBSET Page
  BY <1>3, <1>4 DEF StoreRecord
<1>6. \A r \in Page : cache[r] = IF r = q THEN content ELSE t.cache[r]
  BY <1>3, <1>4 DEF StoreRecord
<1>7. \A r \in dirty : cache[r] # NoPage
  BY <1>4, <1>5, <1>6, NoPageIsNoContent
<1> HIDE DEF cache, dirty
<1>8. /\ new \in StoreRecord /\ new.cache = cache /\ new.dirty = dirty
      /\ new.disk = t.disk /\ new.shadows = t.shadows /\ new.active = t.active
      /\ new.count = t.count /\ new.free = t.free
  BY <1>2, <1>4, <1>5 DEF StoreRecord
<1>9. new \in Stores
  BY <1>7, <1>8 DEF Stores
<1> QED
  BY <1>3, <1>6, <1>8, <1>9 DEF t, q, new, dirty

\* The pages of a chain, its last page, and the place for a row, are pages.
LEMMA ChainType ==
    ASSUME NEW c \in [Page -> Content], NEW O \in SUBSET Page,
           \A p \in O : c[p].next \in O \cup {0}, NEW root \in O \cup {0}
    PROVE  /\ PagesOf(c, root) \in SUBSET O
           /\ root # 0 => LastOf(c, root) \in O
           /\ Spot(c, root) # 0 => Spot(c, root) \in O /\ c[Spot(c, root)].room > 0
<1> DEFINE pages == Chain(c, root)
           roomy == {i \in DOMAIN pages : c[pages[i]].room > 0}
<1>1. pages \in Seq(O) /\ (root # 0 => pages # <<>>)
  BY ChainStaysIn
<1>2. \A i \in DOMAIN pages : pages[i] \in O
  BY <1>1
<1>3. PagesOf(c, root) \in SUBSET O
  BY <1>2 DEF PagesOf
<1>4. ASSUME root # 0 PROVE LastOf(c, root) \in O
  <2>1. Len(pages) \in DOMAIN pages
    BY <1>1, <1>4
  <2> QED
    BY <1>2, <2>1 DEF LastOf
<1>5. ASSUME Spot(c, root) # 0 PROVE Spot(c, root) \in O /\ c[Spot(c, root)].room > 0
  <2>1. roomy # {} /\ Spot(c, root) = pages[CHOOSE i \in roomy : \A k \in roomy : i <= k]
    BY <1>5, Zenon DEF Spot
  <2>2. roomy \in SUBSET Nat
    BY <1>1
  <2>3. \E i \in roomy : \A k \in roomy : i <= k
    BY <2>1, <2>2, SmallestOf
  <2> DEFINE i == CHOOSE i \in roomy : \A k \in roomy : i <= k
  <2>4. i \in roomy
    BY <2>3
  <2> HIDE DEF i
  <2>5. i \in DOMAIN pages /\ c[pages[i]].room > 0
    BY <2>4
  <2>6. Spot(c, root) = pages[i]
    BY <2>1 DEF i
  <2> QED
    BY <1>2, <2>5, <2>6
<1> QED
  BY <1>3, <1>4, <1>5

\* Every link leads to a page.
LEMMA AnyChainType ==
    ASSUME NEW c \in [Page -> Content], NEW root \in Link
    PROVE  /\ PagesOf(c, root) \in SUBSET Page
           /\ root # 0 => LastOf(c, root) \in Page
           /\ Spot(c, root) # 0 => Spot(c, root) \in Page /\ c[Spot(c, root)].room > 0
<1>1. Link = Page \cup {0}
  BY PageNumbers DEF Page, Link
<1>2. \A p \in Page : c[p].next \in Page \cup {0}
  BY <1>1 DEF Content
<1>3. Page \in SUBSET Page /\ root \in Page \cup {0}
  BY <1>1
<1> QED
  BY <1>2, <1>3, ChainType

\* free_page writes the page to the file, past the pool.
LEMMA FreedType ==
    ASSUME NEW st \in Stores, NEW p \in Page
    PROVE  /\ Freed(st, p) \in Stores
           /\ Freed(st, p).shadows = st.shadows /\ Freed(st, p).count = st.count
<1> DEFINE page == [rows |-> {}, room |-> 0, next |-> st.free]
           disk == [st.disk EXCEPT ![p] = page]
           new == Freed(st, p)
<1>1. st \in StoreRecord /\ \A q \in st.dirty : st.cache[q] # NoPage
  BY DEF Stores
<1>2. page \in Content
  BY <1>1, RowsFit DEF StoreRecord, Content
<1>3. disk \in [Page -> Content]
  BY <1>1, <1>2 DEF StoreRecord
<1>4. new = [st EXCEPT !.disk = disk, !.free = p]
  BY DEF Freed
<1>5. p \in Link
  BY PageNumbers
<1> HIDE DEF disk, new
<1>6. /\ new \in StoreRecord /\ new.cache = st.cache /\ new.dirty = st.dirty
      /\ new.shadows = st.shadows /\ new.count = st.count
  BY <1>1, <1>3, <1>4, <1>5 DEF StoreRecord
<1> QED
  BY <1>1, <1>6 DEF Stores, new

\* f[n] is the store with the first n shadow pages freed.
Frees(f, st, l) ==
    f = [n \in 0 .. l |-> IF n = 0 THEN st ELSE Freed(f[n - 1], st.shadows[n][2])]

\* Any number of shadow pages can be freed.
LEMMA FreesExist == ASSUME NEW st PROVE \A l \in Nat : \E f : Frees(f, st, l)
<1> DEFINE S == {l \in Nat : \E f : Frees(f, st, l)}
<1>1. 0 \in S
  <2> DEFINE f == [i \in 0 .. 0 |-> st]
  <2>1. Frees(f, st, 0)
    BY DEF Frees
  <2> QED
    BY <2>1
<1>2. ASSUME NEW n \in Nat, n \in S PROVE n + 1 \in S
  <2>1. PICK f : Frees(f, st, n)
    BY <1>2
  <2> DEFINE last == Freed(f[n], st.shadows[n + 1][2])
             g == [i \in 0 .. n + 1 |-> IF i = n + 1 THEN last ELSE f[i]]
  <2>2. \A i \in 0 .. n : f[i] = IF i = 0 THEN st ELSE Freed(f[i - 1], st.shadows[i][2])
    BY <2>1 DEF Frees
  <2>3. ASSUME NEW i \in 0 .. n + 1
        PROVE  g[i] = IF i = 0 THEN st ELSE Freed(g[i - 1], st.shadows[i][2])
    <3>1. CASE i = n + 1
      <4>1. g[i] = last /\ g[i - 1] = f[n] /\ i # 0
        BY <3>1
      <4> QED
        BY <3>1, <4>1
    <3>2. CASE i # n + 1
      <4>1. i \in 0 .. n /\ g[i] = f[i] /\ (i # 0 => g[i - 1] = f[i - 1])
        BY <3>2
      <4> QED
        BY <2>2, <4>1
    <3> QED
      BY <3>1, <3>2
  <2>4. g = [i \in 0 .. n + 1 |-> g[i]]
    OBVIOUS
  <2> HIDE DEF g
  <2>5. Frees(g, st, n + 1)
    <3> DEFINE h == [i \in 0 .. n + 1 |-> IF i = 0 THEN st ELSE Freed(g[i - 1], st.shadows[i][2])]
    <3>1. \A i \in 0 .. n + 1 : h[i] = g[i]
      BY <2>3
    <3>2. h = [i \in 0 .. n + 1 |-> h[i]]
      OBVIOUS
    <3> HIDE DEF h
    <3>3. g = h
      BY <2>4, <3>1, <3>2
    <3> QED
      BY <3>3 DEF h, Frees
  <2> QED
    BY <2>5
<1> HIDE DEF S
<1>3. \A n \in Nat : n \in S
  BY <1>1, <1>2, EveryNumber
<1> QED
  BY <1>3 DEF S

\* The rollback frees every shadow page, and the transaction is over.
LEMMA RolledBackType ==
    ASSUME NEW st \in Stores
    PROVE  RolledBack(st) \in Stores /\ RolledBack(st).shadows = <<>>
<1> DEFINE l == Len(st.shadows)
<1>1. st.shadows \in Seq(Page \X Page)
  BY DEF Stores, StoreRecord
<1>2. l \in Nat /\ \A n \in 1 .. l : st.shadows[n][2] \in Page
  BY <1>1
<1>3. \E f : Frees(f, st, l)
  BY <1>2, FreesExist
<1>4. PICK f : /\ Frees(f, st, l)
               /\ RolledBack(st) = [f[l] EXCEPT !.active = FALSE, !.shadows = <<>>]
  BY <1>3, Zenon DEF Frees, RolledBack
<1> HIDE DEF l
<1>5. \A i \in 0 .. l : f[i] = IF i = 0 THEN st ELSE Freed(f[i - 1], st.shadows[i][2])
  BY <1>4 DEF Frees
<1> DEFINE S == {n \in Nat : n <= l => f[n] \in Stores}
<1>6. 0 \in S
  BY <1>2, <1>5
<1>7. ASSUME NEW n \in Nat, n \in S PROVE n + 1 \in S
  <2> SUFFICES ASSUME n + 1 <= l PROVE f[n + 1] \in Stores
    OBVIOUS
  <2>1. n + 1 \in 0 .. l /\ n + 1 \in 1 .. l /\ n + 1 # 0 /\ (n + 1) - 1 = n /\ n <= l
    BY <1>2
  <2>2. f[n + 1] = Freed(f[n], st.shadows[n + 1][2])
    BY <1>5, <2>1
  <2>3. f[n] \in Stores /\ st.shadows[n + 1][2] \in Page
    BY <1>2, <1>7, <2>1
  <2> QED
    BY <2>2, <2>3, FreedType
<1> HIDE DEF S
<1>8. \A n \in Nat : n \in S
  BY <1>6, <1>7, EveryNumber
<1>9. f[l] \in Stores
  BY <1>2, <1>8 DEF S
<1> DEFINE last == f[l]
           new == RolledBack(st)
<1>10. last \in StoreRecord /\ \A p \in last.dirty : last.cache[p] # NoPage
  BY <1>9 DEF Stores
<1>11. new = [last EXCEPT !.active = FALSE, !.shadows = <<>>]
  BY <1>4
<1> HIDE DEF last, new
<1>12. new \in StoreRecord /\ new.shadows = <<>> /\ new.cache = last.cache /\ new.dirty = last.dirty
  <2>1. <<>> \in Seq(Page \X Page)
    OBVIOUS
  <2> QED
    BY <1>10, <1>11, <2>1 DEF StoreRecord
<1> QED
  BY <1>10, <1>12 DEF Stores, new

-----------------------------------------------------------------------------
(* Statements.                                                             *)

\* A row is put into a page with room.
LEMMA WithRowType ==
    ASSUME NEW st \in Stores, NEW p \in Page, st.count < MaxPage,
           SessionView(st)[p].room > 0, NEW r \in Row
    PROVE  WithRow(st, p, r) \in Stores
<1> DEFINE c == SessionView(st)[p]
           content == [c EXCEPT !.rows = @ \cup {r}, !.room = @ - 1]
<1>1. c \in Content
  BY ViewTypes
<1>2. WithRow(st, p, r) = Written(st, p, content)
  BY DEF WithRow
<1>3. c.room > 0
  OBVIOUS
<1> HIDE DEF c
<1>4. content \in Content
  <2>1. c.rows \in SUBSET Row /\ c.room \in 0 .. Room /\ c.next \in Link /\ Room \in Nat
    BY <1>1, RowsFit DEF Content
  <2>2. c.rows \cup {r} \in SUBSET Row /\ c.room - 1 \in 0 .. Room
    BY <1>3, <2>1
  <2> DEFINE rows == c.rows \cup {r}
             room == c.room - 1
  <2>3. content = [c EXCEPT !.rows = rows, !.room = room]
    OBVIOUS
  <2>4. rows \in SUBSET Row /\ room \in 0 .. Room
    BY <2>2
  <2> HIDE DEF rows, room
  <2> QED
    BY <1>1, <2>3, <2>4 DEF Content
<1> HIDE DEF content
<1> QED
  BY <1>2, <1>4, WrittenType

\* The chain gets a page at its end: three pages are enough for it and a row.
LEMMA ExtendedType ==
    ASSUME NEW st \in Stores, NEW root \in Page, st.count + 3 <= MaxPage
    PROVE  /\ Extended(st, root) \in Stores
           /\ Extended(st, root).count < MaxPage
           /\ NextPage(st) \in Page
<1> DEFINE q == NextPage(st)
           c == SessionView(st)
           last == LastOf(c, root)
           t == Taken(st)
           content == [c[last] EXCEPT !.next = q]
           linked == Written(t, last, content)
           page == [linked EXCEPT !.disk[q] = Empty]
<1>0. st.count \in Nat /\ MaxPage \in Nat
  BY PageNumbers DEF Stores, StoreRecord
<1>1. q \in Page /\ t \in Stores /\ t.count \in st.count .. st.count + 1
  BY <1>0, TakenType
<1>2. c \in [Page -> Content]
  BY ViewTypes
<1>3. root \in Link /\ root # 0 /\ q \in Link
  BY <1>1, PageNumbers
<1>4. last \in Page
  BY <1>2, <1>3, AnyChainType
<1>5. Extended(st, root) = Loaded(page, {q})
  BY DEF Extended
<1> HIDE DEF q, c, last, t, linked, page
<1>6. c[last] \in Content
  BY <1>2, <1>4
<1>7. content \in Content
  BY <1>3, <1>6 DEF Content
<1> HIDE DEF content
<1>8. t.count < MaxPage /\ t.count + 1 < MaxPage
  BY <1>0, <1>1
<1>9. /\ linked \in Stores /\ linked.count = Target(t, last).count
      /\ Target(t, last).count \in t.count .. t.count + 1
  <2>1. Target(t, last).count \in t.count .. t.count + 1
    BY <1>1, <1>4, <1>8, TargetType
  <2> QED
    BY <1>1, <1>4, <1>7, <1>8, <2>1, WrittenType DEF linked
<1>10. linked.count < MaxPage
  BY <1>0, <1>1, <1>8, <1>9
<1>11. page \in Stores /\ page.count = linked.count
  <2> DEFINE disk == [linked.disk EXCEPT ![q] = Empty]
  <2>1. linked \in StoreRecord /\ \A p \in linked.dirty : linked.cache[p] # NoPage
    BY <1>9 DEF Stores
  <2>2. disk \in [Page -> Content]
    BY <1>1, <2>1, NewPages DEF StoreRecord
  <2>3. page = [linked EXCEPT !.disk = disk]
    BY DEF page
  <2> HIDE DEF disk
  <2>4. /\ page \in StoreRecord /\ page.cache = linked.cache /\ page.dirty = linked.dirty
        /\ page.count = linked.count
    BY <2>1, <2>2, <2>3 DEF StoreRecord
  <2> QED
    BY <2>1, <2>4 DEF Stores
<1>12. /\ Loaded(page, {q}) \in Stores
       /\ Loaded(page, {q}).count = page.count
  BY <1>11, LoadedType
<1> QED
  BY <1>1, <1>5, <1>10, <1>11, <1>12 DEF q

\* What a statement that scans a table does to the pool.
LEMMA ScannedType ==
    ASSUME store \in Stores, NEW t
    PROVE  Scanned(t) \in Stores /\ Scanned(t).count = store.count
BY LoadedType DEF Scanned

\* TypeOK, with what is dirty, copied and shadowed at each point of a COMMIT: the
\* pool is clean while shadow pages are copied, and nothing is copied before.
Typed ==
    /\ store \in Stores
    /\ tables \in [Table -> Link] /\ catalog \in [Table -> Link]
    /\ pc \in Flushing \cup {"idle", "copying", "dropping"}
    /\ copied \in 0 .. Len(store.shadows)
    /\ pc # "copying" => copied = 0
    /\ pc = "copying" => store.dirty = {}
    /\ fresh \subseteq Row

\* The database file, opened.
LEMMA TypedStart == Init => Typed
<1> SUFFICES ASSUME Init PROVE Typed
  OBVIOUS
<1> DEFINE n == Cardinality(Existing)
<1>1. n \in Nat /\ n <= MaxPage /\ MaxPage \in Nat /\ Existing \subseteq Table
  BY SomeTablesExist, PagesAreNumbered, FS_CardinalityType
<1>2. PICK root \in [Existing -> 1 .. n] :
        /\ tables = [t \in Table |-> IF t \in Existing THEN root[t] ELSE 0]
        /\ store = [disk |-> [p \in Page |-> IF p <= n THEN Empty ELSE Zero],
                    count |-> n, free |-> 0, cache |-> [p \in Page |-> NoPage],
                    dirty |-> {}, active |-> FALSE, shadows |-> <<>>]
  BY DEF Init
<1>3. catalog = tables /\ pc = "idle" /\ copied = 0 /\ fresh = Row
  BY DEF Init
<1> HIDE DEF n
<1>4. \A t \in Existing : root[t] \in Link
  BY <1>1 DEF Link
<1>5. tables \in [Table -> Link]
  BY <1>2, <1>4, PageNumbers
<1>6. store \in Stores
  <2> DEFINE disk == [p \in Page |-> IF p <= n THEN Empty ELSE Zero]
             cache == [p \in Page |-> NoPage]
  <2>1. disk \in [Page -> Content]
    BY NewPages
  <2>2. n \in Link
    BY <1>1 DEF Link
  <2>3. cache \in [Page -> Content \cup {NoPage}]
    OBVIOUS
  <2>4. <<>> \in Seq(Page \X Page)
    OBVIOUS
  <2> HIDE DEF disk, cache
  <2>5. [disk |-> disk, count |-> n, free |-> 0, cache |-> cache,
         dirty |-> {}, active |-> FALSE, shadows |-> <<>>] \in Stores
    BY <2>1, <2>2, <2>3, <2>4, PageNumbers DEF Stores, StoreRecord
  <2> QED
    BY <1>2, <2>5 DEF disk, cache
<1>7. store.shadows = <<>> /\ store.dirty = {}
  BY <1>2
<1> QED
  BY <1>3, <1>5, <1>6, <1>7 DEF Typed

\* Statements change the store, not the point that a COMMIT is at.
LEMMA TypedAfterStatement ==
    ASSUME Typed, pc = "idle", store' \in Stores,
           UNCHANGED <<tables, catalog, pc, copied>>, fresh' \subseteq fresh
    PROVE  Typed'
<1>1. copied = 0 /\ fresh \subseteq Row
  BY DEF Typed
<1>2. store'.shadows \in Seq(Page \X Page)
  BY DEF Stores, StoreRecord
<1>3. copied' \in 0 .. Len(store'.shadows)
  BY <1>1, <1>2
<1> QED
  BY <1>1, <1>3 DEF Typed

\* Each statement leaves a store.
LEMMA TypedStatements ==
    ASSUME Typed, NEW t \in Table, NEW r \in Row,
           Insert(t, r) \/ Delete(t, r) \/ Select(t) \/ \E q \in Row : Update(t, r, q)
    PROVE  Typed'
<1> DEFINE c == SessionView(store)
           st == Scanned(t)
<1>1. /\ store \in Stores /\ tables \in [Table -> Link] /\ pc = "idle" /\ tables[t] # 0
      /\ UNCHANGED <<tables, catalog, pc, copied>> /\ fresh' \subseteq fresh
  BY DEF Typed, Insert, Delete, Select, Update
<1>2. tables[t] \in Link /\ tables[t] \in Page
  BY <1>1, PageNumbers
<1>3. st \in Stores /\ st.count = store.count
  BY <1>1, ScannedType
<1>4. store.count \in Nat /\ MaxPage \in Nat
  BY <1>1, PageNumbers DEF Stores, StoreRecord
<1>5. c \in [Page -> Content]
  BY <1>1, ViewTypes
<1>6. PagesOf(c, tables[t]) \in SUBSET Page
  BY <1>2, <1>5, AnyChainType
<1>7. ASSUME NEW p \in PagesOf(c, tables[t]), NEW rows, rows \in SUBSET Row,
             RoomToGrow, store' = Written(st, p, [c[p] EXCEPT !.rows = rows])
      PROVE  store' \in Stores
  <2>1. p \in Page /\ c[p] \in Content
    BY <1>5, <1>6
  <2>2. [c[p] EXCEPT !.rows = rows] \in Content
    BY <1>7, <2>1 DEF Content
  <2>3. st.count < MaxPage
    BY <1>3, <1>4, <1>7 DEF RoomToGrow
  <2> QED
    BY <1>3, <1>7, <2>1, <2>2, <2>3, WrittenType
<1>8. ASSUME Insert(t, r) PROVE store' \in Stores
  <2> DEFINE view == SessionView(st)
             p == Spot(view, tables[t])
             longer == Extended(st, tables[t])
             q == NextPage(st)
  <2>1. \/ p # 0 /\ store' = WithRow(st, p, r)
        \/ p = 0 /\ store' = IF SessionView(longer)[q].room > 0
                             THEN WithRow(longer, q, r) ELSE Failed(longer)
    BY <1>8, Zenon DEF Insert
  <2>2. st.count + 3 <= MaxPage /\ st.count < MaxPage
    BY <1>3, <1>4, <1>8 DEF Insert, RoomToGrow
  <2>3. view \in [Page -> Content]
    BY <1>3, ViewTypes
  <2>4. p # 0 => p \in Page /\ view[p].room > 0
    BY <1>2, <2>3, AnyChainType
  <2>5. longer \in Stores /\ longer.count < MaxPage /\ q \in Page
    BY <1>2, <1>3, <2>2, ExtendedType
  <2>6. Failed(longer) \in Stores
    BY <2>5, RolledBackType DEF Failed
  <2> HIDE DEF p, longer, q
  <2>7. CASE p # 0 /\ store' = WithRow(st, p, r)
    BY <1>3, <2>2, <2>4, <2>7, WithRowType DEF view
  <2>8. CASE store' = IF SessionView(longer)[q].room > 0
                      THEN WithRow(longer, q, r) ELSE Failed(longer)
    <3>1. CASE SessionView(longer)[q].room > 0
      BY <2>5, <2>8, <3>1, WithRowType
    <3>2. CASE ~ (SessionView(longer)[q].room > 0)
      BY <2>6, <2>8, <3>2
    <3> QED
      BY <3>1, <3>2
  <2> QED
    BY <2>1, <2>7, <2>8
<1>9. ASSUME Delete(t, r) PROVE store' \in Stores
  <2>1. RoomToGrow /\ \E p \in PagesOf(c, tables[t]) :
          store' = Written(st, p, [c[p] EXCEPT !.rows = c[p].rows \ {r}])
    BY <1>9 DEF Delete
  <2>2. PICK p \in PagesOf(c, tables[t]) :
          store' = Written(st, p, [c[p] EXCEPT !.rows = c[p].rows \ {r}])
    BY <2>1
  <2>3. c[p] \in Content
    BY <1>5, <1>6
  <2>4. c[p].rows \ {r} \in SUBSET Row
    BY <2>3 DEF Content
  <2> QED
    BY <1>7, <2>1, <2>2, <2>4, ZenonT(60)
<1>10. ASSUME NEW q \in Row, Update(t, r, q) PROVE store' \in Stores
  <2>1. RoomToGrow /\ \E p \in PagesOf(c, tables[t]) :
          store' = Written(st, p, [c[p] EXCEPT !.rows = (c[p].rows \ {r}) \cup {q}])
    BY <1>10 DEF Update
  <2>2. PICK p \in PagesOf(c, tables[t]) :
          store' = Written(st, p, [c[p] EXCEPT !.rows = (c[p].rows \ {r}) \cup {q}])
    BY <2>1
  <2>3. c[p] \in Content
    BY <1>5, <1>6
  <2>4. (c[p].rows \ {r}) \cup {q} \in SUBSET Row
    BY <2>3 DEF Content
  <2> QED
    BY <1>7, <2>1, <2>2, <2>4, ZenonT(60)
<1>11. Select(t) => store' \in Stores
  BY <1>3 DEF Select
<1>12. store' \in Stores
  BY <1>8, <1>9, <1>10, <1>11
<1> QED
  BY <1>1, <1>12, TypedAfterStatement

\* BEGIN, ROLLBACK and COMMIT keep the types.
LEMMA TypedTransactions == Typed /\ (Begin \/ Rollback \/ Commit) => Typed'
<1> SUFFICES ASSUME Typed, Begin \/ Rollback \/ Commit PROVE Typed'
  OBVIOUS
<1>1. store \in Stores /\ store \in StoreRecord
  BY DEF Typed, Stores
<1>2. CASE Begin
  <2>1. /\ pc = "idle" /\ UNCHANGED <<tables, catalog, pc, copied, fresh>>
        /\ store' = [store EXCEPT !.active = TRUE]
    BY <1>2 DEF Begin
  <2>2. store' \in StoreRecord /\ store'.dirty = store.dirty /\ store'.cache = store.cache
    BY <1>1, <2>1 DEF StoreRecord
  <2>3. store' \in Stores
    BY <1>1, <2>2 DEF Stores
  <2> QED
    BY <2>1, <2>3, TypedAfterStatement
<1>3. CASE Rollback
  <2>1. /\ pc = "idle" /\ UNCHANGED <<tables, catalog, pc, copied, fresh>>
        /\ store' = RolledBack(store)
    BY <1>3 DEF Rollback
  <2>2. store' \in Stores
    BY <1>1, <2>1, RolledBackType
  <2> QED
    BY <2>1, <2>2, TypedAfterStatement
<1>4. CASE Commit
  BY <1>4 DEF Commit, Typed, Flushing
<1> QED
  BY <1>2, <1>3, <1>4

\* What a process finds when it opens the file.
LEMMA OpenedType ==
    ASSUME store \in Stores, Opened
    PROVE  /\ store' \in Stores /\ store'.shadows = <<>> /\ store'.dirty = {}
           /\ store'.disk = store.disk /\ store'.count = store.count /\ store'.free = store.free
           /\ store'.cache = [p \in Page |-> NoPage]
           /\ 0 \in 0 .. Len(store'.shadows)
<1> DEFINE cache == [p \in Page |-> NoPage]
<1>1. store' = [store EXCEPT !.cache = cache, !.dirty = {}, !.active = FALSE, !.shadows = <<>>]
  BY DEF Opened
<1>2. cache \in [Page -> Content \cup {NoPage}] /\ <<>> \in Seq(Page \X Page)
  OBVIOUS
<1>3. store \in StoreRecord
  BY DEF Stores
<1> HIDE DEF cache
<1>4. /\ store' \in StoreRecord /\ store'.dirty = {} /\ store'.shadows = <<>>
      /\ store'.disk = store.disk /\ store'.count = store.count /\ store'.free = store.free
      /\ store'.cache = cache
  BY <1>1, <1>2, <1>3 DEF StoreRecord
<1>5. store' \in Stores
  BY <1>4 DEF Stores
<1>6. 0 \in 0 .. Len(store'.shadows)
  BY <1>4
<1> QED
  BY <1>4, <1>5, <1>6 DEF cache

\* Steps that flush, copy and save keep the types.
LEMMA TypedSteps == Typed /\ Step => Typed'
<1> SUFFICES ASSUME Typed, Step PROVE Typed'
  OBVIOUS
<1>1. /\ store \in StoreRecord /\ store \in Stores
      /\ \A p \in store.dirty : store.cache[p] # NoPage
  BY DEF Typed, Stores
<1>2. /\ store.disk \in [Page -> Content] /\ store.cache \in [Page -> Content \cup {NoPage}]
      /\ store.dirty \in SUBSET Page /\ store.shadows \in Seq(Page \X Page)
  BY <1>1 DEF StoreRecord
<1>3. ASSUME NEW p \in Page, FlushPage(p) PROVE Typed'
  <2> DEFINE disk == [store.disk EXCEPT ![p] = store.cache[p]]
             dirty == store.dirty \ {p}
  <2>1. /\ pc \in Flushing /\ p \in store.dirty /\ UNCHANGED <<tables, catalog, pc, copied, fresh>>
        /\ store' = [store EXCEPT !.disk = disk, !.dirty = dirty]
    BY <1>3 DEF FlushPage
  <2>2. disk \in [Page -> Content]
    BY <1>1, <1>2, <2>1
  <2>3. dirty \in SUBSET Page /\ \A q \in dirty : store.cache[q] # NoPage
    BY <1>1, <1>2
  <2> HIDE DEF disk, dirty
  <2>4. /\ store' \in StoreRecord /\ store'.cache = store.cache /\ store'.dirty = dirty
        /\ store'.shadows = store.shadows
    BY <1>1, <2>1, <2>2, <2>3 DEF StoreRecord
  <2>5. store' \in Stores
    BY <2>3, <2>4 DEF Stores
  <2>6. pc # "copying"
    BY <2>1 DEF Flushing
  <2> QED
    BY <2>1, <2>4, <2>5, <2>6 DEF Typed
<1>4. CASE StartCopying
  BY <1>4 DEF StartCopying, Typed
<1>5. CASE CopyPage
  <2> DEFINE pair == store.shadows[copied + 1]
             disk == [store.disk EXCEPT ![pair[1]] = store.disk[pair[2]]]
  <2>1. /\ pc = "copying" /\ copied < Len(store.shadows) /\ copied' = copied + 1
        /\ UNCHANGED <<tables, catalog, pc, fresh>>
        /\ store' = [store EXCEPT !.disk = disk]
    BY <1>5 DEF CopyPage
  <2>2. copied \in 0 .. Len(store.shadows)
    BY DEF Typed
  <2>3. Len(store.shadows) \in Nat
    BY <1>2
  <2>4. copied + 1 \in 1 .. Len(store.shadows) /\ copied + 1 \in 0 .. Len(store.shadows)
    BY <2>1, <2>2, <2>3
  <2>5. pair \in Page \X Page
    BY <1>2, <2>4
  <2>6. disk \in [Page -> Content]
    BY <1>2, <2>5
  <2> HIDE DEF pair, disk
  <2>7. /\ store' \in StoreRecord /\ store'.cache = store.cache /\ store'.dirty = store.dirty
        /\ store'.shadows = store.shadows
    BY <1>1, <2>1, <2>6 DEF StoreRecord
  <2>8. store' \in Stores
    BY <1>1, <2>7 DEF Stores
  <2> QED
    BY <2>1, <2>4, <2>7, <2>8 DEF Typed
<1>6. CASE EndCommit
  <2> DEFINE cache == [p \in Page |-> NoPage]
  <2>1. /\ store' = [store EXCEPT !.cache = cache, !.active = FALSE, !.shadows = <<>>]
        /\ pc = "copying" /\ pc' = "idle" /\ copied' = 0 /\ UNCHANGED <<tables, catalog, fresh>>
    BY <1>6 DEF EndCommit
  <2>2. store.dirty = {}
    BY <2>1 DEF Typed
  <2>3. cache \in [Page -> Content \cup {NoPage}] /\ <<>> \in Seq(Page \X Page)
    OBVIOUS
  <2> HIDE DEF cache
  <2>4. store' \in StoreRecord /\ store'.dirty = {} /\ store'.shadows = <<>>
    BY <1>1, <2>1, <2>2, <2>3 DEF StoreRecord
  <2>5. store' \in Stores
    BY <2>4 DEF Stores
  <2>6. 0 \in 0 .. Len(store'.shadows)
    BY <2>4
  <2> QED
    BY <2>1, <2>5, <2>6 DEF Typed
<1>7. CASE SaveCatalog
  BY <1>7 DEF SaveCatalog, Typed, Flushing
<1>8. CASE EndSave
  BY <1>8 DEF EndSave, Typed
<1>9. CASE Reopen
  <2>1. Opened /\ catalog' = tables /\ tables' = tables
    BY <1>9 DEF Reopen
  <2>2. pc' = "idle" /\ copied' = 0 /\ fresh' = fresh
    BY <2>1 DEF Opened
  <2>3. store' \in Stores /\ 0 \in 0 .. Len(store'.shadows)
    BY <1>1, <2>1, OpenedType
  <2> QED
    BY <2>1, <2>2, <2>3 DEF Typed
<1> QED
  BY <1>3, <1>4, <1>5, <1>6, <1>7, <1>8, <1>9 DEF Step

\* CREATE TABLE and DROP TABLE write to the file at once.
LEMMA TypedTables == ASSUME Typed, NEW t \in Table, Create(t) \/ Drop(t) PROVE Typed'
<1>1. /\ store \in Stores /\ tables \in [Table -> Link] /\ catalog \in [Table -> Link]
      /\ pc = "idle" /\ copied = 0 /\ fresh \subseteq Row
  BY DEF Typed, Create, Drop
<1>2. store.count \in Nat /\ MaxPage \in Nat
  BY <1>1, PageNumbers DEF Stores, StoreRecord
<1>3. CASE Create(t)
  <2> DEFINE s == Taken(store)
             q == NextPage(store)
             disk == [s.disk EXCEPT ![q] = Empty]
  <2>1. /\ RoomToGrow /\ store' = [s EXCEPT !.disk = disk]
        /\ tables' = [tables EXCEPT ![t] = q] /\ catalog' = tables'
        /\ pc' = "saving" /\ UNCHANGED <<copied, fresh>>
    BY <1>3 DEF Create
  <2>2. store.count < MaxPage
    BY <1>2, <2>1 DEF RoomToGrow
  <2>3. s \in Stores /\ q \in Page
    BY <1>1, <2>2, TakenType
  <2>4. s \in StoreRecord /\ \A p \in s.dirty : s.cache[p] # NoPage
    BY <2>3 DEF Stores
  <2>5. disk \in [Page -> Content]
    BY <2>3, <2>4, NewPages DEF StoreRecord
  <2> HIDE DEF s, disk, q
  <2>6. store' \in StoreRecord /\ store'.cache = s.cache /\ store'.dirty = s.dirty
        /\ store'.shadows = s.shadows
    BY <2>1, <2>4, <2>5 DEF StoreRecord
  <2>7. store' \in Stores
    BY <2>4, <2>6 DEF Stores
  <2>8. tables' \in [Table -> Link]
    BY <1>1, <2>1, <2>3, PageNumbers
  <2>9. store'.shadows \in Seq(Page \X Page)
    BY <2>6 DEF StoreRecord
  <2>10. copied' \in 0 .. Len(store'.shadows)
    BY <1>1, <2>1, <2>9
  <2> QED
    BY <1>1, <2>1, <2>7, <2>8, <2>10 DEF Typed, Flushing
<1>4. CASE Drop(t)
  <2>1. /\ tables[t] # 0 /\ store' = Freed(store, tables[t])
        /\ tables' = [tables EXCEPT ![t] = 0]
        /\ pc' = "dropping" /\ UNCHANGED <<catalog, copied, fresh>>
    BY <1>4 DEF Drop
  <2>2. tables[t] \in Page
    BY <1>1, <2>1, PageNumbers
  <2>3. store' \in Stores
    BY <1>1, <2>1, <2>2, FreedType
  <2>4. tables' \in [Table -> Link]
    BY <1>1, <2>1, PageNumbers
  <2>5. store'.shadows \in Seq(Page \X Page)
    BY <2>3 DEF Stores, StoreRecord
  <2>6. copied' \in 0 .. Len(store'.shadows)
    BY <1>1, <2>1, <2>5
  <2> QED
    BY <1>1, <2>1, <2>3, <2>4, <2>6 DEF Typed
<1> QED
  BY <1>3, <1>4

\* Every step keeps the types.
LEMMA TypedGoesOn == Typed /\ [Next]_vars => Typed'
<1> SUFFICES ASSUME Typed, [Next]_vars PROVE Typed'
  OBVIOUS
<1>1. CASE Statement
  <2>1. ASSUME NEW t \in Table, NEW r \in Row,
               Insert(t, r) \/ Delete(t, r) \/ \E q \in Row : Update(t, r, q)
        PROVE  Typed'
    BY <2>1, TypedStatements
  <2>2. ASSUME NEW t \in Table, Select(t) PROVE Typed'
    <3>1. store' = Scanned(t) /\ pc = "idle" /\ UNCHANGED <<tables, catalog, pc, copied, fresh>>
      BY <2>2 DEF Select
    <3>2. store' \in Stores
      BY <3>1, ScannedType DEF Typed
    <3> QED
      BY <3>1, <3>2, TypedAfterStatement
  <2>3. ASSUME NEW t \in Table, Create(t) \/ Drop(t) PROVE Typed'
    BY <2>3, TypedTables
  <2>4. Begin \/ Rollback \/ Commit => Typed'
    BY TypedTransactions
  <2> QED
    BY <1>1, <2>1, <2>2, <2>3, <2>4 DEF Statement
<1>2. CASE Step
  BY <1>2, TypedSteps
<1>3. CASE Close
  BY <1>3 DEF Close, Typed, Flushing
<1>4. CASE Crash
  <2>1. Opened /\ tables' = catalog /\ catalog' = catalog
    BY <1>4 DEF Crash
  <2>2. pc' = "idle" /\ copied' = 0 /\ fresh' = fresh
    BY <2>1 DEF Opened
  <2>3. store' \in Stores /\ 0 \in 0 .. Len(store'.shadows)
    BY <2>1, OpenedType DEF Typed
  <2> QED
    BY <2>1, <2>2, <2>3 DEF Typed
<1>5. CASE UNCHANGED vars
  BY <1>5 DEF Typed, vars
<1> QED
  BY <1>1, <1>2, <1>3, <1>4, <1>5 DEF Next

\* The types hold for good.
LEMMA TypedHolds == Spec => []Typed
BY TypedStart, TypedGoesOn, PTL DEF Spec

\* What the session and the file keep has its type, whatever statements, crashes
\* and restarts follow each other: no page has less than no room (Table.insert),
\* no dirty page is missing from the pool (BufferPool.flush), and COMMIT copies
\* the shadow pages there are (TransactionManager.commit).
THEOREM StorageTypes == Spec => []TypeOK
<1>1. Typed => TypeOK
  BY DEF Typed, TypeOK, Stores, StoreRecord
<1> QED
  BY <1>1, TypedHolds, PTL

-----------------------------------------------------------------------------
(* No page has two owners, as long as no page is freed.                    *)

\* The links of a page, in the file and in the pool, lead into O or end.
LeadsInto(st, p, O) ==
    /\ st.disk[p].next \in O \cup {0}
    /\ st.cache[p] # NoPage => st.cache[p].next \in O \cup {0}

\* P[t] are pages that only table t has or has had: no version of them, in the
\* file, in the pool or in a shadow page, has a link that leads elsewhere.
Owned(st, P) ==
    /\ P \in [Table -> SUBSET Page]
    /\ \A t, u \in Table : t # u => P[t] \cap P[u] = {}
    /\ \A t \in Table : \A p \in P[t] : p <= st.count /\ LeadsInto(st, p, P[t])
    /\ \A i \in DOMAIN st.shadows :
        /\ st.shadows[i][1] <= st.count /\ st.shadows[i][2] <= st.count
        /\ \A t \in Table :
            /\ st.shadows[i][2] \notin P[t]
            /\ st.shadows[i][1] \in P[t] => LeadsInto(st, st.shadows[i][2], P[t])
    /\ \A i \in DOMAIN st.shadows : \E t \in Table : st.shadows[i][1] \in P[t]
    /\ \A i, k \in DOMAIN st.shadows : i # k => st.shadows[i][2] # st.shadows[k][2]
    /\ \A p \in Page : p > st.count => st.cache[p] = NoPage /\ st.disk[p].next = 0
    /\ st.free = 0

\* Where a page is looked for: at its own place or in its shadow.
LEMMA WhereIs ==
    ASSUME NEW st, NEW p
    PROVE  \/ Where(st, p) = p /\ ShadowOf(st, p) = {}
           \/ \E i \in DOMAIN st.shadows : st.shadows[i][1] = p /\ Where(st, p) = st.shadows[i][2]
<1>1. CASE ShadowOf(st, p) = {}
  BY <1>1 DEF Where
<1>2. CASE ShadowOf(st, p) # {}
  <2> DEFINE i == CHOOSE k \in ShadowOf(st, p) : TRUE
  <2>1. i \in ShadowOf(st, p) /\ Where(st, p) = st.shadows[i][2]
    BY <1>2 DEF Where
  <2> HIDE DEF i
  <2>2. i \in DOMAIN st.shadows /\ st.shadows[i][1] = p
    BY <2>1 DEF ShadowOf
  <2> QED
    BY <2>1, <2>2
<1> QED
  BY <1>1, <1>2

\* Every view of a table's pages has links to the table's pages only.
LEMMA OwnedViews ==
    ASSUME NEW st \in Stores, NEW P, Owned(st, P), NEW t \in Table, NEW p \in P[t]
    PROVE  /\ p \in Page /\ Where(st, p) \in Page /\ Where(st, p) <= st.count
           /\ st.disk[p].next \in P[t] \cup {0}
           /\ Base(st, p).next \in P[t] \cup {0}
           /\ BaseView(st)[p].next \in P[t] \cup {0}
           /\ SessionView(st)[p].next \in P[t] \cup {0}
<1>1. p \in Page /\ p <= st.count /\ LeadsInto(st, p, P[t])
  BY DEF Owned
<1>2. Base(st, p).next \in P[t] \cup {0} /\ st.disk[p].next \in P[t] \cup {0}
  BY <1>1 DEF LeadsInto, Base
<1>3. Where(st, p) \in Page /\ Where(st, p) <= st.count /\ LeadsInto(st, Where(st, p), P[t])
  <2>1. CASE Where(st, p) = p
    BY <1>1, <2>1
  <2>2. ASSUME NEW i \in DOMAIN st.shadows, st.shadows[i][1] = p, Where(st, p) = st.shadows[i][2]
        PROVE  Where(st, p) <= st.count /\ LeadsInto(st, Where(st, p), P[t])
    BY <2>2 DEF Owned
  <2>3. Where(st, p) \in Page
    BY <1>1, ViewTypes
  <2> QED
    BY <1>1, <2>1, <2>2, <2>3, WhereIs
<1>4. Base(st, Where(st, p)).next \in P[t] \cup {0}
  BY <1>3 DEF LeadsInto, Base
<1>5. BaseView(st)[p] = Base(st, p) /\ SessionView(st)[p] = Base(st, Where(st, p))
  BY <1>1, ViewTypes
<1> QED
  BY <1>1, <1>2, <1>3, <1>4, <1>5

\* The pages of a table, in any view, are its own.
LEMMA OwnedPages ==
    ASSUME NEW st \in Stores, NEW P, Owned(st, P), NEW t \in Table,
           NEW root \in P[t] \cup {0}, NEW c \in {SessionView(st), BaseView(st), st.disk}
    PROVE  /\ PagesOf(c, root) \in SUBSET P[t]
           /\ root # 0 => LastOf(c, root) \in P[t]
           /\ Spot(c, root) # 0 => Spot(c, root) \in P[t]
<1>1. P[t] \in SUBSET Page
  BY DEF Owned
<1>2. \A p \in P[t] : c[p].next \in P[t] \cup {0}
  BY OwnedViews
<1>3. c \in [Page -> Content]
  BY ViewTypes DEF Stores, StoreRecord
<1> QED
  BY <1>1, <1>2, <1>3, ChainType

\* Reading pages that exist makes nobody their owner.
LEMMA OwnedLoaded ==
    ASSUME NEW st \in Stores, NEW P, Owned(st, P), NEW X, \A p \in X : p <= st.count
    PROVE  Owned(Loaded(st, X), P)
<1> DEFINE new == Loaded(st, X)
<1>1. /\ new.disk = st.disk /\ new.count = st.count /\ new.free = st.free
      /\ new.shadows = st.shadows
      /\ \A p \in Page : new.cache[p]
           = IF p \in X /\ st.cache[p] = NoPage THEN st.disk[p] ELSE st.cache[p]
  BY LoadedType
<1> HIDE DEF new
<1>2. ASSUME NEW p \in Page, NEW O, LeadsInto(st, p, O) PROVE LeadsInto(new, p, O)
  BY <1>1, <1>2 DEF LeadsInto
<1>3. st.count \in Nat
  BY PageNumbers DEF Stores, StoreRecord
<1>4. \A p \in Page : p > st.count => new.cache[p] = NoPage /\ new.disk[p].next = 0
  <2> SUFFICES ASSUME NEW p \in Page, p > st.count
               PROVE  new.cache[p] = NoPage /\ new.disk[p].next = 0
    OBVIOUS
  <2>1. p \notin X
    BY <1>3, PageNumbers
  <2> QED
    BY <1>1, <2>1 DEF Owned
<1>5. \A i \in DOMAIN st.shadows : st.shadows[i][2] \in Page
  <2>1. \A i \in DOMAIN st.shadows : st.shadows[i] \in Page \X Page
    BY DEF Stores, StoreRecord
  <2> QED
    BY <2>1
<1>6. Owned(new, P)
  BY <1>1, <1>2, <1>4, <1>5 DEF Owned
<1> QED
  BY <1>6 DEF new

\* A shadow page belongs to no table, and leads where its original leads.
LEMMA OwnedTarget ==
    ASSUME NEW st \in Stores, NEW P, Owned(st, P), NEW t \in Table, NEW p \in P[t],
           st.count < MaxPage
    PROVE  /\ Owned(Target(st, p), P)
           /\ \A q \in Page : q <= st.count /\ q # p => Target(st, p).cache[q] = st.cache[q]
           /\ \A i \in DOMAIN Target(st, p).shadows :
                \/ Target(st, p).shadows[i][1] = p
                \/ i \in DOMAIN st.shadows /\ Target(st, p).shadows[i] = st.shadows[i]
<1> DEFINE s == NextPage(st)
           new == Target(st, p)
<1>1. CASE ~ (st.active /\ ShadowOf(st, p) = {})
  <2>1. new = st
    BY <1>1 DEF Target, Shadowed
  <2> QED
    BY <2>1
<1>2. CASE st.active /\ ShadowOf(st, p) = {}
  <2>1. new = Shadowed(st, p)
    BY <1>2 DEF Target
  <2>2. p \in Page /\ Base(st, p).next \in P[t] \cup {0}
    BY OwnedViews
  <2>3. s = st.count + 1 /\ Taken(st).count = st.count + 1 /\ Taken(st).free = 0 /\ st.free = 0
    BY TakenType DEF Owned
  <2>4. /\ new \in Stores /\ s \in Page
        /\ new.disk = [st.disk EXCEPT ![s] = Base(st, p)]
        /\ \A q \in Page : new.cache[q] =
             IF q = s THEN Base(st, p)
             ELSE IF q = p /\ st.cache[p] = NoPage THEN st.disk[p] ELSE st.cache[q]
        /\ new.shadows = Append(st.shadows, <<p, s>>)
        /\ new.count = Taken(st).count /\ new.free = Taken(st).free
    BY <1>2, <2>1, <2>2, ShadowedType
  <2> HIDE DEF s, new
  <2>5. /\ st.disk \in [Page -> Content] /\ st.shadows \in Seq(Page \X Page) /\ st.count \in Nat
    BY PageNumbers DEF Stores, StoreRecord
  <2>6. \A q \in Page : new.disk[q] = IF q = s THEN Base(st, p) ELSE st.disk[q]
    BY <2>4, <2>5
  <2>7. \A q \in Page : q <= st.count => q # s
    BY <2>3, <2>5, PageNumbers
  <2>8. ASSUME NEW q \in Page, q # s, NEW O, LeadsInto(st, q, O) PROVE LeadsInto(new, q, O)
    BY <2>4, <2>6, <2>8 DEF LeadsInto
  <2>9. LeadsInto(new, s, P[t])
    BY <2>2, <2>4, <2>6 DEF LeadsInto
  <2>10. \A u \in Table : p \in P[u] => u = t
    BY DEF Owned
  <2>11. p <= st.count /\ p # s
    BY <2>2, <2>7 DEF Owned
  <2>12. \A q \in Page : q <= st.count => q <= new.count
    <3>1. new.count = st.count + 1 /\ \A q \in Page : q \in Nat
      BY <2>3, <2>4, PageNumbers
    <3> QED
      BY <2>5, <3>1
  <2>13. s <= new.count /\ p <= new.count
    BY <2>2, <2>3, <2>4, <2>5, <2>11, <2>12
  <2>14. \A u \in Table : \A q \in P[u] : q \in Page /\ q <= st.count /\ LeadsInto(st, q, P[u])
    BY DEF Owned
  <2>15. \A u \in Table : \A q \in P[u] : q <= new.count /\ LeadsInto(new, q, P[u])
    BY <2>7, <2>8, <2>12, <2>14
  <2>16. \A i \in DOMAIN st.shadows :
           /\ st.shadows[i][1] \in Page /\ st.shadows[i][2] \in Page
           /\ st.shadows[i][1] <= st.count /\ st.shadows[i][2] <= st.count
           /\ \A u \in Table :
                /\ st.shadows[i][2] \notin P[u]
                /\ st.shadows[i][1] \in P[u] => LeadsInto(st, st.shadows[i][2], P[u])
    <3>1. \A i \in DOMAIN st.shadows : st.shadows[i] \in Page \X Page
      BY <2>5
    <3> QED
      BY <3>1 DEF Owned
  <2> DEFINE l == Len(st.shadows)
  <2>17. /\ l \in Nat /\ DOMAIN st.shadows = 1 .. l /\ DOMAIN new.shadows = 1 .. l + 1
         /\ new.shadows[l + 1] = <<p, s>>
         /\ \A i \in 1 .. l : new.shadows[i] = st.shadows[i]
    BY <2>4, <2>5
  <2> HIDE DEF l
  <2>18. \A i \in DOMAIN new.shadows : i = l + 1 \/ (i \in DOMAIN st.shadows /\ i # l + 1)
    BY <2>17
  <2>19. ASSUME NEW i \in DOMAIN new.shadows
         PROVE  /\ new.shadows[i][1] <= new.count /\ new.shadows[i][2] <= new.count
                /\ \A u \in Table :
                     /\ new.shadows[i][2] \notin P[u]
                     /\ new.shadows[i][1] \in P[u] => LeadsInto(new, new.shadows[i][2], P[u])
    <3>1. CASE i = l + 1
      <4>1. new.shadows[i][1] = p /\ new.shadows[i][2] = s
        BY <2>17, <3>1
      <4>2. \A u \in Table : s \notin P[u]
        BY <2>7, <2>14
      <4> QED
        BY <2>9, <2>10, <2>13, <4>1, <4>2
    <3>2. CASE i \in DOMAIN st.shadows
      <4>1. new.shadows[i] = st.shadows[i]
        BY <2>17, <3>2
      <4> QED
        BY <2>7, <2>8, <2>12, <2>16, <3>2, <4>1
    <3> QED
      BY <2>18, <3>1, <3>2
  <2>20. ASSUME NEW i \in DOMAIN new.shadows, NEW k \in DOMAIN new.shadows, i # k
         PROVE  new.shadows[i][2] # new.shadows[k][2]
    <3>1. \A j \in DOMAIN st.shadows : new.shadows[j][2] = st.shadows[j][2] /\ st.shadows[j][2] # s
      BY <2>7, <2>16, <2>17
    <3>2. new.shadows[l + 1][2] = s
      BY <2>17
    <3>3. \A j, m \in DOMAIN st.shadows : j # m => st.shadows[j][2] # st.shadows[m][2]
      BY DEF Owned
    <3> QED
      BY <2>18, <2>20, <3>1, <3>2, <3>3
  <2>21. \A q \in Page : q > new.count => new.cache[q] = NoPage /\ new.disk[q].next = 0
    <3> SUFFICES ASSUME NEW q \in Page, q > new.count
                 PROVE  new.cache[q] = NoPage /\ new.disk[q].next = 0
      OBVIOUS
    <3>0. /\ new.count = st.count + 1 /\ q \in Nat /\ p \in Nat /\ p <= st.count
          /\ s = st.count + 1
      BY <2>2, <2>3, <2>4, <2>11, PageNumbers
    <3>1. q > st.count /\ q # s /\ q # p
      BY <2>5, <3>0
    <3>2. st.cache[q] = NoPage /\ st.disk[q].next = 0
      BY <3>1 DEF Owned
    <3> QED
      BY <2>4, <2>6, <3>1, <3>2
  <2>22. Owned(new, P)
    <3>1. P \in [Table -> SUBSET Page] /\ \A u, w \in Table : u # w => P[u] \cap P[w] = {}
      BY DEF Owned
    <3>2. \A i \in DOMAIN new.shadows : \E u \in Table : new.shadows[i][1] \in P[u]
      <4>1. \A i \in DOMAIN st.shadows : \E u \in Table : st.shadows[i][1] \in P[u]
        BY DEF Owned
      <4>2. new.shadows[l + 1][1] = p
        BY <2>17
      <4> QED
        BY <2>17, <2>18, <4>1, <4>2
    <3> QED
      BY <2>3, <2>4, <2>15, <2>19, <2>20, <2>21, <3>1, <3>2 DEF Owned
  <2>23. \A q \in Page : q <= st.count /\ q # p => new.cache[q] = st.cache[q]
    BY <2>4, <2>7
  <2>24. \A i \in DOMAIN new.shadows :
           new.shadows[i][1] = p \/ (i \in DOMAIN st.shadows /\ new.shadows[i] = st.shadows[i])
    BY <2>17, <2>18
  <2> QED
    BY <2>22, <2>23, <2>24 DEF new
<1> QED
  BY <1>1, <1>2

\* A page of a table is written where its readers look for it.
LEMMA OwnedWritten ==
    ASSUME NEW st \in Stores, NEW P, Owned(st, P), NEW t \in Table, NEW p \in P[t],
           NEW content \in Content, content.next \in P[t] \cup {0}, st.count < MaxPage
    PROVE  /\ Owned(Written(st, p, content), P)
           /\ \A q \in Page :
                /\ q <= st.count /\ q # p /\ (\E u \in Table : q \in P[u])
                => Written(st, p, content).cache[q] = st.cache[q]
           /\ \A i \in DOMAIN Written(st, p, content).shadows :
                \/ Written(st, p, content).shadows[i][1] = p
                \/ i \in DOMAIN st.shadows /\ Written(st, p, content).shadows[i] = st.shadows[i]
<1> DEFINE g == Target(st, p)
           w == Where(g, p)
           new == Written(st, p, content)
<1>1. p \in Page
  BY OwnedViews
<1>2. /\ g \in Stores /\ Owned(g, P)
      /\ \A q \in Page : q <= st.count /\ q # p => g.cache[q] = st.cache[q]
      /\ \A i \in DOMAIN g.shadows :
           \/ g.shadows[i][1] = p
           \/ i \in DOMAIN st.shadows /\ g.shadows[i] = st.shadows[i]
  BY <1>1, OwnedTarget, TargetType
<1>3. /\ new \in Stores /\ w \in Page /\ new.disk = g.disk /\ new.shadows = g.shadows
      /\ new.count = g.count /\ new.free = g.free
      /\ \A r \in Page : new.cache[r] = IF r = w THEN content ELSE g.cache[r]
  BY <1>1, WrittenType
<1> HIDE DEF g, new
<1>4. \/ w = p
      \/ \E i \in DOMAIN g.shadows : g.shadows[i][1] = p /\ w = g.shadows[i][2]
  BY WhereIs
<1>5. w <= g.count
  <2>1. p <= g.count
    BY <1>2 DEF Owned
  <2> QED
    BY <1>2, <1>4, <2>1 DEF Owned
<1>6. w # p => \A u \in Table : w \notin P[u]
  BY <1>2, <1>4 DEF Owned
<1> HIDE DEF w
<1>7. ASSUME NEW q \in Page, NEW O, LeadsInto(g, q, O), q = w => content.next \in O \cup {0}
      PROVE  LeadsInto(new, q, O)
  BY <1>3, <1>7 DEF LeadsInto
<1>8. \A u \in Table : p \in P[u] => u = t
  BY DEF Owned
<1>9. ASSUME NEW u \in Table, NEW q \in P[u] PROVE q <= new.count /\ LeadsInto(new, q, P[u])
  <2>1. q \in Page /\ q <= g.count /\ LeadsInto(g, q, P[u])
    BY <1>2 DEF Owned
  <2>2. q = w => content.next \in P[u] \cup {0}
    BY <1>6, <1>8
  <2> QED
    BY <1>3, <1>7, <2>1, <2>2
<1>10. ASSUME NEW i \in DOMAIN new.shadows
       PROVE  /\ new.shadows[i][1] <= new.count /\ new.shadows[i][2] <= new.count
              /\ \A u \in Table :
                   /\ new.shadows[i][2] \notin P[u]
                   /\ new.shadows[i][1] \in P[u] => LeadsInto(new, new.shadows[i][2], P[u])
  <2> DEFINE o == g.shadows[i][1]
             s == g.shadows[i][2]
  <2>1. i \in DOMAIN g.shadows /\ new.shadows[i][1] = o /\ new.shadows[i][2] = s
    BY <1>3
  <2>2. s \in Page
    <3>1. g.shadows \in Seq(Page \X Page)
      BY <1>2 DEF Stores, StoreRecord
    <3>2. g.shadows[i] \in Page \X Page
      BY <2>1, <3>1
    <3> QED
      BY <3>2
  <2>3. /\ o <= g.count /\ s <= g.count
        /\ \A u \in Table : s \notin P[u] /\ (o \in P[u] => LeadsInto(g, s, P[u]))
    BY <1>2, <2>1 DEF Owned
  <2>4. ASSUME s = w PROVE o = p
    <3>1. w # p
      BY <2>3, <2>4
    <3>2. PICK k \in DOMAIN g.shadows : g.shadows[k][1] = p /\ w = g.shadows[k][2]
      BY <1>4, <3>1
    <3>3. i = k
      BY <1>2, <2>1, <2>4, <3>2 DEF Owned
    <3> QED
      BY <3>2, <3>3
  <2> HIDE DEF o, s
  <2>5. \A u \in Table : o \in P[u] => (s = w => content.next \in P[u] \cup {0})
    BY <1>8, <2>4
  <2> QED
    BY <1>3, <1>7, <2>1, <2>2, <2>3, <2>5
<1>11. \A q \in Page : q > new.count => new.cache[q] = NoPage /\ new.disk[q].next = 0
  <2> SUFFICES ASSUME NEW q \in Page, q > new.count
               PROVE  new.cache[q] = NoPage /\ new.disk[q].next = 0
    OBVIOUS
  <2>1. g.count \in Nat /\ q \in Nat /\ w \in Nat
    BY <1>2, <1>3, PageNumbers DEF Stores, StoreRecord
  <2>2. q # w /\ q > g.count
    BY <1>3, <1>5, <2>1
  <2> QED
    BY <1>2, <1>3, <2>2 DEF Owned
<1>12. /\ P \in [Table -> SUBSET Page] /\ \A u, v \in Table : u # v => P[u] \cap P[v] = {}
       /\ \A i \in DOMAIN new.shadows : \E u \in Table : new.shadows[i][1] \in P[u]
       /\ \A i, k \in DOMAIN new.shadows : i # k => new.shadows[i][2] # new.shadows[k][2]
       /\ new.free = 0
  BY <1>2, <1>3 DEF Owned
<1>13. Owned(new, P)
  BY <1>9, <1>10, <1>11, <1>12 DEF Owned
<1>14. \A q \in Page : q <= st.count /\ q # p /\ (\E u \in Table : q \in P[u])
         => new.cache[q] = st.cache[q]
  BY <1>2, <1>3, <1>6
<1> QED
  BY <1>2, <1>3, <1>13, <1>14 DEF new

\* P with page q for table t.
WithPage(P, t, q) == [u \in Table |-> IF u = t THEN P[t] \cup {q} ELSE P[u]]

\* A page at the end of the file was nobody's: it can be given to a table.
LEMMA OwnedTaken ==
    ASSUME NEW st \in Stores, NEW P, Owned(st, P), NEW t \in Table, st.count < MaxPage
    PROVE  /\ Owned(Taken(st), WithPage(P, t, NextPage(st)))
           /\ WithPage(P, t, NextPage(st))[t] = P[t] \cup {NextPage(st)}
           /\ \A u \in Table : /\ P[u] \subseteq WithPage(P, t, NextPage(st))[u]
                               /\ u # t => WithPage(P, t, NextPage(st))[u] = P[u]
<1> DEFINE q == NextPage(st)
           tk == Taken(st)
           Q == WithPage(P, t, q)
<1>1. st.count \in Nat
  BY PageNumbers DEF Stores, StoreRecord
<1>2. /\ q \in Page /\ tk \in Stores /\ q = st.count + 1 /\ tk.count = st.count + 1
      /\ tk.free = 0 /\ tk.disk = st.disk /\ tk.cache = st.cache /\ tk.shadows = st.shadows
  BY TakenType DEF Owned
<1> HIDE DEF q, tk
<1>7. \A p \in Page : p <= st.count => p # q /\ p <= tk.count
  <2>1. \A p \in Page : p \in Nat
    BY PageNumbers
  <2> QED
    BY <1>1, <1>2, <2>1
<1>8. /\ P \in [Table -> SUBSET Page]
      /\ \A u \in Table : \A p \in P[u] : p \in Page /\ p <= st.count /\ p # q
  BY <1>7 DEF Owned
<1>9. /\ Q \in [Table -> SUBSET Page] /\ Q[t] = P[t] \cup {q}
      /\ \A u \in Table : u # t => Q[u] = P[u]
  BY <1>2, <1>8 DEF WithPage
<1> HIDE DEF Q
<1>10. \A u \in Table : P[u] \subseteq Q[u] /\ (\A p \in Q[u] : p \in P[u] \/ (p = q /\ u = t))
  BY <1>9
<1>11. Owned(tk, Q)
  <2>1. \A u, v \in Table : u # v => Q[u] \cap Q[v] = {}
    <3>1. \A u, v \in Table : u # v => P[u] \cap P[v] = {}
      BY DEF Owned
    <3> QED
      BY <1>8, <1>10, <3>1
  <2>2. ASSUME NEW u \in Table, NEW p \in Page, LeadsInto(st, p, P[u])
        PROVE  LeadsInto(tk, p, Q[u])
    BY <1>2, <1>10, <2>2 DEF LeadsInto
  <2>3. q > st.count /\ q <= tk.count
    BY <1>1, <1>2
  <2>4. st.cache[q] = NoPage /\ st.disk[q].next = 0
    BY <1>2, <2>3 DEF Owned
  <2>5. LeadsInto(tk, q, Q[t])
    BY <1>2, <2>4 DEF LeadsInto
  <2>6. \A u \in Table : \A p \in P[u] : LeadsInto(st, p, P[u])
    BY DEF Owned
  <2>7. \A u \in Table : \A p \in Q[u] : p <= tk.count /\ LeadsInto(tk, p, Q[u])
    BY <1>7, <1>8, <1>10, <2>2, <2>3, <2>5, <2>6
  <2>8. ASSUME NEW i \in DOMAIN st.shadows
        PROVE  /\ st.shadows[i][1] <= tk.count /\ st.shadows[i][2] <= tk.count
               /\ \A u \in Table :
                    /\ st.shadows[i][2] \notin Q[u]
                    /\ st.shadows[i][1] \in Q[u] => LeadsInto(tk, st.shadows[i][2], Q[u])
    <3>1. st.shadows[i][1] \in Page /\ st.shadows[i][2] \in Page
      <4>1. st.shadows[i] \in Page \X Page
        BY DEF Stores, StoreRecord
      <4> QED
        BY <4>1
    <3>2. /\ st.shadows[i][1] <= st.count /\ st.shadows[i][2] <= st.count
          /\ \A u \in Table :
               /\ st.shadows[i][2] \notin P[u]
               /\ st.shadows[i][1] \in P[u] => LeadsInto(st, st.shadows[i][2], P[u])
      BY DEF Owned
    <3> QED
      BY <1>7, <1>10, <2>2, <3>1, <3>2
  <2>9. \A p \in Page : p > tk.count => tk.cache[p] = NoPage /\ tk.disk[p].next = 0
    <3>1. \A p \in Page : p > tk.count => p > st.count
      <4>1. \A p \in Page : p \in Nat
        BY PageNumbers
      <4> QED
        BY <1>1, <1>2, <4>1
    <3> QED
      BY <1>2, <3>1 DEF Owned
  <2>10. /\ \A i \in DOMAIN st.shadows : \E u \in Table : st.shadows[i][1] \in Q[u]
         /\ \A i, k \in DOMAIN st.shadows : i # k => st.shadows[i][2] # st.shadows[k][2]
    BY <1>10 DEF Owned
  <2> QED
    BY <1>2, <1>9, <2>1, <2>7, <2>8, <2>9, <2>10 DEF Owned
<1> QED
  BY <1>9, <1>10, <1>11 DEF q, tk, Q

\* A new page of a table is its own, and it is empty: no copy of what it was
\* before is left in the pool, for it was never a page before.
LEMMA OwnedExtended ==
    ASSUME NEW st \in Stores, NEW P, Owned(st, P), NEW t \in Table, NEW root \in P[t],
           st.count + 3 <= MaxPage
    PROVE  /\ Owned(Extended(st, root), WithPage(P, t, NextPage(st)))
           /\ SessionView(Extended(st, root))[NextPage(st)].room > 0
<1> DEFINE q == NextPage(st)
           c == SessionView(st)
           last == LastOf(c, root)
           tk == Taken(st)
           content == [c[last] EXCEPT !.next = q]
           linked == Written(tk, last, content)
           page == [linked EXCEPT !.disk[q] = Empty]
           longer == Extended(st, root)
           Q == WithPage(P, t, q)
<1>1. st.count \in Nat /\ MaxPage \in Nat /\ st.count < MaxPage
  <2>1. st.count \in Nat /\ MaxPage \in Nat
    BY PageNumbers DEF Stores, StoreRecord
  <2> QED
    BY <2>1
<1>2. /\ q \in Page /\ tk \in Stores /\ q = st.count + 1 /\ tk.count = st.count + 1
      /\ tk.free = 0 /\ tk.disk = st.disk /\ tk.cache = st.cache /\ tk.shadows = st.shadows
  BY <1>1, TakenType DEF Owned
<1>3. root # 0 /\ last \in P[t]
  <2>1. P[t] \in SUBSET Page
    BY DEF Owned
  <2>2. root \in P[t] \cup {0} /\ root # 0
    BY <2>1, PageNumbers
  <2> QED
    BY <2>2, OwnedPages
<1>4. longer = Loaded(page, {q})
  BY DEF Extended
<1>5. c[last] \in Content /\ last \in Page /\ last <= st.count
  BY <1>3, OwnedViews, ViewTypes DEF Owned
<1>11. Owned(tk, Q) /\ Q[t] = P[t] \cup {q}
  BY <1>1, OwnedTaken
<1> HIDE DEF q, c, last, tk, longer, Q
<1>6. content \in Content /\ content.next = q
  BY <1>2, <1>5, PageNumbers DEF Content
<1> HIDE DEF content
<1>7. \A p \in Page : p <= st.count => p # q /\ p <= tk.count
  <2>1. \A p \in Page : p \in Nat
    BY PageNumbers
  <2> QED
    BY <1>1, <1>2, <2>1
<1>12. last \in Q[t] /\ content.next \in Q[t] \cup {0} /\ q \in Q[t]
  BY <1>3, <1>6, <1>11
<1>13. tk.count < MaxPage
  BY <1>1, <1>2
<1>14. linked \in Stores
  BY <1>2, <1>5, <1>6, <1>13, WrittenType
<1>15. /\ Owned(linked, Q)
       /\ linked.cache[q] = tk.cache[q]
       /\ \A i \in DOMAIN linked.shadows :
            linked.shadows[i][1] = last \/ (i \in DOMAIN st.shadows /\ linked.shadows[i] = st.shadows[i])
  <2>1. q <= tk.count /\ q # last
    BY <1>1, <1>2, <1>5, <1>7
  <2> QED
    BY <1>2, <1>6, <1>11, <1>12, <1>13, <2>1, OwnedWritten, SMTT(60)
<1> HIDE DEF linked
<1>16. /\ page \in Stores /\ page.count = linked.count /\ page.cache = linked.cache
       /\ page.shadows = linked.shadows /\ page.free = linked.free
       /\ \A p \in Page : page.disk[p] = IF p = q THEN Empty ELSE linked.disk[p]
  <2> DEFINE disk == [linked.disk EXCEPT ![q] = Empty]
  <2>1. linked \in StoreRecord /\ \A p \in linked.dirty : linked.cache[p] # NoPage
    BY <1>14 DEF Stores
  <2>2. disk \in [Page -> Content] /\ \A p \in Page : disk[p] = IF p = q THEN Empty ELSE linked.disk[p]
    BY <1>2, <2>1, NewPages DEF StoreRecord
  <2>3. page = [linked EXCEPT !.disk = disk]
    OBVIOUS
  <2> HIDE DEF disk, page
  <2>4. /\ page \in StoreRecord /\ page.cache = linked.cache /\ page.dirty = linked.dirty
        /\ page.count = linked.count /\ page.shadows = linked.shadows /\ page.free = linked.free
        /\ page.disk = disk
    BY <2>1, <2>2, <2>3 DEF StoreRecord
  <2> QED
    BY <2>1, <2>2, <2>4 DEF Stores
<1> HIDE DEF page
<1>17. Owned(page, Q)
  <2>1. ASSUME NEW p \in Page, NEW O, LeadsInto(linked, p, O) PROVE LeadsInto(page, p, O)
    BY <1>16, <2>1, NewPages DEF LeadsInto
  <2>2. \A u \in Table : \A p \in Q[u] : p <= page.count /\ LeadsInto(page, p, Q[u])
    <3>1. \A u \in Table : \A p \in Q[u] : p \in Page /\ p <= linked.count /\ LeadsInto(linked, p, Q[u])
      BY <1>15 DEF Owned
    <3> QED
      BY <1>16, <2>1, <3>1
  <2>3. ASSUME NEW i \in DOMAIN page.shadows
        PROVE  /\ page.shadows[i][1] <= page.count /\ page.shadows[i][2] <= page.count
               /\ \A u \in Table :
                    /\ page.shadows[i][2] \notin Q[u]
                    /\ page.shadows[i][1] \in Q[u] => LeadsInto(page, page.shadows[i][2], Q[u])
    <3>1. page.shadows[i][2] \in Page
      <4>1. page.shadows[i] \in Page \X Page
        BY <1>16 DEF Stores, StoreRecord
      <4> QED
        BY <4>1
    <3>2. /\ linked.shadows[i][1] <= linked.count /\ linked.shadows[i][2] <= linked.count
          /\ \A u \in Table :
               /\ linked.shadows[i][2] \notin Q[u]
               /\ linked.shadows[i][1] \in Q[u] => LeadsInto(linked, linked.shadows[i][2], Q[u])
      BY <1>15, <1>16 DEF Owned
    <3> QED
      BY <1>16, <2>1, <3>1, <3>2
  <2>4. \A p \in Page : p > page.count => page.cache[p] = NoPage /\ page.disk[p].next = 0
    BY <1>15, <1>16, NewPages DEF Owned
  <2>5. /\ Q \in [Table -> SUBSET Page] /\ \A u, v \in Table : u # v => Q[u] \cap Q[v] = {}
        /\ \A i \in DOMAIN page.shadows : \E u \in Table : page.shadows[i][1] \in Q[u]
        /\ \A i, k \in DOMAIN page.shadows : i # k => page.shadows[i][2] # page.shadows[k][2]
        /\ page.free = 0
    BY <1>15, <1>16 DEF Owned
  <2> QED
    BY <2>2, <2>3, <2>4, <2>5 DEF Owned
<1>18. Owned(longer, Q)
  <2>1. \A x \in {q} : x <= page.count
    BY <1>12, <1>17 DEF Owned
  <2> QED
    BY <1>4, <1>16, <1>17, <2>1, OwnedLoaded
<1>19. SessionView(longer)[q].room > 0
  <2>1. longer \in Stores /\ longer.shadows = page.shadows /\ Base(longer, q) = Base(page, q)
    BY <1>2, <1>4, <1>16, LoadedType
  <2>2. page.cache[q] = NoPage
    <3>1. st.cache[q] = NoPage
      <4>1. q > st.count
        BY <1>1, <1>2
      <4> QED
        BY <1>2, <4>1 DEF Owned
    <3> QED
      BY <1>2, <1>15, <1>16, <3>1
  <2>3. Base(page, q) = Empty
    BY <1>2, <1>16, <2>2 DEF Base
  <2>4. \A i \in DOMAIN longer.shadows : longer.shadows[i][1] # q
    <3>1. \A i \in DOMAIN st.shadows : st.shadows[i][1] \in Page /\ st.shadows[i][1] <= st.count
      <4>1. \A i \in DOMAIN st.shadows : st.shadows[i] \in Page \X Page
        BY DEF Stores, StoreRecord
      <4> QED
        BY <4>1 DEF Owned
    <3>2. \A i \in DOMAIN st.shadows : st.shadows[i][1] # q
      BY <1>7, <3>1
    <3>3. last # q
      BY <1>5, <1>7
    <3> QED
      BY <1>15, <1>16, <2>1, <3>2, <3>3
  <2>5. ShadowOf(longer, q) = {}
    BY <2>4 DEF ShadowOf
  <2>6. Where(longer, q) = q
    BY <2>5 DEF Where
  <2>7. SessionView(longer)[q] = Empty
    BY <1>2, <2>1, <2>3, <2>6, ViewTypes
  <2> QED
    BY <2>7, NewPages, RowsFit
<1> QED
  BY <1>18, <1>19 DEF longer, q, Q

\* The pages of the file are the tables' own, and those the catalog in the file
\* leads to are those the session uses.
Apart ==
    /\ Typed
    /\ tables = catalog /\ pc # "dropping"
    /\ \E P : Owned(store, P) /\ \A t \in Table : tables[t] \in P[t] \cup {0}

\* In the file that is opened first every table has its root page.
LEMMA ApartStart == Init => Apart
<1> SUFFICES ASSUME Init PROVE Apart
  OBVIOUS
<1> DEFINE n == Cardinality(Existing)
           P == [t \in Table |-> {tables[t]} \ {0}]
<1>1. n \in Nat /\ n <= MaxPage /\ MaxPage \in Nat /\ Existing \subseteq Table
  BY SomeTablesExist, PagesAreNumbered, FS_CardinalityType
<1>2. PICK root \in [Existing -> 1 .. n] :
        /\ \A t, u \in Existing : root[t] = root[u] => t = u
        /\ tables = [t \in Table |-> IF t \in Existing THEN root[t] ELSE 0]
        /\ store = [disk |-> [p \in Page |-> IF p <= n THEN Empty ELSE Zero],
                    count |-> n, free |-> 0, cache |-> [p \in Page |-> NoPage],
                    dirty |-> {}, active |-> FALSE, shadows |-> <<>>]
  BY DEF Init
<1>3. /\ \A p \in Page : store.disk[p].next = 0 /\ store.cache[p] = NoPage
      /\ store.count = n /\ store.free = 0 /\ store.shadows = <<>>
  BY <1>2, NewPages
<1>4. Typed /\ tables = catalog /\ pc # "dropping"
  BY TypedStart DEF Init
<1> HIDE DEF n
<1>5. \A t \in Table : tables[t] # 0 =>
        /\ t \in Existing /\ tables[t] = root[t] /\ tables[t] \in Page /\ tables[t] <= n
  BY <1>1, <1>2 DEF Page
<1>6. /\ P \in [Table -> SUBSET Page]
      /\ \A t \in Table : P[t] = {tables[t]} \ {0} /\ tables[t] \in P[t] \cup {0}
  BY <1>5
<1> HIDE DEF P
<1>7. \A t, u \in Table : t # u => P[t] \cap P[u] = {}
  <2> SUFFICES ASSUME NEW t \in Table, NEW u \in Table, NEW p \in P[t] \cap P[u] PROVE t = u
    OBVIOUS
  <2>1. p = tables[t] /\ p = tables[u] /\ p # 0
    BY <1>6
  <2> QED
    BY <1>2, <1>5, <2>1
<1>8. \A t \in Table : \A p \in P[t] : p <= store.count /\ LeadsInto(store, p, P[t])
  BY <1>3, <1>5, <1>6 DEF LeadsInto
<1>9. \A i \in DOMAIN store.shadows : FALSE
  BY <1>3
<1>10. Owned(store, P)
  BY <1>3, <1>6, <1>7, <1>8, <1>9 DEF Owned
<1> QED
  BY <1>4, <1>6, <1>10 DEF Apart

\* The statements on rows write to the table's own pages.
LEMMA ApartStatements ==
    ASSUME Apart, NEW t \in Table, NEW r \in Row,
           Insert(t, r) \/ Delete(t, r) \/ Select(t) \/ \E q \in Row : Update(t, r, q)
    PROVE  Apart'
<1> DEFINE c == SessionView(store)
           st == Scanned(t)
           root == tables[t]
<1>1. /\ Typed /\ Typed' /\ store \in Stores /\ root # 0
      /\ tables = catalog /\ pc # "dropping" /\ UNCHANGED <<tables, catalog, pc>>
  <2>1. Typed' /\ UNCHANGED <<tables, catalog, pc>> /\ root # 0
    BY TypedStatements DEF Apart, Insert, Delete, Select, Update
  <2> QED
    BY <2>1 DEF Apart, Typed
<1>2. PICK P : Owned(store, P) /\ \A u \in Table : tables[u] \in P[u] \cup {0}
  BY DEF Apart
<1>3. root \in P[t]
  BY <1>1, <1>2
<1>4. SUFFICES \E Q : Owned(store', Q) /\ \A u \in Table : P[u] \subseteq Q[u]
  <2>1. PICK Q : Owned(store', Q) /\ \A u \in Table : P[u] \subseteq Q[u]
    BY <1>4
  <2>2. \A u \in Table : tables'[u] \in Q[u] \cup {0}
    BY <1>1, <1>2, <2>1
  <2> QED
    BY <1>1, <2>1, <2>2 DEF Apart
<1>5. PagesOf(c, root) \in SUBSET P[t]
  BY <1>1, <1>2, <1>3, OwnedPages
<1>6. Owned(st, P) /\ st \in Stores /\ st.count = store.count
  <2> DEFINE X == {Where(store, p) : p \in PagesOf(c, root)}
  <2>1. \A x \in X : x <= store.count
    BY <1>1, <1>2, <1>5, OwnedViews
  <2>2. st = Loaded(store, X)
    BY DEF Scanned
  <2> HIDE DEF X, st
  <2>3. st \in Stores /\ st.count = store.count
    BY <1>1, ScannedType DEF st
  <2> QED
    BY <1>1, <1>2, <2>1, <2>2, <2>3, OwnedLoaded
<1>7. store.count \in Nat /\ MaxPage \in Nat
  <2>1. store.count \in Link
    BY <1>1 DEF Stores, StoreRecord
  <2> QED
    BY <2>1, PageNumbers
<1> HIDE DEF st
<1>8. ASSUME NEW p \in PagesOf(c, root), NEW rows, rows \in SUBSET Row,
             RoomToGrow, store' = Written(st, p, [c[p] EXCEPT !.rows = rows])
      PROVE  Owned(store', P)
  <2>1. p \in P[t] /\ p \in Page
    BY <1>1, <1>2, <1>5, OwnedViews
  <2>2. c[p] \in Content /\ c[p].next \in P[t] \cup {0}
    BY <1>1, <1>2, <2>1, OwnedViews, ViewTypes
  <2> DEFINE content == [c[p] EXCEPT !.rows = rows]
  <2>3. content \in Content /\ content.next = c[p].next
    BY <1>8, <2>2 DEF Content
  <2>4. st.count < MaxPage
    BY <1>6, <1>7, <1>8 DEF RoomToGrow
  <2> HIDE DEF content
  <2>5. Owned(Written(st, p, content), P)
    BY <1>6, <2>1, <2>2, <2>3, <2>4, OwnedWritten
  <2> QED
    BY <1>8, <2>5 DEF content
<1>9. ASSUME NEW s \in Stores, NEW Q, Owned(s, Q), NEW p \in Q[t], s.count < MaxPage,
             SessionView(s)[p].room > 0
      PROVE  Owned(WithRow(s, p, r), Q)
  <2> DEFINE b == SessionView(s)[p]
             content == [b EXCEPT !.rows = @ \cup {r}, !.room = @ - 1]
             rows == b.rows \cup {r}
             room == b.room - 1
  <2>1. p \in Page /\ b \in Content /\ b.next \in Q[t] \cup {0}
    BY <1>9, OwnedViews, ViewTypes
  <2>2. b.room > 0
    BY <1>9
  <2>3. WithRow(s, p, r) = Written(s, p, content) /\ content = [b EXCEPT !.rows = rows, !.room = room]
    BY DEF WithRow
  <2> HIDE DEF b, content
  <2>4. rows \in SUBSET Row /\ room \in 0 .. Room
    <3>1. b.rows \in SUBSET Row /\ b.room \in 0 .. Room /\ Room \in Nat
      BY <2>1, RowsFit DEF Content
    <3> QED
      BY <2>2, <3>1
  <2> HIDE DEF rows, room
  <2>5. content \in Content /\ content.next = b.next
    BY <2>1, <2>3, <2>4 DEF Content
  <2>6. content.next \in Q[t] \cup {0}
    BY <2>1, <2>5
  <2>7. Owned(Written(s, p, content), Q)
    BY <1>9, <2>1, <2>5, <2>6, OwnedWritten
  <2> QED
    BY <2>3, <2>7
<1>10. ASSUME Insert(t, r)
       PROVE  \E Q : Owned(store', Q) /\ \A u \in Table : P[u] \subseteq Q[u]
  <2> DEFINE view == SessionView(st)
             p == Spot(view, root)
             longer == Extended(st, root)
             q == NextPage(st)
  <2>1. \/ p # 0 /\ store' = WithRow(st, p, r)
        \/ p = 0 /\ store' = IF SessionView(longer)[q].room > 0
                             THEN WithRow(longer, q, r) ELSE Failed(longer)
    BY <1>10, Zenon DEF Insert, st
  <2>2. st.count + 3 <= MaxPage /\ st.count < MaxPage
    BY <1>6, <1>7, <1>10 DEF Insert, RoomToGrow
  <2>3. p # 0 => p \in P[t] /\ view[p].room > 0
    <3>1. view \in [Page -> Content] /\ root \in Link
      BY <1>1, <1>6, ViewTypes DEF Typed
    <3> QED
      BY <1>3, <1>6, <3>1, OwnedPages, AnyChainType
  <2>4. PICK Q : /\ Owned(longer, Q) /\ \A u \in Table : P[u] \subseteq Q[u]
                 /\ q \in Q[t] /\ SessionView(longer)[q].room > 0
    BY <1>3, <1>6, <2>2, OwnedExtended, OwnedTaken
  <2>5. longer \in Stores /\ longer.count < MaxPage
    <3>1. root \in Page
      BY <1>2, <1>3, <1>1, OwnedViews
    <3> QED
      BY <1>6, <2>2, <3>1, ExtendedType
  <2> HIDE DEF p, longer, q
  <2>6. CASE p # 0 /\ store' = WithRow(st, p, r)
    <3>1. Owned(store', P)
      BY <1>6, <1>9, <2>2, <2>3, <2>6 DEF view
    <3> QED
      BY <3>1
  <2>7. CASE p = 0
    <3>1. store' = WithRow(longer, q, r)
      BY <2>1, <2>4, <2>7
    <3>2. Owned(store', Q)
      BY <1>9, <2>4, <2>5, <3>1
    <3> QED
      BY <2>4, <3>2
  <2> QED
    BY <2>1, <2>6, <2>7
<1>11. ASSUME Delete(t, r) PROVE Owned(store', P)
  <2>1. RoomToGrow /\ \E p \in PagesOf(c, root) :
          store' = Written(st, p, [c[p] EXCEPT !.rows = c[p].rows \ {r}])
    BY <1>11 DEF Delete, st
  <2>2. PICK p \in PagesOf(c, root) :
          store' = Written(st, p, [c[p] EXCEPT !.rows = c[p].rows \ {r}])
    BY <2>1
  <2>3. c[p] \in Content
    BY <1>1, <1>2, <1>5, OwnedViews, ViewTypes
  <2>4. c[p].rows \ {r} \in SUBSET Row
    BY <2>3 DEF Content
  <2> QED
    BY <1>8, <2>1, <2>2, <2>4
<1>12. ASSUME NEW q \in Row, Update(t, r, q) PROVE Owned(store', P)
  <2>1. RoomToGrow /\ \E p \in PagesOf(c, root) :
          store' = Written(st, p, [c[p] EXCEPT !.rows = (c[p].rows \ {r}) \cup {q}])
    BY <1>12 DEF Update, st
  <2>2. PICK p \in PagesOf(c, root) :
          store' = Written(st, p, [c[p] EXCEPT !.rows = (c[p].rows \ {r}) \cup {q}])
    BY <2>1
  <2>3. c[p] \in Content
    BY <1>1, <1>2, <1>5, OwnedViews, ViewTypes
  <2>4. (c[p].rows \ {r}) \cup {q} \in SUBSET Row
    BY <2>3 DEF Content
  <2> QED
    BY <1>8, <2>1, <2>2, <2>4, ZenonT(60)
<1>13. Select(t) => Owned(store', P)
  BY <1>6 DEF Select, st
<1> QED
  BY <1>10, <1>11, <1>12, <1>13

\* A store with the same pages, of which some were written to the file, copied
\* within it or dropped from the pool, is owned as before.
LEMMA OwnedRewritten ==
    ASSUME NEW st \in Stores, NEW P, Owned(st, P), NEW new \in Stores,
           new.count = st.count, new.free = st.free,
           new.shadows = st.shadows \/ new.shadows = <<>>,
           \A p \in Page : p > st.count =>
              new.cache[p] = NoPage /\ new.disk[p].next = 0,
           \A O : \A p \in Page :
              /\ LeadsInto(st, p, O)
              /\ \A i \in DOMAIN st.shadows :
                   st.shadows[i][1] = p => LeadsInto(st, st.shadows[i][2], O)
              => LeadsInto(new, p, O)
    PROVE  Owned(new, P)
<1>1. \A i \in DOMAIN new.shadows : i \in DOMAIN st.shadows /\ new.shadows = st.shadows
  OBVIOUS
<1>2. /\ P \in [Table -> SUBSET Page]
      /\ \A t, u \in Table : t # u => P[t] \cap P[u] = {}
      /\ new.free = 0
  BY DEF Owned
<1>3. ASSUME NEW t \in Table, NEW p \in P[t] PROVE p <= new.count /\ LeadsInto(new, p, P[t])
  <2>1. p \in Page /\ p <= st.count /\ LeadsInto(st, p, P[t])
    BY DEF Owned
  <2>2. \A i \in DOMAIN st.shadows :
          st.shadows[i][1] = p => LeadsInto(st, st.shadows[i][2], P[t])
    BY DEF Owned
  <2> QED
    BY <2>1, <2>2
<1>4. \A i \in DOMAIN st.shadows : st.shadows[i][1] \in Page /\ st.shadows[i][2] \in Page
  <2>1. \A i \in DOMAIN st.shadows : st.shadows[i] \in Page \X Page
    BY DEF Stores, StoreRecord
  <2> QED
    BY <2>1
<1>5. ASSUME NEW i \in DOMAIN st.shadows, NEW k \in DOMAIN st.shadows
      PROVE  st.shadows[k][1] # st.shadows[i][2]
  BY DEF Owned
<1>6. ASSUME NEW i \in DOMAIN new.shadows
      PROVE  /\ new.shadows[i][1] <= new.count /\ new.shadows[i][2] <= new.count
             /\ \A t \in Table :
                  /\ new.shadows[i][2] \notin P[t]
                  /\ new.shadows[i][1] \in P[t] => LeadsInto(new, new.shadows[i][2], P[t])
  <2>1. i \in DOMAIN st.shadows /\ new.shadows = st.shadows
    BY <1>1
  <2>2. /\ st.shadows[i][1] <= st.count /\ st.shadows[i][2] <= st.count
        /\ \A t \in Table :
             /\ st.shadows[i][2] \notin P[t]
             /\ st.shadows[i][1] \in P[t] => LeadsInto(st, st.shadows[i][2], P[t])
    BY <2>1 DEF Owned
  <2>3. \A t \in Table : LeadsInto(st, st.shadows[i][2], P[t])
                            => LeadsInto(new, st.shadows[i][2], P[t])
    BY <1>4, <1>5, <2>1
  <2> QED
    BY <2>1, <2>2, <2>3
<1>7. /\ \A i \in DOMAIN new.shadows : \E t \in Table : new.shadows[i][1] \in P[t]
      /\ \A i, k \in DOMAIN new.shadows : i # k => new.shadows[i][2] # new.shadows[k][2]
  BY <1>1 DEF Owned
<1> QED
  BY <1>2, <1>3, <1>6, <1>7 DEF Owned

\* BEGIN, and what a COMMIT, a flush and a restart write and forget, make nobody
\* the owner of a page.
LEMMA ApartRewritten ==
    ASSUME Apart, NEW P, Owned(store, P), \A t \in Table : tables[t] \in P[t] \cup {0},
           Typed', UNCHANGED <<tables, catalog>>, pc' # "dropping",
           store'.count = store.count, store'.free = store.free,
           store'.shadows = store.shadows \/ store'.shadows = <<>>,
           \A p \in Page : p > store.count =>
              store'.cache[p] = NoPage /\ store'.disk[p].next = 0,
           \A O : \A p \in Page :
              /\ LeadsInto(store, p, O)
              /\ \A i \in DOMAIN store.shadows :
                   store.shadows[i][1] = p => LeadsInto(store, store.shadows[i][2], O)
              => LeadsInto(store', p, O)
    PROVE  Apart'
<1>1. store \in Stores /\ store' \in Stores
  BY DEF Apart, Typed
<1>2. Owned(store', P)
  BY <1>1, OwnedRewritten
<1> QED
  BY <1>2 DEF Apart

\* Nothing is owned differently while the pool is flushed, the shadow pages of a
\* transaction are copied over their originals, or the file is opened again.
LEMMA ApartSteps == Apart /\ (Begin \/ Commit \/ Step \/ Close \/ Crash) => Apart'
<1> SUFFICES ASSUME Apart, Begin \/ Commit \/ Step \/ Close \/ Crash PROVE Apart'
  OBVIOUS
<1>1. Typed /\ Typed' /\ tables = catalog /\ pc # "dropping"
  BY TypedGoesOn DEF Apart, Next, Statement
<1>2. store \in Stores /\ store \in StoreRecord /\ store.dirty \in SUBSET Page
  BY <1>1 DEF Typed, Stores, StoreRecord
<1>3. PICK P : Owned(store, P) /\ \A t \in Table : tables[t] \in P[t] \cup {0}
  BY DEF Apart
<1>4. \A p \in Page : p > store.count => store.cache[p] = NoPage /\ store.disk[p].next = 0
  BY <1>3 DEF Owned
<1>5. ASSUME UNCHANGED <<store, tables, catalog>>, pc' # "dropping" PROVE Apart'
  BY <1>1, <1>3, <1>5 DEF Apart
<1>6. CASE Begin
  <2>1. store' = [store EXCEPT !.active = TRUE] /\ UNCHANGED <<tables, catalog, pc>>
    BY <1>6 DEF Begin
  <2>2. /\ store'.disk = store.disk /\ store'.cache = store.cache /\ store'.count = store.count
        /\ store'.free = store.free /\ store'.shadows = store.shadows
    BY <1>2, <2>1 DEF StoreRecord
  <2> QED
    BY <1>1, <1>3, <1>4, <2>1, <2>2, ApartRewritten DEF LeadsInto
<1>7. CASE Commit \/ StartCopying \/ EndSave \/ Close
  BY <1>5, <1>7 DEF Commit, StartCopying, EndSave, Close
<1>8. ASSUME NEW q \in Page, FlushPage(q) PROVE Apart'
  <2> DEFINE disk == [store.disk EXCEPT ![q] = store.cache[q]]
             dirty == store.dirty \ {q}
  <2>1. /\ q \in store.dirty /\ store' = [store EXCEPT !.disk = disk, !.dirty = dirty]
        /\ UNCHANGED <<tables, catalog, pc>>
    BY <1>8 DEF FlushPage
  <2>2. store.cache[q] # NoPage
    BY <1>2, <2>1 DEF Stores
  <2>3. \A p \in Page : disk[p] = IF p = q THEN store.cache[q] ELSE store.disk[p]
    BY <1>2 DEF StoreRecord
  <2> HIDE DEF disk, dirty
  <2>4. /\ store'.disk = disk /\ store'.cache = store.cache /\ store'.count = store.count
        /\ store'.free = store.free /\ store'.shadows = store.shadows
    BY <1>2, <2>1 DEF StoreRecord
  <2>5. \A p \in Page : p > store.count => store'.cache[p] = NoPage /\ store'.disk[p].next = 0
    BY <1>4, <2>2, <2>3, <2>4
  <2>6. \A O : \A p \in Page : LeadsInto(store, p, O) => LeadsInto(store', p, O)
    BY <2>2, <2>3, <2>4 DEF LeadsInto
  <2> QED
    BY <1>1, <1>3, <2>1, <2>4, <2>5, <2>6, ApartRewritten
<1>9. CASE CopyPage
  <2> DEFINE k == copied + 1
             a == store.shadows[k][1]
             b == store.shadows[k][2]
             disk == [store.disk EXCEPT ![a] = store.disk[b]]
  <2>1. /\ copied < Len(store.shadows) /\ UNCHANGED <<tables, catalog, pc>>
        /\ store' = [store EXCEPT !.disk = disk]
    BY <1>9 DEF CopyPage
  <2>2. copied \in 0 .. Len(store.shadows) /\ store.shadows \in Seq(Page \X Page)
    BY <1>1, <1>2 DEF Typed, StoreRecord
  <2>3. k \in DOMAIN store.shadows
    BY <2>1, <2>2
  <2>4. a \in Page /\ b \in Page
    <3>1. store.shadows[k] \in Page \X Page
      BY <2>2, <2>3
    <3> QED
      BY <3>1
  <2>5. a <= store.count
    BY <1>3, <2>3 DEF Owned
  <2> HIDE DEF k
  <2>6. \A p \in Page : disk[p] = IF p = a THEN store.disk[b] ELSE store.disk[p]
    BY <1>2, <2>4 DEF StoreRecord
  <2>7. store.count \in Nat /\ a \in Nat
    BY <1>2, <2>4, PageNumbers DEF StoreRecord
  <2> HIDE DEF disk
  <2>8. /\ store'.disk = disk /\ store'.cache = store.cache /\ store'.count = store.count
        /\ store'.free = store.free /\ store'.shadows = store.shadows
    BY <1>2, <2>1 DEF StoreRecord
  <2>9. \A p \in Page : p > store.count => store'.cache[p] = NoPage /\ store'.disk[p].next = 0
    <3>1. \A p \in Page : p > store.count => p # a
      BY <2>5, <2>7
    <3> QED
      BY <1>4, <2>6, <2>8, <3>1
  <2>10. ASSUME NEW O, NEW p \in Page, LeadsInto(store, p, O),
                \A i \in DOMAIN store.shadows :
                   store.shadows[i][1] = p => LeadsInto(store, store.shadows[i][2], O)
         PROVE  LeadsInto(store', p, O)
    <3>1. p = a => LeadsInto(store, b, O)
      BY <2>3, <2>10
    <3> HIDE DEF a, b
    <3> QED
      BY <2>6, <2>8, <2>10, <3>1 DEF LeadsInto
  <2> QED
    BY <1>1, <1>3, <2>1, <2>8, <2>9, <2>10, ApartRewritten
<1>10. ASSUME store'.disk = store.disk, store'.count = store.count, store'.free = store.free,
              store'.shadows = <<>>, store'.cache = [p \in Page |-> NoPage],
              UNCHANGED <<tables, catalog>>, pc' = "idle"
       PROVE  Apart'
  <2>1. \A p \in Page : store'.cache[p] = NoPage
    BY <1>10
  <2>2. \A p \in Page : p > store.count => store'.cache[p] = NoPage /\ store'.disk[p].next = 0
    BY <1>4, <1>10, <2>1
  <2>3. \A O : \A p \in Page : LeadsInto(store, p, O) => LeadsInto(store', p, O)
    BY <1>10, <2>1 DEF LeadsInto
  <2> QED
    BY <1>1, <1>3, <1>10, <2>2, <2>3, ApartRewritten
<1>11. CASE EndCommit
  <2> DEFINE cache == [p \in Page |-> NoPage]
  <2>1. /\ store' = [store EXCEPT !.cache = cache, !.active = FALSE, !.shadows = <<>>]
        /\ pc' = "idle" /\ UNCHANGED <<tables, catalog>>
    BY <1>11 DEF EndCommit
  <2> HIDE DEF cache
  <2>2. /\ store'.disk = store.disk /\ store'.cache = cache /\ store'.count = store.count
        /\ store'.free = store.free /\ store'.shadows = <<>>
    BY <1>2, <2>1 DEF StoreRecord
  <2> QED
    BY <1>10, <2>1, <2>2 DEF cache
<1>12. CASE Reopen \/ Crash
  <2>1. Opened /\ UNCHANGED <<tables, catalog>>
    BY <1>1, <1>12 DEF Reopen, Crash
  <2>2. pc' = "idle"
    BY <2>1 DEF Opened
  <2> QED
    BY <1>2, <1>10, <2>1, <2>2, OpenedType
<1>13. ~SaveCatalog
  BY <1>1 DEF SaveCatalog
<1> QED
  BY <1>6, <1>7, <1>8, <1>9, <1>11, <1>12, <1>13 DEF Step

\* The root page of a new table is nobody else's.
LEMMA ApartCreate == ASSUME Apart, NEW t \in Table, Create(t) PROVE Apart'
<1> DEFINE s == Taken(store)
           q == NextPage(store)
           disk == [s.disk EXCEPT ![q] = Empty]
<1>1. /\ RoomToGrow /\ tables[t] = 0 /\ store' = [s EXCEPT !.disk = disk]
      /\ tables' = [tables EXCEPT ![t] = q] /\ catalog' = tables' /\ pc' = "saving"
  BY DEF Create
<1>2. /\ Typed /\ Typed' /\ store \in Stores /\ store' \in Stores
      /\ tables \in [Table -> Link]
  BY TypedTables DEF Apart, Typed
<1>3. PICK P : Owned(store, P) /\ \A u \in Table : tables[u] \in P[u] \cup {0}
  BY DEF Apart
<1>4. store.count \in Nat /\ MaxPage \in Nat
  BY <1>2, PageNumbers DEF Stores, StoreRecord
<1>5. store.count < MaxPage /\ store.free = 0
  BY <1>1, <1>3, <1>4 DEF RoomToGrow, Owned
<1>6. /\ q \in Page /\ q = store.count + 1 /\ s \in Stores
      /\ s.disk = store.disk /\ s.cache = store.cache /\ s.shadows = store.shadows
      /\ s.count = store.count + 1 /\ s.free = 0
  BY <1>2, <1>5, TakenType
<1> HIDE DEF s, q
<1>7. s \in StoreRecord
  BY <1>6 DEF Stores
<1>8. \A p \in Page : disk[p] = IF p = q THEN Empty ELSE store.disk[p]
  BY <1>6, <1>7 DEF StoreRecord
<1> HIDE DEF disk
<1>9. /\ store'.disk = disk /\ store'.cache = store.cache /\ store'.shadows = store.shadows
      /\ store'.count = store.count + 1 /\ store'.free = 0
  BY <1>1, <1>6, <1>7 DEF StoreRecord
<1>10. \A p \in Page : p \in Nat
  BY PageNumbers
<1>11. \A p \in Page : p <= store.count => p # q /\ p <= store'.count
  BY <1>4, <1>6, <1>9, <1>10
<1>12. /\ P \in [Table -> SUBSET Page]
       /\ \A u \in Table : \A p \in P[u] :
            /\ p \in Page /\ p <= store.count /\ p # q /\ LeadsInto(store, p, P[u])
       /\ \A u, v \in Table : u # v => P[u] \cap P[v] = {}
  BY <1>3, <1>11 DEF Owned
<1> DEFINE Q == [u \in Table |-> IF u = t THEN P[t] \cup {q} ELSE P[u]]
<1>13. /\ Q \in [Table -> SUBSET Page] /\ Q[t] = P[t] \cup {q}
       /\ \A u \in Table : u # t => Q[u] = P[u]
  BY <1>6, <1>12
<1> HIDE DEF Q
<1>14. \A u \in Table : P[u] \subseteq Q[u] /\ (\A p \in Q[u] : p \in P[u] \/ (p = q /\ u = t))
  BY <1>13
<1>15. \A u, v \in Table : u # v => Q[u] \cap Q[v] = {}
  BY <1>12, <1>14
<1>16. ASSUME NEW u \in Table, NEW p \in Page, p # q, LeadsInto(store, p, P[u])
       PROVE  LeadsInto(store', p, Q[u])
  BY <1>8, <1>9, <1>14, <1>16 DEF LeadsInto
<1>17. store.cache[q] = NoPage
  <2>1. q > store.count
    BY <1>4, <1>6
  <2> QED
    BY <1>3, <1>6, <2>1 DEF Owned
<1>18. q <= store'.count /\ LeadsInto(store', q, Q[t])
  <2>1. q <= store'.count
    BY <1>4, <1>6, <1>9
  <2> QED
    BY <1>6, <1>8, <1>9, <1>17, <2>1, NewPages DEF LeadsInto
<1>19. \A u \in Table : \A p \in Q[u] : p <= store'.count /\ LeadsInto(store', p, Q[u])
  BY <1>11, <1>12, <1>14, <1>16, <1>18
<1>20. ASSUME NEW i \in DOMAIN store.shadows
       PROVE  /\ store.shadows[i][1] <= store'.count /\ store.shadows[i][2] <= store'.count
              /\ \A u \in Table :
                   /\ store.shadows[i][2] \notin Q[u]
                   /\ store.shadows[i][1] \in Q[u] => LeadsInto(store', store.shadows[i][2], Q[u])
  <2>1. store.shadows[i][1] \in Page /\ store.shadows[i][2] \in Page
    <3>1. store.shadows[i] \in Page \X Page
      BY <1>2 DEF Stores, StoreRecord
    <3> QED
      BY <3>1
  <2>2. /\ store.shadows[i][1] <= store.count /\ store.shadows[i][2] <= store.count
        /\ \A u \in Table :
             /\ store.shadows[i][2] \notin P[u]
             /\ store.shadows[i][1] \in P[u] => LeadsInto(store, store.shadows[i][2], P[u])
    BY <1>3 DEF Owned
  <2> QED
    BY <1>11, <1>14, <1>16, <2>1, <2>2
<1>21. \A p \in Page : p > store'.count => store'.cache[p] = NoPage /\ store'.disk[p].next = 0
  <2>1. \A p \in Page : p > store'.count => p > store.count
    BY <1>4, <1>9, <1>10
  <2> QED
    BY <1>3, <1>8, <1>9, <2>1, NewPages DEF Owned
<1>22. /\ \A i \in DOMAIN store.shadows : \E u \in Table : store.shadows[i][1] \in Q[u]
       /\ \A i, k \in DOMAIN store.shadows : i # k => store.shadows[i][2] # store.shadows[k][2]
  BY <1>3, <1>14 DEF Owned
<1>23. Owned(store', Q)
  BY <1>9, <1>13, <1>15, <1>19, <1>20, <1>21, <1>22 DEF Owned
<1>24. \A u \in Table : tables'[u] \in Q[u] \cup {0}
  BY <1>1, <1>2, <1>3, <1>13, <1>14
<1> QED
  BY <1>1, <1>2, <1>23, <1>24 DEF Apart

\* No step gives a page a second owner, unless pages are freed.
LEMMA ApartGoesOn ==
    ASSUME "rollback" \notin Client, "drop" \notin Client, Apart, [Next]_vars PROVE Apart'
<1>1. ~Rollback /\ \A t \in Table : ~Drop(t)
  BY DEF Rollback, Drop
<1>2. ASSUME NEW t \in Table, NEW r \in Row,
             Insert(t, r) \/ Delete(t, r) \/ \E q \in Row : Update(t, r, q)
      PROVE  Apart'
  BY <1>2, ApartStatements
<1>3. ASSUME NEW t \in Table, Select(t) PROVE Apart'
  <2>1. /\ store' = Scanned(t) /\ UNCHANGED <<tables, catalog, pc>>
        /\ tables[t] # 0 /\ Typed' /\ Typed /\ store \in Stores
    BY <1>3, TypedGoesOn DEF Select, Apart, Typed, Next, Statement
  <2>2. PICK P : Owned(store, P) /\ \A u \in Table : tables[u] \in P[u] \cup {0}
    BY DEF Apart
  <2> DEFINE pages == PagesOf(SessionView(store), tables[t])
             X == {Where(store, p) : p \in pages}
  <2>3. pages \in SUBSET P[t]
    BY <2>1, <2>2, OwnedPages
  <2>4. \A x \in X : x <= store.count
    BY <2>1, <2>2, <2>3, OwnedViews
  <2>5. store' = Loaded(store, X)
    BY <2>1 DEF Scanned
  <2> HIDE DEF X
  <2>6. Owned(store', P)
    BY <2>1, <2>2, <2>4, <2>5, OwnedLoaded
  <2> QED
    BY <2>1, <2>2, <2>6 DEF Apart
<1>4. ASSUME NEW t \in Table, Create(t) PROVE Apart'
  BY <1>4, ApartCreate
<1>5. CASE Begin \/ Commit \/ Step \/ Close \/ Crash
  BY <1>5, ApartSteps
<1>6. CASE UNCHANGED vars
  <2>1. Typed'
    BY <1>6, TypedGoesOn DEF Apart
  <2> QED
    BY <1>6, <2>1 DEF Apart, vars
<1> QED
  BY <1>1, <1>2, <1>3, <1>4, <1>5, <1>6 DEF Next, Statement

\* Pages that are a table's own are neither shadow pages nor in the free list,
\* and the tables that lead to them are different tables.
LEMMA ApartIsOwned == Apart => PagesHaveOneOwner
<1> SUFFICES ASSUME Apart PROVE PagesHaveOneOwner
  OBVIOUS
<1>1. store \in Stores /\ tables = catalog
  BY DEF Apart, Typed
<1>2. PICK P : Owned(store, P) /\ \A t \in Table : tables[t] \in P[t] \cup {0}
  BY DEF Apart
<1>3. ASSUME NEW c \in {SessionView(store), BaseView(store), store.disk}, NEW t \in Table
      PROVE  PagesOf(c, tables[t]) \in SUBSET P[t]
  BY <1>1, <1>2, OwnedPages
<1>4. FreePages = {}
  <2>1. store.free = 0 /\ {} \in SUBSET Page /\ 0 \in {} \cup {0}
    BY <1>2 DEF Owned
  <2>2. store.disk \in [Page -> Content]
    BY <1>1 DEF Stores, StoreRecord
  <2>3. PagesOf(store.disk, 0) \in SUBSET {}
    BY <2>1, <2>2, ChainType
  <2> QED
    BY <2>1, <2>3 DEF FreePages
<1>5. \A t \in Table : ShadowPages \cap P[t] = {}
  BY <1>2 DEF Owned, ShadowPages
<1>6. \A t, u \in Table : t # u => P[t] \cap P[u] = {}
  BY <1>2 DEF Owned
<1>7. ASSUME NEW view \in {SessionView(store), BaseView(store)}
      PROVE  /\ Pages(view, tables) \cap (FreePages \cup ShadowPages) = {}
             /\ \A t, u \in Table :
                  t # u => PagesOf(view, tables[t]) \cap PagesOf(view, tables[u]) = {}
  <2>1. \A t \in Table : PagesOf(view, tables[t]) \in SUBSET P[t]
    BY <1>3
  <2>2. \A t, u \in Table :
          t # u => PagesOf(view, tables[t]) \cap PagesOf(view, tables[u]) = {}
    BY <1>6, <2>1, Zenon
  <2>3. ASSUME NEW p \in Pages(view, tables) PROVE p \notin ShadowPages
    <3>1. PICK t \in Table : p \in PagesOf(view, tables[t])
      BY <2>3, Zenon DEF Pages
    <3> QED
      BY <1>5, <2>1, <3>1
  <2> QED
    BY <1>4, <2>2, <2>3
<1>8. \A i, k \in DOMAIN store.shadows : i # k => store.shadows[i][2] # store.shadows[k][2]
  BY <1>2 DEF Owned
<1>9. ShadowPages \cap FreePages = {} /\ Pages(store.disk, catalog) \cap FreePages = {}
  BY <1>4
<1> QED
  BY <1>7, <1>8, <1>9, Zenon DEF PagesHaveOneOwner

\* While pages are only ever taken, never freed, a page of the file belongs to
\* one table at most and to no transaction's shadow pages besides, in what the
\* session sees, in what it sees without its transaction, and in the file after
\* a crash, at any point of a COMMIT (FileManager.alloc_page, Table.insert,
\* ShadowBufferPool._ensure_shadow, TransactionManager.commit). Freed pages are
\* where this ends: a page that is freed keeps its copy in the pool.
THEOREM PagesStayApart ==
    ASSUME "rollback" \notin Client, "drop" \notin Client
    PROVE  Spec => []PagesHaveOneOwner
<1>1. Apart /\ [Next]_vars => Apart'
  BY ApartGoesOn
<1>2. Spec => []Apart
  BY <1>1, ApartStart, PTL DEF Spec
<1> QED
  BY <1>2, ApartIsOwned, PTL

-----------------------------------------------------------------------------
(* Chains whose links lead forward.                                        *)

\* Every link from a page of O leads to a later page of O, or ends the chain.
Forward(c, O) ==
    /\ O \in SUBSET Page
    /\ \A p \in O : c[p].next \in O \cup {0} /\ (c[p].next = 0 \/ p < c[p].next)

\* The sequence s lists a chain from p on to its end.
ListsChain(s, c, p, O) ==
    LET pages == {s[i] : i \in DOMAIN s}
    IN  /\ s \in Seq(O)
        /\ p = 0 => s = <<>>
        /\ p # 0 => p \in pages /\ s # <<>> /\ c[s[Len(s)]].next = 0
        /\ \A x \in pages : c[x].next # 0 => c[x].next \in pages

\* A page in front of a chain.
LEMMA ChainFrom ==
    ASSUME NEW c, NEW O \in SUBSET Page, NEW p \in O, NEW s, 0 \notin O,
           ListsChain(s, c, c[p].next, O)
    PROVE  ListsChain(<<p>> \o s, c, p, O)
<1> DEFINE r == <<p>> \o s
           n == Len(s)
<1>1. s \in Seq(O) /\ n \in Nat
  BY DEF ListsChain
<1>2. /\ r \in Seq(O) /\ Len(r) = n + 1 /\ r[1] = p
      /\ \A i \in 1 .. n : r[i + 1] = s[i]
  BY <1>1
<1>3. DOMAIN r = 1 .. n + 1 /\ DOMAIN s = 1 .. n /\ r # <<>>
  <2>1. DOMAIN r = 1 .. n + 1 /\ DOMAIN s = 1 .. n
    BY <1>1, <1>2
  <2>2. Len(r) # Len(<<>>)
    BY <1>1, <1>2
  <2> QED
    BY <2>1, <2>2
<1> HIDE DEF r, n
<1>4. \A i \in DOMAIN r : i = 1 \/ \E k \in DOMAIN s : r[i] = s[k]
  <2> SUFFICES ASSUME NEW i \in DOMAIN r, i # 1 PROVE \E k \in DOMAIN s : r[i] = s[k]
    OBVIOUS
  <2>1. i - 1 \in 1 .. n /\ (i - 1) + 1 = i
    BY <1>1, <1>3
  <2> QED
    BY <1>2, <1>3, <2>1
<1>5. /\ {r[i] : i \in DOMAIN r} = {p} \cup {s[i] : i \in DOMAIN s}
  <2>1. 1 \in DOMAIN r /\ \A k \in DOMAIN s : k + 1 \in DOMAIN r
    BY <1>1, <1>3
  <2>2. \A k \in DOMAIN s : r[k + 1] = s[k]
    BY <1>2, <1>3
  <2>3. \A x \in {r[i] : i \in DOMAIN r} : x \in {p} \cup {s[i] : i \in DOMAIN s}
    BY <1>2, <1>4
  <2>4. \A x \in {p} \cup {s[i] : i \in DOMAIN s} : x \in {r[i] : i \in DOMAIN r}
    BY <1>2, <2>1, <2>2
  <2> QED
    BY <2>3, <2>4
<1>6. p # 0
  OBVIOUS
<1>7. c[r[Len(r)]].next = 0
  <2>1. CASE c[p].next = 0
    <3>1. s = <<>> /\ n = 0
      BY <2>1 DEF ListsChain, n
    <3> QED
      BY <1>2, <2>1, <3>1
  <2>2. CASE c[p].next # 0
    <3>1. s # <<>> /\ c[s[n]].next = 0
      BY <2>2 DEF ListsChain, n
    <3>2. n \in 1 .. n
      <4>1. n # 0
        BY <1>1, <3>1 DEF n
      <4> QED
        BY <1>1, <4>1
    <3> QED
      BY <1>2, <3>1, <3>2
  <2> QED
    BY <2>1, <2>2
<1>8. \A x \in {p} \cup {s[i] : i \in DOMAIN s} :
        c[x].next # 0 => c[x].next \in {s[i] : i \in DOMAIN s}
  BY DEF ListsChain
<1>9. ListsChain(r, c, p, O)
  BY <1>2, <1>3, <1>5, <1>6, <1>7, <1>8 DEF ListsChain
<1> QED
  BY <1>9 DEF r

\* Links that lead forward end: there are as many steps as pages.
LEMMA ChainEnds ==
    ASSUME NEW c, NEW O, Forward(c, O), NEW root \in O \cup {0}
    PROVE  ListsChain(Chain(c, root), c, root, O)
<1>1. MaxPage \in Nat /\ O \in SUBSET Page
  BY PagesAreNumbered DEF Forward
<1>2. O \cup {0} \subseteq Link /\ 0 \notin O /\ \A p \in O : p \in 1 .. MaxPage
  BY <1>1 DEF Page, Link
<1>3. \E f : Walks(f, c, MaxPage)
  BY <1>1, WalksExist
<1>4. PICK f : Walks(f, c, MaxPage) /\ Chain(c, root) = f[MaxPage][root]
  BY <1>3, Zenon DEF Walks, Chain
<1>5. \A left \in 0 .. MaxPage, p \in Link :
        f[left][p] = IF p = 0 \/ left = 0 THEN <<>> ELSE <<p>> \o f[left - 1][c[p].next]
  <2> SUFFICES ASSUME NEW left \in 0 .. MaxPage, NEW p \in Link
               PROVE  f[left][p] = IF p = 0 \/ left = 0 THEN <<>> ELSE <<p>> \o f[left - 1][c[p].next]
    OBVIOUS
  <2>1. f[left] = [q \in Link |->
                    IF q = 0 \/ left = 0 THEN <<>> ELSE <<q>> \o f[left - 1][c[q].next]]
    BY <1>4, Zenon DEF Walks
  <2> QED
    BY <2>1, Zenon
<1>6. ListsChain(<<>>, c, 0, O)
  BY DEF ListsChain
<1> DEFINE S == {n \in Nat : n <= MaxPage => \A p \in O \cup {0} :
                               (p = 0 \/ p + n > MaxPage) => ListsChain(f[n][p], c, p, O)}
<1>7. 0 \in S
  <2> SUFFICES ASSUME NEW p \in O \cup {0}, p = 0 \/ p + 0 > MaxPage
               PROVE  ListsChain(f[0][p], c, p, O)
    BY <1>1
  <2>1. p = 0
    BY <1>1, <1>2
  <2>2. 0 \in 0 .. MaxPage /\ p \in Link
    BY <1>1, <1>2
  <2>3. f[0][p] = <<>>
    BY <1>5, <2>1, <2>2, Zenon
  <2> QED
    BY <1>6, <2>1, <2>3
<1>8. ASSUME NEW n \in Nat, n \in S PROVE n + 1 \in S
  <2> SUFFICES ASSUME n + 1 <= MaxPage, NEW p \in O \cup {0}, p = 0 \/ p + (n + 1) > MaxPage
               PROVE  ListsChain(f[n + 1][p], c, p, O)
    BY <1>8
  <2>1. n + 1 \in 0 .. MaxPage /\ n + 1 # 0 /\ (n + 1) - 1 = n /\ n <= MaxPage /\ p \in Link
    BY <1>1, <1>2
  <2>2. f[n + 1][p] = IF p = 0 THEN <<>> ELSE <<p>> \o f[n][c[p].next]
    BY <1>5, <2>1
  <2>3. CASE p = 0
    BY <1>6, <2>2, <2>3
  <2>4. CASE p # 0
    <3> DEFINE q == c[p].next
    <3>1. p \in O /\ q \in O \cup {0} /\ (q = 0 \/ p < q)
      BY <2>4 DEF Forward
    <3> HIDE DEF q
    <3>2. q = 0 \/ q + n > MaxPage
      <4>1. p + (n + 1) > MaxPage /\ p \in Nat /\ (q = 0 \/ q \in Nat)
        BY <1>1, <1>2, <2>4, <3>1
      <4> QED
        BY <1>1, <3>1, <4>1
    <3>3. ListsChain(f[n][q], c, q, O)
      BY <1>8, <2>1, <3>1, <3>2
    <3>4. ListsChain(<<p>> \o f[n][q], c, p, O)
      BY <1>1, <1>2, <3>1, <3>3, ChainFrom DEF q
    <3> QED
      BY <2>2, <2>4, <3>4 DEF q
  <2> QED
    BY <2>3, <2>4
<1> HIDE DEF S
<1>9. \A n \in Nat : n \in S
  BY <1>7, <1>8, EveryNumber
<1>10. root = 0 \/ root + MaxPage > MaxPage
  BY <1>1, <1>2
<1> QED
  BY <1>1, <1>4, <1>9, <1>10 DEF S

\* The pages of a chain are those its links lead to, and the last has no link.
LEMMA ChainPages ==
    ASSUME NEW c, NEW O, Forward(c, O), NEW root \in O \cup {0}
    PROVE  /\ PagesOf(c, root) \in SUBSET O
           /\ root = 0 => PagesOf(c, root) = {}
           /\ root # 0 => /\ root \in PagesOf(c, root)
                          /\ LastOf(c, root) \in PagesOf(c, root)
                          /\ c[LastOf(c, root)].next = 0
           /\ Spot(c, root) # 0 => Spot(c, root) \in PagesOf(c, root)
           /\ \A p \in PagesOf(c, root) : c[p].next \in PagesOf(c, root) \cup {0}
<1> DEFINE s == Chain(c, root)
<1>1. ListsChain(s, c, root, O)
  BY ChainEnds
<1>2. PagesOf(c, root) = {s[i] : i \in DOMAIN s} /\ LastOf(c, root) = s[Len(s)]
  BY DEF PagesOf, LastOf
<1>3. Spot(c, root) # 0 => \E i \in DOMAIN s : Spot(c, root) = s[i]
  <2> SUFFICES ASSUME Spot(c, root) # 0 PROVE \E i \in DOMAIN s : Spot(c, root) = s[i]
    OBVIOUS
  <2> DEFINE roomy == {i \in DOMAIN s : c[s[i]].room > 0}
             k == CHOOSE i \in roomy : \A j \in roomy : i <= j
  <2>1. roomy # {} /\ Spot(c, root) = s[k]
    BY Zenon DEF Spot
  <2>2. roomy \in SUBSET Nat
    BY <1>1 DEF ListsChain
  <2>3. \E i \in roomy : \A j \in roomy : i <= j
    BY <2>1, <2>2, SmallestOf
  <2>4. k \in roomy
    BY <2>3
  <2> HIDE DEF k
  <2> QED
    BY <2>1, <2>4
<1> HIDE DEF s
<1>4. s \in Seq(O)
  BY <1>1 DEF ListsChain
<1>5. \A i \in DOMAIN s : s[i] \in O
  BY <1>4
<1>6. s # <<>> => Len(s) \in DOMAIN s
  BY <1>4
<1> QED
  BY <1>1, <1>2, <1>3, <1>5, <1>6 DEF ListsChain

\* Two views with the same links have the same chain.
LEMMA SameChain ==
    ASSUME NEW c, NEW d, NEW O, Forward(c, O), Forward(d, O), NEW root \in O \cup {0},
           \A p \in PagesOf(c, root) : d[p].next = c[p].next
    PROVE  PagesOf(d, root) = PagesOf(c, root)
<1> DEFINE C == PagesOf(c, root)
           D == PagesOf(d, root)
<1>1. C \in SUBSET O /\ D \in SUBSET O /\ root \in C \cup {0} /\ root \in D \cup {0}
  BY ChainPages
<1>2. \A p \in C : c[p].next \in C \cup {0}
  BY ChainPages
<1>3. \A p \in D : d[p].next \in D \cup {0}
  BY ChainPages
<1>4. Forward(d, C)
  BY <1>1, <1>2 DEF Forward
<1>5. D \in SUBSET C
  BY <1>1, <1>4, ChainPages
<1>6. Forward(c, D)
  BY <1>1, <1>3, <1>5 DEF Forward
<1>7. C \in SUBSET D
  BY <1>1, <1>6, ChainPages
<1> QED
  BY <1>5, <1>7

\* A page that is linked behind the last one is the chain's new last page.
LEMMA LongerChain ==
    ASSUME NEW c, NEW d, NEW O, Forward(c, O), NEW q \in Page, q \notin O,
           Forward(d, O \cup {q}), NEW root \in O, NEW last \in PagesOf(c, root),
           c[last].next = 0, d[last].next = q, d[q].next = 0,
           \A p \in PagesOf(c, root) : p # last => d[p].next = c[p].next
    PROVE  PagesOf(d, root) = PagesOf(c, root) \cup {q}
<1> DEFINE C == PagesOf(c, root)
           D == PagesOf(d, root)
<1>1. C \in SUBSET O /\ root \in C /\ \A p \in C : c[p].next \in C \cup {0}
  <2>1. root # 0 /\ root \in O \cup {0}
    BY PageNumbers DEF Forward
  <2> QED
    BY <2>1, ChainPages
<1>2. D \in SUBSET (O \cup {q}) /\ root \in D /\ \A p \in D : d[p].next \in D \cup {0}
  <2>1. root # 0 /\ root \in (O \cup {q}) \cup {0}
    BY PageNumbers DEF Forward
  <2> QED
    BY <2>1, ChainPages
<1> HIDE DEF C, D
<1>3. Forward(d, C \cup {q})
  <2>1. C \cup {q} \in SUBSET Page /\ \A p \in C \cup {q} : d[p].next = 0 \/ p < d[p].next
    BY <1>1 DEF Forward
  <2>2. \A p \in C \cup {q} : d[p].next \in (C \cup {q}) \cup {0}
    BY <1>1 DEF C
  <2> QED
    BY <2>1, <2>2 DEF Forward
<1>4. D \in SUBSET (C \cup {q})
  <2>1. root \in (C \cup {q}) \cup {0}
    BY <1>1
  <2> QED
    BY <1>3, <2>1, ChainPages DEF D
<1>5. Forward(c, D \ {q})
  <2>1. D \ {q} \in SUBSET O /\ D \ {q} \in SUBSET C
    BY <1>2, <1>4
  <2>2. ASSUME NEW p \in D \ {q} PROVE c[p].next \in (D \ {q}) \cup {0}
    <3>1. CASE p = last
      BY <3>1
    <3>2. CASE p # last
      <4>1. d[p].next = c[p].next /\ c[p].next \in C \cup {0} /\ d[p].next \in D \cup {0}
        BY <1>1, <1>2, <2>1, <3>2 DEF C
      <4>2. q \notin C
        BY <1>1
      <4>3. 0 \notin C
        BY <1>1, PageNumbers DEF Forward
      <4>4. q # 0
        BY PageNumbers
      <4> QED
        BY <4>1, <4>2, <4>3, <4>4
    <3> QED
      BY <3>1, <3>2
  <2> QED
    BY <2>1, <2>2 DEF Forward
<1>6. C \in SUBSET (D \ {q})
  <2>1. root \in (D \ {q}) \cup {0}
    BY <1>2
  <2> QED
    BY <1>5, <2>1, ChainPages DEF C
<1>7. q \in D
  <2>1. last \in D /\ q # 0
    BY <1>6, PageNumbers DEF C
  <2> QED
    BY <1>2, <2>1
<1>8. D = C \cup {q}
  BY <1>4, <1>6, <1>7
<1> QED
  BY <1>8 DEF C, D

-----------------------------------------------------------------------------
(* What the tables hold.                                                   *)

\* The table roots lead to pages that are the tables' own, in a view c, ...
InTables(c, roots, P) == \A t \in Table : Forward(c, P[t]) /\ roots[t] \in P[t] \cup {0}

\* ... and the view d shows the same on them.
SameOn(c, d, P) == \A t \in Table : \A p \in P[t] : d[p] = c[p]

\* ... or on all of them but one.
SameBut(c, d, P, p) == \A t \in Table : \A q \in P[t] : q # p => d[q] = c[q]

\* The rows of a chain that are not on p.
RowsBut(c, root, p) == UNION {c[q].rows : q \in PagesOf(c, root) \ {p}}

\* The table t holds other rows.
Replaced(contents, t, rows) == [contents EXCEPT ![t] = rows]

\* No page belongs to two tables.
Disjoint(P) == \A t, u \in Table : t # u => P[t] \cap P[u] = {}

\* What a table holds is in the pages that are its own.
LEMMA SameContents ==
    ASSUME NEW c, NEW d, NEW P, NEW roots, InTables(c, roots, P), SameOn(c, d, P)
    PROVE  /\ \A t \in Table : PagesOf(d, roots[t]) = PagesOf(c, roots[t])
           /\ Contents(d, roots) = Contents(c, roots)
<1>1. \A t \in Table : Forward(c, P[t]) /\ roots[t] \in P[t] \cup {0}
  BY DEF InTables
<1>2. \A t \in Table : \A p \in P[t] : d[p] = c[p]
  BY DEF SameOn
<1>3. ASSUME NEW t \in Table
      PROVE  PagesOf(d, roots[t]) = PagesOf(c, roots[t]) /\ RowsOf(d, roots[t]) = RowsOf(c, roots[t])
  <2>1. PagesOf(c, roots[t]) \in SUBSET P[t]
    BY <1>1, ChainPages
  <2>2. Forward(d, P[t])
    BY <1>1, <1>2 DEF Forward
  <2>3. PagesOf(d, roots[t]) = PagesOf(c, roots[t])
    BY <1>1, <1>2, <2>1, <2>2, SameChain
  <2> QED
    BY <1>2, <2>1, <2>3 DEF RowsOf
<1> QED
  BY <1>3 DEF Contents

\* One page of one table gets other rows.
LEMMA ChangedContents ==
    ASSUME NEW c, NEW d, NEW P, NEW roots, NEW t \in Table,
           InTables(c, roots, P), Disjoint(P), roots[t] # 0,
           NEW p \in PagesOf(c, roots[t]), d[p].next = c[p].next, SameBut(c, d, P, p)
    PROVE  /\ \A u \in Table : PagesOf(d, roots[u]) = PagesOf(c, roots[u])
           /\ Contents(d, roots)
                = Replaced(Contents(c, roots), t, d[p].rows \cup RowsBut(c, roots[t], p))
<1> DEFINE rows == d[p].rows \cup RowsBut(c, roots[t], p)
<1>1. \A u \in Table : Forward(c, P[u]) /\ roots[u] \in P[u] \cup {0}
  BY DEF InTables
<1>2. PagesOf(c, roots[t]) \in SUBSET P[t]
  BY <1>1, ChainPages
<1>3. \A u \in Table : \A q \in P[u] : q # p => d[q] = c[q]
  BY DEF SameBut
<1>4. \A u \in Table : u # t => \A q \in P[u] : d[q] = c[q]
  BY <1>2, <1>3 DEF Disjoint
<1>5. ASSUME NEW u \in Table PROVE PagesOf(d, roots[u]) = PagesOf(c, roots[u])
  <2>1. \A q \in P[u] : d[q].next = c[q].next
    BY <1>3
  <2>2. Forward(d, P[u]) /\ PagesOf(c, roots[u]) \in SUBSET P[u]
    BY <1>1, <2>1, ChainPages DEF Forward
  <2> QED
    BY <1>1, <2>1, <2>2, SameChain
<1>6. ASSUME NEW u \in Table, u # t PROVE RowsOf(d, roots[u]) = RowsOf(c, roots[u])
  <2>1. PagesOf(c, roots[u]) \in SUBSET P[u]
    BY <1>1, ChainPages
  <2> QED
    BY <1>4, <1>5, <1>6, <2>1 DEF RowsOf
<1>7. RowsOf(d, roots[t]) = rows
  <2>1. \A q \in PagesOf(c, roots[t]) : q # p => d[q] = c[q]
    BY <1>2, <1>3
  <2>2. RowsOf(d, roots[t]) = UNION {d[q].rows : q \in PagesOf(c, roots[t])}
    BY <1>5 DEF RowsOf
  <2> DEFINE C == PagesOf(c, roots[t])
  <2> HIDE DEF C
  <2>3. UNION {d[q].rows : q \in C} = d[p].rows \cup UNION {c[q].rows : q \in C \ {p}}
    BY <2>1 DEF C
  <2> QED
    BY <2>2, <2>3 DEF C, RowsBut
<1>8. ASSUME NEW u \in Table
      PROVE  Contents(d, roots)[u] = [Contents(c, roots) EXCEPT ![t] = rows][u]
  BY <1>6, <1>7 DEF Contents
<1>9. /\ Contents(d, roots) = [u \in Table |-> Contents(d, roots)[u]]
      /\ [Contents(c, roots) EXCEPT ![t] = rows]
           = [u \in Table |-> [Contents(c, roots) EXCEPT ![t] = rows][u]]
  BY DEF Contents
<1>10. Contents(d, roots) = [Contents(c, roots) EXCEPT ![t] = rows]
  <2> DEFINE e == Contents(d, roots)
             f == [Contents(c, roots) EXCEPT ![t] = rows]
  <2>1. e = [u \in Table |-> e[u]] /\ f = [u \in Table |-> f[u]] /\ \A u \in Table : e[u] = f[u]
    BY <1>8, <1>9
  <2> HIDE DEF e, f
  <2>2. e = f
    BY <2>1
  <2> QED
    BY <2>2 DEF e, f
<1> QED
  BY <1>5, <1>10 DEF Replaced

-----------------------------------------------------------------------------
(* Versions of pages.                                                      *)

\* v is a version of page p: it links to a later page, and p is the home of
\* its rows.
Version(v, p, H) == (v.next = 0 \/ p < v.next) /\ \A r \in v.rows : H[r] = p

\* Page p holds, in the file and in the pool, versions of page o.
Holds(st, p, o, H) ==
    Version(st.disk[p], o, H) /\ (st.cache[p] # NoPage => Version(st.cache[p], o, H))

\* A row is only ever in versions of one page: insertion, update in place and
\* copying leave it there.
Settled(st, P, H) ==
    /\ \A t \in Table : \A p \in P[t] : Holds(st, p, p, H)
    /\ \A i \in DOMAIN st.shadows : Holds(st, st.shadows[i][2], st.shadows[i][1], H)
    /\ \A p \in Page : p > st.count => st.disk[p].rows = {}

\* Each page has one shadow page at most, both are in the pool.
Paired(st) ==
    /\ ~ st.active => st.shadows = <<>>
    /\ \A i, k \in DOMAIN st.shadows : i # k => st.shadows[i][1] # st.shadows[k][1]
    /\ \A i \in DOMAIN st.shadows :
        st.cache[st.shadows[i][1]] # NoPage /\ st.cache[st.shadows[i][2]] # NoPage

Sound(st, P, H) == st \in Stores /\ Owned(st, P) /\ Settled(st, P, H) /\ Paired(st)

\* A page that is in the pool and not dirty is in the file as well.
Clean(st) ==
    \A p \in Page : p \notin st.dirty /\ st.cache[p] # NoPage => st.cache[p] = st.disk[p]

\* The page that stands for p is the one it is paired with.
LEMMA WhereShadow ==
    ASSUME NEW st, Paired(st), NEW i \in DOMAIN st.shadows
    PROVE  Where(st, st.shadows[i][1]) = st.shadows[i][2]
<1> DEFINE p == st.shadows[i][1]
<1>1. i \in ShadowOf(st, p)
  BY DEF ShadowOf
<1>2. PICK k \in DOMAIN st.shadows : st.shadows[k][1] = p /\ Where(st, p) = st.shadows[k][2]
  BY <1>1, WhereIs
<1>3. k = i
  BY <1>2 DEF Paired
<1> QED
  BY <1>2, <1>3

\* Shadow pages are pages.
LEMMA ShadowPairs ==
    ASSUME NEW st \in Stores, NEW i \in DOMAIN st.shadows
    PROVE  st.shadows[i][1] \in Page /\ st.shadows[i][2] \in Page
<1>1. st.shadows[i] \in Page \X Page
  BY DEF Stores, StoreRecord
<1> QED
  BY <1>1

\* Without shadow pages there is one view.
LEMMA OneView ==
    ASSUME NEW st, st.shadows = <<>>
    PROVE  SessionView(st) = BaseView(st) /\ \A p : Where(st, p) = p
<1>1. \A p : Where(st, p) = p
  BY DEF Where, ShadowOf
<1> QED
  BY <1>1 DEF SessionView, BaseView

\* Every view shows versions of the pages of a table: its chain leads forward,
\* and rows are at their homes.
LEMMA SoundViews ==
    ASSUME NEW st, NEW P, NEW H, Sound(st, P, H), NEW t \in Table,
           NEW c \in {SessionView(st), BaseView(st), st.disk}
    PROVE  /\ Forward(c, P[t])
           /\ \A p \in P[t] : c[p] \in Content /\ Version(c[p], p, H)
<1>1. st \in Stores /\ Owned(st, P) /\ Settled(st, P, H) /\ P[t] \in SUBSET Page
  BY DEF Sound, Owned
<1>2. \A p \in P[t] : c[p].next \in P[t] \cup {0}
  BY <1>1, OwnedViews
<1>3. ASSUME NEW p \in P[t]
      PROVE  Version(st.disk[p], p, H) /\ Version(Base(st, p), p, H)
             /\ Version(Base(st, Where(st, p)), p, H)
  <2>1. Version(st.disk[p], p, H) /\ Version(Base(st, p), p, H)
    BY <1>1 DEF Settled, Holds, Base
  <2>2. ASSUME NEW i \in DOMAIN st.shadows, st.shadows[i][1] = p, Where(st, p) = st.shadows[i][2]
        PROVE  Version(Base(st, Where(st, p)), p, H)
    BY <1>1, <2>2 DEF Settled, Holds, Base
  <2> QED
    BY <2>1, <2>2, WhereIs
<1>4. \A p \in P[t] : c[p] \in Content /\ Version(c[p], p, H)
  <2>1. c \in [Page -> Content]
    BY <1>1, ViewTypes DEF Stores, StoreRecord
  <2>2. \A p \in P[t] : BaseView(st)[p] = Base(st, p) /\ SessionView(st)[p] = Base(st, Where(st, p))
    BY <1>1, ViewTypes
  <2> QED
    BY <1>1, <1>3, <2>1, <2>2
<1>5. \A p \in P[t] : c[p].next = 0 \/ p < c[p].next
  BY <1>4 DEF Version
<1> QED
  BY <1>1, <1>2, <1>4, <1>5 DEF Forward

\* A row without a home can be given one.
LEMMA NewHome ==
    ASSUME NEW st, NEW P, NEW H \in [Row -> Link], Sound(st, P, H), NEW r \in Row, H[r] = 0,
           NEW q \in Page
    PROVE  Sound(st, P, [H EXCEPT ![r] = q]) /\ [H EXCEPT ![r] = q] \in [Row -> Link]
<1> DEFINE G == [H EXCEPT ![r] = q]
<1>1. G \in [Row -> Link] /\ \A x \in Row : x # r => G[x] = H[x]
  BY PageNumbers
<1>2. ASSUME NEW v \in Content, NEW p \in Page, Version(v, p, H) PROVE Version(v, p, G)
  <2>1. p # 0 /\ v.rows \in SUBSET Row
    BY PageNumbers DEF Content
  <2>2. \A x \in v.rows : x # r
    BY <1>2, <2>1 DEF Version
  <2> QED
    BY <1>1, <1>2, <2>1, <2>2 DEF Version
<1> HIDE DEF G
<1>3. /\ st \in Stores /\ Owned(st, P) /\ Settled(st, P, H) /\ Paired(st)
      /\ \A p \in Page : st.disk[p] \in Content /\ (st.cache[p] # NoPage => st.cache[p] \in Content)
  BY DEF Sound, Stores, StoreRecord
<1>4. \A p, o \in Page : Holds(st, p, o, H) => Holds(st, p, o, G)
  BY <1>2, <1>3 DEF Holds
<1>5. \A t \in Table : P[t] \in SUBSET Page
  BY <1>3 DEF Owned
<1>6. \A i \in DOMAIN st.shadows : st.shadows[i][1] \in Page /\ st.shadows[i][2] \in Page
  BY <1>3, ShadowPairs
<1>7. Settled(st, P, G)
  BY <1>3, <1>4, <1>5, <1>6 DEF Settled
<1> QED
  BY <1>1, <1>3, <1>7 DEF Sound, G

-----------------------------------------------------------------------------
(* What the session does to the store.                                     *)

\* Reading a page changes no view, and the file has what was read.
LEMMA SoundLoaded ==
    ASSUME NEW st, NEW P, NEW H, Sound(st, P, H), NEW X, \A p \in X : p <= st.count
    PROVE  /\ Sound(Loaded(st, X), P, H)
           /\ Clean(st) => Clean(Loaded(st, X))
           /\ SessionView(Loaded(st, X)) = SessionView(st)
           /\ BaseView(Loaded(st, X)) = BaseView(st)
           /\ \A p : Where(Loaded(st, X), p) = Where(st, p)
<1> DEFINE new == Loaded(st, X)
<1>1. st \in Stores /\ Owned(st, P) /\ Settled(st, P, H) /\ Paired(st)
  BY DEF Sound
<1>2. /\ new \in Stores /\ new.disk = st.disk /\ new.count = st.count /\ new.dirty = st.dirty
      /\ new.shadows = st.shadows /\ new.active = st.active
      /\ \A p \in Page : new.cache[p]
           = IF p \in X /\ st.cache[p] = NoPage THEN st.disk[p] ELSE st.cache[p]
      /\ \A p \in Page : Base(new, p) = Base(st, p)
  BY <1>1, LoadedType
<1>3. Owned(new, P)
  BY <1>1, OwnedLoaded
<1> HIDE DEF new
<1>4. ASSUME NEW p \in Page, NEW o, Holds(st, p, o, H) PROVE Holds(new, p, o, H)
  BY <1>2, <1>4 DEF Holds
<1>5. Settled(new, P, H)
  <2>1. \A t \in Table : P[t] \in SUBSET Page
    BY <1>1 DEF Owned
  <2>2. \A i \in DOMAIN st.shadows : st.shadows[i][2] \in Page
    BY <1>1, ShadowPairs
  <2> QED
    BY <1>1, <1>2, <1>4, <2>1, <2>2 DEF Settled
<1>6. \A p \in Page : st.cache[p] # NoPage => new.cache[p] # NoPage
  BY <1>2
<1>7. Paired(new)
  <2>1. \A i \in DOMAIN st.shadows : st.shadows[i][1] \in Page /\ st.shadows[i][2] \in Page
    BY <1>1, ShadowPairs
  <2> QED
    BY <1>1, <1>2, <1>6, <2>1 DEF Paired
<1>8. Clean(st) => Clean(new)
  BY <1>2 DEF Clean
<1>9. \A p : Where(new, p) = Where(st, p)
  BY <1>2 DEF Where, ShadowOf
<1>10. \A p \in Page : Base(new, Where(st, p)) = Base(st, Where(st, p))
  BY <1>1, <1>2, ViewTypes
<1>11. SessionView(new) = SessionView(st) /\ BaseView(new) = BaseView(st)
  BY <1>2, <1>9, <1>10 DEF SessionView, BaseView
<1> QED
  BY <1>2, <1>3, <1>5, <1>7, <1>8, <1>9, <1>11 DEF Sound, new

\* A shadow page is a copy: no view of a table changes when it is made.
LEMMA SoundTarget ==
    ASSUME NEW st, NEW P, NEW H, Sound(st, P, H), NEW t \in Table, NEW p \in P[t],
           st.count < MaxPage
    PROVE  LET new == Target(st, p)
           IN  /\ Sound(new, P, H)
               /\ Clean(st) => Clean(new)
               /\ new.active = st.active
               /\ \A u \in Table : \A q \in P[u] :
                    /\ new.disk[q] = st.disk[q]
                    /\ Base(new, q) = Base(st, q)
                    /\ Base(new, Where(new, q)) = Base(st, Where(st, q))
               /\ st.active => \E i \in DOMAIN new.shadows : new.shadows[i][1] = p
<1> DEFINE s == NextPage(st)
           new == Target(st, p)
           b == Base(st, p)
<1>1. st \in Stores /\ Owned(st, P) /\ Settled(st, P, H) /\ Paired(st) /\ p \in Page
  BY OwnedViews DEF Sound
<1>2. CASE ~ (st.active /\ ShadowOf(st, p) = {})
  <2>1. new = st
    BY <1>2 DEF Target, Shadowed
  <2>2. st.active => \E i \in DOMAIN st.shadows : st.shadows[i][1] = p
    BY <1>2 DEF ShadowOf
  <2> QED
    BY <2>1, <2>2
<1>3. CASE st.active /\ ShadowOf(st, p) = {}
  <2>1. new = Shadowed(st, p)
    BY <1>3 DEF Target
  <2>2. /\ new \in Stores /\ s \in Page
        /\ new.disk = [st.disk EXCEPT ![s] = b]
        /\ \A q \in Page : new.cache[q] =
             IF q = s THEN b ELSE IF q = p /\ st.cache[p] = NoPage THEN st.disk[p] ELSE st.cache[q]
        /\ new.shadows = Append(st.shadows, <<p, s>>)
        /\ new.active = st.active /\ new.dirty = st.dirty \ {s}
        /\ new.count = Taken(st).count
    <3> DEFINE copy == Shadowed(st, p)
    <3>1. /\ copy \in Stores /\ s \in Page
          /\ copy.disk = [st.disk EXCEPT ![s] = b]
          /\ \A q \in Page : copy.cache[q] =
               IF q = s THEN b ELSE IF q = p /\ st.cache[p] = NoPage THEN st.disk[p] ELSE st.cache[q]
          /\ copy.shadows = Append(st.shadows, <<p, s>>)
          /\ copy.active = st.active /\ copy.dirty = st.dirty \ {s}
          /\ copy.count = Taken(st).count
      BY <1>1, <1>3, ShadowedType, ZenonT(60)
    <3> HIDE DEF copy, new, s, b
    <3>2. new = copy
      BY <2>1 DEF copy
    <3> QED
      BY <3>1, <3>2
  <2>3. s = st.count + 1 /\ new.count = st.count + 1 /\ st.count \in Nat
    <3>1. st.free = 0 /\ st.count \in Nat
      BY <1>1, PageNumbers DEF Owned, Stores, StoreRecord
    <3> QED
      BY <1>1, <2>2, <3>1, TakenType
  <2>4. Owned(new, P)
    BY <1>1, OwnedTarget
  <2>5. b \in Content /\ b # NoPage /\ Version(b, p, H)
    <3>1. b \in Content
      BY <1>1, ViewTypes
    <3>2. BaseView(st)[p] = b
      BY <1>1, ViewTypes
    <3> QED
      BY <3>1, <3>2, SoundViews, NoPageIsNoContent
  <2> HIDE DEF s, new, b
  <2>6. \A q \in Page : new.disk[q] = IF q = s THEN b ELSE st.disk[q]
    BY <1>1, <2>2 DEF Stores, StoreRecord
  <2>7. \A q \in Page : q <= st.count => q # s
    BY <2>3, PageNumbers
  <2>8. b = IF st.cache[p] = NoPage THEN st.disk[p] ELSE st.cache[p]
    BY DEF b, Base
  <2>9. \A q \in Page : q <= st.count => Base(new, q) = Base(st, q)
    <3>1. st.disk[p] # NoPage
      BY <1>1, NoPageIsNoContent DEF Stores, StoreRecord
    <3> QED
      BY <2>2, <2>6, <2>7, <3>1 DEF Base
  <2>10. Base(new, s) = b
    BY <2>2, <2>5 DEF Base
  <2>11. ASSUME NEW q \in Page, q # s, NEW o, Holds(st, q, o, H) PROVE Holds(new, q, o, H)
    BY <2>2, <2>6, <2>11 DEF Holds
  <2>12. Holds(new, s, p, H)
    BY <2>2, <2>5, <2>6 DEF Holds
  <2>13. \A u \in Table : \A q \in P[u] : q \in Page /\ q <= st.count /\ q # s
    BY <1>1, <2>7 DEF Owned
  <2>14. \A i \in DOMAIN st.shadows :
           /\ st.shadows[i][1] \in Page /\ st.shadows[i][1] <= st.count /\ st.shadows[i][1] # p
           /\ st.shadows[i][2] \in Page /\ st.shadows[i][2] <= st.count /\ st.shadows[i][2] # s
           /\ st.shadows[i][1] # s
    <3>1. \A i \in DOMAIN st.shadows : st.shadows[i][1] # p
      BY <1>3 DEF ShadowOf
    <3> QED
      BY <1>1, <2>7, <3>1, ShadowPairs DEF Owned
  <2> DEFINE l == Len(st.shadows)
  <2>15. /\ l \in Nat /\ DOMAIN st.shadows = 1 .. l /\ DOMAIN new.shadows = 1 .. l + 1
         /\ new.shadows[l + 1] = <<p, s>>
         /\ \A i \in 1 .. l : new.shadows[i] = st.shadows[i]
    <3>1. st.shadows \in Seq(Page \X Page) /\ <<p, s>> \in Page \X Page
      BY <1>1, <2>2 DEF Stores, StoreRecord
    <3>2. l \in Nat /\ DOMAIN st.shadows = 1 .. l
      BY <3>1
    <3>3. new.shadows \in Seq(Page \X Page) /\ Len(new.shadows) = l + 1
      BY <2>2, <3>1
    <3>4. DOMAIN new.shadows = 1 .. l + 1
      BY <3>3
    <3>5. new.shadows[l + 1] = <<p, s>> /\ \A i \in 1 .. l : new.shadows[i] = st.shadows[i]
      BY <2>2, <3>1, <3>2
    <3> QED
      BY <3>2, <3>4, <3>5
  <2> HIDE DEF l
  <2>16. \A i \in DOMAIN new.shadows :
           \/ i = l + 1 /\ new.shadows[i] = <<p, s>>
           \/ i \in DOMAIN st.shadows /\ new.shadows[i] = st.shadows[i]
    <3>1. \A i \in 1 .. l + 1 : i = l + 1 \/ i \in 1 .. l
      BY <2>15
    <3> QED
      BY <2>15, <3>1
  <2>17. Settled(new, P, H)
    <3>1. \A u \in Table : \A q \in P[u] : Holds(new, q, q, H)
      BY <1>1, <2>11, <2>13 DEF Settled
    <3>2. \A i \in DOMAIN new.shadows : Holds(new, new.shadows[i][2], new.shadows[i][1], H)
      <4> SUFFICES ASSUME NEW i \in DOMAIN new.shadows
                   PROVE  Holds(new, new.shadows[i][2], new.shadows[i][1], H)
        OBVIOUS
      <4>1. CASE i = l + 1
        BY <2>12, <2>15, <4>1
      <4>2. CASE i \in DOMAIN st.shadows /\ new.shadows[i] = st.shadows[i]
        BY <1>1, <2>11, <2>14, <4>2 DEF Settled
      <4> QED
        BY <2>16, <4>1, <4>2
    <3>3. \A q \in Page : q > new.count => new.disk[q].rows = {}
      <4>1. \A q \in Page : q > new.count => q > st.count /\ q # s
        BY <2>3, PageNumbers
      <4> QED
        BY <1>1, <2>6, <4>1 DEF Settled
    <3> QED
      BY <3>1, <3>2, <3>3 DEF Settled
  <2>18. Paired(new)
    <3>1. \A i, k \in DOMAIN new.shadows : i # k => new.shadows[i][1] # new.shadows[k][1]
      BY <1>1, <2>14, <2>16 DEF Paired
    <3>2. \A q \in Page : st.cache[q] # NoPage => new.cache[q] # NoPage
      BY <2>2, <2>5
    <3>3. new.cache[p] # NoPage /\ new.cache[s] # NoPage
      BY <1>1, <2>2, <2>5, <2>8
    <3>4. ASSUME NEW i \in DOMAIN new.shadows
          PROVE  new.cache[new.shadows[i][1]] # NoPage /\ new.cache[new.shadows[i][2]] # NoPage
      <4>1. CASE new.shadows[i] = <<p, s>>
        BY <3>3, <4>1
      <4>2. CASE i \in DOMAIN st.shadows /\ new.shadows[i] = st.shadows[i]
        BY <1>1, <2>14, <3>2, <4>2 DEF Paired
      <4> QED
        BY <2>16, <4>1, <4>2
    <3> QED
      BY <1>3, <2>2, <3>1, <3>4 DEF Paired
  <2>19. Clean(st) => Clean(new)
    BY <2>2, <2>6 DEF Clean
  <2>20. ASSUME NEW u \in Table, NEW q \in P[u]
         PROVE  Base(new, Where(new, q)) = Base(st, Where(st, q))
    <3>1. CASE q = p
      <4>1. l + 1 \in DOMAIN new.shadows /\ new.shadows[l + 1][1] = q /\ new.shadows[l + 1][2] = s
        BY <2>15, <3>1
      <4>2. Where(new, q) = s
        BY <2>18, <4>1, WhereShadow
      <4>3. Where(st, q) = q
        BY <1>3, <3>1 DEF Where
      <4> QED
        BY <2>10, <3>1, <4>2, <4>3 DEF b
    <3>2. ASSUME NEW i \in DOMAIN st.shadows, st.shadows[i][1] = q
          PROVE  Base(new, Where(new, q)) = Base(st, Where(st, q))
      <4>1. Where(st, q) = st.shadows[i][2]
        BY <1>1, <3>2, WhereShadow
      <4>2. i \in DOMAIN new.shadows /\ new.shadows[i] = st.shadows[i]
        BY <2>15
      <4>3. Where(new, q) = st.shadows[i][2]
        BY <2>18, <3>2, <4>2, WhereShadow
      <4> QED
        BY <2>9, <2>14, <4>1, <4>3
    <3>3. CASE q # p /\ ShadowOf(st, q) = {}
      <4>1. ShadowOf(new, q) = {}
        BY <2>16, <3>3 DEF ShadowOf
      <4>2. Where(new, q) = q /\ Where(st, q) = q
        BY <3>3, <4>1 DEF Where
      <4> QED
        BY <2>9, <2>13, <4>2
    <3> QED
      BY <3>1, <3>2, <3>3 DEF ShadowOf
  <2>21. \A u \in Table : \A q \in P[u] : new.disk[q] = st.disk[q] /\ Base(new, q) = Base(st, q)
    BY <2>6, <2>9, <2>13
  <2>22. \E i \in DOMAIN new.shadows : new.shadows[i][1] = p
    <3>1. l + 1 \in DOMAIN new.shadows /\ new.shadows[l + 1][1] = p
      BY <2>15
    <3> QED
      BY <3>1
  <2> QED
    BY <2>2, <2>4, <2>17, <2>18, <2>19, <2>20, <2>21, <2>22 DEF Sound, new
<1> QED
  BY <1>2, <1>3

\* A page of a table is written: to the session it is what was written, without
\* its transaction it is as before, and the file is not touched.
LEMMA SoundWritten ==
    ASSUME NEW st, NEW P, NEW H, Sound(st, P, H), NEW t \in Table, NEW p \in P[t],
           st.count < MaxPage, NEW content \in Content, content.next \in P[t] \cup {0},
           Version(content, p, H)
    PROVE  LET new == Written(st, p, content)
           IN  /\ Sound(new, P, H)
               /\ Clean(st) => Clean(new)
               /\ new.active = st.active
               /\ \A u \in Table : \A q \in P[u] :
                    /\ new.disk[q] = st.disk[q]
                    /\ BaseView(new)[q] =
                         IF q = p /\ ~ st.active THEN content ELSE BaseView(st)[q]
                    /\ SessionView(new)[q] = IF q = p THEN content ELSE SessionView(st)[q]
<1> DEFINE g == Target(st, p)
           w == Where(g, p)
           new == Written(st, p, content)
<1>1. st \in Stores /\ Owned(st, P) /\ p \in Page /\ content # NoPage
  BY OwnedViews, NoPageIsNoContent DEF Sound
<1>2. /\ Sound(g, P, H)
      /\ Clean(st) => Clean(g)
      /\ g.active = st.active
      /\ \A u \in Table : \A q \in P[u] :
           /\ g.disk[q] = st.disk[q]
           /\ Base(g, q) = Base(st, q)
           /\ Base(g, Where(g, q)) = Base(st, Where(st, q))
      /\ st.active => \E i \in DOMAIN g.shadows : g.shadows[i][1] = p
  BY SoundTarget
<1>3. /\ new \in Stores /\ w \in Page
      /\ new.disk = g.disk /\ new.shadows = g.shadows /\ new.active = g.active
      /\ new.dirty = g.dirty \cup {w} /\ new.count = g.count
      /\ \A r \in Page : new.cache[r] = IF r = w THEN content ELSE g.cache[r]
  BY <1>1, WrittenType
<1>4. Owned(new, P)
  BY <1>1, OwnedWritten
<1> HIDE DEF g, new
<1>5. g \in Stores /\ Owned(g, P) /\ Settled(g, P, H) /\ Paired(g)
  BY <1>2 DEF Sound
<1>6. \/ ~ st.active /\ w = p /\ g.shadows = <<>>
      \/ st.active /\ \E i \in DOMAIN g.shadows : g.shadows[i][1] = p /\ w = g.shadows[i][2]
  <2>1. CASE st.active
    <3>1. PICK i \in DOMAIN g.shadows : g.shadows[i][1] = p
      BY <1>2, <2>1
    <3>2. w = g.shadows[i][2]
      BY <1>5, <3>1, WhereShadow
    <3> QED
      BY <2>1, <3>1, <3>2
  <2>2. CASE ~ st.active
    <3>1. g.shadows = <<>>
      BY <1>2, <1>5, <2>2 DEF Paired
    <3> QED
      BY <2>2, <3>1, OneView
  <2> QED
    BY <2>1, <2>2
<1>7. \A q : Where(new, q) = Where(g, q)
  BY <1>3 DEF Where, ShadowOf
<1> HIDE DEF w
<1>8. \A u \in Table : \A q \in P[u] :
        q \in Page /\ (q = w => ~ st.active /\ q = p) /\ (q = p /\ ~ st.active => q = w)
  <2>1. \A u \in Table : P[u] \in SUBSET Page
    BY <1>5 DEF Owned
  <2>2. st.active => \A u \in Table : w \notin P[u]
    BY <1>5, <1>6 DEF Owned
  <2> QED
    BY <1>6, <2>1, <2>2
<1>9. ASSUME NEW u \in Table, NEW q \in P[u] PROVE q = p <=> Where(g, q) = w
  <2>1. q = p => Where(g, q) = w
    BY DEF w
  <2>2. ASSUME q # p PROVE Where(g, q) # w
    <3>1. CASE Where(g, q) = q
      BY <1>8, <2>2, <3>1
    <3>2. ASSUME NEW i \in DOMAIN g.shadows, g.shadows[i][1] = q, Where(g, q) = g.shadows[i][2]
          PROVE  Where(g, q) # w
      <4>1. PICK k \in DOMAIN g.shadows : g.shadows[k][1] = p /\ w = g.shadows[k][2]
        BY <1>6, <3>2
      <4>2. i # k
        BY <2>2, <3>2, <4>1
      <4> QED
        BY <1>5, <3>2, <4>1, <4>2 DEF Owned
    <3> QED
      BY <3>1, <3>2, WhereIs
  <2> QED
    BY <2>1, <2>2
<1>10. \A r \in Page : Base(new, r) = IF r = w THEN content ELSE Base(g, r)
  BY <1>1, <1>3 DEF Base
<1>11. ASSUME NEW u \in Table, NEW q \in P[u]
       PROVE  /\ new.disk[q] = st.disk[q]
              /\ BaseView(new)[q] = IF q = p /\ ~ st.active THEN content ELSE BaseView(st)[q]
              /\ SessionView(new)[q] = IF q = p THEN content ELSE SessionView(st)[q]
  <2>1. q \in Page /\ Where(g, q) \in Page
    BY <1>5, <1>8, ViewTypes
  <2>2. /\ BaseView(new)[q] = Base(new, q) /\ BaseView(st)[q] = Base(st, q)
        /\ SessionView(new)[q] = Base(new, Where(g, q))
        /\ SessionView(st)[q] = Base(st, Where(st, q))
    BY <1>1, <1>3, <1>7, <2>1, ViewTypes
  <2>3. Base(new, q) = IF q = p /\ ~ st.active THEN content ELSE Base(st, q)
    BY <1>2, <1>8, <1>10, <2>1
  <2>4. Base(new, Where(g, q)) = IF q = p THEN content ELSE Base(st, Where(st, q))
    BY <1>2, <1>9, <1>10, <2>1
  <2> QED
    BY <1>2, <1>3, <2>2, <2>3, <2>4
<1>12. ASSUME NEW r \in Page, NEW o, r = w => o = p, Holds(g, r, o, H) PROVE Holds(new, r, o, H)
  BY <1>3, <1>12 DEF Holds
<1>13. Settled(new, P, H)
  <2>1. \A u \in Table : \A q \in P[u] : Holds(new, q, q, H)
    BY <1>5, <1>8, <1>12 DEF Settled
  <2>2. ASSUME NEW i \in DOMAIN g.shadows PROVE Holds(new, g.shadows[i][2], g.shadows[i][1], H)
    <3>1. g.shadows[i][2] = w => g.shadows[i][1] = p
      <4>1. PICK k \in DOMAIN g.shadows : g.shadows[k][1] = p /\ w = g.shadows[k][2]
        BY <1>6
      <4> QED
        BY <1>5, <4>1 DEF Owned
    <3> QED
      BY <1>5, <1>12, <3>1, ShadowPairs DEF Settled
  <2> QED
    BY <1>3, <1>5, <2>1, <2>2 DEF Settled
<1>14. Paired(new)
  <2>1. \A i \in DOMAIN g.shadows : g.shadows[i][1] \in Page /\ g.shadows[i][2] \in Page
    BY <1>5, ShadowPairs
  <2> QED
    BY <1>1, <1>3, <1>5, <2>1 DEF Paired
<1>15. Clean(st) => Clean(new)
  BY <1>2, <1>3 DEF Clean
<1> QED
  BY <1>2, <1>3, <1>4, <1>11, <1>13, <1>14, <1>15 DEF Sound, new

\* A page that is taken is empty and in nobody's way.
LEMMA SoundTaken ==
    ASSUME NEW st, NEW P, NEW H, Sound(st, P, H), NEW t \in Table, st.count < MaxPage
    PROVE  LET new == Taken(st)
           IN  /\ Sound(new, WithPage(P, t, NextPage(st)), H)
               /\ Clean(st) => Clean(new)
               /\ new.active = st.active /\ new.disk = st.disk
               /\ SessionView(new) = SessionView(st) /\ BaseView(new) = BaseView(st)
<1> DEFINE q == NextPage(st)
           new == Taken(st)
           Q == WithPage(P, t, q)
<1>1. st \in Stores /\ Owned(st, P) /\ Settled(st, P, H) /\ Paired(st) /\ st.count \in Nat
  BY PageNumbers DEF Sound, Stores, StoreRecord
<1>2. st.free = 0
  BY <1>1 DEF Owned
<1>3. /\ q \in Page /\ new \in Stores /\ new.disk = st.disk /\ new.cache = st.cache
      /\ new.dirty = st.dirty /\ new.active = st.active /\ new.shadows = st.shadows
      /\ q = st.count + 1 /\ new.count = st.count + 1
  BY <1>1, <1>2, TakenType
<1>4. /\ Owned(new, Q) /\ Q[t] = P[t] \cup {q}
      /\ \A u \in Table : u # t => Q[u] = P[u]
  BY <1>1, OwnedTaken
<1> HIDE DEF q, new, Q
<1>5. \A p, o : Holds(st, p, o, H) => Holds(new, p, o, H)
  BY <1>3 DEF Holds
<1>6. Holds(st, q, q, H)
  <2>1. q > st.count
    BY <1>1, <1>3
  <2>2. st.cache[q] = NoPage /\ st.disk[q].next = 0 /\ st.disk[q].rows = {}
    BY <1>1, <1>3, <2>1 DEF Owned, Settled
  <2> QED
    BY <2>2 DEF Holds, Version
<1>7. Settled(new, Q, H)
  <2>1. \A u \in Table : \A p \in Q[u] : p = q \/ p \in P[u]
    BY <1>4
  <2>2. \A u \in Table : \A p \in Q[u] : Holds(st, p, p, H)
    BY <1>1, <1>6, <2>1 DEF Settled
  <2>3. \A p \in Page : p > new.count => p > st.count
    BY <1>1, <1>3, PageNumbers
  <2> QED
    BY <1>1, <1>3, <1>5, <2>2, <2>3 DEF Settled
<1>8. Paired(new)
  BY <1>1, <1>3 DEF Paired
<1>9. Clean(st) => Clean(new)
  BY <1>3 DEF Clean
<1>10. SessionView(new) = SessionView(st) /\ BaseView(new) = BaseView(st)
  BY <1>3 DEF SessionView, BaseView, Where, ShadowOf, Base
<1> QED
  BY <1>3, <1>4, <1>7, <1>8, <1>9, <1>10 DEF Sound, new, Q, q

\* A page more in a table: an empty page that the last page links to, in the
\* view of the session.
LEMMA SoundExtended ==
    ASSUME NEW st, NEW P, NEW H, Sound(st, P, H), NEW t \in Table, NEW root \in P[t],
           st.count + 3 <= MaxPage
    PROVE  LET q == NextPage(st)
               Q == WithPage(P, t, q)
               last == LastOf(SessionView(st), root)
               new == Extended(st, root)
           IN  /\ Sound(new, Q, H)
               /\ Clean(st) => Clean(new)
               /\ new.active = st.active /\ new.count < MaxPage
               /\ last \in PagesOf(SessionView(st), root) /\ SessionView(st)[last].next = 0
               /\ q \in Page /\ q > st.count
               /\ new.disk[q] = Empty /\ BaseView(new)[q] = Empty /\ SessionView(new)[q] = Empty
               /\ \A u \in Table : \A p \in P[u] :
                    /\ p # q /\ new.disk[p] = st.disk[p]
                    /\ BaseView(new)[p] =
                         IF p = last /\ ~ st.active THEN [SessionView(st)[last] EXCEPT !.next = q]
                         ELSE BaseView(st)[p]
                    /\ SessionView(new)[p] =
                         IF p = last THEN [SessionView(st)[last] EXCEPT !.next = q]
                         ELSE SessionView(st)[p]
<1> DEFINE q == NextPage(st)
           Q == WithPage(P, t, q)
           c == SessionView(st)
           last == LastOf(c, root)
           tk == Taken(st)
           content == [c[last] EXCEPT !.next = q]
           linked == Written(tk, last, content)
           page == [linked EXCEPT !.disk[q] = Empty]
           new == Extended(st, root)
<1>1. /\ st \in Stores /\ Owned(st, P) /\ st.free = 0 /\ st.count \in Nat /\ MaxPage \in Nat
      /\ P[t] \in SUBSET Page
  BY PageNumbers DEF Sound, Stores, StoreRecord, Owned
<1>2. st.count < MaxPage
  BY <1>1
<1>3. /\ q \in Page /\ q = st.count + 1 /\ tk.count = st.count + 1 /\ tk.cache = st.cache
      /\ tk.shadows = st.shadows
  BY <1>1, <1>2, TakenType
<1>4. /\ Sound(tk, Q, H)
      /\ Clean(st) => Clean(tk)
      /\ tk.active = st.active /\ tk.disk = st.disk
      /\ SessionView(tk) = c /\ BaseView(tk) = BaseView(st)
  BY <1>2, SoundTaken
<1>5. /\ Q[t] = P[t] \cup {q} /\ \A u \in Table : P[u] \subseteq Q[u]
  BY <1>1, <1>2, OwnedTaken
<1>6. /\ last \in PagesOf(c, root) /\ last \in P[t] /\ c[last].next = 0
      /\ c[last] \in Content /\ Version(c[last], last, H)
  <2>1. Forward(c, P[t]) /\ \A p \in P[t] : c[p] \in Content /\ Version(c[p], p, H)
    BY SoundViews
  <2>2. root \in P[t] \cup {0} /\ root # 0
    BY <1>1, PageNumbers
  <2>3. last \in PagesOf(c, root) /\ c[last].next = 0 /\ PagesOf(c, root) \in SUBSET P[t]
    BY <2>1, <2>2, ChainPages
  <2> QED
    BY <2>1, <2>3
<1>7. new = Loaded(page, {q})
  BY DEF Extended
<1>8. Owned(new, Q) /\ new \in Stores /\ new.count < MaxPage
  BY <1>1, OwnedExtended, ExtendedType
<1> HIDE DEF q, Q, c, last, tk, new
<1>9. \A u \in Table : \A p \in P[u] : p \in Page /\ p \in Nat /\ p <= st.count /\ p # q /\ p < q
  <2>1. \A u \in Table : \A p \in P[u] : p \in Page /\ p \in Nat /\ p <= st.count
    BY <1>1, PageNumbers DEF Owned
  <2> QED
    BY <1>1, <1>3, <2>1
<1>10. content \in Content /\ content.next = q /\ Version(content, last, H)
  <2>1. content \in Content /\ content.next = q /\ content.rows = c[last].rows
    BY <1>3, <1>6, PageNumbers DEF Content
  <2> HIDE DEF content
  <2>2. last < q
    BY <1>6, <1>9
  <2> QED
    BY <1>6, <2>1, <2>2 DEF Version
<1> HIDE DEF content
<1>11. /\ tk \in Stores /\ Owned(tk, Q) /\ last \in Q[t] /\ content.next \in Q[t] \cup {0}
       /\ q \in Q[t] /\ tk.count < MaxPage /\ last \in Page
  BY <1>1, <1>3, <1>4, <1>5, <1>6, <1>9, <1>10 DEF Sound
<1>12. /\ Sound(linked, Q, H)
       /\ Clean(tk) => Clean(linked)
       /\ linked.active = tk.active
       /\ \A u \in Table : \A p \in Q[u] :
            /\ linked.disk[p] = tk.disk[p]
            /\ BaseView(linked)[p] = IF p = last /\ ~ tk.active THEN content ELSE BaseView(tk)[p]
            /\ SessionView(linked)[p] = IF p = last THEN content ELSE SessionView(tk)[p]
  BY <1>4, <1>10, <1>11, SoundWritten
<1>13. /\ linked.cache[q] = NoPage
       /\ \A i \in DOMAIN linked.shadows : linked.shadows[i][1] # q
  <2>1. q <= tk.count /\ q # last /\ q > st.count
    BY <1>1, <1>3, <1>6, <1>9
  <2>2. linked.cache[q] = tk.cache[q] /\ \A i \in DOMAIN linked.shadows :
          linked.shadows[i][1] = last \/ (i \in DOMAIN st.shadows /\ linked.shadows[i] = st.shadows[i])
    BY <1>3, <1>10, <1>11, <2>1, OwnedWritten
  <2>3. st.cache[q] = NoPage
    BY <1>1, <1>3, <2>1 DEF Owned
  <2>4. \A i \in DOMAIN st.shadows : st.shadows[i][1] # q
    BY <1>1, <1>9 DEF Owned
  <2> QED
    BY <1>3, <2>1, <2>2, <2>3, <2>4
<1> HIDE DEF linked
<1>14. /\ linked \in Stores /\ linked \in StoreRecord /\ Owned(linked, Q)
       /\ Settled(linked, Q, H) /\ Paired(linked)
  BY <1>12 DEF Sound, Stores
<1>15. /\ page \in Stores /\ page.count = linked.count /\ page.cache = linked.cache
       /\ page.shadows = linked.shadows /\ page.active = linked.active
       /\ page.dirty = linked.dirty
       /\ \A p \in Page : page.disk[p] = IF p = q THEN Empty ELSE linked.disk[p]
  <2> DEFINE disk == [linked.disk EXCEPT ![q] = Empty]
  <2>1. linked \in StoreRecord /\ \A p \in linked.dirty : linked.cache[p] # NoPage
    BY <1>14 DEF Stores
  <2>2. disk \in [Page -> Content] /\ \A p \in Page : disk[p] = IF p = q THEN Empty ELSE linked.disk[p]
    BY <1>3, <2>1, NewPages DEF StoreRecord
  <2>3. page = [linked EXCEPT !.disk = disk]
    OBVIOUS
  <2> HIDE DEF disk, page
  <2>4. /\ page \in StoreRecord /\ page.cache = linked.cache /\ page.dirty = linked.dirty
        /\ page.count = linked.count /\ page.shadows = linked.shadows
        /\ page.active = linked.active /\ page.disk = disk
    BY <2>1, <2>2, <2>3 DEF StoreRecord
  <2> QED
    BY <2>1, <2>2, <2>4 DEF Stores
<1> HIDE DEF page
<1>16. /\ new.count = linked.count /\ new.shadows = linked.shadows
       /\ new.active = linked.active /\ new.dirty = linked.dirty
       /\ \A p \in Page : new.disk[p] = IF p = q THEN Empty ELSE linked.disk[p]
       /\ \A p \in Page : new.cache[p] = IF p = q THEN Empty ELSE linked.cache[p]
  <2>1. /\ new.disk = page.disk /\ new.count = page.count /\ new.dirty = page.dirty
        /\ new.active = page.active /\ new.shadows = page.shadows
        /\ \A p \in Page : new.cache[p]
             = IF p \in {q} /\ page.cache[p] = NoPage THEN page.disk[p] ELSE page.cache[p]
    BY <1>7, <1>15, LoadedType
  <2> QED
    BY <1>13, <1>15, <2>1
<1>17. Empty \in Content /\ Empty # NoPage /\ Empty.next = 0 /\ Empty.rows = {}
  BY NewPages, NoPageIsNoContent DEF Empty
<1>18. /\ \A p \in Page : p # q => \A o : Holds(linked, p, o, H) => Holds(new, p, o, H)
       /\ Holds(new, q, q, H)
  BY <1>3, <1>16, <1>17 DEF Holds, Version
<1>19. \A i \in DOMAIN linked.shadows :
         linked.shadows[i][1] \in Page /\ linked.shadows[i][2] \in Page /\ linked.shadows[i][2] # q
  BY <1>11, <1>14, ShadowPairs DEF Owned
<1>20. Settled(new, Q, H)
  <2>1. \A u \in Table : \A p \in Q[u] : p \in Page
    BY <1>14 DEF Owned
  <2>2. \A u \in Table : \A p \in Q[u] : Holds(new, p, p, H)
    BY <1>14, <1>18, <2>1 DEF Settled
  <2>3. \A i \in DOMAIN new.shadows : Holds(new, new.shadows[i][2], new.shadows[i][1], H)
    BY <1>14, <1>16, <1>18, <1>19 DEF Settled
  <2>4. \A p \in Page : p > new.count => new.disk[p].rows = {}
    BY <1>14, <1>16, <1>17 DEF Settled
  <2> QED
    BY <2>2, <2>3, <2>4 DEF Settled
<1>21. Paired(new)
  <2>1. \A p \in Page : linked.cache[p] # NoPage => new.cache[p] # NoPage
    BY <1>16, <1>17
  <2> QED
    BY <1>14, <1>16, <1>19, <2>1 DEF Paired
<1>22. Clean(st) => Clean(new)
  BY <1>4, <1>12, <1>16 DEF Clean
<1>23. \A p \in Page : Base(new, p) = IF p = q THEN Empty ELSE Base(linked, p)
  BY <1>16, <1>17 DEF Base
<1>24. /\ \A p : Where(new, p) = Where(linked, p)
       /\ Where(new, q) = q
       /\ \A p \in Page : p # q => Where(linked, p) # q
  <2>1. \A p : Where(new, p) = Where(linked, p)
    BY <1>16 DEF Where, ShadowOf
  <2>2. Where(linked, q) = q
    BY <1>13, WhereIs
  <2>3. \A p \in Page : p # q => Where(linked, p) # q
    BY <1>19, WhereIs
  <2> QED
    BY <2>1, <2>2, <2>3
<1>25. /\ BaseView(new)[q] = Empty /\ SessionView(new)[q] = Empty
       /\ \A p \in Page : p # q => /\ BaseView(new)[p] = BaseView(linked)[p]
                                   /\ SessionView(new)[p] = SessionView(linked)[p]
  BY <1>3, <1>8, <1>14, <1>23, <1>24, ViewTypes
<1>26. \A u \in Table : \A p \in P[u] :
         /\ p # q /\ new.disk[p] = st.disk[p]
         /\ BaseView(new)[p] = IF p = last /\ ~ st.active THEN content ELSE BaseView(st)[p]
         /\ SessionView(new)[p] = IF p = last THEN content ELSE c[p]
  BY <1>4, <1>5, <1>9, <1>12, <1>16, <1>25
<1>27. q > st.count /\ new.disk[q] = Empty
  BY <1>1, <1>3, <1>16
<1>28. Sound(new, Q, H)
  BY <1>8, <1>20, <1>21 DEF Sound
<1> QED
  BY <1>3, <1>4, <1>6, <1>8, <1>12, <1>16, <1>22, <1>25, <1>26, <1>27, <1>28
     DEF new, Q, last, c, q, content

-----------------------------------------------------------------------------
(* The file and what a flush will make of it.                              *)

Rooted(roots, P) == \A t \in Table : roots[t] \in P[t] \cup {0}

\* A link in the file is the committed one, or not yet there, and what the
\* file has on pages that it does not lead to is on them in the end.
Trails(st, roots) ==
    \A t \in Table : \A p \in PagesOf(BaseView(st), roots[t]) :
        /\ st.disk[p].next \in {0, BaseView(st)[p].next}
        /\ p \notin PagesOf(st.disk, roots[t]) => st.disk[p].rows \subseteq BaseView(st)[p].rows

\* Between statements, the file has nothing on pages that it does not lead to.
Unborn(st, roots) ==
    \A t \in Table : \A p \in PagesOf(BaseView(st), roots[t]) :
        p \notin PagesOf(st.disk, roots[t]) => st.disk[p].rows = {}

\* Once the pool is flushed, or forgotten, there is nothing but the file.
LEMMA FlushedStore ==
    ASSUME NEW st \in Stores, \A p \in Page : st.cache[p] # NoPage => st.cache[p] = st.disk[p]
    PROVE  /\ BaseView(st) = st.disk
           /\ \A roots : Trails(st, roots) /\ Unborn(st, roots)
<1>1. BaseView(st) = st.disk
  <2> DEFINE e == BaseView(st)
             f == st.disk
  <2>1. \A p \in Page : e[p] = f[p]
    BY DEF BaseView, Base
  <2>2. e \in [Page -> Content] /\ f \in [Page -> Content]
    BY ViewTypes DEF Stores, StoreRecord
  <2> HIDE DEF e, f
  <2>3. e = f
    BY <2>1, <2>2
  <2> QED
    BY <2>3 DEF e, f
<1> QED
  BY <1>1 DEF Trails, Unborn

\* The file leads to no page of a table that the pool does not lead to.
LEMMA DiskChain ==
    ASSUME NEW st, NEW P, NEW H, Sound(st, P, H), NEW roots, Rooted(roots, P),
           Trails(st, roots), NEW t \in Table
    PROVE  /\ PagesOf(st.disk, roots[t]) \in SUBSET PagesOf(BaseView(st), roots[t])
           /\ PagesOf(BaseView(st), roots[t]) \in SUBSET P[t]
           /\ Forward(st.disk, PagesOf(BaseView(st), roots[t]))
<1> DEFINE B == PagesOf(BaseView(st), roots[t])
<1>1. Forward(BaseView(st), P[t]) /\ Forward(st.disk, P[t]) /\ roots[t] \in P[t] \cup {0}
  BY SoundViews DEF Rooted
<1>2. /\ B \in SUBSET P[t] /\ roots[t] \in B \cup {0}
      /\ \A p \in B : BaseView(st)[p].next \in B \cup {0}
  BY <1>1, ChainPages
<1>3. \A p \in B : st.disk[p].next \in {0, BaseView(st)[p].next}
  BY DEF Trails
<1> HIDE DEF B
<1>4. Forward(st.disk, B)
  BY <1>1, <1>2, <1>3 DEF Forward
<1>5. PagesOf(st.disk, roots[t]) \in SUBSET B
  BY <1>2, <1>4, ChainPages
<1> QED
  BY <1>2, <1>4, <1>5 DEF B

\* What a statement does to the rows on the pages of the tables.
LEMMA TrailsKept ==
    ASSUME NEW st, NEW P, NEW H, Sound(st, P, H), NEW roots, Rooted(roots, P),
           Trails(st, roots), Unborn(st, roots),
           NEW new,
           \A t \in Table : \A p \in P[t] :
              new.disk[p] = st.disk[p] /\ BaseView(new)[p].next = BaseView(st)[p].next
    PROVE  Trails(new, roots) /\ Unborn(new, roots)
<1>1. \A t \in Table : Forward(BaseView(st), P[t]) /\ Forward(st.disk, P[t])
  BY SoundViews
<1>2. \A t \in Table : roots[t] \in P[t] \cup {0}
  BY DEF Rooted
<1>3. ASSUME NEW t \in Table
      PROVE  PagesOf(BaseView(new), roots[t]) = PagesOf(BaseView(st), roots[t])
  <2>1. Forward(BaseView(new), P[t])
    BY <1>1 DEF Forward
  <2>2. PagesOf(BaseView(st), roots[t]) \in SUBSET P[t]
    BY <1>1, <1>2, ChainPages
  <2> QED
    BY <1>1, <1>2, <2>1, <2>2, SameChain
<1>4. \A t \in Table : PagesOf(new.disk, roots[t]) = PagesOf(st.disk, roots[t])
  <2>1. InTables(st.disk, roots, P) /\ SameOn(st.disk, new.disk, P)
    BY <1>1, <1>2 DEF InTables, SameOn
  <2> QED
    BY <2>1, SameContents
<1>5. \A t \in Table : PagesOf(BaseView(st), roots[t]) \in SUBSET P[t]
  BY <1>1, <1>2, ChainPages
<1>6. ASSUME NEW t \in Table, NEW p \in PagesOf(BaseView(new), roots[t])
      PROVE  /\ new.disk[p].next \in {0, BaseView(new)[p].next}
             /\ p \notin PagesOf(new.disk, roots[t]) => new.disk[p].rows = {}
  <2>1. p \in PagesOf(BaseView(st), roots[t]) /\ p \in P[t]
    BY <1>3, <1>5, <1>6
  <2> QED
    BY <1>4, <2>1 DEF Trails, Unborn
<1> QED
  BY <1>6 DEF Trails, Unborn

\* What a new page does: the file has it, but does not lead to it.
LEMMA TrailsExtended ==
    ASSUME NEW st, NEW P, NEW H, Sound(st, P, H), NEW roots, Rooted(roots, P),
           Trails(st, roots), Unborn(st, roots), NEW t \in Table, roots[t] # 0,
           st.count + 3 <= MaxPage
    PROVE  LET new == Extended(st, roots[t])
               q == NextPage(st)
           IN  /\ Trails(new, roots) /\ Unborn(new, roots)
               /\ Contents(SessionView(new), roots) = Contents(SessionView(st), roots)
               /\ Contents(BaseView(new), roots) = Contents(BaseView(st), roots)
               /\ Contents(new.disk, roots) = Contents(st.disk, roots)
               /\ q \in PagesOf(SessionView(new), roots[t])
<1> DEFINE new == Extended(st, roots[t])
           q == NextPage(st)
           Q == WithPage(P, t, q)
           c == SessionView(st)
           d == SessionView(new)
           last == LastOf(c, roots[t])
<1>1. roots[t] \in P[t] /\ \A u \in Table : roots[u] \in P[u] \cup {0}
  BY DEF Rooted
<1>2. /\ Sound(new, Q, H)
      /\ last \in PagesOf(c, roots[t]) /\ c[last].next = 0
      /\ q \in Page /\ q > st.count
      /\ new.active = st.active
      /\ new.disk[q] = Empty /\ BaseView(new)[q] = Empty /\ d[q] = Empty
      /\ \A u \in Table : \A p \in P[u] :
           /\ p # q /\ new.disk[p] = st.disk[p]
           /\ BaseView(new)[p] = IF p = last /\ ~ st.active THEN [c[last] EXCEPT !.next = q]
                                 ELSE BaseView(st)[p]
           /\ d[p] = IF p = last THEN [c[last] EXCEPT !.next = q] ELSE c[p]
  BY <1>1, SoundExtended, SMTT(60)
<1>3. Q[t] = P[t] \cup {q} /\ \A u \in Table : u # t => Q[u] = P[u]
  BY DEF WithPage
<1>4. \A u, v \in Table : u # v => P[u] \cap P[v] = {}
  BY DEF Sound, Owned
<1>5. \A u \in Table : /\ Forward(c, P[u]) /\ Forward(BaseView(st), P[u]) /\ Forward(st.disk, P[u])
                       /\ Forward(d, Q[u]) /\ Forward(BaseView(new), Q[u])
                       /\ \A p \in P[u] : c[p] \in Content /\ BaseView(st)[p] \in Content
  BY <1>2, SoundViews
<1>6. PagesOf(c, roots[t]) \in SUBSET P[t] /\ last \in P[t]
  BY <1>1, <1>2, <1>5, ChainPages
<1>7. st.active \/ BaseView(st) = c
  <2>1. ~ st.active => st.shadows = <<>>
    BY DEF Sound, Paired
  <2> QED
    BY <2>1, OneView
<1> DEFINE longer == [c[last] EXCEPT !.next = q]
<1>8. longer.next = q /\ longer.rows = c[last].rows
  BY <1>5, <1>6 DEF Content
<1> HIDE DEF new, q, Q, c, d, last, longer
<1>9. Empty.next = 0 /\ Empty.rows = {}
  BY DEF Empty
<1>10. PagesOf(d, roots[t]) = PagesOf(c, roots[t]) \cup {q}
  <2>1. Forward(d, P[t] \cup {q}) /\ Forward(c, P[t]) /\ q \notin P[t]
    BY <1>2, <1>3, <1>5
  <2>2. \A p \in PagesOf(c, roots[t]) : p # last => d[p].next = c[p].next
    BY <1>2, <1>6 DEF longer
  <2>3. d[last].next = q /\ d[q].next = 0
    BY <1>2, <1>6, <1>8, <1>9 DEF longer
  <2> QED
    BY <1>1, <1>2, <2>1, <2>2, <2>3, LongerChain
<1>11. \A u \in Table : u # t => PagesOf(d, roots[u]) = PagesOf(c, roots[u])
                                 /\ RowsOf(d, roots[u]) = RowsOf(c, roots[u])
  <2> SUFFICES ASSUME NEW u \in Table, u # t
               PROVE  /\ PagesOf(d, roots[u]) = PagesOf(c, roots[u])
                      /\ RowsOf(d, roots[u]) = RowsOf(c, roots[u])
    OBVIOUS
  <2>1. \A p \in P[u] : d[p] = c[p]
    BY <1>2, <1>4, <1>6
  <2>2. PagesOf(c, roots[u]) \in SUBSET P[u] /\ Forward(d, P[u])
    BY <1>1, <1>3, <1>5, ChainPages
  <2>3. PagesOf(d, roots[u]) = PagesOf(c, roots[u])
    BY <1>1, <1>5, <2>1, <2>2, SameChain
  <2> QED
    BY <2>1, <2>2, <2>3 DEF RowsOf
<1>12. RowsOf(d, roots[t]) = RowsOf(c, roots[t])
  <2>1. \A p \in PagesOf(c, roots[t]) : d[p].rows = c[p].rows
    BY <1>2, <1>6, <1>8, ZenonT(60) DEF longer
  <2>2. d[q].rows = {}
    BY <1>2, <1>9
  <2> DEFINE C == PagesOf(c, roots[t])
  <2> HIDE DEF C
  <2>3. UNION {d[p].rows : p \in C \cup {q}} = UNION {c[p].rows : p \in C}
    BY <2>1, <2>2 DEF C
  <2> QED
    BY <1>10, <2>3 DEF RowsOf, C
<1>13. Contents(d, roots) = Contents(c, roots)
  BY <1>11, <1>12 DEF Contents
<1>14. /\ \A u \in Table : PagesOf(new.disk, roots[u]) = PagesOf(st.disk, roots[u])
       /\ Contents(new.disk, roots) = Contents(st.disk, roots)
  <2>1. InTables(st.disk, roots, P) /\ SameOn(st.disk, new.disk, P)
    BY <1>1, <1>2, <1>5 DEF InTables, SameOn
  <2> QED
    BY <2>1, SameContents
<1>15. /\ Contents(BaseView(new), roots) = Contents(BaseView(st), roots)
       /\ \A u \in Table : \A p \in PagesOf(BaseView(new), roots[u]) :
            \/ p = q
            \/ /\ p \in PagesOf(BaseView(st), roots[u])
               /\ \/ BaseView(new)[p] = BaseView(st)[p]
                  \/ BaseView(st)[p].next = 0
  <2>1. CASE st.active
    <3>1. \A u \in Table : \A p \in P[u] : BaseView(new)[p] = BaseView(st)[p]
      BY <1>2, <2>1
    <3>2. /\ \A u \in Table : PagesOf(BaseView(new), roots[u]) = PagesOf(BaseView(st), roots[u])
          /\ Contents(BaseView(new), roots) = Contents(BaseView(st), roots)
      <4>1. InTables(BaseView(st), roots, P) /\ SameOn(BaseView(st), BaseView(new), P)
        BY <1>1, <1>5, <3>1 DEF InTables, SameOn
      <4> QED
        BY <4>1, SameContents
    <3>3. \A u \in Table : PagesOf(BaseView(st), roots[u]) \in SUBSET P[u]
      BY <1>1, <1>5, ChainPages
    <3> QED
      BY <3>1, <3>2, <3>3
  <2>2. CASE ~ st.active
    <3>1. BaseView(st) = c /\ BaseView(new) = d
      <4>1. ~ new.active
        BY <1>2, <2>2
      <4>2. new.shadows = <<>>
        BY <1>2, <4>1 DEF Sound, Paired
      <4> QED
        BY <1>7, <2>2, <4>2, OneView DEF d
    <3>2. \A u \in Table : \A p \in PagesOf(d, roots[u]) : p = q \/ p \in PagesOf(c, roots[u])
      BY <1>10, <1>11
    <3>3. \A u \in Table : \A p \in PagesOf(c, roots[u]) : d[p] = c[p] \/ c[p].next = 0
      <4>1. \A u \in Table : PagesOf(c, roots[u]) \in SUBSET P[u]
        BY <1>1, <1>5, ChainPages
      <4> QED
        BY <1>2, <4>1
    <3> QED
      BY <1>13, <3>1, <3>2, <3>3
  <2> QED
    BY <2>1, <2>2
<1>16. ASSUME NEW u \in Table, NEW p \in PagesOf(BaseView(new), roots[u])
       PROVE  /\ new.disk[p].next \in {0, BaseView(new)[p].next}
              /\ p \notin PagesOf(new.disk, roots[u]) => new.disk[p].rows = {}
  <2>1. CASE p = q
    BY <1>2, <1>9, <2>1
  <2>2. CASE /\ p \in PagesOf(BaseView(st), roots[u])
             /\ \/ BaseView(new)[p] = BaseView(st)[p]
                \/ BaseView(st)[p].next = 0
    <3>1. p \in P[u]
      BY <1>1, <1>5, <2>2, ChainPages
    <3>2. new.disk[p] = st.disk[p]
      BY <1>2, <3>1
    <3>3. st.disk[p].next \in {0, BaseView(st)[p].next}
      BY <2>2 DEF Trails
    <3>4. p \notin PagesOf(st.disk, roots[u]) => st.disk[p].rows = {}
      BY <2>2 DEF Unborn
    <3> QED
      BY <1>14, <2>2, <3>2, <3>3, <3>4
  <2> QED
    BY <1>15, <2>1, <2>2
<1>17. Trails(new, roots) /\ Unborn(new, roots)
  BY <1>16 DEF Trails, Unborn
<1>18. q \in PagesOf(d, roots[t])
  BY <1>10
<1> QED
  BY <1>13, <1>14, <1>15, <1>17, <1>18 DEF new, q, c, d

-----------------------------------------------------------------------------
(* What statements do.                                                     *)

\* A store between two statements.
Quiet(st, P, H, roots) ==
    /\ Sound(st, P, H) /\ H \in [Row -> Link] /\ Rooted(roots, P)
    /\ Clean(st) /\ Trails(st, roots) /\ Unborn(st, roots)

\* The table t gets other rows, in the view of the session.
Changed(st, new, roots, t, rows) ==
    /\ new.active = st.active
    /\ Contents(SessionView(new), roots) = Replaced(Contents(SessionView(st), roots), t, rows)
    /\ Contents(BaseView(new), roots) =
         IF st.active THEN Contents(BaseView(st), roots) ELSE Contents(SessionView(new), roots)
    /\ Contents(new.disk, roots) = Contents(st.disk, roots)

\* No table gets other rows, in any view.
Unchanged(st, new, roots) ==
    /\ new.active = st.active
    /\ Contents(SessionView(new), roots) = Contents(SessionView(st), roots)
    /\ Contents(BaseView(new), roots) = Contents(BaseView(st), roots)
    /\ Contents(new.disk, roots) = Contents(st.disk, roots)

\* The rows on the pages O are at their homes.
HomesIn(c, O, H) == \A p \in O : c[p] \in Content /\ \A r \in c[p].rows : H[r] = p

\* The pages that the session, the pool and the file lead to.
LEMMA SoundTables ==
    ASSUME NEW st, NEW P, NEW H, Sound(st, P, H), NEW roots, Rooted(roots, P),
           NEW c \in {SessionView(st), BaseView(st), st.disk}
    PROVE  /\ InTables(c, roots, P)
           /\ \A t \in Table : /\ PagesOf(c, roots[t]) \in SUBSET P[t]
                               /\ roots[t] = 0 => PagesOf(c, roots[t]) = {}
           /\ \A t \in Table : HomesIn(c, PagesOf(c, roots[t]), H)
<1>1. \A t \in Table : /\ Forward(c, P[t]) /\ roots[t] \in P[t] \cup {0}
                       /\ \A p \in P[t] : c[p] \in Content /\ Version(c[p], p, H)
  BY SoundViews DEF Rooted
<1>2. \A t \in Table : /\ PagesOf(c, roots[t]) \in SUBSET P[t]
                       /\ roots[t] = 0 => PagesOf(c, roots[t]) = {}
  BY <1>1, ChainPages
<1>3. InTables(c, roots, P)
  BY <1>1 DEF InTables
<1>4. \A t \in Table : HomesIn(c, PagesOf(c, roots[t]), H)
  BY <1>1, <1>2 DEF Version, HomesIn
<1> QED
  BY <1>2, <1>3, <1>4

\* Reading changes nothing.
LEMMA QuietLoaded ==
    ASSUME NEW st, NEW P, NEW H, NEW roots, Quiet(st, P, H, roots),
           NEW X, \A p \in X : p <= st.count
    PROVE  LET new == Loaded(st, X)
           IN  /\ Quiet(new, P, H, roots) /\ Unchanged(st, new, roots)
               /\ new.count = st.count /\ SessionView(new) = SessionView(st)
<1> DEFINE new == Loaded(st, X)
<1>1. Sound(st, P, H) /\ Trails(st, roots) /\ Unborn(st, roots) /\ Rooted(roots, P) /\ Clean(st)
  BY DEF Quiet
<1>2. /\ Sound(new, P, H) /\ Clean(new)
      /\ SessionView(new) = SessionView(st) /\ BaseView(new) = BaseView(st)
  BY <1>1, SoundLoaded
<1>3. new.disk = st.disk /\ new.count = st.count /\ new.active = st.active
  BY <1>1, LoadedType DEF Sound
<1> HIDE DEF new
<1>4. Trails(new, roots) /\ Unborn(new, roots)
  BY <1>1, <1>2, <1>3 DEF Trails, Unborn
<1> QED
  BY <1>1, <1>2, <1>3, <1>4 DEF new, Quiet, Unchanged

\* A page of a table is written, and its link stays.
LEMMA QuietWritten ==
    ASSUME NEW st, NEW P, NEW H, NEW roots, Quiet(st, P, H, roots), st.count < MaxPage,
           NEW t \in Table, NEW p \in PagesOf(SessionView(st), roots[t]), NEW content \in Content,
           content.next = SessionView(st)[p].next, \A r \in content.rows : H[r] = p,
           NEW rows, rows = content.rows \cup RowsBut(SessionView(st), roots[t], p)
    PROVE  LET new == Written(st, p, content)
           IN  Quiet(new, P, H, roots) /\ Changed(st, new, roots, t, rows)
<1> DEFINE new == Written(st, p, content)
           c == SessionView(st)
           d == SessionView(new)
<1>1. /\ Sound(st, P, H) /\ Trails(st, roots) /\ Unborn(st, roots) /\ Rooted(roots, P)
      /\ Clean(st)
  BY DEF Quiet
<1>2. /\ InTables(c, roots, P) /\ InTables(BaseView(st), roots, P)
      /\ InTables(st.disk, roots, P) /\ PagesOf(c, roots[t]) \in SUBSET P[t]
      /\ roots[t] # 0
  BY <1>1, SoundTables
<1>3. p \in P[t] /\ content.next \in P[t] \cup {0} /\ Version(content, p, H)
  <2>1. Forward(c, P[t]) /\ Version(c[p], p, H) /\ p \in P[t]
    BY <1>1, <1>2, SoundViews
  <2> QED
    BY <2>1 DEF Forward, Version
<1>4. /\ Sound(new, P, H) /\ Clean(new) /\ new.active = st.active
      /\ \A u \in Table : \A q \in P[u] :
           /\ new.disk[q] = st.disk[q]
           /\ BaseView(new)[q] = IF q = p /\ ~ st.active THEN content ELSE BaseView(st)[q]
           /\ d[q] = IF q = p THEN content ELSE c[q]
  BY <1>1, <1>3, SoundWritten
<1>5. ~ st.active => BaseView(st) = c /\ BaseView(new) = d
  BY <1>1, <1>4, OneView DEF Sound, Paired
<1> HIDE DEF new, c, d
<1>6. Disjoint(P)
  BY <1>1 DEF Sound, Owned, Disjoint
<1>7. Contents(d, roots) = Replaced(Contents(c, roots), t, rows)
  <2>1. d[p] = content /\ d[p].next = c[p].next
    BY <1>3, <1>4 DEF c
  <2>2. SameBut(c, d, P, p)
    BY <1>4 DEF SameBut
  <2>4. rows = d[p].rows \cup RowsBut(c, roots[t], p)
    BY <2>1 DEF c
  <2>5. p \in PagesOf(c, roots[t])
    BY DEF c
  <2>6. Contents(d, roots)
          = Replaced(Contents(c, roots), t, d[p].rows \cup RowsBut(c, roots[t], p))
    <3>1. InTables(c, roots, P) /\ roots[t] # 0 /\ d[p].next = c[p].next
      BY <1>2, <2>1
    <3> QED
      BY <1>6, <2>2, <2>5, <3>1, ChangedContents
  <2> QED
    BY <2>4, <2>6
<1>8. Contents(new.disk, roots) = Contents(st.disk, roots)
  <2>1. SameOn(st.disk, new.disk, P)
    BY <1>4 DEF SameOn
  <2> QED
    BY <1>2, <2>1, SameContents
<1>9. st.active => Contents(BaseView(new), roots) = Contents(BaseView(st), roots)
  <2> SUFFICES ASSUME st.active
               PROVE  Contents(BaseView(new), roots) = Contents(BaseView(st), roots)
    OBVIOUS
  <2>1. SameOn(BaseView(st), BaseView(new), P)
    BY <1>4 DEF SameOn
  <2> QED
    BY <1>2, <2>1, SameContents
<1>10. Trails(new, roots) /\ Unborn(new, roots)
  <2>1. \A u \in Table : \A q \in P[u] :
          new.disk[q] = st.disk[q] /\ BaseView(new)[q].next = BaseView(st)[q].next
    BY <1>4, <1>5 DEF c
  <2> QED
    BY <1>1, <2>1, TrailsKept
<1>11. Quiet(new, P, H, roots)
  BY <1>1, <1>4, <1>10 DEF Quiet
<1>12. Changed(st, new, roots, t, rows)
  BY <1>4, <1>5, <1>7, <1>8, <1>9 DEF Changed, c, d
<1> QED
  BY <1>11, <1>12 DEF new

\* A row that was never stored is stored on a page of a table.
LEMMA QuietWithRow ==
    ASSUME NEW st, NEW P, NEW H, NEW roots, Quiet(st, P, H, roots), st.count < MaxPage,
           NEW t \in Table, NEW p \in PagesOf(SessionView(st), roots[t]),
           SessionView(st)[p].room > 0, NEW r \in Row, H[r] = 0
    PROVE  LET new == WithRow(st, p, r)
               held == RowsOf(SessionView(st), roots[t])
           IN  /\ Quiet(new, P, [H EXCEPT ![r] = p], roots)
               /\ Changed(st, new, roots, t, held \cup {r})
               /\ r \notin held
<1> DEFINE c == SessionView(st)
           content == [c[p] EXCEPT !.rows = @ \cup {r}, !.room = @ - 1]
           G == [H EXCEPT ![r] = p]
           new == WithRow(st, p, r)
           held == RowsOf(c, roots[t])
<1>1. Sound(st, P, H) /\ Rooted(roots, P) /\ H \in [Row -> Link]
  BY DEF Quiet
<1>2. /\ PagesOf(c, roots[t]) \in SUBSET P[t]
      /\ \A q \in PagesOf(c, roots[t]) : c[q] \in Content /\ \A x \in c[q].rows : H[x] = q
      /\ P[t] \in SUBSET Page
  <2>1. P[t] \in SUBSET Page
    BY <1>1 DEF Sound, Owned
  <2>2. PagesOf(c, roots[t]) \in SUBSET P[t] /\ HomesIn(c, PagesOf(c, roots[t]), H)
    BY <1>1, SoundTables
  <2> QED
    BY <2>1, <2>2 DEF HomesIn
<1>3. p \in Page /\ p # 0 /\ c[p] \in Content
  BY <1>2, PageNumbers
<1>4. new = Written(st, p, content)
  BY DEF WithRow
<1> HIDE DEF c, G, new
<1>5. c[p].room \in Nat /\ c[p].room > 0 /\ c[p].room <= Room /\ Room \in Nat
  <2>1. c[p].room \in 0 .. Room /\ Room \in Nat
    BY <1>3, RowsFit DEF Content
  <2> QED
    BY <2>1 DEF c
<1>6. /\ content \in Content /\ content.next = c[p].next
      /\ content.rows = c[p].rows \cup {r}
  <2>1. c[p].room - 1 \in 0 .. Room
    BY <1>5
  <2> QED
    BY <1>3, <2>1 DEF Content
<1> HIDE DEF content
<1>7. Quiet(st, P, G, roots)
  <2>1. Sound(st, P, G) /\ G \in [Row -> Link]
    BY <1>1, <1>3, NewHome DEF G
  <2> QED
    BY <2>1 DEF Quiet
<1>8. \A x \in content.rows : G[x] = p
  <2>1. c[p].rows \in SUBSET Row
    BY <1>3 DEF Content
  <2>2. \A x \in c[p].rows : H[x] = p
    BY <1>2 DEF c
  <2> QED
    BY <1>1, <1>3, <1>6, <2>1, <2>2 DEF G
<1>9. held \cup {r} = content.rows \cup RowsBut(c, roots[t], p)
  <2> DEFINE C == PagesOf(c, roots[t])
  <2>1. p \in C /\ held = UNION {c[q].rows : q \in C}
    BY DEF RowsOf, c
  <2> HIDE DEF C, held
  <2> QED
    BY <1>6, <2>1 DEF C, RowsBut
<1>10. Quiet(new, P, G, roots) /\ Changed(st, new, roots, t, held \cup {r})
  <2> HIDE DEF held
  <2> QED
    BY <1>4, <1>6, <1>7, <1>8, <1>9, QuietWritten, ZenonT(60) DEF c
<1>11. r \notin held
  <2>1. \A q \in PagesOf(c, roots[t]) : r \notin c[q].rows
    <3>1. \A q \in PagesOf(c, roots[t]) : q # 0
      BY <1>2, PageNumbers
    <3> QED
      BY <1>2, <3>1
  <2> QED
    BY <2>1 DEF RowsOf
<1> QED
  BY <1>10, <1>11 DEF new, G, c

\* A page more changes the rows of no table.
LEMMA QuietExtended ==
    ASSUME NEW st, NEW P, NEW H, NEW roots, Quiet(st, P, H, roots), st.count + 3 <= MaxPage,
           NEW t \in Table, roots[t] # 0
    PROVE  LET new == Extended(st, roots[t])
               q == NextPage(st)
           IN  /\ Quiet(new, WithPage(P, t, q), H, roots)
               /\ Unchanged(st, new, roots)
               /\ new.count < MaxPage
               /\ q \in PagesOf(SessionView(new), roots[t])
               /\ SessionView(new)[q].room > 0
<1> DEFINE new == Extended(st, roots[t])
           q == NextPage(st)
           Q == WithPage(P, t, q)
<1>1. /\ Sound(st, P, H) /\ Trails(st, roots) /\ Unborn(st, roots) /\ Rooted(roots, P)
      /\ Clean(st) /\ H \in [Row -> Link]
  BY DEF Quiet
<1>2. roots[t] \in P[t]
  BY <1>1 DEF Rooted
<1>3. /\ Sound(new, Q, H) /\ Clean(new) /\ new.active = st.active /\ new.count < MaxPage
      /\ SessionView(new)[q] = Empty
  <2> DEFINE last == LastOf(SessionView(st), roots[t])
  <2>1. /\ Sound(new, Q, H)
        /\ Clean(st) => Clean(new)
        /\ new.active = st.active /\ new.count < MaxPage
        /\ last \in PagesOf(SessionView(st), roots[t]) /\ SessionView(st)[last].next = 0
        /\ q \in Page /\ q > st.count
        /\ new.disk[q] = Empty /\ BaseView(new)[q] = Empty /\ SessionView(new)[q] = Empty
        /\ \A u \in Table : \A p \in P[u] :
             /\ p # q /\ new.disk[p] = st.disk[p]
             /\ BaseView(new)[p] =
                  IF p = last /\ ~ st.active THEN [SessionView(st)[last] EXCEPT !.next = q]
                  ELSE BaseView(st)[p]
             /\ SessionView(new)[p] =
                  IF p = last THEN [SessionView(st)[last] EXCEPT !.next = q]
                  ELSE SessionView(st)[p]
    BY <1>1, <1>2, SoundExtended
  <2> HIDE DEF new, q, Q, last
  <2> QED
    BY <1>1, <2>1
<1>4. /\ Trails(new, roots) /\ Unborn(new, roots)
      /\ Contents(SessionView(new), roots) = Contents(SessionView(st), roots)
      /\ Contents(BaseView(new), roots) = Contents(BaseView(st), roots)
      /\ Contents(new.disk, roots) = Contents(st.disk, roots)
      /\ q \in PagesOf(SessionView(new), roots[t])
  BY <1>1, TrailsExtended
<1>5. Rooted(roots, Q)
  BY <1>1 DEF Rooted, WithPage
<1>6. Empty.room > 0
  BY RowsFit DEF Empty
<1> HIDE DEF new, q, Q
<1>7. Quiet(new, Q, H, roots) /\ Unchanged(st, new, roots) /\ SessionView(new)[q].room > 0
  BY <1>1, <1>3, <1>4, <1>5, <1>6 DEF Quiet, Unchanged
<1> QED
  BY <1>3, <1>4, <1>7 DEF new, q, Q

-----------------------------------------------------------------------------
(* The invariant.                                                          *)

\* COMMIT has copied k shadow pages: nothing waits for the pool any more, but
\* the originals of the shadow pages that are not copied.
HalfwayIn(disk, cache, shadows, k) ==
    /\ \A i \in DOMAIN shadows : disk[shadows[i][2]] = cache[shadows[i][2]]
    /\ \A p \in Page : cache[p] # NoPage /\ (\A i \in 1 .. k : shadows[i][1] # p)
                         => disk[p] = cache[p]
    /\ \A i \in 1 .. k : disk[shadows[i][1]] = disk[shadows[i][2]]

Halfway(st, k) == HalfwayIn(st.disk, st.cache, st.shadows, k)

\* The pages P are the tables' own, rows are at home in H, new rows nowhere.
HomesAre(P, H) ==
    /\ Sound(store, P, H) /\ H \in [Row -> Link] /\ Rooted(tables, P)
    /\ \A r \in fresh : H[r] = 0

Kept ==
    /\ Typed
    /\ tables = catalog /\ pc # "dropping"
    /\ pc \in {"committing", "copying"} => store.active
    /\ \E P, H : HomesAre(P, H)
    /\ pc # "copying" => Clean(store) /\ Trails(store, tables)
    /\ pc = "idle" => Unborn(store, tables)
    /\ pc = "copying" => Halfway(store, copied)

\* Before a statement.
LEMMA KeptQuiet ==
    ASSUME Kept, pc = "idle"
    PROVE  /\ store \in Stores /\ tables = catalog
           /\ \E P, H : Quiet(store, P, H, tables) /\ \A r \in fresh : H[r] = 0
<1>1. PICK P, H : HomesAre(P, H)
  BY DEF Kept
<1>2. Clean(store) /\ Trails(store, tables) /\ Unborn(store, tables)
  BY DEF Kept
<1>3. Quiet(store, P, H, tables) /\ \A r \in fresh : H[r] = 0
  BY <1>1, <1>2 DEF HomesAre, Quiet
<1> QED
  BY <1>3 DEF Kept, Typed

\* After a statement.
LEMMA QuietKept ==
    ASSUME Kept, pc = "idle", UNCHANGED <<tables, catalog, pc, copied>>, fresh' \subseteq fresh,
           NEW P, NEW H, Quiet(store', P, H, tables), \A r \in fresh' : H[r] = 0
    PROVE  Kept'
<1>1. /\ Typed /\ tables = catalog /\ Sound(store', P, H)
      /\ H \in [Row -> Link] /\ Rooted(tables, P)
      /\ Clean(store') /\ Trails(store', tables) /\ Unborn(store', tables)
  BY DEF Kept, Quiet
<1>2. store' \in Stores
  BY <1>1 DEF Sound
<1>3. Typed'
  BY <1>1, <1>2, TypedAfterStatement
<1>4. HomesAre(P, H)'
  BY <1>1 DEF HomesAre
<1>5. pc' = "idle" /\ tables' = tables /\ catalog' = catalog
  OBVIOUS
<1> QED
  BY <1>1, <1>3, <1>4, <1>5 DEF Kept

\* The three contents of the tables, unless COMMIT is copying.
LEMMA PlainViews ==
    ASSUME Kept, pc # "copying"
    PROVE  /\ Current = Contents(SessionView(store), tables)
           /\ Committed = Contents(BaseView(store), tables)
           /\ Durable = Contents(store.disk, tables)
           /\ InTransaction = store.active
<1>1. ~ Switched /\ pc # "dropping" /\ tables = catalog /\ store.active \in BOOLEAN
  BY DEF Switched, Kept, Typed, Stores, StoreRecord
<1>2. Current = Contents(SessionView(store), tables)
  BY DEF Current
<1>3. Committed = Contents(BaseView(store), tables)
  BY <1>1 DEF Committed
<1>4. Durable = Contents(store.disk, tables)
  BY <1>1 DEF Durable
<1>5. InTransaction = store.active
  BY <1>1 DEF InTransaction
<1> QED
  BY <1>2, <1>3, <1>4, <1>5

\* The same after a step.
LEMMA PlainViewsNext ==
    ASSUME Kept', pc' # "copying"
    PROVE  /\ Current' = Contents(SessionView(store'), tables')
           /\ Committed' = Contents(BaseView(store'), tables')
           /\ Durable' = Contents(store'.disk, tables')
           /\ InTransaction' = store'.active
<1>1. ~ Switched' /\ pc' # "dropping" /\ tables' = catalog' /\ store'.active \in BOOLEAN
  BY DEF Switched, Kept, Typed, Stores, StoreRecord
<1>2. Current' = Contents(SessionView(store'), tables')
  BY DEF Current
<1>3. Committed' = Contents(BaseView(store'), tables')
  BY <1>1 DEF Committed
<1>4. Durable' = Contents(store'.disk, tables')
  BY <1>1 DEF Durable
<1>5. InTransaction' = store'.active
  BY <1>1 DEF InTransaction
<1> QED
  BY <1>2, <1>3, <1>4, <1>5

\* A statement that changes one table.
LEMMA TableBecomes ==
    ASSUME Kept, Kept', pc = "idle", UNCHANGED <<tables, catalog, pc>>,
           NEW st, Unchanged(store, st, tables),
           NEW t \in Table, NEW rows, Changed(st, store', tables, t, rows), tables[t] # 0
    PROVE  /\ Sql!Becomes(t, rows)
           /\ Current[t] = RowsOf(SessionView(store), tables[t])
<1>1. pc # "copying" /\ pc' # "copying" /\ tables' = tables
  OBVIOUS
<1>2. /\ Current = Contents(SessionView(store), tables)
      /\ Committed = Contents(BaseView(store), tables)
      /\ Durable = Contents(store.disk, tables)
      /\ InTransaction = store.active
  BY <1>1, PlainViews
<1>3. /\ Current' = Contents(SessionView(store'), tables)
      /\ Committed' = Contents(BaseView(store'), tables)
      /\ Durable' = Contents(store'.disk, tables)
      /\ InTransaction' = store'.active
  BY <1>1, PlainViewsNext
<1>4. Current' = Replaced(Current, t, rows)
  BY <1>2, <1>3 DEF Unchanged, Changed
<1>5. Committed' = IF InTransaction THEN Committed ELSE Current'
  BY <1>2, <1>3 DEF Unchanged, Changed
<1>6. Durable' = Durable /\ InTransaction' = InTransaction
  BY <1>2, <1>3 DEF Unchanged, Changed
<1>7. Current[t] = RowsOf(SessionView(store), tables[t])
  BY <1>2 DEF Contents
<1> QED
  BY <1>4, <1>5, <1>6, <1>7 DEF Replaced, Sql!Becomes

\* A statement reads the pages of a table.
LEMMA QuietScanned ==
    ASSUME store \in Stores, NEW P, NEW H, Quiet(store, P, H, tables),
           NEW t \in Table, tables[t] # 0
    PROVE  /\ Quiet(Scanned(t), P, H, tables)
           /\ Unchanged(store, Scanned(t), tables)
           /\ Scanned(t).count = store.count /\ SessionView(Scanned(t)) = SessionView(store)
<1> DEFINE pages == PagesOf(SessionView(store), tables[t])
           X == {Where(store, p) : p \in pages}
<1>1. Sound(store, P, H) /\ Rooted(tables, P) /\ Owned(store, P)
  BY DEF Quiet, Sound
<1>2. pages \in SUBSET P[t]
  BY <1>1, SoundTables
<1>3. \A x \in X : x <= store.count
  BY <1>1, <1>2, OwnedViews
<1>4. Scanned(t) = Loaded(store, X)
  BY DEF Scanned
<1> HIDE DEF X
<1> QED
  BY <1>3, <1>4, QuietLoaded

\* Rows other than r, on p and on the other pages.
LEMMA RowTaken ==
    ASSUME NEW c, NEW root, NEW H, HomesIn(c, PagesOf(c, root), H),
           NEW p \in PagesOf(c, root), NEW r \in c[p].rows
    PROVE  /\ (c[p].rows \ {r}) \cup RowsBut(c, root, p) = RowsOf(c, root) \ {r}
           /\ r \in RowsOf(c, root)
<1> DEFINE C == PagesOf(c, root)
<1>1. \A q \in C : q # p => r \notin c[q].rows
  BY DEF HomesIn
<1>2. RowsBut(c, root, p) = UNION {c[q].rows : q \in C \ {p}}
      /\ RowsOf(c, root) = UNION {c[q].rows : q \in C} /\ p \in C
  BY DEF RowsBut, RowsOf
<1> HIDE DEF C
<1> QED
  BY <1>1, <1>2

-----------------------------------------------------------------------------
(* Each step keeps the invariant and is a step of the abstract store.      *)

\* INSERT adds the row, on a page with room or on a new one.
LEMMA InsertIsAddRow ==
    ASSUME Kept, NEW t \in Table, NEW r \in Row, Insert(t, r)
    PROVE  Kept' /\ Sql!AddRow(t, r)
<1> DEFINE st == Scanned(t)
           spot == Spot(SessionView(st), tables[t])
           longer == Extended(st, tables[t])
           q == NextPage(st)
<1>1. /\ pc = "idle" /\ tables[t] # 0 /\ RoomToGrow /\ r \in fresh /\ fresh' = fresh \ {r}
      /\ UNCHANGED <<tables, catalog, pc, copied>>
      /\ \/ spot # 0 /\ store' = WithRow(st, spot, r)
         \/ spot = 0 /\ store' = IF SessionView(longer)[q].room > 0 THEN WithRow(longer, q, r)
                                 ELSE Failed(longer)
  BY DEF Insert
<1>2. store \in Stores
  BY <1>1, KeptQuiet
<1>3. PICK P, H : Quiet(store, P, H, tables) /\ \A x \in fresh : H[x] = 0
  BY <1>1, KeptQuiet
<1>4. /\ Quiet(st, P, H, tables) /\ Unchanged(store, st, tables)
      /\ st.count = store.count
      /\ SessionView(st) = SessionView(store)
  BY <1>1, <1>2, <1>3, QuietScanned
<1>5. H[r] = 0 /\ H \in [Row -> Link]
  BY <1>1, <1>3 DEF Quiet
<1> HIDE DEF st
<1>6. ASSUME NEW at, Unchanged(store, at, tables), NEW Q, Quiet(at, Q, H, tables),
             NEW p \in PagesOf(SessionView(at), tables[t]), SessionView(at)[p].room > 0,
             at.count < MaxPage, store' = WithRow(at, p, r)
      PROVE  Kept' /\ Sql!AddRow(t, r)
  <2> DEFINE held == RowsOf(SessionView(at), tables[t])
             G == [H EXCEPT ![r] = p]
  <2>1. Quiet(store', Q, G, tables) /\ Changed(at, store', tables, t, held \cup {r}) /\ r \notin held
    BY <1>5, <1>6, QuietWithRow
  <2>2. \A x \in fresh' : G[x] = 0
    <3>1. fresh \subseteq Row
      BY DEF Kept, Typed
    <3> QED
      BY <1>1, <1>3, <1>5, <3>1
  <2> HIDE DEF G
  <2>3. Kept'
    <3>1. fresh' \subseteq fresh
      BY <1>1
    <3> QED
      BY <1>1, <2>1, <2>2, <3>1, QuietKept
  <2>4. held = RowsOf(SessionView(store), tables[t])
    <3>1. Contents(SessionView(at), tables)[t] = Contents(SessionView(store), tables)[t]
      BY <1>6 DEF Unchanged
    <3> QED
      BY <1>1, <3>1 DEF Contents
  <2>5. Changed(store, store', tables, t, held \cup {r})
    BY <1>6, <2>1 DEF Unchanged, Changed
  <2>6. Unchanged(store, store, tables)
    BY DEF Unchanged
  <2> HIDE DEF held
  <2>7. /\ Sql!Becomes(t, held \cup {r})
        /\ Current[t] = RowsOf(SessionView(store), tables[t])
    BY <1>1, <2>3, <2>5, <2>6, TableBecomes
  <2>8. held \in SUBSET Row
    <3>1. Sound(at, Q, H) /\ Rooted(tables, Q)
      BY <1>6 DEF Quiet
    <3>2. HomesIn(SessionView(at), PagesOf(SessionView(at), tables[t]), H)
      BY <3>1, SoundTables
    <3> QED
      BY <3>2 DEF HomesIn, held, RowsOf, Content
  <2>9. held # NoTable
    BY <2>8, NoTableIsNoContent
  <2> QED
    BY <2>1, <2>3, <2>4, <2>7, <2>9 DEF Sql!AddRow
<1>7. st.count + 3 <= MaxPage /\ st.count < MaxPage
  <2>1. store.count \in Nat /\ MaxPage \in Nat
    BY <1>2, PageNumbers DEF Stores, StoreRecord
  <2> QED
    BY <1>1, <1>4, <2>1 DEF RoomToGrow
<1>8. CASE spot # 0 /\ store' = WithRow(st, spot, r)
  <2>1. Sound(st, P, H) /\ Rooted(tables, P) /\ st \in Stores
    BY <1>4 DEF Quiet, Sound
  <2>2. spot \in PagesOf(SessionView(st), tables[t])
    <3>1. Forward(SessionView(st), P[t]) /\ tables[t] \in P[t] \cup {0}
      BY <2>1, SoundViews DEF Rooted
    <3> QED
      BY <1>8, <3>1, ChainPages
  <2>3. SessionView(st)[spot].room > 0
    <3>1. SessionView(st) \in [Page -> Content] /\ tables[t] \in Link
      BY <2>1, ViewTypes DEF Kept, Typed
    <3> QED
      BY <1>8, <3>1, AnyChainType
  <2> HIDE DEF spot
  <2> QED
    BY <1>4, <1>6, <1>7, <1>8, <2>2, <2>3
<1>9. CASE spot = 0 /\ store' = IF SessionView(longer)[q].room > 0 THEN WithRow(longer, q, r)
                                ELSE Failed(longer)
  <2>1. /\ Quiet(longer, WithPage(P, t, q), H, tables)
        /\ Unchanged(st, longer, tables) /\ longer.count < MaxPage
        /\ q \in PagesOf(SessionView(longer), tables[t]) /\ SessionView(longer)[q].room > 0
    BY <1>1, <1>4, <1>7, QuietExtended
  <2> HIDE DEF longer, q
  <2>2. Unchanged(store, longer, tables)
    BY <1>4, <2>1 DEF Unchanged
  <2>3. store' = WithRow(longer, q, r)
    BY <1>9, <2>1
  <2> QED
    BY <1>6, <2>1, <2>2, <2>3
<1> QED
  BY <1>1, <1>8, <1>9

\* DELETE takes the row away.
LEMMA DeleteIsRemoveRow ==
    ASSUME Kept, NEW t \in Table, NEW r \in Row, Delete(t, r)
    PROVE  Kept' /\ Sql!RemoveRow(t, r)
<1> DEFINE st == Scanned(t)
           c == SessionView(store)
<1>1. /\ pc = "idle" /\ tables[t] # 0 /\ RoomToGrow
      /\ UNCHANGED <<tables, catalog, pc, copied, fresh>>
  BY DEF Delete
<1>2. PICK p \in PagesOf(c, tables[t]) :
        r \in c[p].rows /\ store' = Written(st, p, [c[p] EXCEPT !.rows = @ \ {r}])
  BY DEF Delete
<1>3. store \in Stores
  BY <1>1, KeptQuiet
<1>4. PICK P, H : Quiet(store, P, H, tables) /\ \A x \in fresh : H[x] = 0
  BY <1>1, KeptQuiet
<1>5. /\ Quiet(st, P, H, tables) /\ Unchanged(store, st, tables)
      /\ st.count = store.count /\ SessionView(st) = c
  BY <1>1, <1>3, <1>4, QuietScanned
<1> HIDE DEF st, c
<1>6. st.count < MaxPage
  <2>1. store.count \in Nat /\ MaxPage \in Nat
    BY <1>3, PageNumbers DEF Stores, StoreRecord
  <2> QED
    BY <1>1, <1>5, <2>1 DEF RoomToGrow
<1>7. HomesIn(c, PagesOf(c, tables[t]), H)
  <2>1. Sound(st, P, H) /\ Rooted(tables, P)
    BY <1>5 DEF Quiet
  <2> QED
    BY <1>5, <2>1, SoundTables
<1> DEFINE content == [c[p] EXCEPT !.rows = @ \ {r}]
           held == RowsOf(c, tables[t])
<1>8. /\ content \in Content /\ content.next = c[p].next /\ content.rows = c[p].rows \ {r}
      /\ \A x \in content.rows : H[x] = p
  BY <1>7 DEF HomesIn, Content
<1>9. content.rows \cup RowsBut(c, tables[t], p) = held \ {r} /\ r \in held
  BY <1>2, <1>7, <1>8, RowTaken
<1> HIDE DEF content, held
<1>10. Quiet(store', P, H, tables) /\ Changed(st, store', tables, t, held \ {r})
  BY <1>2, <1>5, <1>6, <1>8, <1>9, QuietWritten, ZenonT(60) DEF content
<1>11. Kept'
  <2>1. fresh' \subseteq fresh /\ \A x \in fresh' : H[x] = 0
    BY <1>1, <1>4
  <2> QED
    BY <1>1, <1>10, <2>1, QuietKept
<1>12. Sql!Becomes(t, held \ {r}) /\ Current[t] = held
  BY <1>1, <1>5, <1>10, <1>11, TableBecomes DEF held, c
<1>13. held # NoTable
  <2>1. held \in SUBSET Row
    BY <1>7 DEF HomesIn, held, RowsOf, Content
  <2> QED
    BY <2>1, NoTableIsNoContent
<1> QED
  BY <1>9, <1>11, <1>12, <1>13 DEF Sql!RemoveRow

\* UPDATE replaces the row.
LEMMA UpdateIsReplaceRow ==
    ASSUME Kept, NEW t \in Table, NEW r \in Row, NEW q \in Row, Update(t, r, q)
    PROVE  Kept' /\ Sql!ReplaceRow(t, r, q)
<1> DEFINE st == Scanned(t)
           c == SessionView(store)
<1>1. /\ pc = "idle" /\ tables[t] # 0 /\ RoomToGrow /\ q \in fresh /\ fresh' = fresh \ {q}
      /\ UNCHANGED <<tables, catalog, pc, copied>>
  BY DEF Update
<1>2. PICK p \in PagesOf(c, tables[t]) :
        r \in c[p].rows /\ store' = Written(st, p, [c[p] EXCEPT !.rows = (@ \ {r}) \cup {q}])
  BY DEF Update
<1>3. store \in Stores
  BY <1>1, KeptQuiet
<1>4. PICK P, H : Quiet(store, P, H, tables) /\ \A x \in fresh : H[x] = 0
  BY <1>1, KeptQuiet
<1>5. /\ Quiet(st, P, H, tables) /\ Unchanged(store, st, tables)
      /\ st.count = store.count /\ SessionView(st) = c
  BY <1>1, <1>3, <1>4, QuietScanned
<1> HIDE DEF st, c
<1>6. st.count < MaxPage
  <2>1. store.count \in Nat /\ MaxPage \in Nat
    BY <1>3, PageNumbers DEF Stores, StoreRecord
  <2> QED
    BY <1>1, <1>5, <2>1 DEF RoomToGrow
<1>7. Sound(st, P, H) /\ Rooted(tables, P) /\ H \in [Row -> Link] /\ H[q] = 0
  BY <1>1, <1>4, <1>5 DEF Quiet
<1>8. /\ HomesIn(c, PagesOf(c, tables[t]), H)
      /\ PagesOf(c, tables[t]) \in SUBSET P[t] /\ P[t] \in SUBSET Page
  <2>1. P[t] \in SUBSET Page
    BY <1>7 DEF Sound, Owned
  <2>2. HomesIn(c, PagesOf(c, tables[t]), H) /\ PagesOf(c, tables[t]) \in SUBSET P[t]
    BY <1>5, <1>7, SoundTables
  <2> QED
    BY <2>1, <2>2
<1>9. p \in Page /\ p # 0
  BY <1>8, PageNumbers
<1> DEFINE G == [H EXCEPT ![q] = p]
           content == [c[p] EXCEPT !.rows = (@ \ {r}) \cup {q}]
           held == RowsOf(c, tables[t])
<1>10. /\ G \in [Row -> Link] /\ G[q] = p /\ \A x \in Row : x # q => G[x] = H[x]
       /\ Quiet(st, P, G, tables)
  <2>1. Sound(st, P, G) /\ G \in [Row -> Link]
    BY <1>7, <1>9, NewHome
  <2>2. Quiet(st, P, G, tables)
    BY <1>5, <2>1 DEF Quiet
  <2> QED
    BY <1>7, <2>1, <2>2
<1> HIDE DEF G
<1>11. c[p] \in Content /\ c[p].rows \in SUBSET Row /\ \A x \in c[p].rows : H[x] = p
  BY <1>8 DEF HomesIn, Content
<1>12. /\ content \in Content /\ content.next = c[p].next
       /\ content.rows = (c[p].rows \ {r}) \cup {q}
  BY <1>11 DEF Content
<1> HIDE DEF content
<1>13. \A x \in content.rows : G[x] = p
  BY <1>9, <1>10, <1>11, <1>12
<1>14. /\ (c[p].rows \ {r}) \cup RowsBut(c, tables[t], p) = held \ {r} /\ r \in held
  BY <1>2, <1>8, RowTaken
<1>15. q \notin held /\ held \in SUBSET Row
  <2>1. \A x \in PagesOf(c, tables[t]) : x # 0
    BY <1>8, PageNumbers
  <2> QED
    BY <1>7, <1>8, <2>1 DEF HomesIn, RowsOf, Content
<1> HIDE DEF held
<1>16. (held \ {r}) \cup {q} = content.rows \cup RowsBut(c, tables[t], p)
  BY <1>12, <1>14
<1>17. Quiet(store', P, G, tables) /\ Changed(st, store', tables, t, (held \ {r}) \cup {q})
  BY <1>2, <1>5, <1>6, <1>10, <1>12, <1>13, <1>16, QuietWritten, ZenonT(60) DEF content
<1>18. Kept'
  <2>1. fresh' \subseteq fresh
    BY <1>1
  <2>2. fresh \subseteq Row
    BY DEF Kept, Typed
  <2>3. \A x \in fresh' : G[x] = 0
    BY <1>1, <1>4, <1>10, <2>2
  <2> QED
    BY <1>1, <1>17, <2>1, <2>3, QuietKept
<1>19. Sql!Becomes(t, (held \ {r}) \cup {q}) /\ Current[t] = held
  BY <1>1, <1>5, <1>17, <1>18, TableBecomes DEF held, c
<1>20. held # NoTable
  BY <1>15, NoTableIsNoContent
<1> QED
  BY <1>14, <1>15, <1>18, <1>19, <1>20 DEF Sql!ReplaceRow

\* SELECT changes nothing.
LEMMA SelectIsNothing ==
    ASSUME Kept, NEW t \in Table, Select(t)
    PROVE  Kept' /\ UNCHANGED <<Current, Committed, Durable, InTransaction>>
<1>1. /\ pc = "idle" /\ tables[t] # 0 /\ store' = Scanned(t)
      /\ UNCHANGED <<tables, catalog, pc, copied, fresh>>
  BY DEF Select
<1>2. store \in Stores
  BY <1>1, KeptQuiet
<1>3. PICK P, H : Quiet(store, P, H, tables) /\ \A x \in fresh : H[x] = 0
  BY <1>1, KeptQuiet
<1>4. Quiet(store', P, H, tables) /\ Unchanged(store, store', tables)
  BY <1>1, <1>2, <1>3, QuietScanned
<1>5. Kept'
  <2>1. fresh' \subseteq fresh /\ \A x \in fresh' : H[x] = 0
    BY <1>1, <1>3
  <2> QED
    BY <1>1, <1>4, <2>1, QuietKept
<1>6. pc # "copying" /\ pc' # "copying" /\ tables' = tables
  BY <1>1
<1>7. /\ Current = Contents(SessionView(store), tables)
      /\ Committed = Contents(BaseView(store), tables)
      /\ Durable = Contents(store.disk, tables)
      /\ InTransaction = store.active
  BY <1>6, PlainViews
<1>8. /\ Current' = Contents(SessionView(store'), tables)
      /\ Committed' = Contents(BaseView(store'), tables)
      /\ Durable' = Contents(store'.disk, tables)
      /\ InTransaction' = store'.active
  BY <1>5, <1>6, PlainViewsNext
<1> QED
  BY <1>4, <1>5, <1>7, <1>8 DEF Unchanged

\* A store that differs in the state of the session only.
LEMMA SameStore ==
    ASSUME NEW st, NEW P, NEW H, Sound(st, P, H), NEW new \in Stores,
           new.disk = st.disk, new.cache = st.cache, new.count = st.count, new.free = st.free,
           new.shadows = st.shadows, new.dirty = st.dirty, ~ new.active => new.shadows = <<>>
    PROVE  /\ Sound(new, P, H)
           /\ SessionView(new) = SessionView(st) /\ BaseView(new) = BaseView(st)
           /\ Clean(st) => Clean(new)
           /\ \A roots : /\ Trails(st, roots) => Trails(new, roots)
                         /\ Unborn(st, roots) => Unborn(new, roots)
<1>1. Owned(st, P) /\ Settled(st, P, H) /\ Paired(st)
  BY DEF Sound
<1>2. \A p, O : LeadsInto(st, p, O) => LeadsInto(new, p, O)
  BY DEF LeadsInto
<1>3. Owned(new, P)
  BY <1>1, <1>2 DEF Owned
<1>4. \A p, o : Holds(st, p, o, H) => Holds(new, p, o, H)
  BY DEF Holds
<1>5. Settled(new, P, H)
  BY <1>1, <1>4 DEF Settled
<1>6. Paired(new)
  BY <1>1 DEF Paired
<1>7. SessionView(new) = SessionView(st) /\ BaseView(new) = BaseView(st)
  BY DEF SessionView, BaseView, Where, ShadowOf, Base
<1>8. Clean(st) => Clean(new)
  BY DEF Clean
<1>9. \A roots : /\ Trails(st, roots) => Trails(new, roots)
                 /\ Unborn(st, roots) => Unborn(new, roots)
  BY <1>7 DEF Trails, Unborn
<1> QED
  BY <1>3, <1>5, <1>6, <1>7, <1>8, <1>9 DEF Sound

\* The pool and the transaction are forgotten: what is left is the file.
LEMMA Forgotten ==
    ASSUME NEW st, NEW P, NEW H, Sound(st, P, H), NEW new \in Stores,
           new.disk = st.disk, new.count = st.count, new.free = st.free,
           new.shadows = <<>>, new.cache = [p \in Page |-> NoPage]
    PROVE  /\ Sound(new, P, H) /\ Clean(new)
           /\ \A roots : Trails(new, roots) /\ Unborn(new, roots)
           /\ SessionView(new) = st.disk /\ BaseView(new) = st.disk
<1>1. st \in Stores /\ Owned(st, P) /\ Settled(st, P, H)
  BY DEF Sound
<1>2. \A p \in Page : new.cache[p] = NoPage
  OBVIOUS
<1>3. \A O : \A p \in Page : LeadsInto(st, p, O) => LeadsInto(new, p, O)
  BY <1>2 DEF LeadsInto
<1>4. \A p \in Page : p > st.count => new.cache[p] = NoPage /\ new.disk[p].next = 0
  BY <1>1, <1>2 DEF Owned
<1>5. Owned(new, P)
  BY <1>1, <1>3, <1>4, OwnedRewritten
<1>6. \A p \in Page : \A o : Holds(st, p, o, H) => Holds(new, p, o, H)
  BY <1>2 DEF Holds
<1>7. \A t \in Table : P[t] \in SUBSET Page
  BY <1>1 DEF Owned
<1>8. Settled(new, P, H)
  BY <1>1, <1>6, <1>7 DEF Settled
<1>9. Paired(new)
  BY DEF Paired
<1>10. Clean(new)
  BY <1>2 DEF Clean
<1>11. BaseView(new) = st.disk /\ \A roots : Trails(new, roots) /\ Unborn(new, roots)
  BY <1>2, FlushedStore
<1>12. SessionView(new) = BaseView(new)
  BY OneView
<1> QED
  BY <1>5, <1>8, <1>9, <1>10, <1>11, <1>12 DEF Sound

\* A page of the pool is written to the file.
LEMMA FlushedPage ==
    ASSUME NEW st, NEW P, NEW H, Sound(st, P, H), NEW roots, Rooted(roots, P),
           Trails(st, roots), NEW q \in st.dirty, NEW new \in Stores,
           new.disk = [st.disk EXCEPT ![q] = st.cache[q]], new.dirty = st.dirty \ {q},
           new.cache = st.cache, new.count = st.count, new.free = st.free,
           new.shadows = st.shadows, new.active = st.active
    PROVE  /\ Sound(new, P, H)
           /\ Clean(st) => Clean(new)
           /\ Trails(new, roots)
           /\ SessionView(new) = SessionView(st) /\ BaseView(new) = BaseView(st)
           /\ \A t \in Table : /\ PagesOf(st.disk, roots[t]) \in SUBSET PagesOf(new.disk, roots[t])
                               /\ PagesOf(new.disk, roots[t]) \in SUBSET PagesOf(BaseView(st), roots[t])
<1>1. /\ st \in Stores /\ Owned(st, P) /\ Settled(st, P, H) /\ Paired(st)
      /\ q \in Page /\ st.cache[q] # NoPage
  BY DEF Sound, Stores, StoreRecord
<1>2. \A p \in Page : new.disk[p] = IF p = q THEN st.cache[q] ELSE st.disk[p]
  BY <1>1 DEF Stores, StoreRecord
<1>3. ~ (q > st.count)
  BY <1>1 DEF Owned
<1>4. \A p \in Page : p > st.count => new.cache[p] = NoPage /\ new.disk[p].next = 0
  BY <1>1, <1>2, <1>3 DEF Owned
<1>5. \A O : \A p \in Page : LeadsInto(st, p, O) => LeadsInto(new, p, O)
  BY <1>1, <1>2 DEF LeadsInto
<1>6. Owned(new, P)
  BY <1>1, <1>4, <1>5, OwnedRewritten
<1>7. \A p \in Page : \A o : Holds(st, p, o, H) => Holds(new, p, o, H)
  BY <1>1, <1>2 DEF Holds
<1>8. \A t \in Table : P[t] \in SUBSET Page
  BY <1>1 DEF Owned
<1>9. \A i \in DOMAIN st.shadows : st.shadows[i][2] \in Page
  BY <1>1, ShadowPairs
<1>10. Settled(new, P, H)
  BY <1>1, <1>2, <1>3, <1>7, <1>8, <1>9 DEF Settled
<1>11. Paired(new)
  BY <1>1 DEF Paired
<1>12. Sound(new, P, H)
  BY <1>6, <1>10, <1>11 DEF Sound
<1>13. Clean(st) => Clean(new)
  BY <1>2 DEF Clean
<1>14. \A p \in Page : Base(new, p) = Base(st, p)
  BY <1>1, <1>2 DEF Base
<1>15. \A p \in Page : Where(new, p) = Where(st, p) /\ Where(st, p) \in Page
  <2>1. \A p : Where(new, p) = Where(st, p)
    BY DEF Where, ShadowOf
  <2> QED
    BY <1>1, <2>1, ViewTypes
<1>16. SessionView(new) = SessionView(st) /\ BaseView(new) = BaseView(st)
  BY <1>14, <1>15 DEF SessionView, BaseView
<1>17. BaseView(st)[q] = st.cache[q]
  BY <1>1 DEF BaseView, Base
<1>18. ASSUME NEW t \in Table
       PROVE  /\ PagesOf(st.disk, roots[t]) \in SUBSET PagesOf(new.disk, roots[t])
              /\ PagesOf(new.disk, roots[t]) \in SUBSET PagesOf(BaseView(st), roots[t])
  <2> DEFINE B == PagesOf(BaseView(st), roots[t])
             D == PagesOf(st.disk, roots[t])
             N == PagesOf(new.disk, roots[t])
  <2>1. /\ Forward(BaseView(st), P[t]) /\ Forward(st.disk, P[t]) /\ Forward(new.disk, P[t])
        /\ roots[t] \in P[t] \cup {0}
    <3>1. Forward(BaseView(st), P[t]) /\ Forward(st.disk, P[t])
      BY SoundViews
    <3>2. Forward(new.disk, P[t])
      BY <1>12, SoundViews
    <3> QED
      BY <3>1, <3>2 DEF Rooted
  <2>2. /\ B \in SUBSET P[t] /\ roots[t] \in B \cup {0}
        /\ \A p \in B : BaseView(st)[p].next \in B \cup {0}
    BY <2>1, ChainPages
  <2>3. /\ N \in SUBSET P[t] /\ roots[t] \in N \cup {0}
        /\ \A p \in N : new.disk[p].next \in N \cup {0}
    <3> DEFINE disk == new.disk
    <3> HIDE DEF disk
    <3>1. Forward(disk, P[t]) /\ roots[t] \in P[t] \cup {0} /\ N = PagesOf(disk, roots[t])
      BY <2>1 DEF disk
    <3>2. /\ N \in SUBSET P[t] /\ roots[t] \in N \cup {0}
          /\ \A p \in N : disk[p].next \in N \cup {0}
      BY <3>1, ChainPages
    <3> QED
      BY <3>2 DEF disk
  <2>4. /\ D \in SUBSET B /\ P[t] \in SUBSET Page
    BY <1>8, DiskChain
  <2>5. \A p \in B : st.disk[p].next \in {0, BaseView(st)[p].next}
    BY DEF Trails
  <2> HIDE DEF B, D, N
  <2>6. \A p \in B : new.disk[p].next \in B \cup {0}
    BY <1>2, <1>17, <2>2, <2>4, <2>5
  <2>7. Forward(new.disk, B)
    BY <2>1, <2>2, <2>6 DEF Forward
  <2>8. N \in SUBSET B
    BY <2>2, <2>7, ChainPages DEF N
  <2>9. \A p \in N : st.disk[p].next \in N \cup {0}
    <3>1. ASSUME NEW p \in N PROVE st.disk[p].next \in N \cup {0}
      <4>1. CASE p = q
        BY <1>2, <1>17, <2>3, <2>4, <2>5, <2>8, <4>1
      <4>2. CASE p # q
        BY <1>2, <2>3, <2>4, <4>2
      <4> QED
        BY <4>1, <4>2
    <3> QED
      BY <3>1
  <2>10. Forward(st.disk, N)
    BY <2>1, <2>3, <2>9 DEF Forward
  <2>11. D \in SUBSET N
    BY <2>3, <2>10, ChainPages DEF D
  <2> QED
    BY <2>8, <2>11 DEF B, D, N
<1>19. Trails(new, roots)
  <2> SUFFICES ASSUME NEW t \in Table, NEW p \in PagesOf(BaseView(st), roots[t])
               PROVE  /\ new.disk[p].next \in {0, BaseView(st)[p].next}
                      /\ p \notin PagesOf(new.disk, roots[t])
                           => new.disk[p].rows \subseteq BaseView(st)[p].rows
    BY <1>16 DEF Trails
  <2>1. /\ st.disk[p].next \in {0, BaseView(st)[p].next}
        /\ p \notin PagesOf(st.disk, roots[t]) => st.disk[p].rows \subseteq BaseView(st)[p].rows
    BY DEF Trails
  <2>2. p \in Page
    BY <1>8, DiskChain
  <2>3. new.disk[p] = st.disk[p] \/ new.disk[p] = BaseView(st)[p]
    BY <1>2, <1>17, <2>2
  <2> QED
    BY <1>18, <2>1, <2>3
<1> QED
  BY <1>12, <1>13, <1>16, <1>18, <1>19

\* A shadow page is copied over its original: the pool hides it from the session.
LEMMA CopiedPage ==
    ASSUME NEW st, NEW P, NEW H, Sound(st, P, H), NEW l \in Nat, Halfway(st, l),
           l + 1 \in DOMAIN st.shadows, NEW new \in Stores,
           new.disk = [st.disk EXCEPT
                ![st.shadows[l + 1][1]] = st.disk[st.shadows[l + 1][2]]],
           new.dirty = st.dirty, new.cache = st.cache, new.count = st.count,
           new.free = st.free, new.shadows = st.shadows, new.active = st.active
    PROVE  /\ Sound(new, P, H) /\ Halfway(new, l + 1)
           /\ SessionView(new) = SessionView(st) /\ BaseView(new) = BaseView(st)
<1> DEFINE k == l + 1
           a == st.shadows[k][1]
           b == st.shadows[k][2]
<1>1. /\ st \in Stores /\ Owned(st, P) /\ Settled(st, P, H) /\ Paired(st)
      /\ k \in DOMAIN st.shadows
  BY DEF Sound
<1>2. a \in Page /\ b \in Page
  BY <1>1, ShadowPairs
<1>3. new.disk = [st.disk EXCEPT ![a] = st.disk[b]]
  OBVIOUS
<1>4. /\ st.shadows[k][1] = a /\ st.shadows[k][2] = b
      /\ st.cache[a] # NoPage /\ st.cache[b] # NoPage
      /\ \A i \in DOMAIN st.shadows : i # k => st.shadows[i][1] # a
      /\ \A i \in DOMAIN st.shadows : st.shadows[i][2] # a
  <2>1. st.cache[a] # NoPage /\ st.cache[b] # NoPage
    BY <1>1 DEF Paired
  <2>2. \A i \in DOMAIN st.shadows : i # k => st.shadows[i][1] # a
    BY <1>1 DEF Paired
  <2>3. PICK t \in Table : a \in P[t]
    BY <1>1 DEF Owned
  <2>4. \A i \in DOMAIN st.shadows : st.shadows[i][2] # a
    BY <1>1, <2>3 DEF Owned
  <2> QED
    BY <2>1, <2>2, <2>4, SMTT(60)
<1>5. ~ (a > st.count)
  <2>1. a <= st.count
    BY <1>1 DEF Owned
  <2>2. a \in Nat /\ st.count \in Nat
    BY <1>1, <1>2, PageNumbers DEF Stores, StoreRecord
  <2> QED
    BY <2>1, <2>2
<1>6. k \in Nat /\ k = l + 1 /\ \A i \in 1 .. k : i = k \/ i \in 1 .. l
  OBVIOUS
<1>7. 1 .. k \subseteq DOMAIN st.shadows
  <2>1. DOMAIN st.shadows = 1 .. Len(st.shadows) /\ Len(st.shadows) \in Nat
    BY <1>1 DEF Stores, StoreRecord
  <2>2. k <= Len(st.shadows)
    BY <1>1, <2>1
  <2> QED
    BY <1>6, <2>1, <2>2
<1>8. Halfway(st, l) /\ 1 .. l \subseteq 1 .. k
  OBVIOUS
<1> HIDE DEF k, a, b
<1>9. \A p \in Page : new.disk[p] = IF p = a THEN st.disk[b] ELSE st.disk[p]
  BY <1>1, <1>2, <1>3 DEF Stores, StoreRecord
<1> DEFINE disk == new.disk
<1>10. \A p \in Page : disk[p] = IF p = a THEN st.disk[b] ELSE st.disk[p]
  BY <1>9
<1> HIDE DEF disk
<1>11. new.disk = disk
  BY DEF disk
<1>12. \A p \in Page : p > st.count => new.cache[p] = NoPage /\ disk[p].next = 0
  BY <1>1, <1>5, <1>10, SMTT(60) DEF Owned
<1>13. ASSUME NEW O, NEW p \in Page, LeadsInto(st, p, O),
              \A i \in DOMAIN st.shadows :
                 st.shadows[i][1] = p => LeadsInto(st, st.shadows[i][2], O)
       PROVE  LeadsInto(new, p, O)
  <2>1. p = a => LeadsInto(st, b, O)
    BY <1>1, <1>4, <1>13, SMTT(60)
  <2>2. disk[p].next \in O \cup {0}
    BY <1>10, <1>13, <2>1 DEF LeadsInto
  <2> QED
    BY <1>11, <1>13, <2>2 DEF LeadsInto
<1>14. Owned(new, P)
  BY <1>1, <1>11, <1>12, <1>13, OwnedRewritten
<1>15. Holds(st, b, a, H)
  BY <1>1, <1>4 DEF Settled
<1>16. ASSUME NEW p \in Page, NEW o, p = a => o = a, Holds(st, p, o, H) PROVE Holds(new, p, o, H)
  <2>1. Version(disk[p], o, H)
    BY <1>10, <1>15, <1>16, SMTT(60) DEF Holds
  <2> QED
    BY <1>11, <1>16, <2>1 DEF Holds
<1>17. Settled(new, P, H)
  <2>1. \A t \in Table : \A p \in P[t] : Holds(new, p, p, H)
    <3>1. \A t \in Table : P[t] \in SUBSET Page
      BY <1>1 DEF Owned
    <3> QED
      BY <1>1, <1>16, <3>1 DEF Settled
  <2>2. \A i \in DOMAIN st.shadows : Holds(new, st.shadows[i][2], st.shadows[i][1], H)
    <3>1. \A i \in DOMAIN st.shadows : st.shadows[i][2] \in Page /\ st.shadows[i][2] # a
      BY <1>1, <1>4, ShadowPairs
    <3> QED
      BY <1>1, <1>16, <3>1 DEF Settled
  <2>3. \A p \in Page : p > st.count => disk[p].rows = {}
    BY <1>1, <1>5, <1>10, SMTT(60) DEF Settled
  <2> QED
    BY <1>11, <2>1, <2>2, <2>3 DEF Settled
<1>18. Paired(new)
  BY <1>1 DEF Paired
<1>19. \A p \in Page : Base(new, p) = Base(st, p)
  <2>1. \A p \in Page : disk[p] = st.disk[p] \/ st.cache[p] # NoPage
    BY <1>4, <1>10
  <2> QED
    BY <1>11, <2>1 DEF Base
<1>20. \A p \in Page : Where(new, p) = Where(st, p) /\ Where(st, p) \in Page
  <2>1. \A p : Where(new, p) = Where(st, p)
    BY DEF Where, ShadowOf
  <2> QED
    BY <1>1, <2>1, ViewTypes
<1>21. SessionView(new) = SessionView(st) /\ BaseView(new) = BaseView(st)
  BY <1>19, <1>20 DEF SessionView, BaseView
<1>22. Halfway(new, k)
  <2>1. \A i \in DOMAIN st.shadows : disk[st.shadows[i][2]] = st.cache[st.shadows[i][2]]
    <3>1. \A i \in DOMAIN st.shadows : st.shadows[i][2] \in Page /\ st.shadows[i][2] # a
      BY <1>1, <1>4, ShadowPairs
    <3> QED
      BY <1>8, <1>10, <3>1, SMTT(60) DEF Halfway, HalfwayIn
  <2>2. ASSUME NEW p \in Page, st.cache[p] # NoPage, \A i \in 1 .. k : st.shadows[i][1] # p
        PROVE  disk[p] = st.cache[p]
    <3>1. p # a
      BY <1>4, <1>6, <2>2
    <3>2. \A i \in 1 .. l : st.shadows[i][1] # p
      BY <1>8, <2>2
    <3> QED
      BY <1>8, <1>10, <2>2, <3>1, <3>2 DEF Halfway, HalfwayIn
  <2>3. ASSUME NEW i \in 1 .. k PROVE disk[st.shadows[i][1]] = disk[st.shadows[i][2]]
    <3>1. /\ i \in DOMAIN st.shadows /\ st.shadows[i][2] \in Page /\ st.shadows[i][1] \in Page
          /\ st.shadows[i][2] # a
      BY <1>1, <1>4, <1>7, ShadowPairs
    <3>2. CASE i = k
      BY <1>4, <1>10, <3>1, <3>2, SMTT(60)
    <3>3. CASE i # k
      <4>1. i \in 1 .. l /\ st.shadows[i][1] # a
        BY <1>4, <1>6, <3>1, <3>3, SMTT(60)
      <4> QED
        BY <1>8, <1>10, <3>1, <4>1 DEF Halfway, HalfwayIn
    <3> QED
      BY <3>2, <3>3
  <2>4. HalfwayIn(disk, st.cache, st.shadows, k)
    BY <2>1, <2>2, <2>3 DEF HalfwayIn
  <2>5. new.disk = disk /\ new.cache = st.cache /\ new.shadows = st.shadows
    BY <1>11
  <2>6. HalfwayIn(new.disk, new.cache, new.shadows, k)
    BY <2>4, <2>5
  <2> QED
    BY <2>6, SMTT(60) DEF Halfway
<1> QED
  BY <1>14, <1>17, <1>18, <1>21, <1>22 DEF Sound, k

\* When all shadow pages are copied, the file has what the session sees.
LEMMA HalfwayDone ==
    ASSUME NEW st, NEW P, NEW H, Sound(st, P, H), Halfway(st, Len(st.shadows))
    PROVE  SameOn(SessionView(st), st.disk, P)
<1>1. /\ st \in Stores /\ Owned(st, P) /\ Settled(st, P, H) /\ Paired(st)
      /\ DOMAIN st.shadows = 1 .. Len(st.shadows)
  BY DEF Sound, Stores, StoreRecord
<1>2. ASSUME NEW t \in Table, NEW p \in P[t] PROVE st.disk[p] = Base(st, Where(st, p))
  <2>1. p \in Page
    BY <1>1 DEF Owned
  <2>2. ASSUME NEW i \in DOMAIN st.shadows, st.shadows[i][1] = p, Where(st, p) = st.shadows[i][2]
        PROVE  st.disk[p] = Base(st, Where(st, p))
    <3>1. st.cache[st.shadows[i][2]] # NoPage
      BY <1>1 DEF Paired
    <3>2. st.disk[st.shadows[i][2]] = st.cache[st.shadows[i][2]]
      BY DEF Halfway, HalfwayIn
    <3>3. st.disk[st.shadows[i][1]] = st.disk[st.shadows[i][2]]
      BY <1>1 DEF Halfway, HalfwayIn
    <3> QED
      BY <2>2, <3>1, <3>2, <3>3 DEF Base
  <2>3. CASE Where(st, p) = p /\ ShadowOf(st, p) = {}
    <3>1. \A i \in 1 .. Len(st.shadows) : st.shadows[i][1] # p
      BY <1>1, <2>3 DEF ShadowOf
    <3>2. st.cache[p] # NoPage => st.disk[p] = st.cache[p]
      BY <2>1, <3>1 DEF Halfway, HalfwayIn
    <3> QED
      BY <2>3, <3>2 DEF Base
  <2> QED
    BY <2>2, <2>3, WhereIs
<1>3. \A t \in Table : \A p \in P[t] : SessionView(st)[p] = Base(st, Where(st, p))
  BY <1>1, ViewTypes DEF Owned
<1> QED
  BY <1>2, <1>3 DEF SameOn

\* The table t gets the root page q.
RootAdded(roots, new, t, q) == new[t] = q /\ \A u \in Table : u # t => new[u] = roots[u]

\* A table with one empty page is empty.
LEMMA NewTable ==
    ASSUME NEW c, NEW d, NEW P, NEW roots, InTables(c, roots, P), SameOn(c, d, P),
           NEW t \in Table, NEW q \in Page, d[q] = Empty, NEW new, RootAdded(roots, new, t, q)
    PROVE  /\ Contents(d, new) = Replaced(Contents(c, roots), t, {})
           /\ PagesOf(d, q) = {q}
           /\ \A u \in Table : PagesOf(d, roots[u]) = PagesOf(c, roots[u])
<1>1. new[t] = q /\ \A u \in Table : u # t => new[u] = roots[u]
  BY DEF RootAdded
<1>2. q # 0 /\ Empty.next = 0 /\ Empty.rows = {}
  BY PageNumbers DEF Empty
<1>3. PagesOf(d, q) = {q}
  <2>1. Forward(d, {q}) /\ q \in {q} \cup {0}
    BY <1>2 DEF Forward
  <2>2. PagesOf(d, q) \in SUBSET {q} /\ q \in PagesOf(d, q)
    BY <1>2, <2>1, ChainPages
  <2> QED
    BY <2>2
<1>4. RowsOf(d, q) = {}
  BY <1>2, <1>3 DEF RowsOf
<1>5. /\ \A u \in Table : PagesOf(d, roots[u]) = PagesOf(c, roots[u])
      /\ Contents(d, roots) = Contents(c, roots)
  BY SameContents
<1> DEFINE e == Contents(d, new)
           f == Replaced(Contents(c, roots), t, {})
<1>6. ASSUME NEW u \in Table PROVE e[u] = f[u]
  <2>1. CASE u = t
    BY <1>1, <1>2, <1>4, <2>1 DEF Contents, Replaced
  <2>2. CASE u # t
    <3>1. Contents(d, roots)[u] = Contents(c, roots)[u]
      BY <1>5
    <3>2. e[u] = Contents(d, roots)[u]
      BY <1>1, <2>2 DEF Contents
    <3>3. f[u] = Contents(c, roots)[u]
      BY <2>2 DEF Contents, Replaced
    <3> QED
      BY <3>1, <3>2, <3>3
  <2> QED
    BY <2>1, <2>2
<1>7. e = [u \in Table |-> e[u]] /\ f = [u \in Table |-> f[u]]
  BY DEF Contents, Replaced
<1> HIDE DEF e, f
<1>8. e = f
  BY <1>6, <1>7
<1> QED
  BY <1>3, <1>5, <1>8 DEF e, f

\* The three contents of the tables while COMMIT is copying: it takes effect with
\* its last shadow page.
LEMMA CopyingViews ==
    ASSUME Kept, pc = "copying"
    PROVE  /\ Current = Contents(SessionView(store), tables)
           /\ copied = Len(store.shadows) =>
                /\ Committed = Current /\ Durable = Contents(store.disk, tables)
                /\ InTransaction = FALSE
           /\ copied # Len(store.shadows) =>
                /\ Committed = Contents(BaseView(store), tables) /\ Durable = Committed
                /\ InTransaction = TRUE
<1>1. tables = catalog /\ store.active = TRUE
  BY DEF Kept, Typed, Stores, StoreRecord
<1>2. Current = Contents(SessionView(store), tables)
  BY DEF Current
<1>3. ASSUME copied = Len(store.shadows)
      PROVE  /\ Committed = Current /\ Durable = Contents(store.disk, tables)
             /\ InTransaction = FALSE
  <2>1. Switched
    BY <1>3 DEF Switched
  <2> QED
    BY <1>1, <2>1 DEF Committed, Durable, InTransaction
<1>4. ASSUME copied # Len(store.shadows)
      PROVE  /\ Committed = Contents(BaseView(store), tables) /\ Durable = Committed
             /\ InTransaction = TRUE
  <2>1. ~ Switched
    BY <1>4 DEF Switched
  <2> QED
    BY <1>1, <2>1 DEF Committed, Durable, InTransaction
<1> QED
  BY <1>2, <1>3, <1>4

\* The same after a step.
LEMMA CopyingViewsNext ==
    ASSUME Kept', pc' = "copying"
    PROVE  /\ Current' = Contents(SessionView(store'), tables')
           /\ copied' = Len(store'.shadows) =>
                /\ Committed' = Current' /\ Durable' = Contents(store'.disk, tables')
                /\ InTransaction' = FALSE
           /\ copied' # Len(store'.shadows) =>
                /\ Committed' = Contents(BaseView(store'), tables') /\ Durable' = Committed'
                /\ InTransaction' = TRUE
<1>1. tables' = catalog' /\ store'.active = TRUE
  BY DEF Kept, Typed, Stores, StoreRecord
<1>2. Current' = Contents(SessionView(store'), tables')
  BY DEF Current
<1>3. ASSUME copied' = Len(store'.shadows)
      PROVE  /\ Committed' = Current' /\ Durable' = Contents(store'.disk, tables')
             /\ InTransaction' = FALSE
  <2>1. Switched'
    BY <1>3 DEF Switched
  <2> QED
    BY <1>1, <2>1 DEF Committed, Durable, InTransaction
<1>4. ASSUME copied' # Len(store'.shadows)
      PROVE  /\ Committed' = Contents(BaseView(store'), tables') /\ Durable' = Committed'
             /\ InTransaction' = TRUE
  <2>1. ~ Switched'
    BY <1>4 DEF Switched
  <2> QED
    BY <1>1, <2>1 DEF Committed, Durable, InTransaction
<1> QED
  BY <1>2, <1>3, <1>4

\* BEGIN opens a transaction.
LEMMA BeginIsOpen ==
    ASSUME Kept, Begin
    PROVE  Kept' /\ Sql!Open
<1>1. /\ pc = "idle" /\ ~ store.active /\ store' = [store EXCEPT !.active = TRUE]
      /\ UNCHANGED <<tables, catalog, pc, copied, fresh>>
  BY DEF Begin
<1>2. store \in Stores /\ tables = catalog
  BY <1>1, KeptQuiet
<1>3. PICK P, H : Quiet(store, P, H, tables) /\ \A x \in fresh : H[x] = 0
  BY <1>1, KeptQuiet
<1>4. Typed /\ Typed'
  BY TypedGoesOn DEF Kept, Next, Statement
<1>5. store' \in Stores
  BY <1>4 DEF Typed
<1>6. /\ store'.disk = store.disk /\ store'.cache = store.cache /\ store'.count = store.count
      /\ store'.free = store.free /\ store'.shadows = store.shadows /\ store'.dirty = store.dirty
      /\ store'.active = TRUE /\ store.active = FALSE
  BY <1>1, <1>2 DEF Stores, StoreRecord
<1>7. /\ Sound(store, P, H) /\ H \in [Row -> Link] /\ Rooted(tables, P)
      /\ Clean(store) /\ Trails(store, tables) /\ Unborn(store, tables)
  BY <1>3 DEF Quiet
<1>8. /\ Sound(store', P, H) /\ Clean(store')
      /\ Trails(store', tables) /\ Unborn(store', tables)
      /\ SessionView(store') = SessionView(store) /\ BaseView(store') = BaseView(store)
  BY <1>5, <1>6, <1>7, SameStore
<1>9. Quiet(store', P, H, tables)
  BY <1>7, <1>8 DEF Quiet
<1>10. Kept'
  BY <1>1, <1>3, <1>9, QuietKept
<1>11. pc # "copying" /\ pc' # "copying" /\ tables' = tables
  BY <1>1
<1>12. /\ Current = Contents(SessionView(store), tables)
       /\ Committed = Contents(BaseView(store), tables)
       /\ Durable = Contents(store.disk, tables)
       /\ InTransaction = store.active
  BY <1>11, PlainViews
<1>13. /\ Current' = Contents(SessionView(store'), tables)
       /\ Committed' = Contents(BaseView(store'), tables)
       /\ Durable' = Contents(store'.disk, tables)
       /\ InTransaction' = store'.active
  BY <1>10, <1>11, PlainViewsNext
<1>14. Current' = Current /\ Committed' = Committed /\ Durable' = Durable
  BY <1>6, <1>8, <1>12, <1>13
<1> QED
  BY <1>6, <1>10, <1>12, <1>13, <1>14 DEF Sql!Open

\* Between two writes nothing changes: COMMIT and closing begin with a flush, and
\* CREATE ends with one.
LEMMA PauseIsNothing ==
    ASSUME Kept, Commit \/ Close \/ EndSave
    PROVE  Kept' /\ UNCHANGED <<Current, Committed, Durable, InTransaction>>
<1>1. /\ UNCHANGED <<store, tables, catalog, copied, fresh>>
      /\ pc # "copying" /\ pc' # "copying" /\ pc' # "dropping"
      /\ pc' = "committing" => store.active
      /\ pc' = "idle" => store.dirty = {}
  BY DEF Commit, Close, EndSave
<1>2. Typed /\ Typed'
  BY TypedGoesOn DEF Kept, Next, Statement, Step
<1>3. PICK P, H : HomesAre(P, H)
  BY DEF Kept
<1>4. HomesAre(P, H)'
  BY <1>1, <1>3 DEF HomesAre
<1>5. tables = catalog /\ Clean(store) /\ Trails(store, tables) /\ store \in Stores
  BY <1>1, <1>2 DEF Kept, Typed
<1>6. pc' = "idle" => Unborn(store, tables)
  <2> SUFFICES ASSUME pc' = "idle" PROVE Unborn(store, tables)
    OBVIOUS
  <2>1. \A p \in Page : store.cache[p] # NoPage => store.cache[p] = store.disk[p]
    BY <1>1, <1>5 DEF Clean
  <2> QED
    BY <1>5, <2>1, FlushedStore
<1>7. Kept'
  BY <1>1, <1>2, <1>4, <1>5, <1>6 DEF Kept
<1>8. tables' = tables /\ store' = store
  BY <1>1
<1>9. /\ Current = Contents(SessionView(store), tables)
      /\ Committed = Contents(BaseView(store), tables)
      /\ Durable = Contents(store.disk, tables)
      /\ InTransaction = store.active
  BY <1>1, PlainViews
<1>10. /\ Current' = Contents(SessionView(store'), tables)
       /\ Committed' = Contents(BaseView(store'), tables)
       /\ Durable' = Contents(store'.disk, tables)
       /\ InTransaction' = store'.active
  BY <1>1, <1>7, <1>8, PlainViewsNext
<1> QED
  BY <1>7, <1>8, <1>9, <1>10

\* The copying starts when the pool is flushed; without a shadow page this is
\* where COMMIT takes effect.
LEMMA StartCopyingIsCommit ==
    ASSUME Kept, StartCopying
    PROVE  /\ Kept'
           /\ \/ Sql!Commit
              \/ UNCHANGED <<Current, Committed, Durable, InTransaction>>
<1>1. /\ UNCHANGED <<store, tables, catalog, copied, fresh>>
      /\ pc = "committing" /\ pc' = "copying" /\ store.dirty = {}
  BY DEF StartCopying
<1>2. Typed /\ Typed'
  BY TypedGoesOn DEF Kept, Next, Step
<1>3. PICK P, H : HomesAre(P, H)
  BY DEF Kept
<1>4. HomesAre(P, H)'
  BY <1>1, <1>3 DEF HomesAre
<1>5. tables = catalog /\ Clean(store) /\ store \in Stores /\ store.active = TRUE /\ copied = 0
  BY <1>1, <1>2 DEF Kept, Typed, Stores, StoreRecord
<1>6. \A p \in Page : store.cache[p] # NoPage => store.cache[p] = store.disk[p]
  BY <1>1, <1>5 DEF Clean
<1>7. BaseView(store) = store.disk
  BY <1>5, <1>6, FlushedStore
<1>8. Sound(store, P, H)
  BY <1>3 DEF HomesAre
<1>9. HalfwayIn(store.disk, store.cache, store.shadows, 0)
  <2>1. Paired(store) /\ store \in Stores
    BY <1>8 DEF Sound
  <2>2. \A i \in DOMAIN store.shadows :
          store.shadows[i][2] \in Page /\ store.cache[store.shadows[i][2]] # NoPage
    BY <2>1, ShadowPairs DEF Paired
  <2>3. \A i \in 1 .. 0 : FALSE
    OBVIOUS
  <2> QED
    BY <1>6, <2>2, <2>3 DEF HalfwayIn
<1>10. Halfway(store', copied')
  BY <1>1, <1>5, <1>9 DEF Halfway
<1>11. Kept'
  BY <1>1, <1>2, <1>4, <1>5, <1>10 DEF Kept
<1>12. pc # "copying" /\ tables' = tables /\ store' = store /\ copied' = 0
  BY <1>1, <1>5
<1>13. /\ Current = Contents(SessionView(store), tables)
       /\ Committed = Contents(BaseView(store), tables)
       /\ Durable = Contents(store.disk, tables)
       /\ InTransaction = store.active
  BY <1>12, PlainViews
<1>14. /\ Current' = Contents(SessionView(store), tables)
       /\ copied' = Len(store'.shadows) =>
            /\ Committed' = Current' /\ Durable' = Contents(store.disk, tables)
            /\ InTransaction' = FALSE
       /\ copied' # Len(store'.shadows) =>
            /\ Committed' = Contents(BaseView(store), tables) /\ Durable' = Committed'
            /\ InTransaction' = TRUE
  BY <1>1, <1>11, <1>12, CopyingViewsNext
<1>15. CASE copied' = Len(store'.shadows)
  <2>1. store.shadows = <<>>
    <3>1. Len(store.shadows) = 0 /\ store.shadows \in Seq(Page \X Page)
      BY <1>5, <1>12, <1>15 DEF Stores, StoreRecord
    <3> QED
      BY <3>1
  <2>2. SessionView(store) = BaseView(store)
    BY <1>5, <2>1, OneView
  <2>3. Sql!Commit
    BY <1>5, <1>7, <1>13, <1>14, <1>15, <2>2 DEF Sql!Commit
  <2> QED
    BY <1>11, <2>3
<1>16. CASE copied' # Len(store'.shadows)
  <2>1. UNCHANGED <<Current, Committed, Durable, InTransaction>>
    BY <1>5, <1>7, <1>13, <1>14, <1>16
  <2> QED
    BY <1>11, <2>1
<1> QED
  BY <1>15, <1>16

\* COMMIT takes effect with the last copy, and none of the others is seen.
LEMMA CopyPageIsCommit ==
    ASSUME Kept, CopyPage
    PROVE  /\ Kept'
           /\ \/ Sql!Commit
              \/ UNCHANGED <<Current, Committed, Durable, InTransaction>>
<1> DEFINE k == copied + 1
           a == store.shadows[k][1]
           b == store.shadows[k][2]
           disk == [store.disk EXCEPT ![a] = store.disk[b]]
<1>1. /\ pc = "copying" /\ copied < Len(store.shadows) /\ copied' = k
      /\ UNCHANGED <<tables, catalog, pc, fresh>> /\ store' = [store EXCEPT !.disk = disk]
  BY DEF CopyPage
<1>2. Typed /\ Typed'
  BY TypedGoesOn DEF Kept, Next, Step
<1>3. /\ store \in Stores /\ store' \in Stores /\ store \in StoreRecord
      /\ copied \in 0 .. Len(store.shadows) /\ copied \in Nat /\ Len(store.shadows) \in Nat
      /\ DOMAIN store.shadows = 1 .. Len(store.shadows)
  BY <1>2 DEF Typed, Stores, StoreRecord
<1>4. copied + 1 \in DOMAIN store.shadows /\ copied # Len(store.shadows)
  BY <1>1, <1>3
<1>5. PICK P, H : HomesAre(P, H)
  BY DEF Kept
<1>6. /\ Sound(store, P, H) /\ H \in [Row -> Link] /\ Rooted(tables, P)
      /\ \A r \in fresh : H[r] = 0
  BY <1>5 DEF HomesAre
<1>7. Halfway(store, copied) /\ store.active = TRUE /\ tables = catalog
  BY <1>1, <1>3 DEF Kept, StoreRecord
<1>8. store'.disk = [store.disk EXCEPT
         ![store.shadows[copied + 1][1]] = store.disk[store.shadows[copied + 1][2]]]
  BY <1>1, <1>3 DEF StoreRecord
<1> HIDE DEF disk
<1>9. /\ store'.dirty = store.dirty /\ store'.cache = store.cache /\ store'.count = store.count
      /\ store'.free = store.free /\ store'.shadows = store.shadows
      /\ store'.active = store.active
  BY <1>1, <1>3 DEF StoreRecord
<1>10. /\ Sound(store', P, H) /\ Halfway(store', copied + 1)
       /\ SessionView(store') = SessionView(store) /\ BaseView(store') = BaseView(store)
  BY <1>3, <1>4, <1>6, <1>7, <1>8, <1>9, CopiedPage
<1>11. HomesAre(P, H)'
  BY <1>1, <1>6, <1>10 DEF HomesAre
<1>12. Kept'
  BY <1>1, <1>2, <1>7, <1>9, <1>10, <1>11 DEF Kept
<1>13. /\ Current = Contents(SessionView(store), tables)
       /\ Committed = Contents(BaseView(store), tables) /\ Durable = Committed
       /\ InTransaction = TRUE
  BY <1>1, <1>4, CopyingViews
<1>14. pc' = "copying" /\ tables' = tables
  BY <1>1
<1>15. /\ Current' = Contents(SessionView(store'), tables)
       /\ copied' = Len(store'.shadows) =>
            /\ Committed' = Current' /\ Durable' = Contents(store'.disk, tables)
            /\ InTransaction' = FALSE
       /\ copied' # Len(store'.shadows) =>
            /\ Committed' = Contents(BaseView(store'), tables) /\ Durable' = Committed'
            /\ InTransaction' = TRUE
  BY <1>12, <1>14, CopyingViewsNext
<1>16. CASE copied' = Len(store'.shadows)
  <2>1. Halfway(store', Len(store'.shadows))
    BY <1>1, <1>10, <1>16
  <2>2. SameOn(SessionView(store'), store'.disk, P)
    BY <1>10, <2>1, HalfwayDone
  <2>3. InTables(SessionView(store'), tables, P)
    BY <1>6, <1>10, SoundTables
  <2>4. Contents(store'.disk, tables) = Contents(SessionView(store'), tables)
    BY <2>2, <2>3, SameContents
  <2>5. Sql!Commit
    BY <1>10, <1>13, <1>15, <1>16, <2>4 DEF Sql!Commit
  <2> QED
    BY <1>12, <2>5
<1>17. CASE copied' # Len(store'.shadows)
  <2>1. UNCHANGED <<Current, Committed, Durable, InTransaction>>
    BY <1>10, <1>13, <1>15, <1>17
  <2> QED
    BY <1>12, <2>1
<1> QED
  BY <1>16, <1>17

\* After the last copy the pool can be forgotten.
LEMMA EndCommitIsNothing ==
    ASSUME Kept, EndCommit
    PROVE  Kept' /\ UNCHANGED <<Current, Committed, Durable, InTransaction>>
<1> DEFINE cache == [p \in Page |-> NoPage]
<1>1. /\ store' = [store EXCEPT !.cache = cache, !.active = FALSE, !.shadows = <<>>]
      /\ pc = "copying" /\ pc' = "idle" /\ copied = Len(store.shadows)
      /\ UNCHANGED <<tables, catalog, fresh>>
  BY DEF EndCommit
<1>2. Typed /\ Typed'
  BY TypedGoesOn DEF Kept, Next, Step
<1>3. store \in Stores /\ store' \in Stores /\ store \in StoreRecord
  BY <1>2 DEF Typed, Stores
<1> HIDE DEF cache
<1>4. /\ store'.disk = store.disk /\ store'.count = store.count /\ store'.free = store.free
      /\ store'.shadows = <<>> /\ store'.cache = cache /\ store'.active = FALSE
  BY <1>1, <1>3 DEF StoreRecord
<1> USE DEF cache
<1>5. PICK P, H : HomesAre(P, H)
  BY DEF Kept
<1>6. /\ Sound(store, P, H) /\ H \in [Row -> Link] /\ Rooted(tables, P)
      /\ \A r \in fresh : H[r] = 0
  BY <1>5 DEF HomesAre
<1>7. /\ Sound(store', P, H) /\ Clean(store')
      /\ \A roots : Trails(store', roots) /\ Unborn(store', roots)
      /\ SessionView(store') = store.disk /\ BaseView(store') = store.disk
  BY <1>3, <1>4, <1>6, Forgotten
<1>8. HomesAre(P, H)'
  BY <1>1, <1>6, <1>7 DEF HomesAre
<1>9. tables = catalog /\ Halfway(store, Len(store.shadows))
  BY <1>1 DEF Kept
<1>10. Kept'
  BY <1>1, <1>2, <1>7, <1>8, <1>9 DEF Kept
<1>11. Contents(store.disk, tables) = Contents(SessionView(store), tables)
  <2>1. SameOn(SessionView(store), store.disk, P)
    BY <1>6, <1>9, HalfwayDone
  <2>2. InTables(SessionView(store), tables, P)
    BY <1>6, SoundTables
  <2> QED
    BY <2>1, <2>2, SameContents
<1>12. /\ Current = Contents(SessionView(store), tables)
       /\ Committed = Current /\ Durable = Contents(store.disk, tables)
       /\ InTransaction = FALSE
  BY <1>1, CopyingViews
<1>13. pc' # "copying" /\ tables' = tables
  BY <1>1
<1>14. /\ Current' = Contents(SessionView(store'), tables)
       /\ Committed' = Contents(BaseView(store'), tables)
       /\ Durable' = Contents(store'.disk, tables)
       /\ InTransaction' = store'.active
  BY <1>10, <1>13, PlainViewsNext
<1> QED
  BY <1>4, <1>7, <1>10, <1>11, <1>12, <1>14

\* What the file has is there when it is opened, and nothing else.
LEMMA OpenedStore ==
    ASSUME Kept, Typed', Opened, UNCHANGED <<tables, catalog>>
    PROVE  /\ Kept'
           /\ Current' = Contents(store.disk, tables) /\ Committed' = Contents(store.disk, tables)
           /\ Durable' = Contents(store.disk, tables) /\ InTransaction' = FALSE
<1>1. store \in Stores /\ store \in StoreRecord /\ tables = catalog
  BY DEF Kept, Typed, Stores
<1>2. /\ store' \in Stores /\ store'.shadows = <<>> /\ store'.disk = store.disk
      /\ store'.count = store.count /\ store'.free = store.free
      /\ store'.cache = [p \in Page |-> NoPage]
  BY <1>1, OpenedType
<1>3. pc' = "idle" /\ fresh' = fresh /\ tables' = tables /\ catalog' = catalog
  BY DEF Opened
<1>4. store'.active = FALSE
  <2> DEFINE cache == [p \in Page |-> NoPage]
  <2>1. store' = [store EXCEPT !.cache = cache, !.dirty = {}, !.active = FALSE, !.shadows = <<>>]
    BY DEF Opened
  <2> HIDE DEF cache
  <2> QED
    BY <1>1, <2>1 DEF StoreRecord
<1>5. PICK P, H : HomesAre(P, H)
  BY DEF Kept
<1>6. /\ Sound(store, P, H) /\ H \in [Row -> Link] /\ Rooted(tables, P)
      /\ \A r \in fresh : H[r] = 0
  BY <1>5 DEF HomesAre
<1>7. /\ Sound(store', P, H) /\ Clean(store')
      /\ \A roots : Trails(store', roots) /\ Unborn(store', roots)
      /\ SessionView(store') = store.disk /\ BaseView(store') = store.disk
  BY <1>2, <1>6, Forgotten
<1>8. HomesAre(P, H)'
  BY <1>3, <1>6, <1>7 DEF HomesAre
<1>9. Kept'
  BY <1>1, <1>3, <1>7, <1>8 DEF Kept
<1>10. pc' # "copying"
  BY <1>3
<1>11. /\ Current' = Contents(SessionView(store'), tables)
       /\ Committed' = Contents(BaseView(store'), tables)
       /\ Durable' = Contents(store'.disk, tables)
       /\ InTransaction' = store'.active
  BY <1>3, <1>9, <1>10, PlainViewsNext
<1> QED
  BY <1>2, <1>4, <1>7, <1>9, <1>11

\* Closing has made durable all that is committed.
LEMMA ReopenIsReopen ==
    ASSUME Kept, Reopen
    PROVE  Kept' /\ Sql!Reopen
<1>1. Typed /\ Typed'
  BY TypedGoesOn DEF Kept, Next, Step
<1>2. /\ pc = "closing" /\ store.dirty = {} /\ Opened /\ UNCHANGED <<tables, catalog>>
  BY DEF Reopen, Kept
<1>3. store \in Stores /\ Clean(store) /\ pc # "copying"
  BY <1>1, <1>2 DEF Kept, Typed
<1>4. BaseView(store) = store.disk
  <2>1. \A p \in Page : store.cache[p] # NoPage => store.cache[p] = store.disk[p]
    BY <1>2, <1>3 DEF Clean
  <2> QED
    BY <1>3, <2>1, FlushedStore
<1>5. /\ Kept'
      /\ Current' = Contents(store.disk, tables) /\ Committed' = Contents(store.disk, tables)
      /\ Durable' = Contents(store.disk, tables) /\ InTransaction' = FALSE
  BY <1>1, <1>2, OpenedStore
<1>6. Committed = Contents(BaseView(store), tables) /\ Durable = Contents(store.disk, tables)
  BY <1>3, PlainViews
<1> QED
  BY <1>4, <1>5, <1>6 DEF Sql!Reopen

\* Where a COMMIT is when the process dies.
LEMMA CrashPoints ==
    ASSUME "crash while copying" \notin Client, Crash, pc = "copying"
    PROVE  copied = 0 \/ copied = Len(store.shadows)
BY Zenon DEF Crash

\* A crash leaves what is durable.
LEMMA CrashIsCrash ==
    ASSUME pc = "copying" => copied = 0 \/ copied = Len(store.shadows), Kept, Crash
    PROVE  Kept' /\ Sql!Crash
<1>1. Typed /\ Typed'
  BY TypedGoesOn DEF Kept, Next
<1>2. Opened /\ tables = catalog /\ tables' = catalog /\ catalog' = catalog
  BY DEF Crash, Kept
<1>3. UNCHANGED <<tables, catalog>> /\ store \in Stores
  BY <1>1, <1>2 DEF Typed
<1>4. /\ Kept'
      /\ Current' = Contents(store.disk, tables) /\ Committed' = Contents(store.disk, tables)
      /\ Durable' = Contents(store.disk, tables) /\ InTransaction' = FALSE
  BY <1>1, <1>2, <1>3, OpenedStore
<1>5. Durable = Contents(store.disk, tables)
  <2>1. CASE pc # "copying"
    BY <2>1, PlainViews
  <2>2. CASE pc = "copying" /\ copied = Len(store.shadows)
    BY <2>2, CopyingViews
  <2>3. CASE pc = "copying" /\ copied # Len(store.shadows)
    <3>1. Halfway(store, 0)
      BY <2>3 DEF Kept
    <3>2. \A p \in Page : store.cache[p] # NoPage => store.cache[p] = store.disk[p]
      <4>1. \A k \in 1 .. 0 : FALSE
        OBVIOUS
      <4> QED
        BY <3>1, <4>1 DEF Halfway, HalfwayIn
    <3>3. BaseView(store) = store.disk
      BY <1>3, <3>2, FlushedStore
    <3> QED
      BY <2>3, <3>3, CopyingViews
  <2> QED
    BY <2>1, <2>2, <2>3
<1> QED
  BY <1>4, <1>5 DEF Sql!Crash

\* What a table holds in the pool and in the file is a set of rows.
LEMMA ContentsAreTables ==
    ASSUME NEW c, NEW roots, NEW H,
           \A t \in Table : HomesIn(c, PagesOf(c, roots[t]), H)
    PROVE  Contents(c, roots) \in Sql!Tables
<1>1. ASSUME NEW t \in Table PROVE RowsOf(c, roots[t]) \in SUBSET Row
  <2>1. \A p \in PagesOf(c, roots[t]) : c[p].rows \in SUBSET Row
    BY DEF HomesIn, Content
  <2> QED
    BY <2>1 DEF RowsOf
<1> DEFINE e == Contents(c, roots)
<1>2. ASSUME NEW t \in Table PROVE e[t] \in (SUBSET Row) \cup {NoTable}
  <2>1. e[t] = NoTable \/ e[t] = RowsOf(c, roots[t])
    BY DEF Contents
  <2>2. RowsOf(c, roots[t]) \in (SUBSET Row) \cup {NoTable}
    BY <1>1, Zenon
  <2>3. NoTable \in (SUBSET Row) \cup {NoTable}
    OBVIOUS
  <2> HIDE DEF e
  <2> QED
    BY <2>1, <2>2, <2>3
<1>3. e = [t \in Table |-> e[t]]
  BY DEF Contents
<1> HIDE DEF e
<1>4. e \in [Table -> (SUBSET Row) \cup {NoTable}]
  BY <1>2, <1>3
<1> QED
  BY <1>4 DEF e, Sql!Tables

\* A page that is flushed brings the durable contents towards the committed ones.
LEMMA FlushPageIsSave ==
    ASSUME Kept, NEW q \in Page, FlushPage(q)
    PROVE  Kept' /\ Sql!Save
<1> DEFINE disk == [store.disk EXCEPT ![q] = store.cache[q]]
           dirty == store.dirty \ {q}
<1>1. /\ pc \in Flushing /\ q \in store.dirty
      /\ store' = [store EXCEPT !.disk = disk, !.dirty = dirty]
      /\ UNCHANGED <<tables, catalog, pc, copied, fresh>>
  BY DEF FlushPage
<1>2. Typed /\ Typed'
  BY TypedGoesOn DEF Kept, Next, Step
<1>3. store \in Stores /\ store' \in Stores /\ store \in StoreRecord
  BY <1>2 DEF Typed, Stores
<1> HIDE DEF disk, dirty
<1>4. /\ store'.disk = disk /\ store'.dirty = dirty /\ store'.cache = store.cache
      /\ store'.count = store.count /\ store'.free = store.free
      /\ store'.shadows = store.shadows /\ store'.active = store.active
  BY <1>1, <1>3 DEF StoreRecord
<1>5. PICK P, H : HomesAre(P, H)
  BY DEF Kept
<1>6. /\ Sound(store, P, H) /\ H \in [Row -> Link] /\ Rooted(tables, P)
      /\ \A r \in fresh : H[r] = 0
  BY <1>5 DEF HomesAre
<1>7. /\ pc # "copying" /\ pc # "idle" /\ pc' = pc /\ tables' = tables /\ catalog' = catalog
      /\ fresh' = fresh
  BY <1>1 DEF Flushing
<1>8. Clean(store) /\ Trails(store, tables) /\ tables = catalog /\ pc # "dropping"
  BY <1>7 DEF Kept
<1>9. /\ Sound(store', P, H)
      /\ Clean(store) => Clean(store')
      /\ Trails(store', tables)
      /\ SessionView(store') = SessionView(store) /\ BaseView(store') = BaseView(store)
      /\ \A t \in Table :
           /\ PagesOf(store.disk, tables[t]) \in SUBSET PagesOf(store'.disk, tables[t])
           /\ PagesOf(store'.disk, tables[t]) \in SUBSET PagesOf(BaseView(store), tables[t])
  <2>1. /\ store'.disk = [store.disk EXCEPT ![q] = store.cache[q]]
        /\ store'.dirty = store.dirty \ {q}
    BY <1>4 DEF disk, dirty
  <2>2. /\ Sound(store, P, H) /\ Rooted(tables, P) /\ Trails(store, tables)
        /\ q \in store.dirty /\ store' \in Stores
    BY <1>1, <1>3, <1>6, <1>8
  <2> QED
    BY <1>4, <2>1, <2>2, FlushedPage, ZenonT(60)
<1>10. HomesAre(P, H)'
  BY <1>6, <1>7, <1>9 DEF HomesAre
<1>11. pc \in {"committing", "copying"} => store'.active
  BY <1>4 DEF Kept
<1>12. Kept'
  BY <1>2, <1>7, <1>8, <1>9, <1>10, <1>11 DEF Kept
<1>13. /\ Current = Contents(SessionView(store), tables)
       /\ Committed = Contents(BaseView(store), tables)
       /\ Durable = Contents(store.disk, tables)
       /\ InTransaction = store.active
  BY <1>7, PlainViews
<1>14. /\ Current' = Contents(SessionView(store'), tables)
       /\ Committed' = Contents(BaseView(store'), tables)
       /\ Durable' = Contents(store'.disk, tables)
       /\ InTransaction' = store'.active
  BY <1>7, <1>12, PlainViewsNext
<1>15. \A p \in Page : store'.disk[p] = store.disk[p] \/ store'.disk[p] = BaseView(store)[p]
  <2>1. store.cache[q] # NoPage
    BY <1>1, <1>3 DEF Stores
  <2>2. BaseView(store)[q] = store.cache[q]
    BY <2>1 DEF BaseView, Base
  <2>3. \A p \in Page : disk[p] = IF p = q THEN store.cache[q] ELSE store.disk[p]
    BY <1>3 DEF StoreRecord, disk
  <2> QED
    BY <1>4, <2>2, <2>3
<1>16. \A t \in Table : /\ HomesIn(store.disk, PagesOf(store.disk, tables[t]), H)
                        /\ HomesIn(BaseView(store), PagesOf(BaseView(store), tables[t]), H)
  BY <1>6, SoundTables
<1>17. \A t \in Table : HomesIn(store'.disk, PagesOf(store'.disk, tables[t]), H)
  BY <1>6, <1>9, SoundTables
<1>18. Durable' \in Sql!Tables
  BY <1>14, <1>17, ContentsAreTables
<1>19. ASSUME NEW t \in Table PROVE Sql!Towards(Durable[t], Durable'[t], Committed[t])
  <2> DEFINE C == PagesOf(store.disk, tables[t])
             D == PagesOf(store'.disk, tables[t])
             B == PagesOf(BaseView(store), tables[t])
             old == RowsOf(store.disk, tables[t])
             step == RowsOf(store'.disk, tables[t])
             new == RowsOf(BaseView(store), tables[t])
  <2>1. /\ old = UNION {store.disk[p].rows : p \in C}
        /\ step = UNION {store'.disk[p].rows : p \in D}
        /\ new = UNION {BaseView(store)[p].rows : p \in B}
    BY DEF RowsOf
  <2>2. C \subseteq D /\ D \subseteq B /\ B \subseteq Page
    <3>1. B \in SUBSET P[t] /\ P[t] \in SUBSET Page
      BY <1>6, SoundTables DEF Sound, Owned
    <3> QED
      BY <1>9, <3>1
  <2>3. \A p \in B : p \notin C => store.disk[p].rows \subseteq BaseView(store)[p].rows
    BY <1>8 DEF Trails
  <2>4. /\ \A p \in C : \A r \in store.disk[p].rows : H[r] = p /\ r \in Row
        /\ \A p \in D : \A r \in store'.disk[p].rows : H[r] = p /\ r \in Row
        /\ \A p \in B : \A r \in BaseView(store)[p].rows : H[r] = p /\ r \in Row
    BY <1>16, <1>17 DEF HomesIn, Content
  <2>5. /\ Durable[t] = IF tables[t] = 0 THEN NoTable ELSE old
        /\ Durable'[t] = IF tables[t] = 0 THEN NoTable ELSE step
        /\ Committed[t] = IF tables[t] = 0 THEN NoTable ELSE new
    BY <1>13, <1>14 DEF Contents
  <2> HIDE DEF C, D, B, old, step, new
  <2>6. old \subseteq Row /\ step \subseteq Row /\ new \subseteq Row
    BY <2>1, <2>4
  <2>7. ASSUME NEW r \in old, r \in new PROVE r \in step
    <3>1. PICK p \in C : r \in store.disk[p].rows
      BY <2>1
    <3>2. PICK o \in B : r \in BaseView(store)[o].rows
      BY <2>1, <2>7
    <3>3. o = p /\ p \in D /\ p \in Page
      BY <2>2, <2>4, <3>1, <3>2
    <3>4. r \in store'.disk[p].rows
      BY <1>15, <3>1, <3>2, <3>3
    <3> QED
      BY <2>1, <3>3, <3>4
  <2>8. ASSUME NEW r \in step PROVE r \in old \/ r \in new
    <3>1. PICK p \in D : r \in store'.disk[p].rows
      BY <2>1
    <3>2. p \in B /\ p \in Page
      BY <2>2
    <3>3. r \in store.disk[p].rows \/ r \in BaseView(store)[p].rows
      BY <1>15, <3>1, <3>2
    <3>4. r \in BaseView(store)[p].rows => r \in new
      BY <2>1, <3>2
    <3>5. p \in C /\ r \in store.disk[p].rows => r \in old
      BY <2>1
    <3>6. p \notin C /\ r \in store.disk[p].rows => r \in BaseView(store)[p].rows
      BY <2>3, <3>2
    <3> QED
      BY <3>3, <3>4, <3>5, <3>6
  <2>9. CASE tables[t] = 0
    BY <2>5, <2>9 DEF Sql!Towards
  <2>10. CASE tables[t] # 0
    <3>1. old # NoTable /\ step # NoTable /\ new # NoTable
      BY <2>6, NoTableIsNoContent
    <3>2. old \cap new \subseteq step /\ step \subseteq old \cup new
      BY <2>7, <2>8
    <3> QED
      BY <2>5, <2>10, <3>1, <3>2 DEF Sql!Towards
  <2> QED
    BY <2>9, <2>10
<1>20. Current' = Current /\ Committed' = Committed /\ InTransaction' = InTransaction
  BY <1>4, <1>9, <1>13, <1>14
<1> QED
  BY <1>12, <1>18, <1>19, <1>20 DEF Sql!Save

\* The store new has an empty page in the file that st does not have.
NewPageIn(st, new, q) ==
    /\ new.count = Taken(st).count /\ new.free = Taken(st).free
    /\ new.cache = st.cache /\ new.dirty = st.dirty
    /\ new.shadows = st.shadows /\ new.active = st.active
    /\ \A p \in Page : new.disk[p] = IF p = q THEN Empty ELSE st.disk[p]

\* An empty page at the end of the file, written to the file at once.
LEMMA SoundNewPage ==
    ASSUME NEW st, NEW P, NEW H, Sound(st, P, H), NEW t \in Table, st.count < MaxPage,
           NEW new \in Stores, NEW q, q = NextPage(st), NewPageIn(st, new, q)
    PROVE  /\ q \in Page
           /\ WithPage(P, t, q)[t] = P[t] \cup {q}
           /\ \A u \in Table : u # t => WithPage(P, t, q)[u] = P[u]
           /\ Sound(new, WithPage(P, t, q), H) /\ new.active = st.active
           /\ Clean(st) => Clean(new)
           /\ new.disk[q] = Empty /\ BaseView(new)[q] = Empty /\ SessionView(new)[q] = Empty
           /\ SameOn(st.disk, new.disk, P) /\ SameOn(BaseView(st), BaseView(new), P)
           /\ SameOn(SessionView(st), SessionView(new), P)
<1> DEFINE Q == WithPage(P, t, q)
           tk == Taken(st)
<1>1. /\ st \in Stores /\ Owned(st, P) /\ st.free = 0 /\ st.count \in Nat
  BY PageNumbers DEF Sound, Stores, StoreRecord, Owned
<1>2. /\ q \in Page /\ q = st.count + 1 /\ tk.count = st.count + 1 /\ tk.cache = st.cache
      /\ tk.shadows = st.shadows /\ tk \in Stores
  BY <1>1, TakenType
<1>3. /\ Sound(tk, Q, H)
      /\ Clean(st) => Clean(tk)
      /\ tk.active = st.active /\ tk.disk = st.disk
      /\ SessionView(tk) = SessionView(st) /\ BaseView(tk) = BaseView(st)
  BY SoundTaken
<1>4. Q[t] = P[t] \cup {q} /\ \A u \in Table : u # t => Q[u] = P[u]
  BY <1>1, OwnedTaken
<1>5. \A p \in Page : (p = q => new.disk[p] = Empty) /\ (p # q => new.disk[p] = tk.disk[p])
  BY <1>3 DEF NewPageIn
<1>6. tk.dirty = st.dirty
  BY <1>1, TakenType
<1>7. /\ new.cache = tk.cache /\ new.count = tk.count /\ new.free = tk.free
      /\ new.shadows = tk.shadows /\ new.active = tk.active /\ new.dirty = tk.dirty
  BY <1>2, <1>3, <1>6 DEF NewPageIn
<1> HIDE DEF tk, Q
<1>8. Owned(tk, Q) /\ Settled(tk, Q, H) /\ Paired(tk)
  BY <1>3 DEF Sound
<1>9. Empty.next = 0 /\ Empty.rows = {}
  BY DEF Empty
<1>10. q > st.count /\ st.cache[q] = NoPage
  <2>1. q > st.count
    BY <1>1, <1>2
  <2> QED
    BY <1>1, <1>2, <2>1 DEF Owned
<1>11. \A p \in Page : p > tk.count => new.cache[p] = NoPage /\ new.disk[p].next = 0
  <2>1. \A p \in Page : p > tk.count => tk.cache[p] = NoPage /\ tk.disk[p].next = 0
    BY <1>8 DEF Owned
  <2> QED
    BY <1>5, <1>7, <1>9, <2>1
<1>12. \A O : \A p \in Page : LeadsInto(tk, p, O) => LeadsInto(new, p, O)
  BY <1>5, <1>7, <1>9 DEF LeadsInto
<1>13. Owned(new, Q)
  BY <1>2, <1>7, <1>8, <1>11, <1>12, OwnedRewritten
<1>14. \A p \in Page : \A o : Holds(tk, p, o, H) => Holds(new, p, o, H)
  BY <1>5, <1>7, <1>9 DEF Holds, Version
<1>15. Settled(new, Q, H)
  <2>1. \A u \in Table : Q[u] \in SUBSET Page
    BY <1>8 DEF Owned
  <2>2. \A i \in DOMAIN tk.shadows : tk.shadows[i][2] \in Page
    BY <1>2, <1>8, ShadowPairs
  <2>3. \A p \in Page : p > new.count => new.disk[p].rows = {}
    BY <1>5, <1>7, <1>8, <1>9 DEF Settled
  <2> QED
    BY <1>7, <1>8, <1>14, <2>1, <2>2, <2>3 DEF Settled
<1>16. Paired(new)
  BY <1>7, <1>8 DEF Paired
<1>17. Sound(new, Q, H)
  BY <1>13, <1>15, <1>16 DEF Sound
<1>18. Clean(st) => Clean(new)
  <2>1. Clean(st) => Clean(tk)
    BY <1>3
  <2>2. /\ new.cache = tk.cache /\ new.dirty = tk.dirty /\ new.cache[q] = NoPage
        /\ \A p \in Page : p # q => new.disk[p] = tk.disk[p]
    BY <1>2, <1>5, <1>7, <1>10
  <2>3. Clean(tk) => Clean(new)
    BY <2>2 DEF Clean
  <2> QED
    BY <2>1, <2>3
<1>19. \A p \in Page : Base(new, p) = IF p = q THEN Empty ELSE Base(st, p)
  <2>1. new.cache = st.cache /\ \A p \in Page : p # q => new.disk[p] = st.disk[p]
    BY <1>2, <1>3, <1>5, <1>7
  <2>2. \A p \in Page : p # q => Base(new, p) = Base(st, p)
    BY <2>1 DEF Base
  <2>3. Base(new, q) = Empty
    BY <1>2, <1>5, <1>10, <2>1 DEF Base
  <2> QED
    BY <2>2, <2>3
<1>20. \A p : Where(new, p) = Where(st, p)
  <2>1. new.shadows = st.shadows
    BY <1>2, <1>7
  <2> QED
    BY <2>1 DEF Where, ShadowOf
<1>21. Where(new, q) = q
  <2>1. \A i \in DOMAIN st.shadows : st.shadows[i][1] <= st.count /\ st.shadows[i][1] \in Page
    BY <1>1, ShadowPairs DEF Owned, Sound
  <2>2. \A i \in DOMAIN st.shadows : st.shadows[i][1] # q
    BY <1>1, <1>2, <2>1, PageNumbers
  <2>3. ShadowOf(st, q) = {}
    BY <2>2 DEF ShadowOf
  <2> QED
    BY <1>20, <2>3 DEF Where
<1>22. new.disk[q] = Empty /\ BaseView(new)[q] = Empty /\ SessionView(new)[q] = Empty
  BY <1>2, <1>3, <1>5, <1>7, <1>19, <1>21 DEF BaseView, SessionView
<1>23. ASSUME NEW u \in Table, NEW p \in P[u]
       PROVE  /\ new.disk[p] = st.disk[p]
              /\ BaseView(new)[p] = BaseView(st)[p]
              /\ SessionView(new)[p] = SessionView(st)[p]
  <2>1. p \in Page /\ Where(st, p) \in Page /\ Where(st, p) <= st.count /\ p <= st.count
    BY <1>1, OwnedViews DEF Owned
  <2>2. p # q /\ Where(st, p) # q
    BY <1>1, <1>2, <2>1, PageNumbers
  <2> QED
    BY <1>3, <1>5, <1>7, <1>19, <1>20, <2>1, <2>2 DEF BaseView, SessionView
<1>24. /\ SameOn(st.disk, new.disk, P) /\ SameOn(BaseView(st), BaseView(new), P)
       /\ SameOn(SessionView(st), SessionView(new), P)
  BY <1>23 DEF SameOn
<1> QED
  BY <1>2, <1>3, <1>4, <1>7, <1>17, <1>18, <1>22, <1>24 DEF Q

\* CREATE makes an empty table, for the session and in the file at once.
LEMMA CreateIsCreateTable ==
    ASSUME Kept, NEW t \in Table, Create(t)
    PROVE  Kept' /\ Sql!CreateTable(t)
<1>1. PICK q : q = NextPage(store)
  OBVIOUS
<1>2. /\ pc = "idle" /\ RoomToGrow /\ tables[t] = 0
      /\ tables' = [tables EXCEPT ![t] = q] /\ catalog' = tables' /\ pc' = "saving"
      /\ UNCHANGED <<copied, fresh>>
  BY <1>1 DEF Create
<1>3. Typed /\ Typed'
  BY TypedTables DEF Kept
<1>4. /\ store \in Stores /\ store' \in Stores /\ store.count \in Nat /\ MaxPage \in Nat
      /\ tables \in [Table -> Link]
  BY <1>3, PageNumbers DEF Typed, Stores, StoreRecord
<1>5. store.count < MaxPage
  BY <1>2, <1>4 DEF RoomToGrow
<1>6. PICK P, H : HomesAre(P, H)
  BY DEF Kept
<1>7. /\ Sound(store, P, H) /\ H \in [Row -> Link] /\ Rooted(tables, P)
      /\ \A r \in fresh : H[r] = 0
  BY <1>6 DEF HomesAre
<1>8. Clean(store) /\ Trails(store, tables)
  BY <1>2 DEF Kept
<1>9. NewPageIn(store, store', q)
  <2> DEFINE tk == Taken(store)
             disk == [tk.disk EXCEPT ![q] = Empty]
  <2>1. store' = [tk EXCEPT !.disk = disk]
    BY <1>1 DEF Create
  <2>2. /\ tk \in Stores /\ tk.disk = store.disk /\ tk.cache = store.cache
        /\ tk.dirty = store.dirty /\ tk.active = store.active /\ tk.shadows = store.shadows
    BY <1>4, <1>5, TakenType
  <2> HIDE DEF tk
  <2>3. \A p \in Page : disk[p] = IF p = q THEN Empty ELSE store.disk[p]
    BY <2>2 DEF Stores, StoreRecord
  <2> HIDE DEF disk
  <2>4. /\ store'.disk = disk /\ store'.cache = tk.cache /\ store'.dirty = tk.dirty
        /\ store'.count = tk.count /\ store'.free = tk.free
        /\ store'.shadows = tk.shadows /\ store'.active = tk.active
    BY <2>1, <2>2 DEF Stores, StoreRecord
  <2> QED
    BY <2>2, <2>3, <2>4 DEF NewPageIn, tk
<1>10. PICK Q : Q = WithPage(P, t, q)
  OBVIOUS
<1>11. /\ q \in Page /\ Q[t] = P[t] \cup {q} /\ \A u \in Table : u # t => Q[u] = P[u]
       /\ Sound(store', Q, H) /\ store'.active = store.active
       /\ Clean(store) => Clean(store')
       /\ store'.disk[q] = Empty /\ BaseView(store')[q] = Empty /\ SessionView(store')[q] = Empty
       /\ SameOn(store.disk, store'.disk, P) /\ SameOn(BaseView(store), BaseView(store'), P)
       /\ SameOn(SessionView(store), SessionView(store'), P)
  BY <1>1, <1>4, <1>5, <1>7, <1>9, <1>10, SoundNewPage
<1>12. Rooted(tables', Q)
  <2>1. \A u \in Table : u # t => tables'[u] = tables[u]
    BY <1>2
  <2>2. tables'[t] = q
    BY <1>2, <1>4
  <2> QED
    BY <1>7, <1>11, <2>1, <2>2 DEF Rooted
<1>13. HomesAre(Q, H)'
  <2>1. fresh' = fresh
    BY <1>2
  <2> QED
    BY <1>7, <1>11, <1>12, <2>1 DEF HomesAre
<1>14. /\ InTables(store.disk, tables, P) /\ InTables(BaseView(store), tables, P)
       /\ InTables(SessionView(store), tables, P)
       /\ \A u \in Table : PagesOf(BaseView(store), tables[u]) \in SUBSET P[u]
  BY <1>7, SoundTables
<1>15. RootAdded(tables, tables', t, q)
  BY <1>2, <1>4 DEF RootAdded
<1>16. /\ Contents(store'.disk, tables') = Replaced(Contents(store.disk, tables), t, {})
       /\ PagesOf(store'.disk, q) = {q}
       /\ \A u \in Table : PagesOf(store'.disk, tables[u]) = PagesOf(store.disk, tables[u])
  BY <1>11, <1>14, <1>15, NewTable
<1>17. /\ Contents(BaseView(store'), tables') = Replaced(Contents(BaseView(store), tables), t, {})
       /\ PagesOf(BaseView(store'), q) = {q}
       /\ \A u \in Table : PagesOf(BaseView(store'), tables[u]) = PagesOf(BaseView(store), tables[u])
  BY <1>11, <1>14, <1>15, NewTable
<1>18. Contents(SessionView(store'), tables')
         = Replaced(Contents(SessionView(store), tables), t, {})
  BY <1>11, <1>14, <1>15, NewTable
<1>19. Trails(store', tables')
  <2> SUFFICES ASSUME NEW u \in Table, NEW p \in PagesOf(BaseView(store'), tables'[u])
               PROVE  /\ store'.disk[p].next \in {0, BaseView(store')[p].next}
                      /\ p \notin PagesOf(store'.disk, tables'[u])
                           => store'.disk[p].rows \subseteq BaseView(store')[p].rows
    BY DEF Trails
  <2>1. CASE u = t
    <3>1. tables'[u] = q
      BY <1>2, <1>4, <2>1
    <3>2. p = q /\ p \in PagesOf(store'.disk, tables'[u])
      BY <1>16, <1>17, <3>1
    <3> QED
      BY <1>11, <3>2 DEF Empty
  <2>2. CASE u # t
    <3>1. tables'[u] = tables[u]
      BY <1>2, <2>2
    <3>2. p \in PagesOf(BaseView(store), tables[u]) /\ p \in P[u]
      BY <1>14, <1>17, <3>1
    <3>3. store'.disk[p] = store.disk[p] /\ BaseView(store')[p] = BaseView(store)[p]
      BY <1>11, <3>2 DEF SameOn
    <3>4. PagesOf(store'.disk, tables'[u]) = PagesOf(store.disk, tables[u])
      BY <1>16, <3>1
    <3> QED
      BY <1>8, <3>2, <3>3, <3>4 DEF Trails
  <2> QED
    BY <2>1, <2>2
<1>20. Kept'
  BY <1>2, <1>3, <1>8, <1>11, <1>13, <1>19 DEF Kept
<1>21. pc # "copying" /\ pc' # "copying"
  BY <1>2
<1>22. /\ Current = Contents(SessionView(store), tables)
       /\ Committed = Contents(BaseView(store), tables)
       /\ Durable = Contents(store.disk, tables)
       /\ InTransaction = store.active
  BY <1>21, PlainViews
<1>23. /\ Current' = Contents(SessionView(store'), tables')
       /\ Committed' = Contents(BaseView(store'), tables')
       /\ Durable' = Contents(store'.disk, tables')
       /\ InTransaction' = store'.active
  BY <1>20, <1>21, PlainViewsNext
<1>24. Current[t] = NoTable
  BY <1>2, <1>22 DEF Contents
<1> QED
  BY <1>11, <1>16, <1>17, <1>18, <1>20, <1>22, <1>23, <1>24 DEF Sql!CreateTable, Replaced

\* The file that is opened first has tables without rows.
LEMMA StoreStarts == Init => Kept /\ Sql!StoreInit
<1> SUFFICES ASSUME Init PROVE Kept /\ Sql!StoreInit
  OBVIOUS
<1> DEFINE n == Cardinality(Existing)
<1>1. n \in Nat /\ n <= MaxPage /\ MaxPage \in Nat /\ Existing \subseteq Table
  BY SomeTablesExist, PagesAreNumbered, FS_CardinalityType
<1>2. PICK root \in [Existing -> 1 .. n] :
        /\ \A t, u \in Existing : root[t] = root[u] => t = u
        /\ tables = [t \in Table |-> IF t \in Existing THEN root[t] ELSE 0]
        /\ store = [disk |-> [p \in Page |-> IF p <= n THEN Empty ELSE Zero],
                    count |-> n, free |-> 0, cache |-> [p \in Page |-> NoPage],
                    dirty |-> {}, active |-> FALSE, shadows |-> <<>>]
  BY DEF Init
<1>3. /\ \A p \in Page : store.disk[p].rows = {} /\ store.disk[p].next = 0
      /\ \A p \in Page : store.cache[p] = NoPage
      /\ store.count = n /\ store.free = 0 /\ store.shadows = <<>> /\ store.active = FALSE
  BY <1>2 DEF Empty, Zero
<1>4. Typed /\ tables = catalog /\ pc = "idle" /\ fresh = Row
  BY TypedStart DEF Init
<1>5. store \in Stores
  BY <1>4 DEF Typed
<1> HIDE DEF n
<1>6. \A t \in Table : tables[t] # 0 =>
        /\ t \in Existing /\ tables[t] = root[t] /\ tables[t] \in Page /\ tables[t] <= n
  BY <1>1, <1>2 DEF Page
<1>7. PICK P, H : P = [t \in Table |-> {tables[t]} \ {0}] /\ H = [r \in Row |-> 0]
  OBVIOUS
<1>8. /\ P \in [Table -> SUBSET Page]
      /\ \A t \in Table : P[t] = {tables[t]} \ {0} /\ tables[t] \in P[t] \cup {0}
  BY <1>6, <1>7
<1>9. H \in [Row -> Link] /\ \A r \in fresh : H[r] = 0
  BY <1>4, <1>7, PageNumbers
<1>10. Owned(store, P)
  <2>1. \A t, u \in Table : t # u => P[t] \cap P[u] = {}
    <3> SUFFICES ASSUME NEW t \in Table, NEW u \in Table, NEW p \in P[t] \cap P[u] PROVE t = u
      OBVIOUS
    <3>1. p = tables[t] /\ p = tables[u] /\ p # 0
      BY <1>8
    <3> QED
      BY <1>2, <1>6, <3>1
  <2>2. \A t \in Table : \A p \in P[t] : p <= store.count /\ LeadsInto(store, p, P[t])
    BY <1>3, <1>6, <1>8 DEF LeadsInto
  <2>3. \A i \in DOMAIN store.shadows : FALSE
    BY <1>3
  <2> QED
    BY <1>3, <1>8, <2>1, <2>2, <2>3 DEF Owned
<1>11. Settled(store, P, H)
  <2>1. \A p \in Page : \A o : Holds(store, p, o, H)
    BY <1>3 DEF Holds, Version
  <2>2. \A i \in DOMAIN store.shadows : FALSE
    BY <1>3
  <2> QED
    BY <1>3, <1>8, <2>1, <2>2 DEF Settled
<1>12. Paired(store) /\ Clean(store)
  BY <1>3 DEF Paired, Clean
<1>13. Sound(store, P, H) /\ Rooted(tables, P)
  BY <1>5, <1>8, <1>10, <1>11, <1>12 DEF Sound, Rooted
<1>14. HomesAre(P, H)
  BY <1>9, <1>13 DEF HomesAre
<1>15. /\ BaseView(store) = store.disk /\ SessionView(store) = store.disk
       /\ Trails(store, tables) /\ Unborn(store, tables)
  BY <1>3, <1>5, FlushedStore, OneView
<1>16. Kept
  BY <1>4, <1>12, <1>14, <1>15 DEF Kept
<1>17. pc # "copying"
  BY <1>4
<1>18. /\ Current = Contents(SessionView(store), tables)
       /\ Committed = Contents(BaseView(store), tables)
       /\ Durable = Contents(store.disk, tables)
       /\ InTransaction = store.active
  BY <1>16, <1>17, PlainViews
<1> DEFINE e == Contents(store.disk, tables)
<1>19. ASSUME NEW t \in Table PROVE e[t] \in {{}, NoTable}
  <2>1. PagesOf(store.disk, tables[t]) \in SUBSET P[t]
    BY <1>13, SoundTables
  <2>2. \A p \in PagesOf(store.disk, tables[t]) : store.disk[p].rows = {}
    BY <1>3, <1>8, <2>1
  <2>3. RowsOf(store.disk, tables[t]) = {}
    BY <2>2 DEF RowsOf
  <2>4. e[t] = NoTable \/ e[t] = RowsOf(store.disk, tables[t])
    BY DEF Contents
  <2> HIDE DEF e
  <2> QED
    BY <2>3, <2>4
<1>20. e = [t \in Table |-> e[t]]
  BY DEF Contents
<1> HIDE DEF e
<1>21. e \in [Table -> {{}, NoTable}]
  BY <1>19, <1>20
<1>22. Current = e /\ Committed = e /\ Durable = e /\ InTransaction = FALSE
  BY <1>3, <1>15, <1>18 DEF e
<1> QED
  BY <1>16, <1>21, <1>22 DEF Sql!StoreInit

\* The statements, each a step of the abstract store.
LEMMA StatementIsStatement ==
    ASSUME Kept, Statement, ~ Rollback, \A t \in Table : ~ Drop(t)
    PROVE  /\ Kept'
           /\ \/ Sql!StoreNext
              \/ UNCHANGED <<Current, Committed, Durable, InTransaction>>
<1>1. ASSUME NEW t \in Table, NEW r \in Row, Insert(t, r) PROVE Kept' /\ Sql!StoreNext
  BY <1>1, InsertIsAddRow DEF Sql!StoreNext
<1>2. ASSUME NEW t \in Table, NEW r \in Row, Delete(t, r) PROVE Kept' /\ Sql!StoreNext
  BY <1>2, DeleteIsRemoveRow DEF Sql!StoreNext
<1>3. ASSUME NEW t \in Table, NEW r \in Row, NEW q \in Row, Update(t, r, q)
      PROVE  Kept' /\ Sql!StoreNext
  BY <1>3, UpdateIsReplaceRow DEF Sql!StoreNext
<1>4. ASSUME NEW t \in Table, Select(t)
      PROVE  Kept' /\ UNCHANGED <<Current, Committed, Durable, InTransaction>>
  BY <1>4, SelectIsNothing
<1>5. ASSUME NEW t \in Table, Create(t) PROVE Kept' /\ Sql!StoreNext
  BY <1>5, CreateIsCreateTable DEF Sql!StoreNext
<1>6. CASE Begin
  BY <1>6, BeginIsOpen DEF Sql!StoreNext
<1>7. CASE Commit
  BY <1>7, PauseIsNothing
<1> QED
  BY <1>1, <1>2, <1>3, <1>4, <1>5, <1>6, <1>7 DEF Statement

\* The steps of COMMIT, of flushing and of closing.
LEMMA StepIsStep ==
    ASSUME Kept, Step
    PROVE  /\ Kept'
           /\ \/ Sql!StoreNext
              \/ UNCHANGED <<Current, Committed, Durable, InTransaction>>
<1>1. ASSUME NEW p \in Page, FlushPage(p) PROVE Kept' /\ Sql!StoreNext
  BY <1>1, FlushPageIsSave DEF Sql!StoreNext
<1>2. CASE StartCopying
  BY <1>2, StartCopyingIsCommit DEF Sql!StoreNext
<1>3. CASE CopyPage
  BY <1>3, CopyPageIsCommit DEF Sql!StoreNext
<1>4. CASE EndCommit
  BY <1>4, EndCommitIsNothing
<1>5. ~ SaveCatalog
  BY DEF SaveCatalog, Kept
<1>6. CASE EndSave
  BY <1>6, PauseIsNothing
<1>7. CASE Reopen
  BY <1>7, ReopenIsReopen DEF Sql!StoreNext
<1> QED
  BY <1>1, <1>2, <1>3, <1>4, <1>5, <1>6, <1>7 DEF Step

\* Every step of Storage is a step of SqlStore, or changes nothing of it.
LEMMA StoreGoesOn ==
    ASSUME Kept, [Next]_vars, ~ Rollback, \A t \in Table : ~ Drop(t),
           Crash /\ pc = "copying" => copied = 0 \/ copied = Len(store.shadows)
    PROVE  Kept' /\ [Sql!StoreNext]_<<Current, Committed, Durable, InTransaction>>
<1>1. CASE Statement
  BY <1>1, StatementIsStatement
<1>2. CASE Step
  BY <1>2, StepIsStep
<1>3. CASE Close
  BY <1>3, PauseIsNothing
<1>4. CASE Crash
  <2>1. Kept' /\ Sql!Crash
    BY <1>4, CrashIsCrash
  <2> QED
    BY <2>1 DEF Sql!StoreNext
<1>5. CASE UNCHANGED vars
  <2>1. Kept'
    <3>1. Typed'
      BY <1>5, TypedGoesOn DEF Kept
    <3>2. PICK P, H : HomesAre(P, H)
      BY DEF Kept
    <3>3. HomesAre(P, H)'
      BY <1>5, <3>2 DEF HomesAre, vars
    <3> QED
      BY <1>5, <3>1, <3>3 DEF Kept, vars
  <2>2. UNCHANGED <<Current, Committed, Durable, InTransaction>>
    BY <1>5 DEF vars, Current, Committed, Durable, InTransaction, Switched
  <2> QED
    BY <2>1, <2>2
<1> QED
  BY <1>1, <1>2, <1>3, <1>4, <1>5 DEF Next

\* While no page is freed and no process dies between two copies of a COMMIT,
\* Storage is an SqlStore (ImplementsSqlStore): whatever statements,
\* transactions, restarts and crashes follow each other, the session sees its own
\* changes at once, a crash undoes a transaction that was not committed, and
\* COMMIT makes all of it durable at one instant (Table.insert, update and
\* delete, ShadowBufferPool, TransactionManager.commit, BufferPool.flush,
\* Catalog.save). ROLLBACK and DROP free pages, whose copies stay in the pool: the
\* runs about them show where the promise ends.
THEOREM SessionSeesAStore ==
    ASSUME "rollback" \notin Client, "drop" \notin Client,
           "crash while copying" \notin Client
    PROVE  Spec => ImplementsSqlStore
<1>1. Init => Kept /\ Sql!StoreInit
  BY StoreStarts
<1>2. ~ Rollback /\ \A t \in Table : ~ Drop(t)
  BY Zenon DEF Rollback, Drop
<1>3. Crash /\ pc = "copying" => copied = 0 \/ copied = Len(store.shadows)
  BY CrashPoints, Zenon
<1>4. Kept /\ [Next]_vars
        => Kept' /\ [Sql!StoreNext]_<<Current, Committed, Durable, InTransaction>>
  BY <1>2, <1>3, StoreGoesOn, Zenon
<1>5. Spec => Sql!StoreInit /\ [][Sql!StoreNext]_<<Current, Committed, Durable, InTransaction>>
  BY <1>1, <1>4, PTL DEF Spec
<1> QED
  BY <1>5, PTL DEF ImplementsSqlStore, Sql!StoreSpec, Sql!storeVars
=============================================================================
