------------------------- MODULE TransactionsProofs -------------------------
(***************************************************************************)
(* Proofs about Transactions, for any transactions, pages and contents.    *)
(***************************************************************************)
EXTENDS Transactions, WellFoundedInduction, NaturalsInduction, TLAPS

-----------------------------------------------------------------------------
(* Induction.                                                              *)

\* A set of natural numbers has a smallest element.
LEMMA SmallestOf ==
    ASSUME NEW T \in SUBSET Nat, T # {}
    PROVE  \E x \in T : \A y \in T : x <= y
<1>1. \A x, y \in Nat : y < x => <<y, x>> \in OpToRel(<, Nat)
  BY DEF OpToRel
<1>2. \E R : IsWellFoundedOn(R, Nat) /\ \A x, y \in Nat : y < x => <<y, x>> \in R
  BY <1>1, NatLessThanWellFounded, Zenon
<1>3. PICK R : IsWellFoundedOn(R, Nat) /\ \A x, y \in Nat : y < x => <<y, x>> \in R
  BY <1>2
<1>4. \E x \in T : \A y \in T : ~ (<<y, x>> \in R)
  BY <1>3, WFMin, Zenon
<1>5. PICK x \in T : \A y \in T : ~ (<<y, x>> \in R)
  BY <1>4
<1>6. ASSUME NEW y \in T PROVE x <= y
  <2>1. ~ (y < x)
    BY <1>3, <1>5, Zenon
  <2> QED
    BY <2>1
<1> QED
  BY <1>6

\* A set with 0 and every successor has every natural number.
LEMMA EveryNumber ==
    ASSUME NEW S, 0 \in S, \A n \in Nat : n \in S => n + 1 \in S
    PROVE  \A n \in Nat : n \in S
<1> SUFFICES ASSUME Nat \ S # {} PROVE FALSE
  OBVIOUS
<1>1. PICK x \in Nat \ S : \A y \in Nat \ S : x <= y
  BY SmallestOf
<1>2. x # 0 /\ x - 1 \in Nat /\ x - 1 \notin Nat \ S
  BY <1>1
<1> QED
  BY <1>1, <1>2

-----------------------------------------------------------------------------
(* The loop of gc.                                                         *)

\* What the loop of gc has kept of a chain after each of its first n versions.
Loop(chain, others, g, n) ==
    g = [i \in 0 .. n |->
            IF i = 0 THEN <<>>
            ELSE IF Garbage(chain[i], others) THEN g[i - 1]
            ELSE Append(g[i - 1], chain[i])]

\* The loop can be taken to any length.
LEMMA LoopExists ==
    ASSUME NEW chain, NEW others
    PROVE  \A n \in Nat : \E g : Loop(chain, others, g, n)
<1> DEFINE S == {n \in Nat : \E g : Loop(chain, others, g, n)}
<1>1. 0 \in S
  <2> DEFINE g == [i \in 0 .. 0 |-> <<>>]
  <2>1. Loop(chain, others, g, 0)
    BY DEF Loop
  <2> QED
    BY <2>1
<1>2. ASSUME NEW n \in Nat, n \in S PROVE n + 1 \in S
  <2>1. PICK g : Loop(chain, others, g, n)
    BY <1>2
  <2> DEFINE last == IF Garbage(chain[n + 1], others) THEN g[n] ELSE Append(g[n], chain[n + 1])
             h == [i \in 0 .. n + 1 |-> IF i = n + 1 THEN last ELSE g[i]]
             step(f, i) == IF i = 0 THEN <<>>
                           ELSE IF Garbage(chain[i], others) THEN f[i - 1]
                           ELSE Append(f[i - 1], chain[i])
  <2>2. \A i \in 0 .. n : g[i] = step(g, i)
    BY <2>1 DEF Loop
  <2>3. \A i \in 0 .. n : h[i] = g[i]
    OBVIOUS
  <2>4. ASSUME NEW i \in 0 .. n + 1 PROVE h[i] = step(h, i)
    <3>1. CASE i = n + 1
      <4>1. h[i] = last /\ h[n] = g[n] /\ i - 1 = n /\ i # 0
        BY <3>1
      <4> QED
        BY <4>1, <3>1
    <3>2. CASE i \in 1 .. n
      <4>1. h[i] = g[i] /\ h[i - 1] = g[i - 1]
        BY <3>2
      <4> QED
        BY <4>1, <2>2, <3>2
    <3>3. CASE i = 0
      BY <3>3, <2>2, <2>3
    <3> QED
      BY <3>1, <3>2, <3>3
  <2>5. h = [i \in 0 .. n + 1 |-> h[i]]
    OBVIOUS
  <2> HIDE DEF h
  <2>6. Loop(chain, others, h, n + 1)
    <3> HIDE DEF step
    <3>1. h = [i \in 0 .. n + 1 |-> step(h, i)]
      BY <2>4, <2>5
    <3> QED
      BY <3>1, Zenon DEF Loop, step
  <2> QED
    BY <2>6
<1>3. \A n \in Nat : n \in S
  <2> HIDE DEF S
  <2> QED
    BY <1>1, <1>2, EveryNumber
<1> QED
  BY <1>3
\* The sequence k has, of the first n versions of the chain, all that are no
\* garbage, in their order, and nothing else.
Selected(chain, others, k, n) ==
    /\ k \in Seq(Version)
    /\ \A i \in 1 .. Len(k) : ~ Garbage(k[i], others)
    /\ \E at \in [1 .. Len(k) -> 1 .. n] :
        /\ \A i \in 1 .. Len(k) : k[i] = chain[at[i]]
        /\ \A i, j \in 1 .. Len(k) : i < j => at[i] < at[j]
    /\ \A j \in 1 .. n : Garbage(chain[j], others) \/ \E i \in 1 .. Len(k) : k[i] = chain[j]

\* One round of the loop passes by a version that is garbage,
LEMMA GarbageIsDropped ==
    ASSUME NEW chain, NEW others, NEW k, NEW n \in Nat,
           Selected(chain, others, k, n), Garbage(chain[n + 1], others)
    PROVE  Selected(chain, others, k, n + 1)
<1>1. PICK at \in [1 .. Len(k) -> 1 .. n] :
        /\ \A i \in 1 .. Len(k) : k[i] = chain[at[i]]
        /\ \A i, j \in 1 .. Len(k) : i < j => at[i] < at[j]
  BY DEF Selected
<1>2. at \in [1 .. Len(k) -> 1 .. n + 1]
  BY <1>1
<1>3. \A j \in 1 .. n + 1 : Garbage(chain[j], others) \/ \E i \in 1 .. Len(k) : k[i] = chain[j]
  <2>1. \A j \in 1 .. n + 1 : j \in 1 .. n \/ j = n + 1
    OBVIOUS
  <2> QED
    BY <2>1, Zenon DEF Selected
<1> QED
  BY <1>1, <1>2, <1>3 DEF Selected

\* and appends any other one.
LEMMA OthersAreKept ==
    ASSUME NEW chain \in Seq(Version), NEW others, NEW k, NEW n \in Nat, n < Len(chain),
           Selected(chain, others, k, n), ~ Garbage(chain[n + 1], others)
    PROVE  Selected(chain, others, Append(k, chain[n + 1]), n + 1)
<1> DEFINE m == Append(k, chain[n + 1])
<1>1. PICK at \in [1 .. Len(k) -> 1 .. n] :
        /\ \A i \in 1 .. Len(k) : k[i] = chain[at[i]]
        /\ \A i, j \in 1 .. Len(k) : i < j => at[i] < at[j]
  BY DEF Selected
<1>2. k \in Seq(Version) /\ chain[n + 1] \in Version
  BY DEF Selected
<1>3. /\ m \in Seq(Version) /\ Len(m) = Len(k) + 1 /\ Len(k) \in Nat
      /\ \A i \in 1 .. Len(k) : m[i] = k[i]
      /\ m[Len(k) + 1] = chain[n + 1]
  BY <1>2
<1> HIDE DEF m
<1> DEFINE to == [i \in 1 .. Len(m) |-> IF i = Len(m) THEN n + 1 ELSE at[i]]
<1>4. to \in [1 .. Len(m) -> 1 .. n + 1]
  BY <1>1, <1>3
<1>5. \A i \in 1 .. Len(m) : m[i] = chain[to[i]]
  BY <1>1, <1>3
<1>6. ASSUME NEW i \in 1 .. Len(m), NEW j \in 1 .. Len(m), i < j
      PROVE  to[i] < to[j]
  <2>1. i \in 1 .. Len(k) /\ to[i] = at[i] /\ at[i] \in 1 .. n
    BY <1>1, <1>3, <1>6
  <2>2. CASE j = Len(m)
    BY <2>1, <2>2
  <2>3. CASE j # Len(m)
    <3>1. j \in 1 .. Len(k) /\ to[j] = at[j]
      BY <1>3, <2>3
    <3> QED
      BY <1>1, <1>6, <2>1, <3>1
  <2> QED
    BY <2>2, <2>3
<1>7. \A j \in 1 .. n + 1 : Garbage(chain[j], others) \/ \E i \in 1 .. Len(m) : m[i] = chain[j]
  <2>1. ASSUME NEW j \in 1 .. n
        PROVE  Garbage(chain[j], others) \/ \E i \in 1 .. Len(m) : m[i] = chain[j]
    <3>1. Garbage(chain[j], others) \/ \E i \in 1 .. Len(k) : k[i] = chain[j]
      BY Zenon DEF Selected
    <3> QED
      BY <1>3, <3>1
  <2>2. \E i \in 1 .. Len(m) : m[i] = chain[n + 1]
    BY <1>3
  <2>3. \A j \in 1 .. n + 1 : j \in 1 .. n \/ j = n + 1
    OBVIOUS
  <2> QED
    BY <2>1, <2>2, <2>3, Zenon
<1> HIDE DEF to
<1>8. \A i \in 1 .. Len(m) : ~ Garbage(m[i], others)
  <2>1. \A i \in 1 .. Len(k) : ~ Garbage(k[i], others)
    BY DEF Selected
  <2>2. \A i \in 1 .. Len(m) : i \in 1 .. Len(k) \/ m[i] = chain[n + 1]
    BY <1>3
  <2> QED
    BY <1>3, <2>1, <2>2
<1>9. Selected(chain, others, m, n + 1)
  BY <1>3, <1>4, <1>5, <1>6, <1>7, <1>8 DEF Selected
<1> QED
  BY <1>9 DEF m

\* What MVCCManager.gc leaves of a chain, however long it is.
THEOREM GcSelects ==
    ASSUME NEW chain \in Seq(Version), NEW others
    PROVE  Selected(chain, others, Collected(chain, others), Len(chain))
<1> DEFINE l == Len(chain)
<1>1. l \in Nat
  OBVIOUS
<1>2. \E g : Loop(chain, others, g, l)
  BY <1>1, LoopExists
<1>3. PICK g : Loop(chain, others, g, l) /\ Collected(chain, others) = g[l]
  BY <1>2, Zenon DEF Loop, Collected
<1> HIDE DEF l
<1>4. g[0] = <<>>
  BY <1>1, <1>3 DEF Loop
<1>5. ASSUME NEW n \in Nat, n < l
      PROVE  g[n + 1] = IF Garbage(chain[n + 1], others) THEN g[n] ELSE Append(g[n], chain[n + 1])
  <2>1. \A i \in 0 .. l : g[i] = IF i = 0 THEN <<>>
                                ELSE IF Garbage(chain[i], others) THEN g[i - 1]
                                ELSE Append(g[i - 1], chain[i])
    BY <1>3 DEF Loop
  <2>2. n + 1 \in 0 .. l /\ n + 1 # 0 /\ (n + 1) - 1 = n
    BY <1>1, <1>5
  <2> QED
    BY <2>1, <2>2
<1> DEFINE S == {n \in Nat : n <= l => Selected(chain, others, g[n], n)}
<1>6. 0 \in S
  <2>1. g[0] \in Seq(Version) /\ Len(g[0]) = 0
    BY <1>4
  <2>2. [i \in 1 .. Len(g[0]) |-> i] \in [1 .. Len(g[0]) -> 1 .. 0]
    BY <2>1
  <2>3. Selected(chain, others, g[0], 0)
    BY <2>1, <2>2 DEF Selected
  <2> QED
    BY <2>3
<1>7. ASSUME NEW n \in Nat, n \in S PROVE n + 1 \in S
  <2> SUFFICES ASSUME n + 1 <= l PROVE Selected(chain, others, g[n + 1], n + 1)
    OBVIOUS
  <2>1. n < l /\ Selected(chain, others, g[n], n)
    BY <1>1, <1>7
  <2>2. CASE Garbage(chain[n + 1], others)
    BY <1>5, <2>1, <2>2, GarbageIsDropped
  <2>3. CASE ~ Garbage(chain[n + 1], others)
    BY <1>5, <2>1, <2>3, OthersAreKept DEF l
  <2> QED
    BY <2>2, <2>3
<1>8. \A n \in Nat : n \in S
  <2> HIDE DEF S
  <2> QED
    BY <1>6, <1>7, EveryNumber
<1> QED
  BY <1>1, <1>3, <1>8 DEF l
-----------------------------------------------------------------------------
(* The inductive invariant.                                                *)

\* Versions are of transactions that have begun, none is younger than a
\* transaction that is active, and who left one of a page has a shadow of it.
VersionsFollow ==
    \A p \in Base : \A i \in DOMAIN versions[p] :
        /\ versions[p][i].created <= counter
        /\ \A t \in active : versions[p][i].created <= t
        /\ versions[p][i].created \in active => shadow[versions[p][i].created][p] # NoPage

IInv == TypeOK /\ ShadowsAreApart /\ VersionsFollow /\ BeforeImagesAreCurrent /\ ChainsDescend

\* The smallest number of a set is the one that is chosen.
LEMMA ChosenSmallest ==
    ASSUME NEW A \in SUBSET Nat, NEW t \in A, \A u \in A : t <= u
    PROVE  (CHOOSE x \in A : \A u \in A : x <= u) = t
<1> DEFINE c == CHOOSE x \in A : \A u \in A : x <= u
<1>1. c \in A /\ \A u \in A : c <= u
  BY Zenon
<1> HIDE DEF c
<1>2. c = t
  BY <1>1
<1> QED
  BY <1>2 DEF c

\* There is an oldest transaction when one is active.
LEMMA OldestIsActive ==
    ASSUME TypeOK, active # {}
    PROVE  /\ Oldest \in active /\ Oldest \in Txn /\ Oldest \in Nat
           /\ \A u \in active : Oldest <= u
<1>1. active \in SUBSET Nat /\ active \subseteq Txn
  BY TxnAssumption DEF active
<1>2. PICK t \in active : \A u \in active : t <= u
  BY <1>1, SmallestOf
<1>3. Oldest = t
  BY <1>1, <1>2, ChosenSmallest, Zenon DEF Oldest
<1> QED
  BY <1>1, <1>2, <1>3

\* The invariant holds initially.
LEMMA InitInvariant == Init => IInv
<1> SUFFICES ASSUME Init PROVE IInv
  OBVIOUS
<1> USE DEF Init
<1>1. active = {} /\ \A p \in Base : versions[p] = <<>>
  BY DEF active
<1>2. TypeOK
  <2>1. counter \in Nat /\ state \in [Txn -> {"none", "active", "committed", "aborted"}]
    OBVIOUS
  <2>2. snapshot \in [Txn -> SUBSET Txn] /\ shadow \in [Txn -> [Base -> Spare \cup {NoPage}]]
    BY DEF NoShadows
  <2>3. held \in [Spare -> Data \cup {NoData}] /\ versions \in [Base -> Seq(Version)]
    OBVIOUS
  <2> QED
    BY <2>1, <2>2, <2>3 DEF TypeOK
<1>3. ShadowsAreApart
  BY DEF ShadowsAreApart, OneWriter, Holds, NoShadows
<1>4. VersionsFollow /\ BeforeImagesAreCurrent /\ ChainsDescend
  BY <1>1 DEF VersionsFollow, BeforeImagesAreCurrent, ChainsDescend
<1> QED
  BY <1>2, <1>3, <1>4 DEF IInv
-----------------------------------------------------------------------------
(* Types.                                                                  *)

\* What the pool or the file has for a page is content of a page.
LEMMA PooledIsData ==
    ASSUME TypeOK, NEW s \in Spare
    PROVE  Pooled(s) \in Data
BY DEF TypeOK, Pooled

\* A flush writes content of pages.
LEMMA FlushedIsData == TypeOK => Flushed \in [Base \cup Spare -> Data]
BY DEF TypeOK, Flushed

\* No step leaves the types.
LEMMA TypeStep == IInv /\ [Next]_vars => TypeOK'
<1> SUFFICES ASSUME TypeOK, ShadowsAreApart, [Next]_vars PROVE TypeOK'
  BY DEF IInv
<1> USE TxnAssumption, DataAssumption, PageAssumption DEF TypeOK
<1>1. CASE Begin
  <2>1. counter' \in Nat /\ \A t \in Txn : t > counter' => state'[t] = "none"
    BY <1>1 DEF Begin
  <2>2. snapshot' \in [Txn -> SUBSET Txn]
    BY <1>1 DEF Begin, active
  <2> QED
    BY <1>1, <2>1, <2>2 DEF Begin
<1>2. ASSUME NEW p \in Base, EnsureShadow(p) PROVE TypeOK'
  <2>1. Oldest \in Txn
    BY <1>2, OldestIsActive DEF EnsureShadow
  <2>2. PICK s \in Spare :
          /\ Take(s)
          /\ shadow' = [shadow EXCEPT ![Oldest][p] = s]
          /\ content' = [content EXCEPT ![s] = content[p]]
    BY <1>2 DEF EnsureShadow
  <2>3. used' \subseteq Spare /\ free' \subseteq used' /\ used \subseteq used'
    BY <2>2 DEF Take
  <2>4. shadow' \in [Txn -> [Base -> Spare \cup {NoPage}]] /\ content' \in [Base \cup Spare -> Data]
    BY <2>1, <2>2
  <2>5. versions' \in [Base -> Seq(Version)]
    <3>1. [data |-> content[p], created |-> Oldest] \in Version
      BY <2>1 DEF Version
    <3>2. Pushed(versions[p], [data |-> content[p], created |-> Oldest]) \in Seq(Version)
      BY <3>1 DEF Pushed
    <3> QED
      BY <1>2, <3>2 DEF EnsureShadow
  <2> QED
    BY <1>2, <2>3, <2>4, <2>5 DEF EnsureShadow
<1>3. ASSUME NEW p \in Base, NEW d \in Data, WriteShadow(p, d) PROVE TypeOK'
  <2>1. Oldest \in Txn
    BY <1>3, OldestIsActive DEF WriteShadow
  <2>2. PICK s \in Spare :
          /\ Take(s)
          /\ shadow' = [shadow EXCEPT ![Oldest][p] = s]
          /\ content' = [content EXCEPT ![s] = content[p]]
          /\ held' = [held EXCEPT ![s] = d] /\ dirty' = dirty \cup {s}
    BY <1>3 DEF WriteShadow
  <2>3. used' \subseteq Spare /\ free' \subseteq used' /\ used \subseteq used' /\ s \in used'
    BY <2>2 DEF Take
  <2>4. shadow' \in [Txn -> [Base -> Spare \cup {NoPage}]] /\ content' \in [Base \cup Spare -> Data]
    BY <2>1, <2>2
  <2>5. held' \in [Spare -> Data \cup {NoData}] /\ dirty' \subseteq {x \in used' : held'[x] # NoData}
    BY <2>2, <2>3
  <2> QED
    BY <1>3, <2>3, <2>4, <2>5 DEF WriteShadow
<1>4. ASSUME NEW p \in Base, NEW d \in Data, Write(p, d) PROVE TypeOK'
  <2>1. Oldest \in Txn /\ shadow[Oldest][p] \in Spare /\ shadow[Oldest][p] \in used
    BY <1>4, OldestIsActive DEF Write, Shadowed, ShadowsAreApart, Holds
  <2> QED
    BY <1>4, <2>1 DEF Write
<1>5. ASSUME NEW p \in Base, NEW d \in Data, WriteOutside(p, d) PROVE TypeOK'
  BY <1>5 DEF WriteOutside
<1>6. ASSUME NEW p \in Base, Read(p) PROVE TypeOK'
  <2>1. Oldest \in Txn /\ shadow[Oldest][p] \in Spare
    BY <1>6, OldestIsActive DEF Read, Shadowed
  <2>2. Pooled(shadow[Oldest][p]) \in Data
    BY <2>1, PooledIsData
  <2> QED
    BY <1>6, <2>1, <2>2 DEF Read
<1>7. ASSUME NEW t \in Txn, Commit(t) PROVE TypeOK'
  <2>1. content' \in [Base \cup Spare -> Data]
    <3>1. Published(t) \in [Base \cup Spare -> Data]
      BY FlushedIsData DEF Published
    <3> QED
      BY <1>7, <3>1 DEF Commit
  <2>2. versions' \in [Base -> Seq(Version)]
    <3>1. ASSUME NEW p \in Base PROVE Collected(versions[p], active \ {t}) \in Seq(Version)
      BY GcSelects DEF Selected
    <3> QED
      BY <1>7, <3>1 DEF Commit
  <2>3. free' \subseteq used
    BY <1>7 DEF Commit
  <2>4. shadow' \in [Txn -> [Base -> Spare \cup {NoPage}]]
        /\ state' \in [Txn -> {"none", "active", "committed", "aborted"}]
    BY <1>7 DEF Commit, NoShadows
  <2>5. state[t] = "active"
    BY <1>7 DEF Commit, active
  <2>6. \A x \in Txn : x > counter => state'[x] = "none"
    BY <1>7, <2>5 DEF Commit
  <2> QED
    BY <1>7, <2>1, <2>2, <2>3, <2>4, <2>6 DEF Commit
<1>8. ASSUME NEW t \in Txn, Rollback(t) PROVE TypeOK'
  <2>1. free' \subseteq used
    BY <1>8 DEF Rollback, ShadowsAreApart, Holds
  <2>2. shadow' \in [Txn -> [Base -> Spare \cup {NoPage}]]
        /\ state' \in [Txn -> {"none", "active", "committed", "aborted"}]
    BY <1>8 DEF Rollback, NoShadows
  <2>3. state[t] = "active"
    BY <1>8 DEF Rollback, active
  <2>4. \A x \in Txn : x > counter => state'[x] = "none"
    BY <1>8, <2>3 DEF Rollback
  <2> QED
    BY <1>8, <2>1, <2>2, <2>4 DEF Rollback
<1>9. CASE UNCHANGED vars
  BY <1>9 DEF vars
<1> QED
  BY <1>1, <1>2, <1>3, <1>4, <1>5, <1>6, <1>7, <1>8, <1>9 DEF Next
-----------------------------------------------------------------------------
(* Shadow pages.                                                           *)

\* Who is active and not younger than any other is the oldest.
LEMMA OldestNext ==
    ASSUME TypeOK', NEW t \in active', \A u \in active' : t <= u
    PROVE  Oldest' = t
<1>1. active' \in SUBSET Nat
  BY TxnAssumption DEF active
<1> QED
  BY <1>1, ChosenSmallest, Zenon DEF Oldest

\* As long as nobody ends, the oldest transaction stays the oldest.
LEMMA OldestStays ==
    ASSUME TypeOK, TypeOK', active # {}, active' = active
    PROVE  Oldest' = Oldest
BY OldestIsActive, OldestNext

\* A transaction has shadows when it has one of some page.
LEMMA SomeShadow ==
    ASSUME TypeOK, NEW t \in Txn
    PROVE  shadow[t] = NoShadows <=> \A p \in Base : ~ Holds(t, p)
<1>1. shadow[t] = [p \in Base |-> shadow[t][p]]
  BY DEF TypeOK
<1> QED
  BY <1>1 DEF NoShadows, Holds

\* A new shadow page is nobody else's.
LEMMA NewShadow ==
    ASSUME TypeOK, TypeOK', ShadowsAreApart, active # {}, active' = active,
           NEW p \in Base, ~ Shadowed(p), NEW s \in Spare, Take(s),
           shadow' = [shadow EXCEPT ![Oldest][p] = s]
    PROVE  ShadowsAreApart'
<1>1. Oldest \in active /\ Oldest \in Txn /\ Oldest' = Oldest
  BY OldestIsActive, OldestStays
<1>2. s \notin used \ free /\ used' \ free' = (used \ free) \cup {s}
  BY DEF Take, TypeOK
<1>3. \A t \in Txn, q \in Base :
        shadow'[t][q] = IF t = Oldest /\ q = p THEN s ELSE shadow[t][q]
  BY <1>1 DEF TypeOK
<1>4. OneWriter'
  <2>1. \A t \in Txn : t # Oldest => shadow'[t] = shadow[t]
    BY <1>1 DEF TypeOK
  <2> QED
    BY <1>1, <2>1 DEF ShadowsAreApart, OneWriter, NoShadows
<1>5. ASSUME NEW t \in Txn, NEW q \in Base, NEW r \in Base, Holds(t, q)'
      PROVE  /\ shadow'[t][q] \in used' \ free'
             /\ Holds(t, r)' /\ q # r => shadow'[t][q] # shadow'[t][r]
  <2>1. ASSUME NEW x \in Base, ~ (t = Oldest /\ x = p), shadow'[t][x] # NoPage
        PROVE  shadow'[t][x] \in used \ free
    BY <1>3, <2>1 DEF ShadowsAreApart, Holds
  <2>2. CASE t = Oldest /\ (q = p \/ r = p)
    BY <1>2, <1>3, <1>5, <2>1, <2>2 DEF Holds
  <2>3. CASE ~ (t = Oldest /\ (q = p \/ r = p))
    BY <1>2, <1>3, <1>5, <2>3 DEF ShadowsAreApart, Holds
  <2> QED
    BY <2>2, <2>3
<1> QED
  BY <1>4, <1>5, Zenon DEF ShadowsAreApart

\* When a transaction ends the others' shadow pages stay what they are.
LEMMA EndKeepsShadows ==
    ASSUME TypeOK, TypeOK', ShadowsAreApart, NEW t \in active, active' = active \ {t},
           shadow' = [shadow EXCEPT ![t] = NoShadows],
           used' = used, free' \subseteq free \cup {shadow[t][p] : p \in {p \in Base : Holds(t, p)}}
    PROVE  ShadowsAreApart'
<1>1. t \in Txn /\ Oldest \in active /\ \A u \in active : Oldest <= u
  BY OldestIsActive DEF active
<1>2. \A x \in Txn : shadow'[x] = IF x = t THEN NoShadows ELSE shadow[x]
  BY <1>1 DEF TypeOK
<1>3. OneWriter'
  <2> SUFFICES ASSUME NEW x \in Txn, shadow'[x] # NoShadows
               PROVE  x \in active' /\ x = Oldest'
    BY DEF OneWriter, NoShadows
  <2>1. x # t /\ x \in active /\ x = Oldest
    BY <1>2 DEF ShadowsAreApart, OneWriter
  <2>2. x \in active' /\ \A u \in active' : x <= u
    BY <1>1, <2>1
  <2> QED
    BY <2>2, OldestNext
<1>4. ASSUME NEW x \in Txn, NEW q \in Base, NEW r \in Base, Holds(x, q)'
      PROVE  /\ shadow'[x][q] \in used' \ free'
             /\ Holds(x, r)' /\ q # r => shadow'[x][q] # shadow'[x][r]
  <2>1. x # t /\ shadow'[x] = shadow[x]
    BY <1>2, <1>4 DEF Holds, NoShadows
  <2>2. Holds(x, q) /\ shadow[x] # NoShadows
    BY <1>4, <2>1, SomeShadow DEF Holds
  <2>3. shadow[t] = NoShadows
    BY <1>1, <2>1, <2>2 DEF ShadowsAreApart, OneWriter
  <2>4. free' \subseteq free
    BY <2>3 DEF Holds, NoShadows
  <2> QED
    BY <2>1, <2>2, <2>4 DEF ShadowsAreApart, Holds
<1> QED
  BY <1>3, <1>4, Zenon DEF ShadowsAreApart

\* No step mixes the shadow pages of transactions.
LEMMA ShadowsStep == IInv /\ [Next]_vars => ShadowsAreApart'
<1> SUFFICES ASSUME TypeOK, TypeOK', ShadowsAreApart, [Next]_vars PROVE ShadowsAreApart'
  BY TypeStep DEF IInv
<1>0. ASSUME active' = active, UNCHANGED <<shadow, used, free>>
      PROVE  ShadowsAreApart'
  <2>1. \A t \in Txn : shadow[t] # NoShadows => t \in active' /\ t = Oldest'
    BY <1>0, OldestStays DEF ShadowsAreApart, OneWriter
  <2> QED
    BY <1>0, <2>1 DEF ShadowsAreApart, OneWriter, Holds, NoShadows
<1>1. CASE Begin
  <2>1. counter' \in Txn /\ counter' = counter + 1 /\ active' = active \cup {counter'}
    BY <1>1 DEF Begin, active, TypeOK
  <2>2. ASSUME NEW t \in Txn, shadow[t] # NoShadows
        PROVE  t \in active' /\ t = Oldest'
    <3>1. t \in active /\ t = Oldest /\ t <= counter
      BY <2>2, TxnAssumption DEF ShadowsAreApart, OneWriter, active, TypeOK
    <3>2. \A u \in active' : t <= u
      BY <2>1, <3>1, OldestIsActive DEF TypeOK
    <3> QED
      BY <2>1, <3>1, <3>2, OldestNext
  <2> QED
    BY <1>1, <2>2 DEF Begin, ShadowsAreApart, OneWriter, Holds, NoShadows
<1>2. ASSUME NEW p \in Base, EnsureShadow(p) PROVE ShadowsAreApart'
  BY <1>2, NewShadow DEF EnsureShadow, active
<1>3. ASSUME NEW p \in Base, NEW d \in Data, WriteShadow(p, d) PROVE ShadowsAreApart'
  BY <1>3, NewShadow DEF WriteShadow, active
<1>4. ASSUME NEW p \in Base, NEW d \in Data, Write(p, d) \/ WriteOutside(p, d)
      PROVE  ShadowsAreApart'
  BY <1>0, <1>4 DEF Write, WriteOutside, active
<1>5. ASSUME NEW p \in Base, Read(p) PROVE ShadowsAreApart'
  BY <1>0, <1>5 DEF Read, active
<1>6. ASSUME NEW t \in Txn, Commit(t) PROVE ShadowsAreApart'
  <2>1. t \in active /\ active' = active \ {t}
    BY <1>6 DEF Commit, active, TypeOK
  <2> QED
    BY <1>6, <2>1, EndKeepsShadows DEF Commit
<1>7. ASSUME NEW t \in Txn, Rollback(t) PROVE ShadowsAreApart'
  <2>1. t \in active /\ active' = active \ {t}
    BY <1>7 DEF Rollback, active, TypeOK
  <2> QED
    BY <1>7, <2>1, EndKeepsShadows DEF Rollback, Holds
<1>8. CASE UNCHANGED vars
  BY <1>0, <1>8 DEF vars, active
<1> QED
  BY <1>1, <1>2, <1>3, <1>4, <1>5, <1>6, <1>7, <1>8 DEF Next
-----------------------------------------------------------------------------
(* Versions.                                                               *)

Versions == VersionsFollow /\ BeforeImagesAreCurrent /\ ChainsDescend

\* Whose version it is and what it holds.
LEMMA VersionTyped ==
    ASSUME TypeOK, NEW p \in Base, NEW i \in DOMAIN versions[p]
    PROVE  /\ versions[p][i].created \in Txn /\ versions[p][i].created \in Nat
           /\ versions[p][i].data \in Data
<1>1. versions[p] \in Seq(Version)
  BY DEF TypeOK
<1>2. versions[p][i] \in Version
  BY <1>1
<1> QED
  BY <1>2, TxnAssumption DEF Version

\* A step that leaves the versions alone, and of the pages those that a
\* transaction may want back.
LEMMA VersionsUntouched ==
    ASSUME TypeOK, Versions, UNCHANGED versions,
           counter' \in {counter, counter + 1},
           \A t \in active' : t \in active \/ t = counter + 1,
           \A t \in active \cap active', p \in Base : Holds(t, p) => Holds(t, p)',
           active' = {} \/ \A p \in Base : content'[p] = content[p]
    PROVE  Versions'
<1> USE DEF TypeOK, Versions
<1>1. ASSUME NEW p \in Base, NEW i \in DOMAIN versions[p]
      PROVE  LET c == versions[p][i].created
             IN  /\ c <= counter' /\ \A t \in active' : c <= t
                 /\ c \in active' => shadow'[c][p] # NoPage
                 /\ c \in active' => versions[p][i].data = content'[p]
  <2> DEFINE c == versions[p][i].created
  <2>1. c <= counter /\ c \in Txn /\ c \in Nat
    BY VersionTyped DEF VersionsFollow
  <2>2. \A t \in active : c <= t
    BY DEF VersionsFollow
  <2>3. c \in active' => c \in active
    BY <2>1
  <2>4. c \in active => shadow[c][p] # NoPage /\ versions[p][i].data = content[p]
    BY DEF VersionsFollow, BeforeImagesAreCurrent
  <2> HIDE DEF c
  <2>5. c <= counter' /\ \A t \in active' : c <= t
    BY <2>1, <2>2
  <2>6. c \in active' => shadow'[c][p] # NoPage /\ versions[p][i].data = content'[p]
    BY <2>3, <2>4 DEF Holds
  <2> QED
    BY <2>5, <2>6 DEF c
<1>2. VersionsFollow' /\ BeforeImagesAreCurrent'
  BY <1>1 DEF VersionsFollow, BeforeImagesAreCurrent
<1>3. ChainsDescend'
  BY DEF ChainsDescend
<1> QED
  BY <1>2, <1>3

\* The copy of a page becomes the newest version of it.
LEMMA VersionsPushed ==
    ASSUME IInv, NEW p \in Base, EnsureShadow(p)
    PROVE  Versions'
<1> USE DEF IInv, TypeOK
<1> DEFINE v == [data |-> content[p], created |-> Oldest]
<1>1. /\ Oldest \in active /\ Oldest \in Txn /\ Oldest \in Nat /\ Oldest <= counter
      /\ \A u \in active : Oldest <= u
  <2>1. /\ Oldest \in active /\ Oldest \in Txn /\ Oldest \in Nat
        /\ \A u \in active : Oldest <= u
    BY OldestIsActive DEF EnsureShadow
  <2>2. ~ (Oldest > counter)
    BY <2>1 DEF active
  <2> QED
    BY <2>1, <2>2
<1>2. shadow[Oldest][p] = NoPage /\ active' = active /\ counter' = counter
  BY <1>1 DEF EnsureShadow, Shadowed, active
<1>3. PICK s \in Spare : /\ shadow' = [shadow EXCEPT ![Oldest][p] = s]
                         /\ content' = [content EXCEPT ![s] = content[p]]
  BY DEF EnsureShadow
<1>4. /\ \A q \in Base : content'[q] = content[q]
      /\ shadow'[Oldest][p] # NoPage
      /\ \A t \in Txn, q \in Base : shadow[t][q] # NoPage => shadow'[t][q] # NoPage
  BY <1>1, <1>3, PageAssumption
<1>5. /\ \A q \in Base : q # p => versions'[q] = versions[q]
      /\ versions'[p] = <<v>> \o versions[p]
  BY ZenonT(60) DEF EnsureShadow, Pushed
<1>6. v \in Version /\ v.created = Oldest /\ v.data = content[p]
  BY <1>1 DEF Version
<1> HIDE DEF v
<1>7. /\ DOMAIN versions'[p] = 1 .. Len(versions[p]) + 1
      /\ DOMAIN versions[p] = 1 .. Len(versions[p]) /\ Len(versions[p]) \in Nat
      /\ versions'[p][1] = v
      /\ \A i \in DOMAIN versions[p] : versions'[p][i + 1] = versions[p][i]
  BY <1>5, <1>6
<1>8. \A j \in DOMAIN versions'[p] : j = 1 \/ (j - 1 \in DOMAIN versions[p] /\ versions'[p][j] = versions[p][j - 1])
  <2> SUFFICES ASSUME NEW j \in DOMAIN versions'[p], j # 1
               PROVE  j - 1 \in DOMAIN versions[p] /\ versions'[p][j] = versions[p][j - 1]
    OBVIOUS
  <2>1. j \in Nat /\ j - 1 \in DOMAIN versions[p] /\ (j - 1) + 1 = j
    BY <1>7
  <2> QED
    BY <1>7, <2>1
<1>9. \A q \in Base : \A i \in DOMAIN versions[q] :
        /\ versions[q][i].created \in Txn
        /\ versions[q][i].created <= counter
        /\ \A u \in active : versions[q][i].created <= u
        /\ versions[q][i].created \in active =>
              shadow[versions[q][i].created][q] # NoPage /\ versions[q][i].data = content[q]
  BY VersionTyped DEF VersionsFollow, BeforeImagesAreCurrent
<1>10. ASSUME NEW q \in Base, NEW i \in DOMAIN versions'[q]
       PROVE  LET w == versions'[q][i]
              IN  /\ w.created <= counter' /\ \A u \in active' : w.created <= u
                  /\ w.created \in active' => shadow'[w.created][q] # NoPage /\ w.data = content'[q]
  <2>1. CASE q # p
    BY <1>2, <1>4, <1>5, <1>9, <2>1
  <2>2. CASE q = p /\ i = 1
    BY <1>1, <1>2, <1>4, <1>6, <1>7, <2>2
  <2>3. CASE q = p /\ i # 1
    <3>1. i - 1 \in DOMAIN versions[p] /\ versions'[p][i] = versions[p][i - 1]
      BY <1>8, <2>3
    <3> QED
      BY <1>2, <1>4, <1>9, <2>3, <3>1
  <2> QED
    BY <2>1, <2>2, <2>3
<1>11. VersionsFollow' /\ BeforeImagesAreCurrent'
  BY <1>10 DEF VersionsFollow, BeforeImagesAreCurrent
<1>12. ASSUME NEW q \in Base, NEW i \in DOMAIN versions'[q], NEW j \in DOMAIN versions'[q], i < j
       PROVE  versions'[q][j].created < versions'[q][i].created
  <2>1. CASE q # p
    BY <1>5, <1>12, <2>1 DEF ChainsDescend
  <2>2. CASE q = p
    <3>1. j \in 1 .. Len(versions[p]) + 1 /\ i \in 1 .. Len(versions[p]) + 1 /\ j # 1
      BY <1>7, <1>12, <2>2
    <3>2. j - 1 \in DOMAIN versions[p] /\ versions'[p][j] = versions[p][j - 1]
      BY <1>8, <2>2, <3>1
    <3>3. CASE i = 1
      <4>1. /\ versions[p][j - 1].created \in Nat /\ versions[p][j - 1].created <= Oldest
            /\ versions[p][j - 1].created # Oldest
        BY <1>1, <1>2, <1>9, <3>2, TxnAssumption, ZenonT(60)
      <4> QED
        BY <1>1, <1>6, <1>7, <2>2, <3>2, <3>3, <4>1, SMTT(60)
    <3>4. CASE i # 1
      <4>1. i - 1 \in DOMAIN versions[p] /\ versions'[p][i] = versions[p][i - 1] /\ i - 1 < j - 1
        BY <1>8, <1>12, <2>2, <3>1, <3>4
      <4> QED
        BY <2>2, <3>2, <4>1 DEF ChainsDescend
    <3> QED
      BY <3>3, <3>4
  <2> QED
    BY <2>1, <2>2
<1>13. ChainsDescend'
  BY <1>12 DEF ChainsDescend
<1> QED
  BY <1>11, <1>13 DEF Versions
\* What gc leaves of a page are some of its versions, in the same order.
LEMMA VersionsAreKept ==
    ASSUME TypeOK, NEW t \in Txn, Commit(t), NEW p \in Base
    PROVE  \E at \in [DOMAIN versions'[p] -> DOMAIN versions[p]] :
              /\ \A i \in DOMAIN versions'[p] : versions'[p][i] = versions[p][at[i]]
              /\ \A i, j \in DOMAIN versions'[p] : i < j => at[i] < at[j]
<1> DEFINE old == versions[p]
           new == versions'[p]
<1>1. old \in Seq(Version) /\ new = Collected(old, active \ {t})
  BY DEF TypeOK, Commit
<1> HIDE DEF old, new
<1>2. Selected(old, active \ {t}, new, Len(old))
  BY <1>1, GcSelects
<1>3. DOMAIN old = 1 .. Len(old) /\ DOMAIN new = 1 .. Len(new)
  BY <1>1, <1>2 DEF Selected
<1>4. \E at \in [DOMAIN new -> DOMAIN old] :
        /\ \A i \in DOMAIN new : new[i] = old[at[i]]
        /\ \A i, j \in DOMAIN new : i < j => at[i] < at[j]
  BY <1>2, <1>3 DEF Selected
<1> QED
  BY <1>4 DEF old, new

\* COMMIT changes no page that another transaction has left a version of.
LEMMA VersionsCommitted ==
    ASSUME IInv, NEW t \in Txn, Commit(t)
    PROVE  Versions'
<1> USE DEF IInv
<1>1. t \in active /\ active' = active \ {t} /\ counter' = counter
  BY DEF Commit, active, TypeOK
<1>2. ASSUME NEW p \in Base, t # Oldest PROVE content'[p] = content[p]
  <2>1. shadow[t][p] = NoPage
    BY <1>2 DEF ShadowsAreApart, OneWriter, NoShadows
  <2>2. p \notin dirty
    BY PageAssumption DEF TypeOK
  <2> QED
    BY <2>1, <2>2 DEF Commit, Published, Flushed
<1>3. \A x \in active' : shadow'[x] = shadow[x]
  BY <1>1 DEF Commit, TypeOK, active
<1>4. ASSUME NEW p \in Base, NEW i \in DOMAIN versions[p]
      PROVE  LET v == versions[p][i]
             IN  /\ v.created <= counter' /\ \A u \in active' : v.created <= u
                 /\ v.created \in active' => shadow'[v.created][p] # NoPage /\ v.data = content'[p]
  <2> DEFINE v == versions[p][i]
  <2>1. v.created \in Nat /\ v.created <= counter /\ \A u \in active : v.created <= u
    BY VersionTyped DEF VersionsFollow
  <2>2. v.created \in active => shadow[v.created][p] # NoPage /\ v.data = content[p]
    BY DEF VersionsFollow, BeforeImagesAreCurrent
  <2> HIDE DEF v
  <2>3. ASSUME v.created \in active' PROVE shadow'[v.created][p] # NoPage /\ v.data = content'[p]
    <3>1. v.created = Oldest /\ v.created # t
      BY <1>1, <2>1, <2>3, OldestIsActive
    <3> QED
      BY <1>1, <1>2, <1>3, <2>2, <2>3, <3>1
  <2> QED
    BY <1>1, <2>1, <2>3 DEF v
<1>5. ASSUME NEW p \in Base, NEW i \in DOMAIN versions'[p]
      PROVE  \E k \in DOMAIN versions[p] : versions'[p][i] = versions[p][k]
  BY VersionsAreKept
<1>6. VersionsFollow' /\ BeforeImagesAreCurrent'
  BY <1>4, <1>5 DEF VersionsFollow, BeforeImagesAreCurrent
<1>7. ASSUME NEW p \in Base, NEW i \in DOMAIN versions'[p], NEW j \in DOMAIN versions'[p], i < j
      PROVE  versions'[p][j].created < versions'[p][i].created
  BY <1>7, VersionsAreKept DEF ChainsDescend
<1>8. ChainsDescend'
  BY <1>7 DEF ChainsDescend
<1> QED
  BY <1>6, <1>8 DEF Versions

\* No step spoils the versions.
LEMMA VersionsStep == IInv /\ [Next]_vars => Versions'
<1> SUFFICES ASSUME IInv, [Next]_vars PROVE Versions'
  OBVIOUS
<1>0. TypeOK /\ TypeOK' /\ Versions /\ ShadowsAreApart
  BY TypeStep DEF IInv, Versions
<1>1. CASE Begin
  <2>1. /\ counter' = counter + 1 /\ UNCHANGED <<shadow, content, versions>>
        /\ \A t \in active' : t \in active \/ t = counter + 1
    BY <1>0, <1>1 DEF Begin, active, TypeOK
  <2> QED
    BY <1>0, <2>1, VersionsUntouched DEF Holds
<1>2. ASSUME NEW p \in Base, EnsureShadow(p) PROVE Versions'
  BY <1>2, VersionsPushed
<1>3. ASSUME NEW p \in Base, NEW d \in Data, WriteShadow(p, d) PROVE Versions'
  <2>1. UNCHANGED <<counter, state, versions>> /\ active' = active
    BY <1>3 DEF WriteShadow, active
  <2>2. PICK s \in Spare : /\ shadow' = [shadow EXCEPT ![Oldest][p] = s]
                           /\ content' = [content EXCEPT ![s] = content[p]]
    BY <1>3 DEF WriteShadow
  <2>3. \A q \in Base : content'[q] = content[q]
    BY <1>0, <2>2, PageAssumption DEF TypeOK
  <2>4. \A t \in active \cap active', q \in Base : Holds(t, q) => Holds(t, q)'
    BY <1>0, <2>2, PageAssumption DEF TypeOK, Holds, active
  <2> QED
    BY <1>0, <2>1, <2>3, <2>4, VersionsUntouched
<1>4. ASSUME NEW p \in Base, NEW d \in Data, Write(p, d) \/ WriteOutside(p, d) PROVE Versions'
  BY <1>0, <1>4, VersionsUntouched DEF Write, WriteOutside, active, Holds
<1>5. ASSUME NEW p \in Base, Read(p) PROVE Versions'
  BY <1>0, <1>5, VersionsUntouched DEF Read, active, Holds
<1>6. ASSUME NEW t \in Txn, Commit(t) PROVE Versions'
  BY <1>6, VersionsCommitted
<1>7. ASSUME NEW t \in Txn, Rollback(t) PROVE Versions'
  <2>1. /\ UNCHANGED <<counter, content, versions>> /\ active' = active \ {t}
        /\ \A x \in Txn : x # t => shadow'[x] = shadow[x]
    BY <1>0, <1>7 DEF Rollback, active, TypeOK
  <2>2. \A x \in active \cap active', q \in Base : Holds(x, q) => Holds(x, q)'
    BY <2>1 DEF Holds, active
  <2> QED
    BY <1>0, <2>1, <2>2, VersionsUntouched
<1>8. CASE UNCHANGED vars
  BY <1>0, <1>8, VersionsUntouched DEF vars, active, Holds
<1> QED
  BY <1>1, <1>2, <1>3, <1>4, <1>5, <1>6, <1>7, <1>8 DEF Next

-----------------------------------------------------------------------------
(* Safety.                                                                 *)

\* The invariant holds of every behaviour.
LEMMA Invariant == Spec => []IInv
<1>1. IInv /\ [Next]_vars => IInv'
  BY TypeStep, ShadowsStep, VersionsStep DEF IInv, Versions
<1> QED
  BY InitInvariant, <1>1, PTL DEF Spec

\* The variables of begin, commit, rollback and ensure_shadow keep their types.
THEOREM TransactionsTyped == Spec => []TypeOK
<1>1. IInv => TypeOK
  BY DEF IInv
<1> QED
  BY Invariant, <1>1, PTL

\* No two transactions change one page or share a shadow page, however many
\* are begun and in whatever order they end.
THEOREM ShadowsStayApart == Spec => []ShadowsAreApart
<1>1. IInv => ShadowsAreApart
  BY DEF IInv
<1> QED
  BY Invariant, <1>1, PTL

\* The version a transaction left is the page as the file has it.
THEOREM BeforeImagesStayCurrent == Spec => []BeforeImagesAreCurrent
<1>1. IInv => BeforeImagesAreCurrent
  BY DEF IInv
<1> QED
  BY Invariant, <1>1, PTL

\* create_version keeps every chain in descending order of transactions.
THEOREM ChainsStayDescending == Spec => []ChainsDescend
<1>1. IInv => ChainsDescend
  BY DEF IInv
<1> QED
  BY Invariant, <1>1, PTL
\* gc takes no version of a transaction that goes on: what it needs to be
\* undone, or to be read around, is there until it ends.
THEOREM OwnVersionsAreKept == Spec => OwnVersionsStay
<1> DEFINE Kept == \A p \in Base, t \in active' : Left(p, versions, t) # {} => Left(p, versions', t) # {}
<1>1. IInv /\ [Next]_vars => [Kept]_vars
  <2> SUFFICES ASSUME TypeOK, Next PROVE Kept
    BY DEF IInv
  <2>1. CASE UNCHANGED versions
    BY <2>1 DEF Left
  <2>2. ASSUME NEW p \in Base, EnsureShadow(p) PROVE Kept
    <3> DEFINE v == [data |-> content[p], created |-> Oldest]
    <3>1. Oldest \in Txn /\ v \in Version
      BY <2>2, OldestIsActive DEF EnsureShadow, Version, TypeOK
    <3>2. /\ \A q \in Base : q # p => versions'[q] = versions[q]
          /\ versions'[p] = <<v>> \o versions[p] /\ versions[p] \in Seq(Version)
      BY <2>2, ZenonT(60) DEF EnsureShadow, Pushed, TypeOK
    <3> HIDE DEF v
    <3>3. \A i \in DOMAIN versions[p] : i + 1 \in DOMAIN versions'[p] /\ versions'[p][i + 1] = versions[p][i]
      BY <3>1, <3>2
    <3>4. ASSUME NEW q \in Base, NEW x \in active', NEW i \in Left(q, versions, x)
          PROVE  Left(q, versions', x) # {}
      <4>1. CASE q = p
        <5>1. i \in DOMAIN versions[p] /\ versions[p][i].created = x
          BY <3>4, <4>1 DEF Left
        <5>2. i + 1 \in Left(p, versions', x)
          BY <3>3, <5>1 DEF Left
        <5> QED
          BY <4>1, <5>2
      <4>2. CASE q # p
        BY <3>2, <3>4, <4>2 DEF Left
      <4> QED
        BY <4>1, <4>2
    <3> QED
      BY <3>4
  <2>3. ASSUME NEW t \in Txn, Commit(t) PROVE Kept
    <3>1. active' = active \ {t}
      BY <2>3 DEF Commit, active, TypeOK
    <3>2. ASSUME NEW p \in Base, NEW x \in active', NEW i \in Left(p, versions, x)
          PROVE  Left(p, versions', x) # {}
      <4> DEFINE old == versions[p]
                 new == versions'[p]
      <4>1. old \in Seq(Version) /\ Selected(old, active \ {t}, new, Len(old))
        BY <2>3, GcSelects DEF TypeOK, Commit
      <4> HIDE DEF new
      <4>2. i \in 1 .. Len(old) /\ old[i].created = x
        BY <3>2, <4>1 DEF Left
      <4>3. ~ Garbage(old[i], active \ {t})
        BY <3>1, <4>2 DEF Garbage
      <4>4. PICK k \in 1 .. Len(new) : new[k] = old[i]
        BY <4>1, <4>2, <4>3 DEF Selected
      <4>5. k \in DOMAIN new
        BY <4>1, <4>4 DEF Selected
      <4> QED
        BY <4>2, <4>4, <4>5 DEF Left, new
    <3> QED
      BY <3>2
  <2>4. ASSUME NEW p \in Base, NEW d \in Data,
               WriteShadow(p, d) \/ Write(p, d) \/ WriteOutside(p, d)
        PROVE  Kept
    BY <2>1, <2>4 DEF WriteShadow, Write, WriteOutside
  <2>5. CASE Begin \/ (\E p \in Base : Read(p)) \/ (\E t \in Txn : Rollback(t))
    BY <2>1, <2>5 DEF Begin, Read, Rollback
  <2> QED
    BY <2>2, <2>3, <2>4, <2>5 DEF Next
<1> QED
  BY Invariant, <1>1, PTL DEF Spec, OwnVersionsStay
-----------------------------------------------------------------------------
(* The pool and the shadow pages.                                          *)

\* What the pool will not write of a shadow page is what the file has.
PoolAgrees ==
    \A t \in Txn, p \in Base :
        Holds(t, p) /\ shadow[t][p] \notin dirty /\ held[shadow[t][p]] # NoData
            => held[shadow[t][p]] = content[shadow[t][p]]

\* A shadow page is a spare page, and no other than that of another page.
LEMMA ShadowPlace ==
    ASSUME TypeOK, ShadowsAreApart, NEW t \in Txn, NEW p \in Base, Holds(t, p)
    PROVE  /\ shadow[t][p] \in Spare /\ shadow[t][p] \in used \ free
           /\ t = Oldest /\ active # {}
           /\ \A s \in Spare : Take(s) => s # shadow[t][p]
<1>1. shadow[t][p] \in Spare /\ shadow[t][p] \in used \ free
  BY DEF TypeOK, ShadowsAreApart, Holds
<1>2. t = Oldest /\ active # {}
  BY SomeShadow DEF ShadowsAreApart, OneWriter
<1> QED
  BY <1>1, <1>2 DEF Take

\* Every step keeps the pool and the shadow pages in step, if ensure_shadow
\* never meets a page the pool still holds.
LEMMA PoolStep ==
    "stale shadow" \in Avoided => (IInv /\ PoolAgrees /\ [Next]_vars => PoolAgrees')
<1> SUFFICES ASSUME "stale shadow" \in Avoided, TypeOK, ShadowsAreApart, PoolAgrees, [Next]_vars,
                    NEW t \in Txn, NEW p \in Base, Holds(t, p)',
                    shadow'[t][p] \notin dirty', held'[shadow'[t][p]] # NoData
             PROVE  held'[shadow'[t][p]] = content'[shadow'[t][p]]
  BY DEF IInv, PoolAgrees
<1> USE PageAssumption
<1> DEFINE s == shadow[t][p]
<1>0. Holds(t, p) => /\ s \in Spare /\ s \notin Base /\ s \in used \ free
                     /\ (s \notin dirty /\ held[s] # NoData => held[s] = content[s])
  BY ShadowPlace DEF PoolAgrees, Holds
<1>1. CASE UNCHANGED <<shadow, content, held, dirty>>
  BY <1>0, <1>1 DEF Holds
<1>2. ASSUME NEW q \in Base, EnsureShadow(q)
      PROVE  held'[shadow'[t][p]] = content'[shadow'[t][p]]
  <2>1. Oldest \in Txn
    BY <1>2, OldestIsActive DEF EnsureShadow
  <2>2. PICK n \in Spare : /\ Take(n) /\ held[n] = NoData
                           /\ shadow' = [shadow EXCEPT ![Oldest][q] = n]
                           /\ content' = [content EXCEPT ![n] = content[q]]
    BY <1>2 DEF EnsureShadow
  <2>3. held' = held /\ dirty' = dirty
    BY <1>2 DEF EnsureShadow
  <2>4. shadow'[t][p] = IF t = Oldest /\ p = q THEN n ELSE s
    BY <2>1, <2>2 DEF TypeOK
  <2>5. ~ (t = Oldest /\ p = q) /\ Holds(t, p)
    BY <2>2, <2>3, <2>4 DEF Holds
  <2>6. n # s
    BY <2>2, <2>5, ShadowPlace
  <2> QED
    BY <1>0, <2>2, <2>3, <2>4, <2>5, <2>6, ZenonT(60) DEF TypeOK
<1>3. ASSUME NEW q \in Base, NEW d \in Data, WriteShadow(q, d)
      PROVE  held'[shadow'[t][p]] = content'[shadow'[t][p]]
  <2>1. Oldest \in Txn
    BY <1>3, OldestIsActive DEF WriteShadow
  <2>2. PICK n \in Spare : /\ Take(n) /\ held' = [held EXCEPT ![n] = d] /\ dirty' = dirty \cup {n}
                           /\ shadow' = [shadow EXCEPT ![Oldest][q] = n]
                           /\ content' = [content EXCEPT ![n] = content[q]]
    BY <1>3 DEF WriteShadow
  <2>3. shadow'[t][p] = IF t = Oldest /\ p = q THEN n ELSE s
    BY <2>1, <2>2 DEF TypeOK
  <2>4. ~ (t = Oldest /\ p = q)
    <3>1. dirty' = dirty \cup {n}
      BY <2>2
    <3>2. n \in dirty'
      BY <3>1
    <3>3. shadow'[t][p] # n
      BY <3>2
    <3> QED
      BY <2>3, <3>3
  <2>6. Holds(t, p)
    BY <2>3, <2>4 DEF Holds
  <2>5. n # s
    BY <2>2, <2>6, ShadowPlace
  <2> QED
    BY <1>0, <2>2, <2>3, <2>4, <2>5, <2>6, ZenonT(60) DEF TypeOK
<1>4. ASSUME NEW q \in Base, NEW d \in Data, Write(q, d)
      PROVE  held'[shadow'[t][p]] = content'[shadow'[t][p]]
  <2>1. Holds(t, p) /\ shadow' = shadow /\ content' = content
    BY <1>4 DEF Write, Holds
  <2> QED
    BY <1>0, <1>4, <2>1 DEF Write, TypeOK
<1>5. ASSUME NEW q \in Base, NEW d \in Data, WriteOutside(q, d)
      PROVE  held'[shadow'[t][p]] = content'[shadow'[t][p]]
  BY <1>0, <1>5 DEF WriteOutside, Holds, TypeOK
<1>6. ASSUME NEW q \in Base, Read(q)
      PROVE  held'[shadow'[t][p]] = content'[shadow'[t][p]]
  <2>1. Holds(t, p) /\ UNCHANGED <<shadow, content, dirty>>
    BY <1>6 DEF Read, Holds
  <2>2. held' = [held EXCEPT ![shadow[Oldest][q]] = Pooled(shadow[Oldest][q])]
    BY <1>6 DEF Read
  <2> QED
    BY <1>0, <2>1, <2>2 DEF Pooled, TypeOK
<1>7. ASSUME NEW x \in Txn, Commit(x)
      PROVE  held'[shadow'[t][p]] = content'[shadow'[t][p]]
  <2>1. Holds(t, p)
    BY <1>7 DEF Commit, Holds, NoShadows, TypeOK
  <2>2. shadow'[t][p] = s
    BY <1>7 DEF Commit, Holds, NoShadows, TypeOK
  <2> QED
    BY <1>0, <1>7, <2>1, <2>2 DEF Commit
<1>8. ASSUME NEW x \in Txn, Rollback(x)
      PROVE  held'[shadow'[t][p]] = content'[shadow'[t][p]]
  <2>1. Holds(t, p) /\ shadow'[t][p] = s
    BY <1>8 DEF Rollback, Holds, NoShadows, TypeOK
  <2>2. held' = held /\ content' = content /\ dirty' = dirty
    BY <1>8 DEF Rollback
  <2> QED
    BY <1>0, <2>1, <2>2
<1>9. CASE Begin \/ UNCHANGED vars
  BY <1>1, <1>9 DEF Begin, vars
<1> QED
  BY <1>2, <1>3, <1>4, <1>5, <1>6, <1>7, <1>8, <1>9 DEF Next
-----------------------------------------------------------------------------
(* The transactions keep the promise of one workspace.                     *)

\* The pages without what is not committed.
Database == [p \in Base |-> content[p]]

\* If nobody but o has shadow pages, o is the writer or there is none.
LEMMA WriterIs ==
    ASSUME NEW o \in Txn, \A t \in Txn : shadow[t] # NoShadows => t = o
    PROVE  Writer = IF shadow[o] # NoShadows THEN o ELSE NoTxn
<1>1. CASE shadow[o] # NoShadows
  <2> DEFINE w == CHOOSE t \in Txn : shadow[t] # NoShadows
  <2>1. w \in Txn /\ shadow[w] # NoShadows
    BY <1>1, Zenon
  <2>2. w = o
    BY <2>1
  <2> QED
    BY <1>1, <2>2 DEF Writer
<1>2. CASE shadow[o] = NoShadows
  BY <1>2 DEF Writer
<1> QED
  BY <1>1, <1>2

\* The same after a step.
LEMMA WriterNext ==
    ASSUME NEW o \in Txn, \A t \in Txn : shadow'[t] # NoShadows => t = o
    PROVE  Writer' = IF shadow'[o] # NoShadows THEN o ELSE NoTxn
<1>0. NoShadows' = NoShadows
  BY DEF NoShadows
<1>1. CASE shadow'[o] # NoShadows
  <2> DEFINE w == CHOOSE t \in Txn : shadow'[t] # NoShadows
  <2>1. w \in Txn /\ shadow'[w] # NoShadows
    BY <1>1, Zenon
  <2>2. w = o
    BY <2>1
  <2> QED
    BY <1>0, <1>1, <2>2 DEF Writer
<1>2. CASE shadow'[o] = NoShadows
  BY <1>0, <1>2 DEF Writer
<1> QED
  BY <1>1, <1>2

\* A step that leaves the shadow pages leaves the writer.
LEMMA WriterStays == UNCHANGED shadow => Writer' = Writer
BY DEF Writer, NoShadows

\* Without shadow pages the session sees the database,
LEMMA PlainView ==
    ASSUME TypeOK, \A t \in Txn : shadow[t] = NoShadows
    PROVE  View = Database
<1>1. \A p \in Base : ~ Shadowed(p)
  BY OldestIsActive DEF Shadowed, NoShadows
<1> QED
  BY <1>1, Zenon DEF View, Database

\* before and after a step.
LEMMA PlainViewNext ==
    ASSUME TypeOK', \A t \in Txn : shadow'[t] = NoShadows
    PROVE  View' = Database'
<1>1. ASSUME active' # {} PROVE Oldest' \in Txn
  <2>1. active' \in SUBSET Nat /\ active' \subseteq Txn
    BY TxnAssumption DEF active
  <2>2. PICK t \in active' : \A u \in active' : t <= u
    BY <1>1, <2>1, SmallestOf
  <2> QED
    BY <2>1, <2>2, OldestNext
<1>2. \A p \in Base : ~ Shadowed(p)'
  BY <1>1 DEF Shadowed, NoShadows
<1> QED
  BY <1>2, Zenon DEF View, Database

\* With the same oldest transaction, the session sees the same pages if every
\* shadow page and every page without one is what it was.
LEMMA ViewStays ==
    ASSUME TypeOK, TypeOK', active # {}, active' # {}, Oldest' = Oldest, shadow'[Oldest] = shadow[Oldest],
           \A p \in Base : Holds(Oldest, p) => Pooled(shadow[Oldest][p])' = Pooled(shadow[Oldest][p]),
           \A p \in Base : content'[p] = content[p]
    PROVE  View' = View
<1>1. ASSUME NEW p \in Base
      PROVE  View'[p] = View[p]
  <2>1. Shadowed(p)' <=> Shadowed(p)
    BY DEF Shadowed
  <2>2. View[p] = IF Shadowed(p) THEN Pooled(shadow[Oldest][p]) ELSE content[p]
    BY DEF View
  <2>3. View'[p] = IF Shadowed(p)' THEN Pooled(shadow[Oldest][p])' ELSE content'[p]
    BY DEF View
  <2> QED
    BY <2>1, <2>2, <2>3 DEF Holds, Shadowed
<1> QED
  BY <1>1 DEF View
\* BEGIN changes nothing of what is seen.
LEMMA BeginRefines ==
    ASSUME TypeOK, TypeOK', ShadowsAreApart, Begin
    PROVE  \E t \in Txn : Promise!Begin(t)
<1>1. /\ counter' \in Txn /\ counter' = counter + 1 /\ active' = active \cup {counter'}
      /\ state' = [state EXCEPT ![counter'] = "active"] /\ state[counter'] = "none"
      /\ UNCHANGED <<shadow, content, held>>
  BY DEF Begin, active, TypeOK
<1>2. View' = View
  <2>1. CASE active = {}
    <3>1. \A t \in Txn : shadow[t] = NoShadows /\ shadow'[t] = NoShadows
      BY <1>1, <2>1 DEF ShadowsAreApart, OneWriter
    <3> QED
      BY <1>1, <3>1, PlainView, PlainViewNext DEF Database
  <2>2. CASE active # {}
    <3>1. Oldest \in active /\ Oldest \in Nat /\ Oldest <= counter /\ \A u \in active : Oldest <= u
      <4>1. Oldest \in active /\ Oldest \in Txn /\ Oldest \in Nat /\ \A u \in active : Oldest <= u
        BY <2>2, OldestIsActive
      <4>2. ~ (Oldest > counter)
        BY <4>1 DEF TypeOK, active
      <4> QED
        BY <4>1, <4>2 DEF TypeOK
    <3>2. Oldest \in active' /\ \A u \in active' : Oldest <= u
      BY <1>1, <3>1 DEF TypeOK
    <3>3. Oldest' = Oldest
      BY <3>2, OldestNext
    <3> QED
      BY <1>1, <2>2, <3>2, <3>3, ViewStays DEF Pooled
  <2> QED
    BY <2>1, <2>2
<1>3. Writer' = Writer
  BY <1>1, WriterStays
<1> QED
  BY <1>1, <1>2, <1>3 DEF Promise!Begin

\* A page that gets a shadow page, or whose shadow page changes, is written by
\* the oldest transaction.
LEMMA ChangeRefines ==
    ASSUME TypeOK, TypeOK', ShadowsAreApart, ShadowsAreApart', active # {}, UNCHANGED state,
           NEW p \in Base, NEW s \in Spare, NEW d \in Data,
           shadow' = [shadow EXCEPT ![Oldest][p] = s],
           Pooled(s)' = d,
           \A q \in Base : content'[q] = content[q],
           \A q \in Base : q # p /\ Holds(Oldest, q) =>
                Pooled(shadow[Oldest][q])' = Pooled(shadow[Oldest][q])
    PROVE  Promise!Write(Oldest)
<1>1. Oldest \in active /\ Oldest \in Txn /\ active' = active /\ Oldest' = Oldest
  BY OldestIsActive, OldestStays DEF active
<1>2. /\ shadow'[Oldest][p] = s /\ s # NoPage
      /\ \A q \in Base : q # p => shadow'[Oldest][q] = shadow[Oldest][q]
  BY <1>1, PageAssumption DEF TypeOK
<1>3. Writer \in {NoTxn, Oldest} /\ Writer' = Oldest
  <2>1. \A t \in Txn : shadow[t] # NoShadows => t = Oldest
    BY DEF ShadowsAreApart, OneWriter
  <2>2. \A t \in Txn : shadow'[t] # NoShadows => t = Oldest
    BY <1>1 DEF ShadowsAreApart, OneWriter, NoShadows
  <2>3. shadow'[Oldest] # NoShadows
    BY <1>2 DEF NoShadows
  <2> QED
    BY <1>1, <2>1, <2>2, <2>3, WriterIs, WriterNext
<1>4. ASSUME NEW q \in Base PROVE View'[q] = IF q = p THEN d ELSE View[q]
  <2>1. View'[q] = IF Shadowed(q)' THEN Pooled(shadow[Oldest][q])' ELSE content'[q]
    BY DEF View
  <2>2. View[q] = IF Shadowed(q) THEN Pooled(shadow[Oldest][q]) ELSE content[q]
    BY DEF View
  <2>3. Shadowed(q)' <=> shadow'[Oldest][q] # NoPage
    BY <1>1 DEF Shadowed
  <2>4. Shadowed(q) <=> Holds(Oldest, q)
    BY DEF Shadowed, Holds
  <2>5. CASE q = p
    <3>1. Pooled(shadow[Oldest][q])' = Pooled(s)'
      BY <1>1, <1>2, <2>5 DEF Pooled
    <3> QED
      BY <1>2, <2>1, <2>3, <2>5, <3>1
  <2>6. CASE q # p
    <3>1. Shadowed(q)' <=> Shadowed(q)
      BY <1>2, <2>3, <2>6 DEF Shadowed
    <3> QED
      BY <2>1, <2>2, <2>4, <2>6, <3>1
  <2> QED
    BY <2>5, <2>6
<1>5. View' = [View EXCEPT ![p] = d]
  <2>1. View' = [q \in Base |-> View'[q]]
    BY SMT DEF View
  <2>2. View = [q \in Base |-> View[q]]
    BY SMT DEF View
  <2>3. DOMAIN View = Base
    BY <2>2
  <2> HIDE DEF View
  <2>4. [View EXCEPT ![p] = d] = [q \in Base |-> IF q = p THEN d ELSE View[q]]
    BY <2>2, <2>3
  <2> QED
    BY <1>4, <2>1, <2>4
<1>6. Database' = Database
  BY DEF Database
<1> QED
  BY <1>1, <1>3, <1>5, <1>6 DEF Promise!Write, Promise!Change, Promise!Active, active, Database
\* ensure_shadow writes the page as it is, where the pool holds nothing.
LEMMA EnsureRefines ==
    ASSUME TypeOK, TypeOK', ShadowsAreApart, ShadowsAreApart', "stale shadow" \in Avoided,
           NEW p \in Base, EnsureShadow(p)
    PROVE  Promise!Write(Oldest)
<1>1. PICK s \in Spare : /\ Take(s) /\ held[s] = NoData
                         /\ shadow' = [shadow EXCEPT ![Oldest][p] = s]
                         /\ content' = [content EXCEPT ![s] = content[p]]
  BY DEF EnsureShadow
<1>2. active # {} /\ UNCHANGED <<state, held>>
  BY DEF EnsureShadow
<1>3. content[p] \in Data
  BY DEF TypeOK
<1>4. Pooled(s)' = content[p]
  <2>1. content'[s] = content[p]
    BY <1>1 DEF TypeOK
  <2> QED
    BY <1>1, <1>2, <2>1 DEF Pooled
<1>5. \A q \in Base : content'[q] = content[q]
  <2> SUFFICES ASSUME NEW q \in Base PROVE content'[q] = content[q]
    OBVIOUS
  <2>1. q # s
    BY PageAssumption
  <2>2. content \in [Base \cup Spare -> Data]
    BY DEF TypeOK
  <2> QED
    BY <1>1, <2>1, <2>2
<1>6. ASSUME NEW q \in Base, q # p, Holds(Oldest, q)
      PROVE  Pooled(shadow[Oldest][q])' = Pooled(shadow[Oldest][q])
  <2>1. Oldest \in Txn /\ Oldest' = Oldest
    BY <1>2, OldestIsActive, OldestStays DEF active
  <2>2. shadow'[Oldest][q] = shadow[Oldest][q]
    <3>1. shadow \in [Txn -> [Base -> Spare \cup {NoPage}]]
      BY DEF TypeOK
    <3>2. shadow'[Oldest] = [shadow[Oldest] EXCEPT ![p] = s]
      BY <1>1, <2>1, <3>1
    <3> QED
      BY <1>6, <2>1, <3>1, <3>2
  <2>3. shadow[Oldest][q] \in Spare /\ s # shadow[Oldest][q]
    BY <1>1, <1>6, <2>1, ShadowPlace
  <2>4. content'[shadow[Oldest][q]] = content[shadow[Oldest][q]]
    BY <1>1, <2>3 DEF TypeOK
  <2> QED
    BY <1>2, <2>1, <2>2, <2>4 DEF Pooled
<1> QED
  BY <1>1, <1>2, <1>3, <1>4, <1>5, <1>6, ChangeRefines

\* A statement changes a page that had no shadow page,
LEMMA WriteShadowRefines ==
    ASSUME TypeOK, TypeOK', ShadowsAreApart, ShadowsAreApart',
           NEW p \in Base, NEW d \in Data, WriteShadow(p, d)
    PROVE  Promise!Write(Oldest)
<1>1. PICK s \in Spare : /\ Take(s)
                         /\ shadow' = [shadow EXCEPT ![Oldest][p] = s]
                         /\ content' = [content EXCEPT ![s] = content[p]]
                         /\ held' = [held EXCEPT ![s] = d]
  BY DEF WriteShadow
<1>2. active # {} /\ UNCHANGED state
  BY DEF WriteShadow
<1>3. d # NoData
  BY DataAssumption
<1>4. Pooled(s)' = d
  <2>1. held'[s] = d
    BY <1>1 DEF TypeOK
  <2> QED
    BY <1>3, <2>1 DEF Pooled
<1>5. \A q \in Base : content'[q] = content[q]
  BY <1>1, PageAssumption DEF TypeOK
<1>6. ASSUME NEW q \in Base, q # p, Holds(Oldest, q)
      PROVE  Pooled(shadow[Oldest][q])' = Pooled(shadow[Oldest][q])
  <2>1. Oldest \in Txn /\ Oldest' = Oldest
    BY <1>2, OldestIsActive, OldestStays DEF active
  <2>2. shadow'[Oldest][q] = shadow[Oldest][q]
    BY <1>1, <1>6, <2>1 DEF TypeOK
  <2>3. shadow[Oldest][q] \in Spare /\ s # shadow[Oldest][q]
    BY <1>1, <1>6, <2>1, ShadowPlace
  <2>4. /\ content'[shadow[Oldest][q]] = content[shadow[Oldest][q]]
        /\ held'[shadow[Oldest][q]] = held[shadow[Oldest][q]]
    BY <1>1, <2>3 DEF TypeOK
  <2> QED
    BY <2>1, <2>2, <2>4 DEF Pooled
<1> QED
  BY <1>1, <1>2, <1>4, <1>5, <1>6, ChangeRefines

\* or one that had one.
LEMMA WriteRefines ==
    ASSUME TypeOK, TypeOK', ShadowsAreApart, ShadowsAreApart',
           NEW p \in Base, NEW d \in Data, Write(p, d)
    PROVE  Promise!Write(Oldest)
<1> DEFINE s == shadow[Oldest][p]
<1>1. /\ active # {} /\ s # NoPage
      /\ held' = [held EXCEPT ![s] = d]
      /\ UNCHANGED <<state, shadow, content>>
  BY DEF Write, Shadowed
<1>2. Oldest \in Txn /\ Oldest' = Oldest
  BY <1>1, OldestIsActive, OldestStays DEF active
<1>3. s \in Spare
  BY <1>1, <1>2 DEF TypeOK
<1>4. shadow' = [shadow EXCEPT ![Oldest][p] = s]
  BY <1>1, <1>2 DEF TypeOK
<1>5. \A q \in Base : q # p /\ Holds(Oldest, q) => shadow[Oldest][q] # s
  BY <1>1, <1>2 DEF ShadowsAreApart, Holds
<1>6. ASSUME NEW q \in Base, q # p, Holds(Oldest, q)
      PROVE  Pooled(shadow[Oldest][q])' = Pooled(shadow[Oldest][q])
  <2>1. shadow[Oldest][q] \in Spare /\ shadow[Oldest][q] # s
    BY <1>2, <1>5, <1>6, ShadowPlace
  <2>2. held'[shadow[Oldest][q]] = held[shadow[Oldest][q]]
    BY <1>1, <2>1 DEF TypeOK
  <2> QED
    BY <1>1, <1>2, <2>2 DEF Pooled
<1>7. ASSUME NEW r \in Spare, r = s PROVE Pooled(r)' = d
  <2>1. held'[r] = d /\ d # NoData
    BY <1>1, <1>7, DataAssumption DEF TypeOK
  <2> QED
    BY <2>1 DEF Pooled
<1>8. PICK r \in Spare : r = s
  BY <1>3
<1> QED
  BY <1>1, <1>4, <1>6, <1>7, <1>8, ChangeRefines

\* Outside transactions the page itself changes.
LEMMA WriteOutsideRefines ==
    ASSUME TypeOK, TypeOK', ShadowsAreApart, NEW p \in Base, NEW d \in Data, WriteOutside(p, d)
    PROVE  Promise!WriteOutside
<1>1. active = {} /\ content' = [content EXCEPT ![p] = d] /\ UNCHANGED <<state, shadow>>
  BY DEF WriteOutside
<1>2. \A t \in Txn : shadow[t] = NoShadows /\ shadow'[t] = NoShadows
  BY <1>1 DEF ShadowsAreApart, OneWriter
<1>3. View = Database /\ View' = Database'
  BY <1>2, PlainView, PlainViewNext
<1>4. Database' = [Database EXCEPT ![p] = d]
  BY <1>1 DEF Database, TypeOK
<1>5. Writer' = Writer
  BY <1>1, WriterStays
<1> QED
  BY <1>1, <1>3, <1>4, <1>5 DEF Promise!WriteOutside, Promise!Change, Promise!Active, active, Database

\* A statement that reads changes nothing that is seen.
LEMMA ReadRefines ==
    ASSUME TypeOK, TypeOK', ShadowsAreApart, NEW p \in Base, Read(p)
    PROVE  UNCHANGED <<Database, View, state, Writer>>
<1> DEFINE s == shadow[Oldest][p]
<1>1. /\ active # {} /\ s # NoPage
      /\ held' = [held EXCEPT ![s] = Pooled(s)]
      /\ UNCHANGED <<state, shadow, content>>
  BY DEF Read, Shadowed
<1>2. Oldest \in Txn /\ Oldest' = Oldest /\ active' = active
  BY <1>1, OldestIsActive, OldestStays DEF active
<1>3. ASSUME NEW q \in Base, Holds(Oldest, q)
      PROVE  Pooled(shadow[Oldest][q])' = Pooled(shadow[Oldest][q])
  BY <1>1, <1>2 DEF Pooled, TypeOK
<1>4. View' = View
  BY <1>1, <1>2, <1>3, ViewStays
<1> QED
  BY <1>1, <1>4, WriterStays DEF Database

\* What a commit copies of a shadow page is what statements saw of it.
LEMMA FlushedIsSeen ==
    ASSUME TypeOK, PoolAgrees, ShadowsAreApart, NEW t \in Txn, NEW p \in Base, Holds(t, p)
    PROVE  Flushed[shadow[t][p]] = Pooled(shadow[t][p])
<1>1. shadow[t][p] \in Spare
  BY ShadowPlace
<1>2. Flushed[shadow[t][p]] =
        IF shadow[t][p] \in dirty THEN held[shadow[t][p]] ELSE content[shadow[t][p]]
  BY <1>1 DEF Flushed
<1>3. shadow[t][p] \in dirty => held[shadow[t][p]] # NoData
  BY DEF TypeOK
<1> QED
  BY <1>2, <1>3 DEF Pooled, PoolAgrees

\* The pages of tables are written to the file at once.
LEMMA FlushedOfTables == TypeOK => \A p \in Base : Flushed[p] = content[p]
BY PageAssumption DEF TypeOK, Flushed

\* The end of a transaction without shadow pages is not seen.
LEMMA OthersEnd ==
    ASSUME TypeOK, TypeOK', ShadowsAreApart, ShadowsAreApart',
           NEW t \in active, active' = active \ {t}, shadow[t] = NoShadows, shadow' = shadow,
           \A p \in Base : content'[p] = content[p],
           \A u \in Txn, p \in Base : Holds(u, p) => Pooled(shadow[u][p])' = Pooled(shadow[u][p])
    PROVE  View' = View /\ Database' = Database /\ Writer' = Writer /\ Writer # t
<1>1. t \in Txn /\ NoTxn # t
  BY TxnAssumption DEF active
<1>2. Database' = Database
  BY DEF Database
<1>3. Writer' = Writer
  BY WriterStays
<1>4. CASE \A u \in Txn : shadow[u] = NoShadows
  <2>1. View = Database /\ View' = Database'
    BY <1>4, PlainView, PlainViewNext
  <2>2. Writer = NoTxn
    BY <1>1, <1>4, WriterIs
  <2> QED
    BY <1>1, <1>2, <1>3, <2>1, <2>2
<1>5. ASSUME NEW u \in Txn, shadow[u] # NoShadows
      PROVE  View' = View /\ Writer # t
  <2>1. u \in active /\ u = Oldest /\ u # t
    BY <1>5 DEF ShadowsAreApart, OneWriter
  <2>2. u \in active' /\ \A w \in active' : u <= w
    BY <2>1, OldestIsActive
  <2>3. Oldest' = u
    BY <2>2, OldestNext
  <2>4. View' = View
    BY <2>1, <2>2, <2>3, ViewStays
  <2>5. \A w \in Txn : shadow[w] # NoShadows => w = u
    BY <2>1 DEF ShadowsAreApart, OneWriter
  <2>6. Writer = u
    BY <1>5, <2>5, WriterIs
  <2> QED
    BY <2>1, <2>4, <2>6
<1> QED
  BY <1>2, <1>3, <1>4, <1>5

\* When the writer ends, no shadow pages are left.
LEMMA WriterEnds ==
    ASSUME TypeOK, TypeOK', ShadowsAreApart, NEW t \in Txn, shadow[t] # NoShadows,
           shadow' = [shadow EXCEPT ![t] = NoShadows]
    PROVE  t = Oldest /\ active # {} /\ View' = Database' /\ Writer = t /\ Writer' = NoTxn
<1>1. \A u \in Txn : shadow[u] # NoShadows => u = t
  BY DEF ShadowsAreApart, OneWriter
<1>2. \A u \in Txn : shadow'[u] = NoShadows
  BY <1>1 DEF TypeOK
<1>3. Writer' = NoTxn
  BY <1>2, WriterNext DEF NoShadows
<1> QED
  BY <1>1, <1>2, <1>3, PlainViewNext, WriterIs DEF ShadowsAreApart, OneWriter

\* The commit of the writer makes what is seen the database.
LEMMA CommitRefines ==
    ASSUME TypeOK, TypeOK', ShadowsAreApart, ShadowsAreApart', PoolAgrees,
           NEW t \in Txn, Commit(t)
    PROVE  Promise!Commit(t)
<1>1. /\ t \in active /\ content' = Published(t)
      /\ state' = [state EXCEPT ![t] = "committed"]
      /\ shadow' = [shadow EXCEPT ![t] = NoShadows]
      /\ held' = [s \in Spare |-> NoData]
  BY DEF Commit
<1>2. active' = active \ {t}
  BY <1>1 DEF active, TypeOK
<1>3. \A p \in Base : content'[p] = IF Holds(t, p) THEN Flushed[shadow[t][p]] ELSE content[p]
  BY <1>1, FlushedOfTables DEF Published, Holds
<1>4. CASE shadow[t] # NoShadows
  <2>1. t = Oldest /\ active # {} /\ View' = Database' /\ Writer = t /\ Writer' = NoTxn
    BY <1>1, <1>4, WriterEnds
  <2>2. ASSUME NEW p \in Base PROVE Database'[p] = View[p]
    <3>1. Database'[p] = content'[p]
      BY DEF Database
    <3>2. View[p] = IF Shadowed(p) THEN Pooled(shadow[Oldest][p]) ELSE content[p]
      BY DEF View
    <3>3. Shadowed(p) <=> Holds(t, p)
      BY <2>1 DEF Shadowed, Holds
    <3> QED
      BY <1>3, <2>1, <3>1, <3>2, <3>3, FlushedIsSeen
  <2>3. Database' = [p \in Base |-> Database'[p]]
    BY DEF Database
  <2>4. View = [p \in Base |-> View[p]]
    BY SMT DEF View
  <2>5. Database' = View
    BY <2>2, <2>3, <2>4
  <2> QED
    BY <1>1, <2>1, <2>5 DEF Promise!Commit, Promise!End, Promise!Active, active, Database
<1>5. CASE shadow[t] = NoShadows
  <2>1. shadow' = shadow
    BY <1>1, <1>5 DEF TypeOK
  <2>2. \A p \in Base : content'[p] = content[p]
    BY <1>3, <1>5 DEF Holds, NoShadows
  <2>3. ASSUME NEW u \in Txn, NEW p \in Base, Holds(u, p)
        PROVE  Pooled(shadow[u][p])' = Pooled(shadow[u][p])
    <3>1. shadow[u][p] \in Spare
      BY <2>3, ShadowPlace
    <3>2. held'[shadow[u][p]] = NoData
      BY <1>1, <3>1
    <3>3. content'[shadow[u][p]] = Flushed[shadow[u][p]]
      BY <1>1, <3>1, PageAssumption DEF Published
    <3> QED
      BY <2>1, <2>3, <3>2, <3>3, FlushedIsSeen DEF Pooled
  <2>4. View' = View /\ Database' = Database /\ Writer' = Writer /\ Writer # t
    BY <1>1, <1>2, <1>5, <2>1, <2>2, <2>3, OthersEnd
  <2> QED
    BY <1>1, <2>4 DEF Promise!Commit, Promise!End, Promise!Active, active, Database
<1> QED
  BY <1>4, <1>5

\* After the rollback of the writer the database is seen again.
LEMMA RollbackRefines ==
    ASSUME TypeOK, TypeOK', ShadowsAreApart, ShadowsAreApart', NEW t \in Txn, Rollback(t)
    PROVE  Promise!Rollback(t)
<1>1. /\ t \in active
      /\ state' = [state EXCEPT ![t] = "aborted"]
      /\ shadow' = [shadow EXCEPT ![t] = NoShadows]
      /\ UNCHANGED <<content, held>>
  BY DEF Rollback
<1>2. active' = active \ {t}
  BY <1>1 DEF active, TypeOK
<1>3. Database' = Database
  BY <1>1 DEF Database
<1>4. CASE shadow[t] # NoShadows
  <2>1. View' = Database' /\ Writer = t /\ Writer' = NoTxn
    BY <1>1, <1>4, WriterEnds
  <2> QED
    BY <1>1, <1>3, <2>1 DEF Promise!Rollback, Promise!End, Promise!Active, active, Database
<1>5. CASE shadow[t] = NoShadows
  <2>1. shadow' = shadow
    BY <1>1, <1>5 DEF TypeOK
  <2>2. View' = View /\ Writer' = Writer /\ Writer # t
    BY <1>1, <1>2, <1>5, <2>1, OthersEnd DEF Pooled
  <2> QED
    BY <1>1, <1>3, <2>2 DEF Promise!Rollback, Promise!End, Promise!Active, active, Database
<1> QED
  BY <1>4, <1>5

\* Before anything is begun the session sees the database.
LEMMA InitRefines == Init => Promise!Init /\ PoolAgrees
<1> SUFFICES ASSUME Init PROVE Promise!Init /\ PoolAgrees
  OBVIOUS
<1>1. TypeOK /\ \A t \in Txn : shadow[t] = NoShadows
  BY InitInvariant DEF IInv, Init
<1>2. View = Database
  BY <1>1, PlainView
<1>3. Database \in [Base -> Data]
  BY <1>1 DEF TypeOK, Database
<1>4. Writer = NoTxn
  BY <1>1 DEF Writer
<1>5. PoolAgrees
  BY <1>1 DEF PoolAgrees, Holds, NoShadows
<1> QED
  BY <1>2, <1>3, <1>4, <1>5 DEF Promise!Init, Init, Database

\* Every step is one of the workspace or changes nothing of it.
LEMMA StepRefines ==
    ASSUME IInv, IInv', PoolAgrees, [Next]_vars, "stale shadow" \in Avoided
    PROVE  Promise!Next \/ UNCHANGED <<Database, View, state, Writer>>
<1> USE DEF IInv
<1>1. CASE Begin
  BY <1>1, BeginRefines DEF Promise!Next
<1>2. ASSUME NEW p \in Base, EnsureShadow(p) PROVE Promise!Next
  BY <1>2, EnsureRefines, OldestIsActive DEF Promise!Next, EnsureShadow
<1>3. ASSUME NEW p \in Base, NEW d \in Data, WriteShadow(p, d) PROVE Promise!Next
  BY <1>3, WriteShadowRefines, OldestIsActive DEF Promise!Next, WriteShadow
<1>4. ASSUME NEW p \in Base, NEW d \in Data, Write(p, d) PROVE Promise!Next
  BY <1>4, WriteRefines, OldestIsActive DEF Promise!Next, Write, Shadowed
<1>5. ASSUME NEW p \in Base, NEW d \in Data, WriteOutside(p, d) PROVE Promise!Next
  BY <1>5, WriteOutsideRefines DEF Promise!Next
<1>6. ASSUME NEW p \in Base, Read(p) PROVE UNCHANGED <<Database, View, state, Writer>>
  BY <1>6, ReadRefines
<1>7. ASSUME NEW t \in Txn, Commit(t) PROVE Promise!Next
  BY <1>7, CommitRefines DEF Promise!Next
<1>8. ASSUME NEW t \in Txn, Rollback(t) PROVE Promise!Next
  BY <1>8, RollbackRefines DEF Promise!Next
<1>9. CASE UNCHANGED vars
  <2>1. UNCHANGED <<shadow, content, held, state>>
    BY <1>9 DEF vars
  <2>2. View' = View
    <3>1. active' = active
      BY <2>1 DEF active
    <3>2. CASE active = {}
      BY <2>1, <3>1, <3>2, Zenon DEF View, Shadowed
    <3>3. CASE active # {}
      BY <2>1, <3>1, <3>3, OldestStays, ViewStays DEF Pooled
    <3> QED
      BY <3>2, <3>3
  <2> QED
    BY <2>1, <2>2, WriterStays DEF Database
<1> QED
  BY <1>1, <1>2, <1>3, <1>4, <1>5, <1>6, <1>7, <1>8, <1>9 DEF Next

\* However many transactions are begun, written, committed and rolled back, in
\* whatever order, they keep the promise of one workspace, if ensure_shadow
\* takes no page the pool still holds.
THEOREM WorkspaceIsKept ==
    ASSUME "stale shadow" \in Avoided
    PROVE  Spec => ImplementsWorkspace
<1>1. Init => IInv /\ PoolAgrees /\ Promise!Init
  BY InitInvariant, InitRefines
<1>2. IInv /\ [Next]_vars => IInv'
  BY TypeStep, ShadowsStep, VersionsStep DEF IInv, Versions
<1>3. IInv /\ PoolAgrees /\ IInv' /\ [Next]_vars => PoolAgrees'
  BY PoolStep DEF IInv
<1>4. IInv /\ PoolAgrees /\ IInv' /\ [Next]_vars => [Promise!Next]_(Promise!vars)
  BY StepRefines DEF Promise!vars, Database
<1> QED
  BY <1>1, <1>2, <1>3, <1>4, PTL DEF Spec, ImplementsWorkspace, Promise!Spec

=============================================================================
