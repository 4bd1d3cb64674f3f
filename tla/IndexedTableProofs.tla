------------------------ MODULE IndexedTableProofs --------------------------
(***************************************************************************)
(* Proofs about SlottedPage, HeapTable and IndexedTable: the byte counts   *)
(* of pages, where rows are written, and that a search of the index finds  *)
(* the rows of the table: for pages, slots, rows, nodes and keys of any    *)
(* size, any rows and statements.                                          *)
(***************************************************************************)
EXTENDS TreeProofs

-----------------------------------------------------------------------------
(* The bytes of the rows of a page.                                        *)

\* A slot has a natural number of bytes.
LEMMA RowBytesType == \A row \in Row \cup {NoRow} : RowBytes(row) \in Nat
BY RowsHaveBytes DEF RowBytes

\* f sums up the bytes of the slots, from the first on.
Sums(f, slots, n) ==
    f = [i \in 0 .. n |-> IF i = 0 THEN 0 ELSE f[i - 1] + RowBytes(slots[i].row)]

\* The sum can be taken over any number of slots.
LEMMA SumsExist == ASSUME NEW slots PROVE \A n \in Nat : \E f : Sums(f, slots, n)
<1> DEFINE S == {n \in Nat : \E f : Sums(f, slots, n)}
<1>1. 0 \in S
  <2> DEFINE f == [i \in 0 .. 0 |-> 0]
  <2>1. Sums(f, slots, 0)
    BY DEF Sums
  <2> QED
    BY <2>1
<1>2. ASSUME NEW n \in Nat, n \in S PROVE n + 1 \in S
  <2>1. PICK f : Sums(f, slots, n)
    BY <1>2
  <2> DEFINE last == f[n] + RowBytes(slots[n + 1].row)
             g == [i \in 0 .. n + 1 |-> IF i = n + 1 THEN last ELSE f[i]]
  <2>2. \A i \in 0 .. n : f[i] = IF i = 0 THEN 0 ELSE f[i - 1] + RowBytes(slots[i].row)
    BY <2>1 DEF Sums
  <2>3. ASSUME NEW i \in 0 .. n + 1
        PROVE  g[i] = IF i = 0 THEN 0 ELSE g[i - 1] + RowBytes(slots[i].row)
    <3>1. CASE i = n + 1
      <4>1. g[i] = last /\ g[i - 1] = f[n] /\ i # 0
        BY <3>1
      <4> QED
        BY <3>1, <4>1
    <3>2. CASE i # n + 1
      <4>1. i \in 0 .. n /\ g[i] = f[i] /\ (i # 0 => g[i - 1] = f[i - 1])
        BY <3>2
      <4> QED
        BY <2>2, <4>1
    <3> QED
      BY <3>1, <3>2
  <2>4. g = [i \in 0 .. n + 1 |-> g[i]]
    OBVIOUS
  <2> HIDE DEF g
  <2>5. Sums(g, slots, n + 1)
    <3> DEFINE h == [i \in 0 .. n + 1 |-> IF i = 0 THEN 0 ELSE g[i - 1] + RowBytes(slots[i].row)]
    <3>1. \A i \in 0 .. n + 1 : h[i] = g[i]
      BY <2>3
    <3>2. h = [i \in 0 .. n + 1 |-> h[i]]
      OBVIOUS
    <3> HIDE DEF h
    <3>3. g = h
      BY <2>4, <3>1, <3>2
    <3> QED
      BY <3>3 DEF h, Sums
  <2> QED
    BY <2>5
<1> HIDE DEF S
<1>3. \A n \in Nat : n \in S
  BY <1>1, <1>2, EveryNumber
<1> QED
  BY <1>3 DEF S

\* f is the sum over the first slots, for any number of them.
PartialSum(f, slots) ==
    /\ f \in [0 .. Len(slots) -> Nat]
    /\ f[0] = 0
    /\ \A n \in Nat : n < Len(slots) => f[n + 1] = f[n] + RowBytes(slots[n + 1].row)

\* Used is the last of the partial sums.
LEMMA UsedIsSum ==
    ASSUME NEW slots \in Seq(Slot)
    PROVE  \E f : PartialSum(f, slots) /\ Used(slots) = f[Len(slots)]
<1> DEFINE l == Len(slots)
<1>1. l \in Nat
  OBVIOUS
<1>2. \E f : Sums(f, slots, l)
  BY <1>1, SumsExist
<1>3. PICK f : Sums(f, slots, l) /\ Used(slots) = f[l]
  BY <1>2, Zenon DEF Sums, Used
<1>4. \A i \in 1 .. l : RowBytes(slots[i].row) \in Nat
  <2>1. \A i \in 1 .. l : slots[i] \in Slot
    OBVIOUS
  <2> QED
    BY <2>1, RowBytesType DEF Slot
<1> HIDE DEF l
<1>5. \A i \in 0 .. l : f[i] = IF i = 0 THEN 0 ELSE f[i - 1] + RowBytes(slots[i].row)
  BY <1>3 DEF Sums
<1>6. f[0] = 0
  BY <1>1, <1>5
<1>7. ASSUME NEW n \in Nat, n < l PROVE f[n + 1] = f[n] + RowBytes(slots[n + 1].row)
  <2>1. n + 1 \in 0 .. l /\ n + 1 # 0 /\ (n + 1) - 1 = n
    BY <1>1, <1>7
  <2> QED
    BY <1>5, <2>1
<1> DEFINE S == {n \in Nat : n <= l => f[n] \in Nat}
<1>8. 0 \in S
  BY <1>6
<1>9. ASSUME NEW n \in Nat, n \in S PROVE n + 1 \in S
  <2> SUFFICES ASSUME n + 1 <= l PROVE f[n + 1] \in Nat
    OBVIOUS
  <2>1. n < l /\ f[n] \in Nat /\ n + 1 \in 1 .. l
    BY <1>1, <1>9
  <2> QED
    BY <1>4, <1>7, <2>1
<1> HIDE DEF S
<1>10. \A n \in Nat : n \in S
  BY <1>8, <1>9, EveryNumber
<1>11. f \in [0 .. l -> Nat]
  <2>1. \A n \in 0 .. l : f[n] \in Nat
    BY <1>1, <1>10 DEF S
  <2>2. f = [i \in 0 .. l |-> IF i = 0 THEN 0 ELSE f[i - 1] + RowBytes(slots[i].row)]
    BY <1>3 DEF Sums
  <2> QED
    BY <2>1, <2>2
<1>12. PartialSum(f, slots)
  BY <1>6, <1>7, <1>11 DEF PartialSum, l
<1> QED
  BY <1>3, <1>12 DEF l

\* Sequences with the same rows in their first k slots have the same partial sums.
LEMMA SumsAgree ==
    ASSUME NEW s \in Seq(Slot), NEW t \in Seq(Slot), NEW f, NEW g,
           PartialSum(f, s), PartialSum(g, t),
           NEW k \in Nat, k <= Len(s), k <= Len(t),
           \A i \in 1 .. k : s[i].row = t[i].row
    PROVE  f[k] = g[k]
<1> DEFINE S == {n \in Nat : n <= k => f[n] = g[n]}
<1>0. Len(s) \in Nat /\ Len(t) \in Nat
  OBVIOUS
<1>1. 0 \in S
  BY DEF PartialSum
<1>2. ASSUME NEW n \in Nat, n \in S PROVE n + 1 \in S
  <2> SUFFICES ASSUME n + 1 <= k PROVE f[n + 1] = g[n + 1]
    OBVIOUS
  <2>1. n < Len(s) /\ n < Len(t) /\ n + 1 \in 1 .. k /\ f[n] = g[n]
    BY <1>0, <1>2
  <2>2. f[n + 1] = f[n] + RowBytes(s[n + 1].row)
    BY <2>1 DEF PartialSum
  <2>3. g[n + 1] = g[n] + RowBytes(t[n + 1].row)
    BY <2>1 DEF PartialSum
  <2>4. s[n + 1].row = t[n + 1].row
    BY <2>1
  <2> QED
    BY <2>1, <2>2, <2>3, <2>4
<1> HIDE DEF S
<1>3. \A n \in Nat : n \in S
  BY <1>1, <1>2, EveryNumber
<1> QED
  BY <1>3 DEF S

\* A page without slots uses nothing.
LEMMA NothingUsed == Used(<<>>) = 0
<1>1. ASSUME NEW s \in Seq(Slot), Len(s) = 0 PROVE Used(s) = 0
  <2>1. PICK f : PartialSum(f, s) /\ Used(s) = f[Len(s)]
    BY UsedIsSum
  <2> QED
    BY <1>1, <2>1 DEF PartialSum
<1>2. <<>> \in Seq(Slot) /\ Len(<<>>) = 0
  OBVIOUS
<1> QED
  BY <1>1, <1>2, Zenon

\* The bytes in use are a natural number.
LEMMA UsedType == \A s \in Seq(Slot) : Used(s) \in Nat
<1> SUFFICES ASSUME NEW s \in Seq(Slot) PROVE Used(s) \in Nat
  OBVIOUS
<1>1. PICK f : PartialSum(f, s) /\ Used(s) = f[Len(s)]
  BY UsedIsSum
<1>2. Len(s) \in 0 .. Len(s)
  OBVIOUS
<1> QED
  BY <1>1, <1>2 DEF PartialSum

\* A slot behind the others adds the bytes of its row.
LEMMA UsedAppended ==
    ASSUME NEW s \in Seq(Slot), NEW slot \in Slot
    PROVE  Used(Append(s, slot)) = Used(s) + RowBytes(slot.row)
<1> DEFINE t == Append(s, slot)
           l == Len(s)
<1>1. t \in Seq(Slot) /\ l \in Nat /\ Len(t) = l + 1 /\ t[l + 1] = slot
  OBVIOUS
<1>2. \A i \in 1 .. l : s[i].row = t[i].row
  OBVIOUS
<1> HIDE DEF t
<1>3. PICK f : PartialSum(f, s) /\ Used(s) = f[Len(s)]
  BY UsedIsSum
<1>4. PICK g : PartialSum(g, t) /\ Used(t) = g[Len(t)]
  BY <1>1, UsedIsSum
<1>5. f[l] = g[l]
  BY <1>1, <1>2, <1>3, <1>4, SumsAgree, SMTT(60)
<1>6. g[l + 1] = g[l] + RowBytes(t[l + 1].row)
  BY <1>1, <1>4, SMTT(60) DEF PartialSum
<1> QED
  BY <1>1, <1>3, <1>4, <1>5, <1>6 DEF t

\* Another row in one slot changes the bytes in use by the difference.
LEMMA UsedChanged ==
    ASSUME NEW s \in Seq(Slot), NEW t \in Seq(Slot), Len(s) = Len(t),
           NEW i \in DOMAIN s, \A j \in DOMAIN s \ {i} : s[j].row = t[j].row
    PROVE  Used(t) = Used(s) - RowBytes(s[i].row) + RowBytes(t[i].row)
<1> DEFINE l == Len(s)
           old == RowBytes(s[i].row)
           new == RowBytes(t[i].row)
<1>1. l \in Nat /\ Len(t) = l /\ i \in 1 .. l
  OBVIOUS
<1>2. old \in Nat /\ new \in Nat
  <2>1. s[i] \in Slot /\ t[i] \in Slot
    BY <1>1
  <2> QED
    BY <2>1, RowBytesType DEF Slot
<1>3. PICK f : PartialSum(f, s) /\ Used(s) = f[Len(s)]
  BY UsedIsSum, SMTT(60)
<1>4. PICK g : PartialSum(g, t) /\ Used(t) = g[Len(t)]
  BY UsedIsSum
<1>5. \A n \in 0 .. l : f[n] \in Nat /\ g[n] \in Nat
  BY <1>1, <1>3, <1>4 DEF PartialSum
<1>6. f[i - 1] = g[i - 1]
  <2>1. i - 1 \in Nat /\ i - 1 <= Len(s) /\ i - 1 <= Len(t)
    BY <1>1
  <2>2. \A j \in 1 .. (i - 1) : s[j].row = t[j].row
    BY <1>1
  <2> QED
    BY <1>3, <1>4, <2>1, <2>2, SumsAgree
<1>7. f[i] = f[i - 1] + old /\ g[i] = g[i - 1] + new
  <2>1. i - 1 \in Nat /\ i - 1 < l /\ (i - 1) + 1 = i
    BY <1>1
  <2> QED
    BY <1>1, <1>3, <1>4, <2>1 DEF PartialSum
<1> DEFINE S == {n \in Nat : i <= n /\ n <= l => g[n] = f[n] - old + new}
<1>8. 0 \in S
  BY <1>1
<1> HIDE DEF l, old, new
<1>9. ASSUME NEW n \in Nat, n \in S PROVE n + 1 \in S
  <2> SUFFICES ASSUME i <= n + 1, n + 1 <= l PROVE g[n + 1] = f[n + 1] - old + new
    OBVIOUS
  <2>1. CASE i = n + 1
    <3>1. f[i] \in Nat /\ f[i - 1] \in Nat
      BY <1>1, <1>5
    <3>2. g[i] = f[i] - old + new
      BY <1>2, <1>6, <1>7, <3>1, SMTT(60)
    <3> QED
      BY <2>1, <3>2
  <2>2. CASE i # n + 1
    <3>1. i <= n /\ n < l /\ n + 1 \in DOMAIN s \ {i} /\ n \in 0 .. l /\ n + 1 \in 0 .. l
      BY <1>1, <2>2 DEF l
    <3>2. f[n + 1] = f[n] + RowBytes(s[n + 1].row)
      BY <1>3, <3>1 DEF PartialSum, l
    <3>3. g[n + 1] = g[n] + RowBytes(t[n + 1].row)
      BY <1>1, <1>4, <3>1 DEF PartialSum
    <3>4. s[n + 1].row = t[n + 1].row
      BY <3>1
    <3>5. RowBytes(s[n + 1].row) \in Nat
      <4>1. s[n + 1] \in Slot
        BY <3>1
      <4> QED
        BY <4>1, RowBytesType DEF Slot
    <3>6. g[n] = f[n] - old + new
      BY <1>9, <3>1
    <3> QED
      BY <1>2, <1>5, <3>1, <3>2, <3>3, <3>4, <3>5, <3>6, SMTT(60)
  <2> QED
    BY <2>1, <2>2
<1> HIDE DEF S
<1>10. \A n \in Nat : n \in S
  BY <1>8, <1>9, EveryNumber
<1>11. g[l] = f[l] - old + new
  <2>1. l \in S /\ i <= l
    BY <1>1, <1>10
  <2> QED
    BY <1>1, <2>1 DEF S
<1> QED
  BY <1>1, <1>3, <1>4, <1>11 DEF l, old, new

-----------------------------------------------------------------------------
(* What a write does to a page.                                            *)

\* A page whose counted bytes fit.
FitPage == {page \in Page : SpaceFits(page)}

\* Slot entries are placed one after the other behind the header.
LEMMA EntryType ==
    \A n \in Nat : Entry(n + 1) \in Nat /\ Entry(n + 1) >= HeaderSize
                   /\ Entry(n + 2) = Entry(n + 1) + SlotSize
<1> SUFFICES ASSUME NEW n \in Nat
             PROVE  Entry(n + 1) \in Nat /\ Entry(n + 1) >= HeaderSize
                    /\ Entry(n + 2) = Entry(n + 1) + SlotSize
  OBVIOUS
<1>1. HeaderSize \in Nat /\ SlotSize \in Nat
  BY SizesArePositive
<1>2. (n + 1) - 1 = n /\ (n + 2) - 1 = n + 1
  OBVIOUS
<1>3. Entry(n + 1) = HeaderSize + n * SlotSize
  BY <1>2 DEF Entry
<1>4. Entry(n + 2) = HeaderSize + (n + 1) * SlotSize
  BY <1>2 DEF Entry
<1>5. n * SlotSize \in Nat
  BY <1>1
<1>6. (n + 1) * SlotSize = n * SlotSize + SlotSize
  BY <1>1
<1> QED
  BY <1>1, <1>3, <1>4, <1>5, <1>6

\* A page has slots, two numbers and a set of lost slots.
LEMMA PageFromParts ==
    \A s \in Seq(Slot), a, b \in Int, l \in SUBSET Nat :
        [slots |-> s, space |-> a, top |-> b, lost |-> l] \in Page
BY DEF Page

\* A new page has its bytes to itself.
LEMMA EmptyPageFits == EmptyPage \in FitPage
<1>1. EmptyPage.slots = <<>> /\ EmptyPage.space = PageSize - HeaderSize
  BY DEF EmptyPage
<1>2. EmptyPage \in Page
  BY SizesArePositive DEF EmptyPage, Page
<1>3. Entry(0 + 1) = HeaderSize
  BY SizesArePositive DEF Entry
<1>4. Entry(Len(EmptyPage.slots) + 1) = HeaderSize
  BY <1>1, <1>3
<1>5. Used(EmptyPage.slots) = 0
  BY <1>1, NothingUsed
<1>6. SpaceFits(EmptyPage)
  BY <1>1, <1>4, <1>5, SizesArePositive DEF SpaceFits
<1> QED
  BY <1>2, <1>6 DEF FitPage

\* A row is as long as it has bytes.
LEMMA RowLength == \A row \in Row : row.len \in Nat /\ RowBytes(row) = row.len
BY RowsHaveBytes, NoRowIsNoRow DEF RowBytes

\* The slots of a page are numbers, those a write overwrites too.
LEMMA OverwrittenType ==
    ASSUME NEW page \in Page, NEW a, NEW n
    PROVE  Overwritten(page, a, n) \in SUBSET Nat /\ RowsIn(page, a, n) \in SUBSET Nat
<1>1. page.slots \in Seq(Slot)
  BY DEF Page
<1>2. DOMAIN page.slots \in SUBSET Nat
  BY <1>1
<1> QED
  BY <1>2 DEF Overwritten, RowsIn, Live

\* insert_row_into_page takes what it writes from the space it counts as free.
LEMMA InsertedFits ==
    ASSUME NEW page \in FitPage, NEW row \in Row, HasSpace(page, row)
    PROVE  /\ Inserted(page, row) \in FitPage
           /\ Len(Inserted(page, row).slots) = Len(page.slots) + 1
<1> DEFINE n == Len(page.slots)
           at == page.top - row.len
           slot == [at |-> at, row |-> row]
           new == Inserted(page, row)
<1>1. /\ page.slots \in Seq(Slot) /\ page.space \in Int /\ page.top \in Int
      /\ page.lost \in SUBSET Nat /\ SpaceFits(page)
  BY DEF FitPage, Page
<1>2. row.len \in Nat /\ RowBytes(row) = row.len
  BY RowLength
<1>3. slot \in Slot
  BY <1>1, <1>2 DEF Slot
<1>4. n \in Nat
  BY <1>1
<1>5. /\ new.slots = Append(page.slots, slot)
      /\ new.space = page.space - row.len - SlotSize
  BY DEF Inserted
<1>6. Len(new.slots) = n + 1
  BY <1>1, <1>3, <1>5
<1>7. Used(new.slots) = Used(page.slots) + row.len
  <2>1. Used(Append(page.slots, slot)) = Used(page.slots) + RowBytes(slot.row)
    BY <1>1, <1>3, UsedAppended
  <2>2. slot.row = row
    OBVIOUS
  <2> QED
    BY <1>2, <1>5, <2>1, <2>2
<1>8. SpaceFits(new)
  <2>1. Entry(n + 1) \in Nat /\ Entry((n + 1) + 1) = Entry(n + 1) + SlotSize
    <3>1. (n + 1) + 1 = n + 2
      BY <1>4
    <3> QED
      BY <1>4, <3>1, EntryType
  <2>2. Used(page.slots) \in Nat
    BY <1>1, UsedType
  <2>3. row.len + SlotSize <= page.space
    BY DEF HasSpace
  <2>4. /\ page.space >= 0
        /\ page.space + Used(page.slots) + Entry(n + 1) <= PageSize
    BY <1>1 DEF SpaceFits
  <2>5. Entry(Len(new.slots) + 1) = Entry(n + 1) + SlotSize
    BY <1>6, <2>1
  <2>6. PageSize \in Nat /\ SlotSize \in Nat
    BY SizesArePositive
  <2>7. page.space \in Int
    BY <1>1
  <2>8. new.space = page.space - row.len - SlotSize
    BY <1>5
  <2> HIDE DEF new
  <2>9. new.space >= 0
    BY <1>2, <2>3, <2>6, <2>7, <2>8
  <2>10. new.space + Used(new.slots) + Entry(Len(new.slots) + 1)
           = page.space + Used(page.slots) + Entry(n + 1)
    BY <1>2, <1>7, <2>1, <2>2, <2>5, <2>6, <2>7, <2>8, SMTT(60)
  <2> QED
    BY <2>4, <2>9, <2>10 DEF SpaceFits
<1>9. new \in Page
  <2>1. Append(page.slots, slot) \in Seq(Slot)
    BY <1>1, <1>3
  <2>2. page.space - row.len - SlotSize \in Int /\ at \in Int
    BY <1>1, <1>2, SizesArePositive, SMTT(60)
  <2>3. new.lost \in SUBSET Nat
    <3>1. Spoilt(n + 1, at, row.len) \in SUBSET Nat
      BY <1>4 DEF Spoilt
    <3>2. Overwritten(page, at, row.len) \in SUBSET Nat
          /\ RowsIn(page, Entry(n + 1), SlotSize) \in SUBSET Nat
      BY OverwrittenType DEF FitPage
    <3>3. new.lost = page.lost \cup Overwritten(page, at, row.len)
                       \cup RowsIn(page, Entry(n + 1), SlotSize) \cup Spoilt(n + 1, at, row.len)
      BY DEF Inserted
    <3> QED
      BY <1>1, <3>1, <3>2, <3>3
  <2>4. new = [slots |-> new.slots, space |-> new.space, top |-> at, lost |-> new.lost]
    BY DEF Inserted
  <2> HIDE DEF new, at
  <2>5. [slots |-> new.slots, space |-> new.space, top |-> at, lost |-> new.lost] \in Page
    BY <1>5, <2>1, <2>2, <2>3, PageFromParts
  <2> QED
    BY <2>4, <2>5
<1> QED
  BY <1>6, <1>8, <1>9 DEF FitPage

\* What putting another row into a slot does to the bytes in use.
LEMMA SlotReplaced ==
    ASSUME NEW s \in Seq(Slot), NEW i \in DOMAIN s, NEW slot \in Slot
    PROVE  LET t == [s EXCEPT ![i] = slot]
           IN  /\ t \in Seq(Slot) /\ Len(t) = Len(s)
               /\ Used(t) = Used(s) - RowBytes(s[i].row) + RowBytes(slot.row)
<1> DEFINE t == [s EXCEPT ![i] = slot]
<1>1. t \in Seq(Slot) /\ Len(t) = Len(s)
  BY ExceptSeq
<1>2. t[i] = slot /\ \A j \in DOMAIN s \ {i} : s[j].row = t[j].row
  OBVIOUS
<1> HIDE DEF t
<1>3. Used(t) = Used(s) - RowBytes(s[i].row) + RowBytes(t[i].row)
  BY <1>1, <1>2, UsedChanged
<1> QED
  BY <1>1, <1>2, <1>3 DEF t

\* Neither the slot of a deleted row nor that of another has fewer than no bytes.
LEMMA SlotBytes == \A s \in Seq(Slot) : \A i \in DOMAIN s : RowBytes(s[i].row) \in Nat
<1> SUFFICES ASSUME NEW s \in Seq(Slot), NEW i \in DOMAIN s PROVE RowBytes(s[i].row) \in Nat
  OBVIOUS
<1>1. s[i] \in Slot
  OBVIOUS
<1> QED
  BY <1>1, RowBytesType DEF Slot

\* delete_row_from_page frees bytes it does not count.
LEMMA DeletedFits ==
    ASSUME NEW page \in FitPage, NEW i \in DOMAIN page.slots
    PROVE  /\ Deleted(page, i) \in FitPage
           /\ Len(Deleted(page, i).slots) = Len(page.slots)
<1> DEFINE s == page.slots
           gone == [at |-> 0, row |-> NoRow]
           t == [s EXCEPT ![i] = gone]
           new == Deleted(page, i)
<1>1. /\ s \in Seq(Slot) /\ page.space \in Int /\ page.top \in Int
      /\ page.lost \in SUBSET Nat /\ SpaceFits(page) /\ i \in DOMAIN s
  BY DEF FitPage, Page
<1>2. page = [slots |-> s, space |-> page.space, top |-> page.top, lost |-> page.lost]
  BY DEF FitPage, Page
<1>3. gone \in Slot /\ RowBytes(gone.row) = 0
  BY DEF Slot, RowBytes
<1>4. new = [slots |-> t, space |-> page.space, top |-> page.top, lost |-> page.lost]
  BY <1>2 DEF Deleted
<1>5. t \in Seq(Slot) /\ Len(t) = Len(s) /\ Used(t) = Used(s) - RowBytes(s[i].row) + 0
  BY <1>1, <1>3, SlotReplaced, SMTT(60)
<1>6. RowBytes(s[i].row) \in Nat /\ Used(s) \in Nat
  BY <1>1, SlotBytes, UsedType
<1> HIDE DEF t, new, gone
<1>7. new \in Page
  BY <1>1, <1>4, <1>5, PageFromParts
<1>8. new.slots = t /\ new.space = page.space
  BY <1>4
<1>9. Len(s) \in Nat
  BY <1>1
<1>10. Entry(Len(s) + 1) \in Nat
  BY <1>9, EntryType
<1>11. page.space >= 0 /\ page.space + Used(s) + Entry(Len(s) + 1) <= PageSize
  BY <1>1 DEF SpaceFits
<1>12. Used(t) \in Nat /\ Used(t) <= Used(s)
  <2>1. Used(t) \in Nat
    BY <1>5, UsedType
  <2> QED
    BY <1>5, <1>6, <2>1
<1> HIDE DEF s
<1>13. page.space + Used(t) + Entry(Len(s) + 1) <= PageSize
  BY <1>1, <1>6, <1>10, <1>11, <1>12, SizesArePositive, SMTT(60)
<1>14. SpaceFits(new)
  BY <1>5, <1>8, <1>11, <1>13 DEF SpaceFits
<1> QED
  BY <1>5, <1>7, <1>8, <1>14 DEF FitPage, s, new

\* An update in place trades the bytes of the old row for those of the new one.
LEMMA RewrittenFits ==
    ASSUME NEW page \in FitPage, NEW i \in DOMAIN page.slots, NEW row \in Row,
           CanRewrite(page, i, row)
    PROVE  /\ Rewritten(page, i, row) \in FitPage
           /\ Len(Rewritten(page, i, row).slots) = Len(page.slots)
<1> DEFINE s == page.slots
           at == page.top - row.len
           slot == [at |-> at, row |-> row]
           t == [s EXCEPT ![i] = slot]
           old == RowBytes(s[i].row)
           new == Rewritten(page, i, row)
<1>1. /\ s \in Seq(Slot) /\ page.space \in Int /\ page.top \in Int
      /\ page.lost \in SUBSET Nat /\ SpaceFits(page) /\ i \in DOMAIN s
  BY DEF FitPage, Page
<1>2. row.len \in Nat /\ RowBytes(row) = row.len
  BY RowLength
<1>3. slot \in Slot /\ slot.row = row
  BY <1>1, <1>2 DEF Slot
<1>4. /\ new = [slots |-> t, space |-> page.space + old - row.len, top |-> at, lost |-> new.lost]
      /\ new.lost = ((page.lost \cup Overwritten(page, at, row.len)) \ {i})
                      \cup Spoilt(i, at, row.len)
  BY DEF Rewritten
<1>5. t \in Seq(Slot) /\ Len(t) = Len(s) /\ Used(t) = Used(s) - old + row.len
  BY <1>1, <1>2, <1>3, SlotReplaced, ZenonT(60)
<1>6. old \in Nat /\ Used(s) \in Nat
  BY <1>1, SlotBytes, UsedType
<1>7. row.len <= page.space + old
  BY DEF CanRewrite
<1>8. i \in Nat
  BY <1>1
<1>9. new.lost \in SUBSET Nat
  <2>1. Overwritten(page, at, row.len) \in SUBSET Nat
    BY OverwrittenType DEF FitPage
  <2>2. Spoilt(i, at, row.len) \in SUBSET Nat
    BY <1>8 DEF Spoilt
  <2> QED
    BY <1>1, <1>4, <2>1, <2>2
<1> HIDE DEF t, new, slot, old
<1>10. at \in Int /\ page.space + old - row.len \in Int
  BY <1>1, <1>2, <1>6, SMTT(60)
<1> HIDE DEF at
<1>11. new \in Page
  <2>1. [slots |-> t, space |-> page.space + old - row.len, top |-> at, lost |-> new.lost] \in Page
    BY <1>5, <1>9, <1>10, PageFromParts
  <2> QED
    BY <1>4, <2>1
<1>12. new.slots = t /\ new.space = page.space + old - row.len
  BY <1>4
<1>13. Len(s) \in Nat
  BY <1>1
<1>14. Entry(Len(s) + 1) \in Nat
  BY <1>13, EntryType
<1>15. page.space >= 0 /\ page.space + Used(s) + Entry(Len(s) + 1) <= PageSize
  BY <1>1 DEF SpaceFits
<1> HIDE DEF s
<1>16. new.space >= 0
  BY <1>1, <1>2, <1>6, <1>7, <1>12, SMTT(60)
<1>17. new.space + Used(t) + Entry(Len(s) + 1) = page.space + Used(s) + Entry(Len(s) + 1)
  BY <1>1, <1>2, <1>5, <1>6, <1>12, <1>14, SMTT(60)
<1>18. SpaceFits(new)
  BY <1>5, <1>12, <1>15, <1>16, <1>17 DEF SpaceFits
<1> QED
  BY <1>5, <1>11, <1>12, <1>18 DEF FitPage, s, new

-----------------------------------------------------------------------------
(* What a write does to the chain.                                         *)

\* Chains of pages whose counted bytes fit, and the addresses of their slots.
FitHeap == Seq(FitPage)
SlotIn(h, rid) == rid.page \in DOMAIN h /\ rid.slot \in DOMAIN h[rid.page].slots

\* Pages and slots are only ever added to a chain.
Grown(h, g) ==
    /\ Len(h) <= Len(g)
    /\ \A p \in DOMAIN h : Len(h[p].slots) <= Len(g[p].slots)

\* An address stays one, whatever is written.
LEMMA AddressesStay ==
    ASSUME NEW h \in FitHeap, NEW g \in FitHeap, Grown(h, g), NEW rid, SlotIn(h, rid)
    PROVE  SlotIn(g, rid)
<1>1. rid.page \in DOMAIN h /\ rid.slot \in DOMAIN h[rid.page].slots
  BY DEF SlotIn
<1>2. Len(h) \in Nat /\ Len(g) \in Nat /\ Len(h) <= Len(g)
  BY DEF FitHeap, Grown
<1>3. rid.page \in DOMAIN g
  BY <1>1, <1>2 DEF FitHeap
<1>4. h[rid.page] \in FitPage /\ g[rid.page] \in FitPage
  BY <1>1, <1>3 DEF FitHeap
<1>5. h[rid.page].slots \in Seq(Slot) /\ g[rid.page].slots \in Seq(Slot)
  BY <1>4 DEF FitPage, Page
<1>6. Len(h[rid.page].slots) <= Len(g[rid.page].slots)
  BY <1>1 DEF Grown
<1> QED
  BY <1>1, <1>3, <1>5, <1>6 DEF SlotIn

\* Writing to one page of a chain keeps the others.
LEMMA PageReplaced ==
    ASSUME NEW h \in FitHeap, NEW p \in DOMAIN h, NEW page \in FitPage,
           Len(h[p].slots) <= Len(page.slots)
    PROVE  /\ [h EXCEPT ![p] = page] \in FitHeap
           /\ Grown(h, [h EXCEPT ![p] = page])
<1> DEFINE g == [h EXCEPT ![p] = page]
<1>1. g \in Seq(FitPage) /\ Len(g) = Len(h)
  BY ExceptSeq DEF FitHeap
<1>2. Len(h) \in Nat
  BY DEF FitHeap
<1>3. \A q \in DOMAIN h : Len(h[q].slots) <= Len(g[q].slots)
  <2> SUFFICES ASSUME NEW q \in DOMAIN h PROVE Len(h[q].slots) <= Len(g[q].slots)
    OBVIOUS
  <2>1. h[q] \in FitPage
    BY DEF FitHeap
  <2>2. Len(h[q].slots) \in Nat
    BY <2>1 DEF FitPage, Page
  <2>3. g[q] = IF q = p THEN page ELSE h[q]
    OBVIOUS
  <2> QED
    BY <2>2, <2>3
<1> QED
  BY <1>1, <1>2, <1>3 DEF FitHeap, Grown

\* The chain gets longer by pages at its end.
LEMMA GrownTwice ==
    ASSUME NEW h \in FitHeap, NEW g \in FitHeap, NEW k \in FitHeap, Grown(h, g), Grown(g, k)
    PROVE  Grown(h, k)
<1>1. Len(h) \in Nat /\ Len(g) \in Nat /\ Len(k) \in Nat
  BY DEF FitHeap
<1>2. Len(h) <= Len(k)
  BY <1>1 DEF Grown
<1>3. ASSUME NEW p \in DOMAIN h PROVE Len(h[p].slots) <= Len(k[p].slots)
  <2>1. p \in DOMAIN g /\ p \in DOMAIN k
    BY <1>1 DEF FitHeap, Grown
  <2>2. h[p] \in FitPage /\ g[p] \in FitPage /\ k[p] \in FitPage
    BY <2>1 DEF FitHeap
  <2>3. Len(h[p].slots) \in Nat /\ Len(g[p].slots) \in Nat /\ Len(k[p].slots) \in Nat
    BY <2>2, SMTT(60) DEF FitPage, Page
  <2>4. Len(h[p].slots) <= Len(g[p].slots) /\ Len(g[p].slots) <= Len(k[p].slots)
    BY <2>1 DEF Grown
  <2> QED
    BY <2>3, <2>4, SMTT(60)
<1> QED
  BY <1>2, <1>3 DEF Grown

\* Nothing written, nothing changed.
LEMMA GrownSame == \A h \in FitHeap : Grown(h, h)
<1> SUFFICES ASSUME NEW h \in FitHeap PROVE Grown(h, h)
  OBVIOUS
<1>1. Len(h) \in Nat
  BY DEF FitHeap
<1>2. ASSUME NEW p \in DOMAIN h PROVE Len(h[p].slots) <= Len(h[p].slots)
  <2>1. h[p] \in FitPage
    BY DEF FitHeap
  <2>2. Len(h[p].slots) \in Nat
    BY <2>1 DEF FitPage, Page
  <2> QED
    BY <2>2
<1> QED
  BY <1>1, <1>2 DEF Grown

\* A row goes to a page of the chain that counts enough free bytes for it, the
\* first one that does, or behind the chain.
LEMMA SpotIsFirst ==
    ASSUME NEW h \in FitHeap, NEW row
    PROVE  \/ /\ Spot(h, row) \in DOMAIN h
              /\ HasSpace(h[Spot(h, row)], row)
              /\ \A q \in DOMAIN h : HasSpace(h[q], row) => Spot(h, row) <= q
           \/ /\ Spot(h, row) = Len(h) + 1
              /\ \A q \in DOMAIN h : ~ HasSpace(h[q], row)
<1> DEFINE C == Candidates(h, row)
<1>1. CASE C = {}
  BY <1>1 DEF Candidates, Spot
<1>2. CASE C # {}
  <2>1. DOMAIN h \in SUBSET Nat
    BY DEF FitHeap
  <2>2. C \in SUBSET Nat
    BY <2>1 DEF Candidates
  <2>3. \E p \in C : \A q \in C : p <= q
    BY <1>2, <2>2, SmallestOf
  <2>4. Spot(h, row) = CHOOSE p \in C : \A q \in C : p <= q
    BY <1>2 DEF Spot
  <2>5. Spot(h, row) \in C /\ \A q \in C : Spot(h, row) <= q
    BY <2>3, <2>4
  <2> QED
    BY <2>5 DEF Candidates
<1> QED
  BY <1>1, <1>2

\* Table.insert keeps the count of every page, and the row is where it says,
\* unless it fails.
LEMMA InsertRowFits ==
    ASSUME NEW h \in FitHeap, NEW row \in Row
    PROVE  /\ InsertRow(h, row).heap \in FitHeap
           /\ Grown(h, InsertRow(h, row).heap)
<1> DEFINE p == Spot(h, row)
           long == Extended(h, p)
           fails == ~ HasSpace(long[p], row) \/ Overflows(long[p], row)
           done == InsertRow(h, row)
<1>1. Len(h) \in Nat /\ \A q \in DOMAIN h : h[q] \in FitPage
  BY DEF FitHeap
<1>2. long \in FitHeap /\ p \in DOMAIN long /\ Grown(h, long)
  <2>1. CASE p \in DOMAIN h
    <3>1. ~ (p > Len(h))
      BY <1>1, <2>1 DEF FitHeap
    <3>2. long = h
      BY <3>1 DEF Extended
    <3> QED
      BY <2>1, <3>2, GrownSame
  <2>2. CASE p = Len(h) + 1
    <3>1. long = Append(h, EmptyPage)
      BY <1>1, <2>2 DEF Extended
    <3>2. long \in FitHeap /\ Len(long) = Len(h) + 1 /\ \A q \in DOMAIN h : long[q] = h[q]
      BY <3>1, EmptyPageFits DEF FitHeap
    <3>3. p \in DOMAIN long
      BY <1>1, <2>2, <3>2 DEF FitHeap
    <3>4. Grown(h, h)
      BY GrownSame
    <3>5. Grown(h, long)
      BY <1>1, <3>2, <3>4 DEF Grown
    <3> QED
      BY <3>2, <3>3, <3>5
  <2> QED
    BY <2>1, <2>2, SpotIsFirst
<1>3. done.heap = IF fails THEN long ELSE [long EXCEPT ![p] = Inserted(long[p], row)]
  BY DEF InsertRow
<1> HIDE DEF p, long, done
<1>4. CASE fails
  BY <1>2, <1>3, <1>4 DEF done
<1>5. CASE ~ fails
  <2>1. long[p] \in FitPage /\ HasSpace(long[p], row)
    BY <1>2, <1>5 DEF FitHeap
  <2>2. /\ Inserted(long[p], row) \in FitPage
        /\ Len(Inserted(long[p], row).slots) = Len(long[p].slots) + 1
    BY <2>1, InsertedFits
  <2>3. Len(long[p].slots) \in Nat
    BY <2>1 DEF FitPage, Page
  <2>4. Len(long[p].slots) <= Len(Inserted(long[p], row).slots)
    BY <2>2, <2>3
  <2>5. done.heap \in FitHeap /\ Grown(long, done.heap)
    BY <1>2, <1>3, <1>5, <2>2, <2>4, PageReplaced
  <2> QED
    BY <1>2, <2>5, GrownTwice DEF done
<1> QED
  BY <1>4, <1>5 DEF done

\* delete_row_from_page on the page of the row.
LEMMA DeleteRowFits ==
    ASSUME NEW h \in FitHeap, NEW rid, SlotIn(h, rid)
    PROVE  DeleteRow(h, rid) \in FitHeap /\ Grown(h, DeleteRow(h, rid))
<1> DEFINE p == rid.page
           page == Deleted(h[rid.page], rid.slot)
<1>1. p \in DOMAIN h /\ rid.slot \in DOMAIN h[p].slots /\ h[p] \in FitPage
  BY DEF FitHeap, SlotIn
<1>2. page \in FitPage /\ Len(page.slots) = Len(h[p].slots)
  BY <1>1, DeletedFits
<1>3. Len(h[p].slots) \in Nat
  BY <1>1 DEF FitPage, Page
<1>4. Len(h[p].slots) <= Len(page.slots)
  BY <1>2, <1>3
<1>5. DeleteRow(h, rid) = [h EXCEPT ![p] = page]
  BY DEF DeleteRow
<1> HIDE DEF p, page
<1> QED
  BY <1>1, <1>2, <1>4, <1>5, PageReplaced, ZenonT(60)

\* Table.update keeps the count of every page, in place or as a new row.
LEMMA UpdateRowFits ==
    ASSUME NEW h \in FitHeap, NEW rid, SlotIn(h, rid), NEW row \in Row
    PROVE  /\ UpdateRow(h, rid, row).heap \in FitHeap
           /\ Grown(h, UpdateRow(h, rid, row).heap)
<1> DEFINE p == rid.page
           page == Rewritten(h[rid.page], rid.slot, row)
           less == DeleteRow(h, rid)
           done == UpdateRow(h, rid, row)
<1>1. p \in DOMAIN h /\ rid.slot \in DOMAIN h[p].slots /\ h[p] \in FitPage
  BY DEF FitHeap, SlotIn
<1>2. CASE UpdateMoves(h, rid, row)
  <2>1. less \in FitHeap /\ Grown(h, less)
    BY DeleteRowFits
  <2>2. done = InsertRow(less, row)
    BY <1>2 DEF UpdateRow
  <2> HIDE DEF less, done
  <2>3. done.heap \in FitHeap /\ Grown(less, done.heap)
    BY <2>1, <2>2, InsertRowFits
  <2>4. Grown(h, done.heap)
    BY <2>1, <2>3, GrownTwice
  <2> QED
    BY <2>3, <2>4 DEF done
<1>3. CASE ~ UpdateMoves(h, rid, row)
  <2>1. CanRewrite(h[p], rid.slot, row)
    BY <1>3 DEF UpdateMoves
  <2>2. page \in FitPage /\ Len(page.slots) = Len(h[p].slots)
    BY <1>1, <2>1, RewrittenFits
  <2>3. Len(h[p].slots) \in Nat
    BY <1>1 DEF FitPage, Page
  <2>4. Len(h[p].slots) <= Len(page.slots)
    BY <2>2, <2>3
  <2>5. done.heap = IF Overflows(h[p], row) THEN h ELSE [h EXCEPT ![p] = page]
    BY <1>3 DEF UpdateRow
  <2> HIDE DEF p, page, done
  <2>6. [h EXCEPT ![p] = page] \in FitHeap /\ Grown(h, [h EXCEPT ![p] = page])
    BY <1>1, <2>2, <2>4, PageReplaced
  <2>7. done.heap \in FitHeap /\ Grown(h, done.heap)
    BY <2>5, <2>6, GrownSame
  <2> QED
    BY <2>7 DEF done
<1> QED
  BY <1>2, <1>3

-----------------------------------------------------------------------------
(* Statements.                                                             *)

Scan == [page : Nat, slot : Nat, copy : FitPage, more : BOOLEAN]
Statement ==
    [kind : {"idle"}]
    \cup [kind : {"insert"}, rest : Seq(Row)]
    \cup [kind : {"delete"}, rest : SUBSET [page : Nat, slot : Nat]]
    \cup [kind : {"update"}, where : Wheres, set : Sets, scan : Scan]

\* What a statement has still to do is about pages and slots of the chain: rows
\* are only added to it, so an address that was collected, or a page that was
\* copied, is one for as long as the statement runs.
ScanFits(h, scan) ==
    /\ scan.page \in DOMAIN h
    /\ Len(scan.copy.slots) <= Len(h[scan.page].slots)
    /\ scan.more => scan.page + 1 \in DOMAIN h
StatementFits(h, s) ==
    /\ s.kind = "delete" => \A rid \in s.rest : SlotIn(h, rid)
    /\ s.kind = "update" => ScanFits(h, s.scan)

Counted ==
    /\ heap \in FitHeap /\ 1 \in DOMAIN heap
    /\ stmt \in Statement
    /\ StatementFits(heap, stmt)

\* A statement goes on with a chain that has grown.
LEMMA StatementGrows ==
    ASSUME NEW h \in FitHeap, NEW g \in FitHeap, Grown(h, g), 1 \in DOMAIN h,
           NEW s \in Statement, StatementFits(h, s)
    PROVE  1 \in DOMAIN g /\ StatementFits(g, s)
<1>1. Len(h) \in Nat /\ Len(g) \in Nat /\ Len(h) <= Len(g)
  BY DEF FitHeap, Grown
<1>2. \A p \in DOMAIN h : p \in DOMAIN g
  BY <1>1 DEF FitHeap
<1>3. s.kind = "delete" => \A rid \in s.rest : SlotIn(g, rid)
  BY AddressesStay DEF StatementFits
<1>4. ASSUME s.kind = "update" PROVE ScanFits(g, s.scan)
  <2> DEFINE scan == s.scan
  <2>1. scan \in Scan /\ ScanFits(h, scan)
    BY <1>4 DEF StatementFits, Statement
  <2> HIDE DEF scan
  <2>2. /\ scan.page \in DOMAIN h /\ scan.copy \in FitPage
        /\ Len(scan.copy.slots) <= Len(h[scan.page].slots)
        /\ scan.more => scan.page + 1 \in DOMAIN h
    BY <2>1 DEF ScanFits, Scan
  <2>3. h[scan.page] \in FitPage /\ g[scan.page] \in FitPage
    BY <1>2, <2>2 DEF FitHeap
  <2>4. /\ Len(scan.copy.slots) \in Nat /\ Len(h[scan.page].slots) \in Nat
        /\ Len(g[scan.page].slots) \in Nat
    BY <2>2, <2>3, SMTT(60) DEF FitPage, Page
  <2>5. Len(h[scan.page].slots) <= Len(g[scan.page].slots)
    BY <2>2 DEF Grown
  <2>6. ScanFits(g, scan)
    BY <1>2, <2>2, <2>4, <2>5, SMTT(60) DEF ScanFits
  <2> QED
    BY <2>6 DEF scan
<1> QED
  BY <1>2, <1>3, <1>4 DEF StatementFits

\* What a scan finds of page p.
LEMMA ScanAt ==
    ASSUME NEW p \in DOMAIN heap, heap \in FitHeap
    PROVE  At(p) \in Scan /\ ScanFits(heap, At(p))
<1>1. p \in Nat /\ Len(heap) \in Nat /\ heap[p] \in FitPage
  BY DEF FitHeap
<1>2. Len(heap[p].slots) \in Nat
  BY <1>1 DEF FitPage, Page
<1>3. At(p).page = p /\ At(p).copy = heap[p] /\ (At(p).more <=> p < Len(heap))
  BY ZenonT(60) DEF At
<1>4. p < Len(heap) => p + 1 \in DOMAIN heap
  BY <1>1 DEF FitHeap
<1>5. At(p) \in Scan
  <2>1. (p < Len(heap)) \in BOOLEAN
    BY <1>1
  <2> QED
    BY <1>1, <2>1 DEF At, Scan
<1>6. ScanFits(heap, At(p))
  BY <1>1, <1>2, <1>3, <1>4 DEF ScanFits
<1> QED
  BY <1>5, <1>6

-----------------------------------------------------------------------------
(* The table.                                                              *)

\* f[n] is the table after the first n rows are inserted.
Loads(f, l) ==
    f = [n \in 0 .. l |-> IF n = 0 THEN [heap |-> EmptyHeap, tree |-> EmptyTree]
                          ELSE WithRow(f[n - 1], Loaded[n])]

\* Any number of rows can be loaded.
LEMMA LoadsExist == \A l \in Nat : \E f : Loads(f, l)
<1> DEFINE start == [heap |-> EmptyHeap, tree |-> EmptyTree]
           S == {l \in Nat : \E f : Loads(f, l)}
<1> HIDE DEF start
<1>1. 0 \in S
  <2> DEFINE f == [i \in 0 .. 0 |-> start]
  <2>1. Loads(f, 0)
    BY DEF Loads, start
  <2> QED
    BY <2>1
<1>2. ASSUME NEW n \in Nat, n \in S PROVE n + 1 \in S
  <2>1. PICK f : Loads(f, n)
    BY <1>2
  <2> DEFINE last == WithRow(f[n], Loaded[n + 1])
             g == [i \in 0 .. n + 1 |-> IF i = n + 1 THEN last ELSE f[i]]
  <2>2. \A i \in 0 .. n : f[i] = IF i = 0 THEN start ELSE WithRow(f[i - 1], Loaded[i])
    BY <2>1 DEF Loads, start
  <2>3. ASSUME NEW i \in 0 .. n + 1
        PROVE  g[i] = IF i = 0 THEN start ELSE WithRow(g[i - 1], Loaded[i])
    <3>1. CASE i = n + 1
      <4>1. g[i] = last /\ g[i - 1] = f[n] /\ i # 0
        BY <3>1
      <4> QED
        BY <3>1, <4>1
    <3>2. CASE i # n + 1
      <4>1. i \in 0 .. n /\ g[i] = f[i] /\ (i # 0 => g[i - 1] = f[i - 1])
        BY <3>2
      <4> QED
        BY <2>2, <4>1
    <3> QED
      BY <3>1, <3>2
  <2>4. g = [i \in 0 .. n + 1 |-> g[i]]
    OBVIOUS
  <2> HIDE DEF g
  <2>5. Loads(g, n + 1)
    <3> DEFINE h == [i \in 0 .. n + 1 |-> IF i = 0 THEN start ELSE WithRow(g[i - 1], Loaded[i])]
    <3>1. \A i \in 0 .. n + 1 : h[i] = g[i]
      BY <2>3
    <3>2. h = [i \in 0 .. n + 1 |-> h[i]]
      BY SMTT(60)
    <3> HIDE DEF h
    <3>3. g = h
      BY <2>4, <3>1, <3>2
    <3> QED
      BY <3>3 DEF h, Loads, start
  <2> QED
    BY <2>5
<1> HIDE DEF S
<1>3. \A n \in Nat : n \in S
  BY <1>1, <1>2, EveryNumber
<1> QED
  BY <1>3 DEF S

\* CREATE TABLE and the INSERT of the loaded rows keep whatever an INSERT keeps.
LEMMA LoadedIn ==
    ASSUME NEW G, EmptyHeap \in G, \A h \in G, row \in Row : InsertRow(h, row).heap \in G
    PROVE  AfterLoading.heap \in G
<1> DEFINE l == Len(Loaded)
<1>1. l \in Nat /\ \A n \in 1 .. l : Loaded[n] \in Row
  BY InputsAreRows
<1>2. \E f : Loads(f, l)
  BY <1>1, LoadsExist
<1>3. PICK f : Loads(f, l) /\ AfterLoading = f[l]
  BY <1>2, Zenon DEF Loads, AfterLoading
<1> HIDE DEF l
<1> DEFINE S == {n \in Nat : n <= l => f[n].heap \in G}
<1>4. 0 \in S
  <2>1. 0 \in 0 .. l
    BY <1>1
  <2>2. f[0] = [heap |-> EmptyHeap, tree |-> EmptyTree]
    BY <1>3, <2>1 DEF Loads
  <2>3. f[0].heap \in G
    BY <2>2
  <2> QED
    BY <2>3
<1>5. ASSUME NEW n \in Nat, n \in S PROVE n + 1 \in S
  <2> SUFFICES ASSUME n + 1 <= l PROVE f[n + 1].heap \in G
    OBVIOUS
  <2>1. n + 1 \in 1 .. l /\ f[n].heap \in G
    BY <1>1, <1>5
  <2>2. f[n + 1] = WithRow(f[n], Loaded[n + 1])
    <3>1. n + 1 \in 0 .. l /\ n + 1 # 0 /\ (n + 1) - 1 = n
      BY <2>1
    <3> QED
      BY <1>3, <3>1 DEF Loads
  <2>3. f[n + 1].heap = InsertRow(f[n].heap, Loaded[n + 1]).heap
    BY <2>2 DEF WithRow
  <2>4. Loaded[n + 1] \in Row
    BY <1>1, <2>1
  <2> QED
    BY <2>1, <2>3, <2>4
<1> HIDE DEF S
<1>6. \A n \in Nat : n \in S
  BY <1>4, <1>5, EveryNumber
<1>7. f[l].heap \in G
  BY <1>1, <1>6 DEF S
<1> QED
  BY <1>3, <1>7

\* The table is a chain of pages whose counts fit, from the beginning.
LEMMA LoadedFits == AfterLoading.heap \in FitHeap /\ 1 \in DOMAIN AfterLoading.heap
<1> DEFINE G == {h \in FitHeap : 1 \in DOMAIN h}
<1>1. EmptyHeap \in G
  BY EmptyPageFits DEF EmptyHeap, FitHeap
<1>2. ASSUME NEW h \in G, NEW row \in Row PROVE InsertRow(h, row).heap \in G
  <2> DEFINE g == InsertRow(h, row).heap
  <2>1. g \in FitHeap /\ Grown(h, g)
    BY InsertRowFits
  <2> HIDE DEF g
  <2>2. 1 \in DOMAIN g
    BY <2>1 DEF FitHeap, Grown
  <2> QED
    BY <2>1, <2>2 DEF g
<1> HIDE DEF G
<1>3. AfterLoading.heap \in G
  BY <1>1, <1>2, LoadedIn
<1> QED
  BY <1>3 DEF G

\* The bytes that a page counts as free are free, in the table as it is loaded
\* and after each step of a statement, however it ends.
LEMMA CountedGoesOn == Counted /\ [Next]_vars => Counted'
<1> SUFFICES ASSUME Counted, [Next]_vars PROVE Counted'
  OBVIOUS
<1>1. heap \in FitHeap /\ 1 \in DOMAIN heap /\ stmt \in Statement /\ StatementFits(heap, stmt)
  BY DEF Counted
<1>2. Idle \in Statement /\ \A h : StatementFits(h, Idle)
  BY DEF Idle, Statement, StatementFits
<1>3. ASSUME NEW how, End(how) PROVE Counted'
  BY <1>1, <1>2, <1>3 DEF End, Counted
<1>4. ASSUME NEW rows \in Inserts, StartInsert(rows) PROVE Counted'
  <2> DEFINE s == [kind |-> "insert", rest |-> rows]
  <2>1. rows \in Seq(Row)
    BY InputsAreRows
  <2>2. s \in Statement /\ StatementFits(heap, s)
    BY <2>1 DEF Statement, StatementFits
  <2>3. stmt' = s /\ heap' = heap
    BY <1>4 DEF StartInsert, Begin
  <2> QED
    BY <1>1, <2>2, <2>3 DEF Counted
<1>5. ASSUME NEW keys \in Wheres, StartDelete(keys) PROVE Counted'
  <2> DEFINE rest == {rid \in Readable(heap) : RowAt(heap, rid).key \in keys}
             s == [kind |-> "delete", rest |-> rest]
  <2>1. ASSUME NEW rid \in rest
        PROVE  rid \in [page : Nat, slot : Nat] /\ SlotIn(heap, rid)
    <3>1. rid \in RowIds(heap)
      BY DEF Readable
    <3>2. /\ rid \in [page : DOMAIN heap, slot : UNION {DOMAIN heap[p].slots : p \in DOMAIN heap}]
          /\ rid.slot \in Live(heap[rid.page])
      BY <3>1 DEF RowIds
    <3>3. rid = [page |-> rid.page, slot |-> rid.slot] /\ rid.page \in DOMAIN heap
      BY <3>2
    <3>4. rid.slot \in DOMAIN heap[rid.page].slots
      BY <3>2 DEF Live
    <3>5. rid.page \in Nat /\ heap[rid.page] \in FitPage
      BY <1>1, <3>3 DEF FitHeap
    <3>6. rid.slot \in Nat
      BY <3>4, <3>5, SMTT(60) DEF FitPage, Page
    <3> QED
      BY <3>3, <3>4, <3>5, <3>6 DEF SlotIn
  <2>2. stmt' = s /\ heap' = heap
    BY <1>5 DEF StartDelete, Begin
  <2> HIDE DEF rest
  <2>3. s \in Statement /\ StatementFits(heap, s)
    BY <2>1 DEF Statement, StatementFits
  <2> QED
    BY <1>1, <2>2, <2>3 DEF Counted
<1>6. ASSUME NEW keys \in Wheres, NEW set \in Sets, StartUpdate(keys, set) PROVE Counted'
  <2> DEFINE a == At(1)
             s == [kind |-> "update", where |-> keys, set |-> set, scan |-> a]
  <2>1. a \in Scan /\ ScanFits(heap, a)
    BY <1>1, ScanAt
  <2>2. stmt' = s /\ heap' = heap
    BY <1>6 DEF StartUpdate, Begin
  <2> HIDE DEF a
  <2>3. s \in Statement /\ StatementFits(heap, s)
    BY <2>1 DEF Statement, StatementFits
  <2> QED
    BY <1>1, <2>2, <2>3 DEF Counted
<1>7. ASSUME InsertNext PROVE Counted'
  <2> DEFINE row == Head(stmt.rest)
             done == InsertRow(heap, row)
             next == [stmt EXCEPT !.rest = Tail(@)]
  <2>1. /\ stmt.kind = "insert" /\ stmt.rest # <<>>
        /\ IF Conflict(row.key, {}) THEN End("refused")
           ELSE heap' = done.heap /\ stmt' \in {Idle, next}
    BY <1>7, Zenon DEF InsertNext, Proceed
  <2>2. stmt \in [kind : {"insert"}, rest : Seq(Row)]
    BY <1>1, <2>1 DEF Statement
  <2>3. row \in Row /\ Tail(stmt.rest) \in Seq(Row)
    BY <2>1, <2>2
  <2>4. CASE Conflict(row.key, {})
    BY <1>3, <2>1, <2>4
  <2>5. CASE ~ Conflict(row.key, {})
    <3>1. done.heap \in FitHeap /\ Grown(heap, done.heap)
      BY <1>1, <2>3, InsertRowFits
    <3>2. next \in [kind : {"insert"}, rest : Seq(Row)]
      BY <2>2, <2>3
    <3> HIDE DEF done, next
    <3>3. next \in Statement /\ StatementFits(heap, next)
      BY <3>2 DEF Statement, StatementFits
    <3>4. stmt' \in Statement /\ StatementFits(heap, stmt') /\ heap' = done.heap
      BY <1>2, <2>1, <2>5, <3>3
    <3>5. 1 \in DOMAIN heap' /\ StatementFits(heap', stmt')
      BY <1>1, <3>1, <3>4, StatementGrows
    <3> QED
      BY <3>1, <3>4, <3>5 DEF Counted
  <2> QED
    BY <2>4, <2>5
<1>8. ASSUME DeleteNext PROVE Counted'
  <2>1. PICK rid \in stmt.rest :
          heap' = DeleteRow(heap, rid) /\ stmt' = [stmt EXCEPT !.rest = @ \ {rid}]
    BY <1>8 DEF DeleteNext
  <2>2. stmt.kind = "delete"
    BY <1>8 DEF DeleteNext
  <2>3. stmt \in [kind : {"delete"}, rest : SUBSET [page : Nat, slot : Nat]]
    BY <1>1, <2>2 DEF Statement
  <2>4. \A r \in stmt.rest : SlotIn(heap, r)
    BY <1>1, <2>2 DEF StatementFits
  <2>5. heap' \in FitHeap /\ Grown(heap, heap')
    BY <1>1, <2>1, <2>4, DeleteRowFits
  <2>6. /\ stmt' \in [kind : {"delete"}, rest : SUBSET [page : Nat, slot : Nat]]
        /\ stmt'.rest \subseteq stmt.rest
    BY <2>1, <2>3
  <2>7. stmt' \in Statement /\ StatementFits(heap, stmt')
    BY <2>4, <2>6 DEF Statement, StatementFits
  <2>8. 1 \in DOMAIN heap' /\ StatementFits(heap', stmt')
    BY <1>1, <2>5, <2>7, StatementGrows
  <2> QED
    BY <2>5, <2>7, <2>8 DEF Counted
<1>9. ASSUME UpdateNext PROVE Counted'
  <2> DEFINE scan == stmt.scan
             old(i) == scan.copy.slots[i].row
             rid(i) == [page |-> scan.page, slot |-> i]
  <2>1. stmt.kind = "update"
    BY <1>9 DEF UpdateNext
  <2>2. stmt \in [kind : {"update"}, where : Wheres, set : Sets, scan : Scan]
    BY <1>1, <2>1, SMTT(60) DEF Statement
  <2>3. PICK i \in Ahead : UpdateRid(rid(i), old(i), Assigned(old(i), stmt.set))
    BY <1>9 DEF UpdateNext
  <2> DEFINE new == Assigned(old(i), stmt.set)
             done == UpdateRow(heap, rid(i), new)
             next == [stmt EXCEPT !.scan.slot = i + 1]
  <2>4. i \in DOMAIN scan.copy.slots /\ old(i) # NoRow
    BY DEF Ahead, Live
  <2>5. scan \in Scan /\ ScanFits(heap, scan)
    BY <1>1, <2>1, <2>2 DEF StatementFits
  <2>6. scan.copy.slots \in Seq(Slot)
    BY <2>5 DEF Scan, FitPage, Page
  <2>7. i \in Nat /\ old(i) \in Row
    <3>1. scan.copy.slots[i] \in Slot
      BY <2>4, <2>6
    <3> QED
      BY <2>4, <2>6, <3>1 DEF Slot
  <2>8. new \in Row
    BY <2>2, <2>7, InputsAreRows
  <2>9. SlotIn(heap, rid(i))
    <3>1. scan.page \in DOMAIN heap /\ Len(scan.copy.slots) <= Len(heap[scan.page].slots)
      BY <2>5 DEF ScanFits
    <3>2. heap[scan.page] \in FitPage
      BY <1>1, <3>1 DEF FitHeap
    <3>3. heap[scan.page].slots \in Seq(Slot)
      BY <3>2 DEF FitPage, Page
    <3>4. i \in DOMAIN heap[scan.page].slots
      BY <2>4, <2>6, <3>1, <3>3
    <3> QED
      BY <3>1, <3>4 DEF SlotIn
  <2>10. done.heap \in FitHeap /\ Grown(heap, done.heap)
    BY <1>1, <2>8, <2>9, UpdateRowFits
  <2>11. \/ End("refused")
         \/ heap' \in {heap, done.heap} /\ stmt' \in {Idle, next}
    BY <2>3, Zenon DEF UpdateRid, Proceed
  <2>12. next \in Statement /\ StatementFits(heap, next)
    <3> DEFINE ahead == [scan EXCEPT !.slot = i + 1]
    <3>1. ahead \in Scan /\ ScanFits(heap, ahead)
      BY <2>5, <2>7, SMTT(60) DEF Scan, ScanFits
    <3>2. next = [stmt EXCEPT !.scan = ahead]
      OBVIOUS
    <3> HIDE DEF ahead
    <3>3. /\ next \in [kind : {"update"}, where : Wheres, set : Sets, scan : Scan]
          /\ next.scan = ahead
      BY <2>2, <3>1, <3>2
    <3> QED
      BY <3>1, <3>3 DEF Statement, StatementFits
  <2>13. CASE End("refused")
    BY <1>3, <2>13
  <2>14. CASE heap' \in {heap, done.heap} /\ stmt' \in {Idle, next}
    <3> HIDE DEF done, next
    <3>1. heap' \in FitHeap /\ Grown(heap, heap')
      BY <1>1, <2>10, <2>14, GrownSame
    <3>2. stmt' \in Statement /\ StatementFits(heap, stmt')
      BY <1>2, <2>12, <2>14
    <3>3. 1 \in DOMAIN heap' /\ StatementFits(heap', stmt')
      BY <1>1, <3>1, <3>2, StatementGrows
    <3> QED
      BY <3>1, <3>2, <3>3 DEF Counted
  <2> QED
    BY <2>11, <2>13, <2>14
<1>10. ASSUME UpdateNextPage PROVE Counted'
  <2> DEFINE a == At(stmt.scan.page + 1)
  <2>1. /\ stmt.kind = "update" /\ stmt.scan.more
        /\ stmt' = [stmt EXCEPT !.scan = a] /\ heap' = heap
    BY <1>10 DEF UpdateNextPage
  <2>2. stmt \in [kind : {"update"}, where : Wheres, set : Sets, scan : Scan]
    BY <1>1, <2>1 DEF Statement
  <2>3. stmt.scan.page + 1 \in DOMAIN heap
    BY <1>1, <2>1 DEF StatementFits, ScanFits
  <2>4. a \in Scan /\ ScanFits(heap, a)
    BY <1>1, <2>3, ScanAt
  <2> HIDE DEF a
  <2>5. /\ stmt' \in [kind : {"update"}, where : Wheres, set : Sets, scan : Scan]
        /\ stmt'.scan = a
    BY <2>1, <2>2, <2>4
  <2>6. stmt' \in Statement /\ StatementFits(heap, stmt')
    BY <2>4, <2>5 DEF Statement, StatementFits
  <2> QED
    BY <1>1, <2>1, <2>6 DEF Counted
<1>11. CASE Done \/ CreateIndex \/ DropIndex \/ UNCHANGED vars
  <2>1. heap' = heap /\ (stmt' = stmt \/ stmt' = Idle)
    BY <1>11 DEF Done, End, CreateIndex, DropIndex, vars
  <2> QED
    BY <1>1, <1>2, <2>1 DEF Counted
<1> QED
  BY <1>4, <1>5, <1>6, <1>7, <1>8, <1>9, <1>10, <1>11 DEF Next

\* A statement, and the pages it works on, keep their shape.
LEMMA CountedHolds == Spec => []Counted
<1>1. Init => Counted
  <2> SUFFICES ASSUME Init PROVE Counted
    OBVIOUS
  <2>1. heap = AfterLoading.heap /\ stmt = Idle
    BY DEF Init
  <2>2. Idle \in Statement /\ StatementFits(heap, Idle)
    BY DEF Idle, Statement, StatementFits
  <2> QED
    BY <2>1, <2>2, LoadedFits DEF Counted
<1> QED
  BY <1>1, CountedGoesOn, PTL DEF Spec

\* page.py and Table.update: the free space that a header counts is never more
\* than the page has left, so a row that is let in by the count fits by its bytes.
THEOREM CountIsHonest == Spec => []SpaceIsFree
<1>1. Counted => SpaceIsFree
  BY DEF Counted, SpaceIsFree, FitHeap, FitPage
<1> QED
  BY <1>1, CountedHolds, PTL

-----------------------------------------------------------------------------
(* Where rows are written.                                                 *)

\* The entries of the slots there are end where the next one begins.
LEMMA EntriesInOrder ==
    ASSUME NEW n \in Nat, NEW i \in 1 .. n
    PROVE  /\ Entry(i) \in Nat /\ Entry(n + 1) \in Nat /\ HeaderSize <= Entry(i)
           /\ Entry(i) + SlotSize <= Entry(n + 1)
<1>1. HeaderSize \in Nat /\ SlotSize \in Nat
  BY SizesArePositive
<1>2. PICK k \in Nat : i = k + 1 /\ n - i \in Nat
  <2>1. i - 1 \in Nat /\ i = (i - 1) + 1 /\ n - i \in Nat
    OBVIOUS
  <2> QED
    BY <2>1
<1>3. /\ Entry(i) = HeaderSize + k * SlotSize
      /\ Entry(n + 1) = HeaderSize + n * SlotSize
  <2>1. i - 1 = k /\ (n + 1) - 1 = n
    BY <1>2
  <2> QED
    BY <2>1 DEF Entry
<1>4. k * SlotSize \in Nat /\ n * SlotSize \in Nat /\ (n - i) * SlotSize \in Nat
  BY <1>1, <1>2
<1>5. n * SlotSize = k * SlotSize + SlotSize + (n - i) * SlotSize
  <2>1. n = k + 1 + (n - i)
    BY <1>2
  <2> DEFINE m == n - i
  <2>2. m \in Nat /\ n = k + 1 + m
    BY <1>2, <2>1
  <2> HIDE DEF m
  <2>3. (k + 1 + m) * SlotSize = k * SlotSize + SlotSize + m * SlotSize
    BY <1>1, <2>2
  <2> QED
    BY <2>2, <2>3 DEF m
<1> QED
  BY <1>1, <1>3, <1>4, <1>5

\* The parts of a sound page.
LEMMA SoundParts ==
    ASSUME NEW page \in Page, Sound(page)
    PROVE  /\ page.slots \in Seq(Slot) /\ page.top \in Int /\ page.space \in Int
           /\ Len(page.slots) \in Nat /\ page.lost = {}
           /\ Entry(Len(page.slots) + 1) \in Nat
           /\ HeaderSize <= Entry(Len(page.slots) + 1)
           /\ Entry(Len(page.slots) + 1) <= page.top
           /\ \A i \in DOMAIN page.slots : i \in 1 .. Len(page.slots)
           /\ \A i \in DOMAIN page.slots :
                Entry(i) \in Nat /\ Entry(i) + SlotSize <= Entry(Len(page.slots) + 1)
           /\ \A i \in Live(page) :
                /\ i \in DOMAIN page.slots
                /\ page.slots[i].at \in Int /\ page.slots[i].row \in Row
                /\ page.slots[i].row.len \in Nat \ {0}
                /\ page.top <= page.slots[i].at
                /\ page.slots[i].at + page.slots[i].row.len <= PageSize
<1>1. page.slots \in Seq(Slot) /\ page.top \in Int /\ page.space \in Int
  BY DEF Page
<1>2. Len(page.slots) \in Nat /\ \A i \in DOMAIN page.slots : i \in 1 .. Len(page.slots)
  BY <1>1
<1>3. Entry(Len(page.slots) + 1) \in Nat /\ HeaderSize <= Entry(Len(page.slots) + 1)
  BY <1>2, EntryType
<1>4. Entry(Len(page.slots) + 1) <= page.top
  BY <1>1, <1>3 DEF Sound, Gap
<1>5. \A i \in DOMAIN page.slots :
        Entry(i) \in Nat /\ Entry(i) + SlotSize <= Entry(Len(page.slots) + 1)
  BY <1>2, EntriesInOrder
<1>6. ASSUME NEW i \in Live(page)
      PROVE  /\ i \in DOMAIN page.slots
             /\ page.slots[i].at \in Int /\ page.slots[i].row \in Row
             /\ page.slots[i].row.len \in Nat \ {0}
             /\ page.top <= page.slots[i].at
             /\ page.slots[i].at + page.slots[i].row.len <= PageSize
  <2>1. i \in DOMAIN page.slots /\ page.slots[i].row # NoRow
    BY DEF Live
  <2>2. page.slots[i] \in Slot
    BY <1>1, <2>1
  <2>3. page.slots[i].at \in Int /\ page.slots[i].row \in Row
    BY <2>1, <2>2 DEF Slot
  <2>4. page.slots[i].row.len \in Nat \ {0}
    BY <2>3, RowsHaveBytes
  <2>5. /\ page.top <= page.slots[i].at
        /\ page.slots[i].at + page.slots[i].row.len <= PageSize
    BY DEF Sound, RowsInBounds
  <2> QED
    BY <2>1, <2>3, <2>4, <2>5
<1>7. page.lost = {}
  BY DEF Sound
<1> QED
  BY <1>1, <1>2, <1>3, <1>4, <1>5, <1>6, <1>7

\* What is written between the slot array and the lowest row overwrites nothing.
LEMMA NothingOverwritten ==
    ASSUME NEW page \in Page, Sound(page), NEW a \in Int, NEW n \in Nat,
           Entry(Len(page.slots) + 1) <= a, a + n <= page.top
    PROVE  /\ Overwritten(page, a, n) = {} /\ RowsIn(page, a, n) = {}
           /\ HeaderSize <= a
           /\ \A i \in DOMAIN page.slots : Spoilt(i, a, n) = {}
<1>1. SlotSize \in Nat /\ HeaderSize \in Nat
  BY SizesArePositive
<1>2. /\ page.top \in Int /\ Entry(Len(page.slots) + 1) \in Nat
      /\ HeaderSize <= Entry(Len(page.slots) + 1)
  BY SoundParts
<1>3. ASSUME NEW i \in Live(page)
      PROVE  ~ Meet(page.slots[i].at, page.slots[i].row.len, a, n)
  <2>1. page.slots[i].at \in Int /\ page.top <= page.slots[i].at
    BY SoundParts
  <2> QED
    BY <1>2, <2>1 DEF Meet
<1>4. ASSUME NEW i \in DOMAIN page.slots PROVE ~ Meet(Entry(i), SlotSize, a, n)
  <2>1. Entry(i) \in Nat /\ Entry(i) + SlotSize <= Entry(Len(page.slots) + 1)
    BY SoundParts
  <2> QED
    BY <1>1, <1>2, <2>1 DEF Meet
<1>5. HeaderSize <= a
  BY <1>1, <1>2
<1>6. ~ (a < HeaderSize)
  BY <1>1, <1>5
<1> QED
  BY <1>3, <1>4, <1>5, <1>6 DEF Overwritten, RowsIn, Spoilt

\* A sound page whose rows end with the page.
Neat(page) == Sound(page) /\ page.top <= PageSize

\* What the header counts as free lies in one piece above the slot array.
Roomy(page) == page.space <= Gap(page)

\* A row inserted with enough room between slot array and rows keeps the page
\* sound, and takes its bytes out of the count and out of the gap alike.
LEMMA InsertedSound ==
    ASSUME NEW page \in FitPage, Neat(page), NEW row \in Row, HasSpace(page, row),
           row.len + SlotSize <= Gap(page)
    PROVE  /\ Neat(Inserted(page, row))
           /\ Roomy(page) => Roomy(Inserted(page, row))
<1> DEFINE n == Len(page.slots)
           at == page.top - row.len
           slot == [at |-> at, row |-> row]
           new == Inserted(page, row)
<1>1. page \in Page /\ new \in Page /\ Len(new.slots) = n + 1 /\ Sound(page)
  BY InsertedFits DEF FitPage, Neat
<1>2. row.len \in Nat \ {0} /\ row # NoRow /\ SlotSize \in Nat /\ HeaderSize \in Nat
  BY RowsHaveBytes, NoRowIsNoRow, SizesArePositive
<1>3. /\ page.slots \in Seq(Slot) /\ page.top \in Int /\ page.space \in Int /\ n \in Nat
      /\ page.lost = {} /\ Entry(n + 1) \in Nat
  BY <1>1, SoundParts
<1>4. Entry((n + 1) + 1) = Entry(n + 1) + SlotSize
  <2>1. (n + 1) + 1 = n + 2
    BY <1>3
  <2> QED
    BY <1>3, <2>1, EntryType
<1>5. /\ new.slots = Append(page.slots, slot) /\ new.top = at
      /\ new.space = page.space - row.len - SlotSize
      /\ new.lost = page.lost \cup Overwritten(page, at, row.len)
                      \cup RowsIn(page, Entry(n + 1), SlotSize) \cup Spoilt(n + 1, at, row.len)
  BY DEF Inserted
<1>6. at \in Int /\ at = page.top - row.len /\ slot.at = at /\ slot.row = row
  BY <1>2, <1>3
<1>7. row.len + SlotSize <= page.top - Entry(n + 1)
  BY DEF Gap
<1> HIDE DEF at, n, new
<1>8. Entry(n + 1) + SlotSize <= at /\ at + row.len = page.top
  BY <1>2, <1>3, <1>6, <1>7, SMTT(60)
<1>9. new.lost = {}
  <2>1. Entry(n + 1) <= at /\ at + row.len <= page.top
    BY <1>2, <1>3, <1>6, <1>8, SMTT(60)
  <2>2. Overwritten(page, at, row.len) = {} /\ HeaderSize <= at
    BY <1>1, <1>2, <1>6, <2>1, NothingOverwritten, ZenonT(60) DEF n
  <2>3. Entry(n + 1) <= Entry(n + 1) /\ Entry(n + 1) + SlotSize <= page.top /\ Entry(n + 1) \in Int
    BY <1>2, <1>3, <1>6, <1>8, SMTT(60)
  <2>4. RowsIn(page, Entry(n + 1), SlotSize) = {}
    BY <1>1, <1>2, <2>3, NothingOverwritten DEF n
  <2>5. ~ (at < HeaderSize) /\ ~ Meet(Entry(n + 1), SlotSize, at, row.len)
    BY <1>2, <1>3, <1>6, <1>8, <2>2, SMTT(60) DEF Meet
  <2>6. Spoilt(n + 1, at, row.len) = {}
    BY <2>5 DEF Spoilt
  <2> QED
    BY <1>3, <1>5, <2>2, <2>4, <2>6
<1>10. \A i \in Live(new) :
         \/ i = n + 1 /\ new.slots[i] = slot
         \/ i \in Live(page) /\ new.slots[i] = page.slots[i] /\ i # n + 1
  <2> SUFFICES ASSUME NEW i \in Live(new)
               PROVE  \/ i = n + 1 /\ new.slots[i] = slot
                      \/ i \in Live(page) /\ new.slots[i] = page.slots[i] /\ i # n + 1
    OBVIOUS
  <2>1. i \in DOMAIN new.slots /\ new.slots[i].row # NoRow
    BY DEF Live
  <2>2. i \in 1 .. n + 1
    BY <1>1, <2>1 DEF Page
  <2>3. CASE i = n + 1
    BY <1>3, <1>5, <2>3 DEF n
  <2>4. CASE i # n + 1
    <3>1. i \in DOMAIN page.slots /\ new.slots[i] = page.slots[i]
      BY <1>3, <1>5, <2>2, <2>4 DEF n
    <3> QED
      BY <2>1, <2>4, <3>1 DEF Live
  <2> QED
    BY <2>3, <2>4
<1>11. \A i \in Live(page) :
         /\ page.slots[i].at \in Int /\ page.slots[i].row.len \in Nat
         /\ page.top <= page.slots[i].at
         /\ page.slots[i].at + page.slots[i].row.len <= PageSize
  BY <1>1, SoundParts, SMTT(60)
<1>12. PageSize \in Nat /\ page.top <= PageSize
  BY SizesArePositive DEF Neat
<1>13. Gap(new) = at - Entry(n + 1) - SlotSize /\ Gap(new) >= 0
  <2>1. Gap(new) = at - (Entry(n + 1) + SlotSize)
    BY <1>1, <1>4, <1>5 DEF Gap
  <2> QED
    BY <1>2, <1>3, <1>6, <1>8, <2>1, SMTT(60)
<1>14. RowsInBounds(new)
  <2> SUFFICES ASSUME NEW i \in Live(new)
               PROVE  /\ new.top <= new.slots[i].at
                      /\ new.slots[i].at + new.slots[i].row.len <= PageSize
    BY DEF RowsInBounds
  <2>1. CASE new.slots[i] = slot
    <3>1. new.slots[i].at = slot.at /\ new.slots[i].row = slot.row
      BY <2>1
    <3> HIDE DEF slot
    <3>2. at <= at /\ at + row.len <= PageSize
      BY <1>6, <1>8, <1>12
    <3>3. new.top = at /\ slot.at = at /\ slot.row = row
      BY <1>5, <1>6
    <3> QED
      BY <3>1, <3>2, <3>3
  <2>2. CASE i \in Live(page) /\ new.slots[i] = page.slots[i]
    <3>1. /\ page.slots[i].at \in Int /\ page.top <= page.slots[i].at
          /\ page.slots[i].at + page.slots[i].row.len <= PageSize
      BY <1>11, <2>2
    <3>2. at <= page.top /\ at \in Int /\ page.top \in Int
      BY <1>2, <1>3, <1>6, <1>8
    <3>3. at <= page.slots[i].at
      BY <3>1, <3>2
    <3> QED
      BY <1>5, <2>2, <3>1, <3>3
  <2> QED
    BY <1>10, <2>1, <2>2
<1> HIDE DEF slot
<1>15. \A i \in Live(page) :
         /\ ~ Meet(page.slots[i].at, page.slots[i].row.len, slot.at, slot.row.len)
         /\ ~ Meet(slot.at, slot.row.len, page.slots[i].at, page.slots[i].row.len)
  <2> SUFFICES ASSUME NEW i \in Live(page)
               PROVE  /\ ~ Meet(page.slots[i].at, page.slots[i].row.len, slot.at, slot.row.len)
                      /\ ~ Meet(slot.at, slot.row.len, page.slots[i].at, page.slots[i].row.len)
    OBVIOUS
  <2>1. page.slots[i].at \in Int /\ page.top <= page.slots[i].at
    BY <1>11
  <2> QED
    BY <1>2, <1>3, <1>6, <1>8, <2>1, SMTT(60) DEF Meet
<1>16. RowsApart(new)
  <2> SUFFICES ASSUME NEW i \in Live(new), NEW j \in Live(new), i # j
               PROVE  ~ Meet(new.slots[i].at, new.slots[i].row.len,
                             new.slots[j].at, new.slots[j].row.len)
    BY DEF RowsApart
  <2>1. CASE i \in Live(page) /\ j \in Live(page) /\ new.slots[i] = page.slots[i]
             /\ new.slots[j] = page.slots[j]
    BY <2>1 DEF Neat, Sound, RowsApart
  <2> QED
    BY <1>10, <1>15, <2>1
<1>17. Neat(new)
  <2>1. new.top <= PageSize
    BY <1>2, <1>3, <1>5, <1>6, <1>8, <1>12, SMTT(60)
  <2> QED
    BY <1>9, <1>13, <1>14, <1>16, <2>1 DEF Neat, Sound
<1>18. Roomy(page) => Roomy(new)
  <2> SUFFICES ASSUME page.space <= Gap(page) PROVE new.space <= Gap(new)
    BY DEF Roomy
  <2>1. page.space <= page.top - Entry(n + 1)
    BY DEF Gap, n
  <2>2. /\ new.space = page.space - row.len - SlotSize
        /\ Gap(new) = at - Entry(n + 1) - SlotSize /\ at = page.top - row.len
    BY <1>5, <1>6, <1>13
  <2>3. page.space - row.len - SlotSize <= page.top - row.len - Entry(n + 1) - SlotSize
    BY <1>2, <1>3, <2>1, SMTT(60)
  <2> QED
    BY <2>2, <2>3
<1> QED
  BY <1>17, <1>18 DEF new

\* A deleted row leaves a hole, and the others where they are.
LEMMA DeletedSound ==
    ASSUME NEW page \in FitPage, Neat(page), NEW i \in DOMAIN page.slots
    PROVE  /\ Neat(Deleted(page, i))
           /\ Roomy(page) => Roomy(Deleted(page, i))
<1> DEFINE gone == [at |-> 0, row |-> NoRow]
           new == Deleted(page, i)
<1>1. /\ page \in Page /\ new \in Page /\ Len(new.slots) = Len(page.slots) /\ Sound(page)
      /\ page.slots \in Seq(Slot)
  BY DeletedFits DEF FitPage, Page, Neat
<1>2. /\ new.slots = [page.slots EXCEPT ![i] = gone] /\ new.top = page.top
      /\ new.space = page.space /\ new.lost = page.lost
  BY <1>1 DEF Deleted, Page
<1>3. gone.row = NoRow
  OBVIOUS
<1> HIDE DEF gone, new
<1>4. \A j \in Live(new) : j \in Live(page) /\ new.slots[j] = page.slots[j]
  <2> SUFFICES ASSUME NEW j \in Live(new)
               PROVE  j \in Live(page) /\ new.slots[j] = page.slots[j]
    OBVIOUS
  <2>1. j \in DOMAIN new.slots /\ new.slots[j].row # NoRow
    BY DEF Live
  <2>2. j \in DOMAIN page.slots
    BY <1>2, <2>1
  <2>3. j # i
    BY <1>2, <1>3, <2>1, <2>2
  <2> QED
    BY <1>2, <2>1, <2>2, <2>3 DEF Live
<1>5. RowsInBounds(new) /\ RowsApart(new)
  BY <1>1, <1>2, <1>4 DEF Sound, RowsInBounds, RowsApart
<1>6. Gap(new) = Gap(page)
  BY <1>1, <1>2 DEF Gap
<1>7. new.lost = {} /\ Gap(new) >= 0 /\ new.top <= PageSize
  BY <1>1, <1>2, <1>6 DEF Sound, Neat
<1>8. Roomy(page) => Roomy(new)
  BY <1>2, <1>6 DEF Roomy
<1> QED
  BY <1>5, <1>7, <1>8 DEF Neat, Sound, new

\* A row rewritten with enough room below the lowest row keeps the page sound,
\* though its bytes are taken out of the gap and only those it grows by out of
\* the count.
LEMMA RewrittenSound ==
    ASSUME NEW page \in FitPage, Neat(page), NEW i \in DOMAIN page.slots, NEW row \in Row,
           CanRewrite(page, i, row), row.len <= Gap(page)
    PROVE  Neat(Rewritten(page, i, row))
<1> DEFINE n == Len(page.slots)
           at == page.top - row.len
           slot == [at |-> at, row |-> row]
           new == Rewritten(page, i, row)
<1>1. page \in Page /\ new \in Page /\ Len(new.slots) = n /\ Sound(page)
  BY RewrittenFits DEF FitPage, Neat
<1>2. row.len \in Nat \ {0} /\ row # NoRow /\ SlotSize \in Nat /\ HeaderSize \in Nat
  BY RowsHaveBytes, NoRowIsNoRow, SizesArePositive
<1>3. /\ page.slots \in Seq(Slot) /\ page.top \in Int /\ n \in Nat
      /\ page.lost = {} /\ Entry(n + 1) \in Nat
  BY <1>1, SoundParts
<1>4. /\ new.slots = [page.slots EXCEPT ![i] = slot] /\ new.top = at
      /\ new.lost = ((page.lost \cup Overwritten(page, at, row.len)) \ {i})
                      \cup Spoilt(i, at, row.len)
  BY DEF Rewritten
<1>5. at \in Int /\ at = page.top - row.len /\ slot.at = at /\ slot.row = row
  BY <1>2, <1>3
<1>6. row.len <= page.top - Entry(n + 1)
  BY DEF Gap
<1> HIDE DEF at, n, new
<1>7. Entry(n + 1) <= at /\ at + row.len = page.top /\ at <= page.top
  BY <1>2, <1>3, <1>5, <1>6, SMTT(60)
<1>8. new.lost = {}
  <2>1. /\ Overwritten(page, at, row.len) = {} /\ Spoilt(i, at, row.len) = {}
    <3>1. at + row.len <= page.top /\ row.len \in Nat
      BY <1>2, <1>3, <1>7
    <3> QED
      BY <1>1, <1>5, <1>7, <3>1, NothingOverwritten DEF n
  <2> QED
    BY <1>3, <1>4, <2>1
<1>9. \A j \in Live(new) :
        \/ j = i /\ new.slots[j] = slot
        \/ j \in Live(page) /\ new.slots[j] = page.slots[j] /\ j # i
  <2> SUFFICES ASSUME NEW j \in Live(new)
               PROVE  \/ j = i /\ new.slots[j] = slot
                      \/ j \in Live(page) /\ new.slots[j] = page.slots[j] /\ j # i
    OBVIOUS
  <2>1. j \in DOMAIN new.slots /\ new.slots[j].row # NoRow
    BY DEF Live
  <2>2. j \in DOMAIN page.slots
    BY <1>4, <2>1
  <2>3. j = i => new.slots[j] = slot
    BY <1>4, <2>2
  <2>4. j # i => new.slots[j] = page.slots[j]
    BY <1>4, <2>2
  <2> QED
    BY <2>1, <2>2, <2>3, <2>4 DEF Live
<1>10. \A j \in Live(page) :
         /\ page.slots[j].at \in Int /\ page.slots[j].row.len \in Nat
         /\ page.top <= page.slots[j].at
         /\ page.slots[j].at + page.slots[j].row.len <= PageSize
  BY <1>1, SoundParts
<1>11. page.top <= PageSize /\ PageSize \in Nat
  BY SizesArePositive DEF Neat
<1>12. Gap(new) >= 0
  <2>1. Gap(new) = at - Entry(n + 1)
    BY <1>1, <1>4 DEF Gap
  <2> QED
    BY <1>3, <1>5, <1>7, <2>1
<1>13. RowsInBounds(new)
  <2> SUFFICES ASSUME NEW j \in Live(new)
               PROVE  /\ new.top <= new.slots[j].at
                      /\ new.slots[j].at + new.slots[j].row.len <= PageSize
    BY DEF RowsInBounds
  <2>1. CASE new.slots[j] = slot
    <3>1. new.slots[j].at = slot.at /\ new.slots[j].row = slot.row
      BY <2>1
    <3> HIDE DEF slot
    <3>2. at <= at /\ at + row.len <= PageSize
      BY <1>5, <1>7, <1>11
    <3>3. new.top = at /\ slot.at = at /\ slot.row = row
      BY <1>4, <1>5
    <3> QED
      BY <3>1, <3>2, <3>3
  <2>2. CASE j \in Live(page) /\ new.slots[j] = page.slots[j]
    <3>1. /\ page.slots[j].at \in Int /\ page.top <= page.slots[j].at
          /\ page.slots[j].at + page.slots[j].row.len <= PageSize
      BY <1>10, <2>2
    <3>2. at <= page.slots[j].at
      BY <1>3, <1>5, <1>7, <3>1
    <3> QED
      BY <1>4, <2>2, <3>1, <3>2
  <2> QED
    BY <1>9, <2>1, <2>2
<1> HIDE DEF slot
<1>14. \A j \in Live(page) :
         /\ ~ Meet(page.slots[j].at, page.slots[j].row.len, slot.at, slot.row.len)
         /\ ~ Meet(slot.at, slot.row.len, page.slots[j].at, page.slots[j].row.len)
  <2> SUFFICES ASSUME NEW j \in Live(page)
               PROVE  /\ ~ Meet(page.slots[j].at, page.slots[j].row.len, slot.at, slot.row.len)
                      /\ ~ Meet(slot.at, slot.row.len, page.slots[j].at, page.slots[j].row.len)
    OBVIOUS
  <2>1. page.slots[j].at \in Int /\ page.top <= page.slots[j].at
    BY <1>10
  <2> QED
    BY <1>2, <1>3, <1>5, <1>7, <2>1, SMTT(60) DEF Meet
<1>15. RowsApart(new)
  <2> SUFFICES ASSUME NEW j \in Live(new), NEW k \in Live(new), j # k
               PROVE  ~ Meet(new.slots[j].at, new.slots[j].row.len,
                             new.slots[k].at, new.slots[k].row.len)
    BY DEF RowsApart
  <2>1. CASE j \in Live(page) /\ k \in Live(page) /\ new.slots[j] = page.slots[j]
             /\ new.slots[k] = page.slots[k]
    BY <2>1 DEF Neat, Sound, RowsApart
  <2> QED
    BY <1>9, <1>14, <2>1
<1>16. new.top <= PageSize
  BY <1>3, <1>4, <1>5, <1>7, <1>11
<1> QED
  BY <1>8, <1>12, <1>13, <1>15, <1>16 DEF Neat, Sound, new

\* A new page is sound, and all of it is free in one piece.
LEMMA EmptyPageSound == Neat(EmptyPage) /\ Roomy(EmptyPage) /\ Gap(EmptyPage) = EmptyPage.space
<1>1. /\ EmptyPage.slots = <<>> /\ EmptyPage.space = PageSize - HeaderSize
      /\ EmptyPage.top = PageSize /\ EmptyPage.lost = {}
  BY DEF EmptyPage
<1>2. /\ PageSize \in Nat /\ HeaderSize \in Nat /\ SlotSize \in Nat /\ HeaderSize <= PageSize
  BY SizesArePositive
<1>3. Len(EmptyPage.slots) + 1 = 1 /\ Entry(1) = HeaderSize
  BY <1>1, <1>2 DEF Entry
<1>4. Gap(EmptyPage) = PageSize - HeaderSize
  BY <1>1, <1>3 DEF Gap
<1>5. Live(EmptyPage) = {}
  BY <1>1 DEF Live
<1> HIDE DEF EmptyPage
<1>6. RowsInBounds(EmptyPage) /\ RowsApart(EmptyPage)
  BY <1>5 DEF RowsInBounds, RowsApart
<1>7. Gap(EmptyPage) >= 0 /\ EmptyPage.top <= PageSize /\ EmptyPage.space <= Gap(EmptyPage)
  BY <1>1, <1>2, <1>4
<1> QED
  BY <1>1, <1>4, <1>6, <1>7 DEF Neat, Sound, Roomy

\* Chains of sound pages, and chains whose pages have their free bytes in one piece.
NeatHeap(h) == \A p \in DOMAIN h : Neat(h[p])
RoomyHeap(h) == \A p \in DOMAIN h : Roomy(h[p])

\* Table.insert overwrites nothing where the gap has room for the row, and so
\* nothing at all where the count and the gap agree.
LEMMA InsertRowSound ==
    ASSUME NEW h \in FitHeap, NeatHeap(h), NEW row \in Row,
           ~ InsertOverwrites(h, row) \/ RoomyHeap(h)
    PROVE  /\ NeatHeap(InsertRow(h, row).heap)
           /\ RoomyHeap(h) => RoomyHeap(InsertRow(h, row).heap)
<1> DEFINE p == Spot(h, row)
           long == Extended(h, p)
           fails == ~ HasSpace(long[p], row) \/ Overflows(long[p], row)
           page == Inserted(long[p], row)
           done == InsertRow(h, row).heap
<1>1. Len(h) \in Nat /\ \A q \in DOMAIN h : h[q] \in FitPage
  BY DEF FitHeap
<1>2. row.len + SlotSize \in Nat
  BY RowLength, SizesArePositive
<1>3. /\ long \in FitHeap /\ p \in DOMAIN long /\ NeatHeap(long)
      /\ RoomyHeap(h) => RoomyHeap(long)
      /\ HasSpace(long[p], row) => row.len + SlotSize <= Gap(long[p])
  <2>1. CASE p \in DOMAIN h
    <3>1. ~ (p > Len(h)) /\ p <= Len(h)
      BY <1>1, <2>1 DEF FitHeap
    <3>2. long = h
      BY <3>1 DEF Extended
    <3>3. h[p] \in FitPage /\ Neat(h[p])
      BY <1>1, <2>1 DEF NeatHeap
    <3> DEFINE g == Gap(h[p])
               s == h[p].space
    <3>4. g \in Int /\ s \in Int
      <4>1. h[p] \in Page /\ Sound(h[p])
        BY <3>3 DEF FitPage, Neat
      <4> QED
        BY <4>1, SoundParts, SMTT(60) DEF Gap
    <3>5. HasSpace(h[p], row) => row.len + SlotSize <= g
      <4>1. ~ InsertOverwrites(h, row) => ~ (g < row.len + SlotSize)
        BY <3>1 DEF InsertOverwrites
      <4>2. RoomyHeap(h) => s <= g
        BY <2>1 DEF RoomyHeap, Roomy
      <4>3. HasSpace(h[p], row) => row.len + SlotSize <= s
        BY DEF HasSpace
      <4> HIDE DEF g, s
      <4> QED
        BY <1>2, <3>4, <4>1, <4>2, <4>3
    <3> QED
      BY <2>1, <3>2, <3>5
  <2>2. CASE p = Len(h) + 1
    <3>1. long = Append(h, EmptyPage)
      BY <1>1, <2>2 DEF Extended
    <3>2. /\ long \in FitHeap /\ Len(long) = Len(h) + 1 /\ \A q \in DOMAIN h : long[q] = h[q]
          /\ long[p] = EmptyPage
      BY <2>2, <3>1, EmptyPageFits, SMTT(60) DEF FitHeap
    <3>3. \A q \in DOMAIN long : q \in DOMAIN h \/ q = p
      BY <1>1, <2>2, <3>2 DEF FitHeap
    <3>4. p \in DOMAIN long
      BY <1>1, <2>2, <3>2 DEF FitHeap
    <3> HIDE DEF long, p
    <3>5. NeatHeap(long) /\ (RoomyHeap(h) => RoomyHeap(long))
      BY <3>2, <3>3, EmptyPageSound DEF NeatHeap, RoomyHeap
    <3>6. HasSpace(long[p], row) => row.len + SlotSize <= Gap(long[p])
      BY <3>2, EmptyPageSound DEF HasSpace
    <3> QED
      BY <3>2, <3>4, <3>5, <3>6
  <2> QED
    BY <2>1, <2>2, SpotIsFirst
<1>4. done = IF fails THEN long ELSE [long EXCEPT ![p] = page]
  BY DEF InsertRow
<1>5. ~ fails => Neat(page) /\ (Roomy(long[p]) => Roomy(page))
  <2> SUFFICES ASSUME ~ fails PROVE Neat(page) /\ (Roomy(long[p]) => Roomy(page))
    OBVIOUS
  <2>1. long[p] \in FitPage /\ Neat(long[p]) /\ HasSpace(long[p], row)
    BY <1>3 DEF FitHeap, NeatHeap
  <2> QED
    BY <1>3, <2>1, InsertedSound
<1> HIDE DEF p, long, fails, page, done
<1>6. \A q \in DOMAIN done : q \in DOMAIN long /\ (done[q] = long[q] \/ (q = p /\ ~ fails /\ done[q] = page))
  BY <1>3, <1>4 DEF FitHeap
<1>7. NeatHeap(done) /\ (RoomyHeap(h) => RoomyHeap(done))
  BY <1>3, <1>5, <1>6 DEF NeatHeap, RoomyHeap
<1> QED
  BY <1>7 DEF done

\* delete_row_from_page on the page of the row.
LEMMA DeleteRowSound ==
    ASSUME NEW h \in FitHeap, NeatHeap(h), NEW rid, SlotIn(h, rid)
    PROVE  /\ NeatHeap(DeleteRow(h, rid))
           /\ RoomyHeap(h) => RoomyHeap(DeleteRow(h, rid))
<1> DEFINE p == rid.page
           page == Deleted(h[rid.page], rid.slot)
           g == DeleteRow(h, rid)
<1>1. p \in DOMAIN h /\ rid.slot \in DOMAIN h[p].slots /\ h[p] \in FitPage /\ Neat(h[p])
  BY DEF FitHeap, SlotIn, NeatHeap
<1>2. Neat(page) /\ (Roomy(h[p]) => Roomy(page))
  BY <1>1, DeletedSound
<1>3. g = [h EXCEPT ![p] = page]
  BY DEF DeleteRow
<1> HIDE DEF p, page, g
<1>4. \A q \in DOMAIN g : q \in DOMAIN h /\ (g[q] = h[q] \/ (q = p /\ g[q] = page))
  BY <1>3
<1>5. NeatHeap(g) /\ (RoomyHeap(h) => RoomyHeap(g))
  BY <1>1, <1>2, <1>4 DEF NeatHeap, RoomyHeap
<1> QED
  BY <1>5 DEF g

\* Table.update overwrites nothing where the gap has room for the row.
LEMMA UpdateRowSound ==
    ASSUME NEW h \in FitHeap, NeatHeap(h), NEW rid, SlotIn(h, rid), NEW row \in Row,
           ~ UpdateOverwrites(h, rid, row)
    PROVE  NeatHeap(UpdateRow(h, rid, row).heap)
<1> DEFINE p == rid.page
           page == Rewritten(h[rid.page], rid.slot, row)
           less == DeleteRow(h, rid)
           done == UpdateRow(h, rid, row)
<1>1. p \in DOMAIN h /\ rid.slot \in DOMAIN h[p].slots /\ h[p] \in FitPage /\ Neat(h[p])
  BY DEF FitHeap, SlotIn, NeatHeap
<1>2. CASE UpdateMoves(h, rid, row)
  <2>1. less \in FitHeap /\ NeatHeap(less)
    BY DeleteRowFits, DeleteRowSound
  <2>2. done = InsertRow(less, row) /\ ~ InsertOverwrites(less, row)
    BY <1>2 DEF UpdateRow, UpdateOverwrites
  <2> HIDE DEF less, done
  <2>3. NeatHeap(done.heap)
    BY <2>1, <2>2, InsertRowSound
  <2> QED
    BY <2>3 DEF done
<1>3. CASE ~ UpdateMoves(h, rid, row)
  <2>1. CanRewrite(h[p], rid.slot, row) /\ ~ (Gap(h[p]) < row.len)
    BY <1>3 DEF UpdateMoves, UpdateOverwrites
  <2>2. row.len <= Gap(h[p])
    <3>1. h[p] \in Page /\ Sound(h[p])
      BY <1>1 DEF FitPage, Neat
    <3> DEFINE g == Gap(h[p])
    <3>2. g \in Int /\ row.len \in Nat /\ ~ (g < row.len)
      BY <2>1, <3>1, SoundParts, RowLength, SMTT(60) DEF Gap
    <3> HIDE DEF g
    <3>3. row.len <= g
      BY <3>2
    <3> QED
      BY <3>3 DEF g
  <2>3. Neat(page)
    BY <1>1, <2>1, <2>2, RewrittenSound
  <2>4. done.heap = IF Overflows(h[p], row) THEN h ELSE [h EXCEPT ![p] = page]
    BY <1>3 DEF UpdateRow
  <2> HIDE DEF p, page, done
  <2>5. \A q \in DOMAIN done.heap :
          q \in DOMAIN h /\ (done.heap[q] = h[q] \/ done.heap[q] = page)
    BY <2>4
  <2>6. NeatHeap(done.heap)
    BY <2>3, <2>5 DEF NeatHeap
  <2> QED
    BY <2>6 DEF done
<1> QED
  BY <1>2, <1>3

\* Counted, over sound pages; without UPDATE the count of a page is its gap.
SoundTable ==
    /\ Counted
    /\ NeatHeap(heap)
    /\ Sets = {} => RoomyHeap(heap)

\* The loaded rows are inserted only, so that nothing is overwritten.
LEMMA LoadedSound == NeatHeap(AfterLoading.heap) /\ RoomyHeap(AfterLoading.heap)
<1> DEFINE G == {h \in FitHeap : NeatHeap(h) /\ RoomyHeap(h)}
<1>1. EmptyHeap \in G
  <2>1. EmptyHeap = <<EmptyPage>> /\ <<EmptyPage>> \in FitHeap
    BY EmptyPageFits DEF EmptyHeap, FitHeap
  <2>2. \A p \in DOMAIN EmptyHeap : EmptyHeap[p] = EmptyPage
    BY <2>1
  <2>3. NeatHeap(EmptyHeap) /\ RoomyHeap(EmptyHeap)
    BY <2>2, EmptyPageSound DEF NeatHeap, RoomyHeap
  <2> QED
    BY <2>1, <2>3
<1>2. ASSUME NEW h \in G, NEW row \in Row PROVE InsertRow(h, row).heap \in G
  BY InsertRowFits, InsertRowSound
<1> HIDE DEF G
<1>3. AfterLoading.heap \in G
  BY <1>1, <1>2, LoadedIn
<1> QED
  BY <1>3 DEF G

\* No step overwrites a row, if the client looks at the gap or never updates.
LEMMA SoundGoesOn ==
    ASSUME "overwrite" \in Avoided \/ Sets = {}, SoundTable, [Next]_vars PROVE SoundTable'
<1>1. Counted' /\ heap \in FitHeap /\ NeatHeap(heap) /\ (Sets = {} => RoomyHeap(heap))
  BY CountedGoesOn DEF SoundTable, Counted
<1>2. stmt \in Statement /\ StatementFits(heap, stmt)
  BY DEF SoundTable, Counted
<1>3. ASSUME heap' = heap PROVE SoundTable'
  BY <1>1, <1>3 DEF SoundTable
<1>4. CASE InsertNext
  <2> DEFINE row == Head(stmt.rest)
             done == InsertRow(heap, row)
  <2>1. /\ stmt.kind = "insert" /\ stmt.rest # <<>>
        /\ heap' = heap \/ (PrudentInsert(row) /\ heap' = done.heap)
    BY <1>4, Zenon DEF InsertNext, End
  <2>2. stmt \in [kind : {"insert"}, rest : Seq(Row)]
    BY <1>2, <2>1 DEF Statement
  <2>3. row \in Row
    BY <2>1, <2>2
  <2> HIDE DEF row
  <2>4. ASSUME PrudentInsert(row), heap' = done.heap PROVE SoundTable'
    <3>1. ~ InsertOverwrites(heap, row) \/ RoomyHeap(heap)
      BY <1>1, <2>4 DEF PrudentInsert
    <3>2. NeatHeap(done.heap) /\ (RoomyHeap(heap) => RoomyHeap(done.heap))
      BY <1>1, <2>3, <3>1, InsertRowSound
    <3> HIDE DEF done
    <3> QED
      BY <1>1, <2>4, <3>2 DEF SoundTable
  <2> QED
    BY <1>3, <2>1, <2>4
<1>5. CASE DeleteNext
  <2>1. PICK rid \in stmt.rest : heap' = DeleteRow(heap, rid)
    BY <1>5 DEF DeleteNext
  <2>2. stmt.kind = "delete"
    BY <1>5 DEF DeleteNext
  <2>3. SlotIn(heap, rid)
    BY <1>2, <2>1, <2>2 DEF StatementFits
  <2>4. NeatHeap(heap') /\ (RoomyHeap(heap) => RoomyHeap(heap'))
    BY <1>1, <2>1, <2>3, DeleteRowSound
  <2> QED
    BY <1>1, <2>4 DEF SoundTable
<1>6. CASE UpdateNext
  <2> DEFINE scan == stmt.scan
             old(i) == scan.copy.slots[i].row
             rid(i) == [page |-> scan.page, slot |-> i]
  <2>1. stmt.kind = "update"
    BY <1>6 DEF UpdateNext
  <2>2. stmt \in [kind : {"update"}, where : Wheres, set : Sets, scan : Scan]
    BY <1>2, <2>1 DEF Statement
  <2>3. PICK i \in Ahead : UpdateRid(rid(i), old(i), Assigned(old(i), stmt.set))
    BY <1>6 DEF UpdateNext
  <2> DEFINE new == Assigned(old(i), stmt.set)
             done == UpdateRow(heap, rid(i), new)
  <2>4. heap' = heap \/ (PrudentUpdate(rid(i), new) /\ heap' = done.heap)
    BY <2>3, Zenon DEF UpdateRid, End
  <2>5. scan \in Scan /\ ScanFits(heap, scan)
    BY <1>2, <2>1, <2>2 DEF StatementFits
  <2>6. i \in DOMAIN scan.copy.slots /\ old(i) # NoRow /\ scan.copy.slots \in Seq(Slot)
    BY <2>5 DEF Ahead, Live, Scan, FitPage, Page
  <2>7. old(i) \in Row
    <3>1. scan.copy.slots[i] \in Slot
      BY <2>6
    <3> QED
      BY <2>6, <3>1 DEF Slot
  <2>8. new \in Row
    BY <2>2, <2>7, InputsAreRows
  <2>9. SlotIn(heap, rid(i))
    <3>1. scan.page \in DOMAIN heap /\ Len(scan.copy.slots) <= Len(heap[scan.page].slots)
      BY <2>5 DEF ScanFits
    <3>2. heap[scan.page] \in FitPage
      BY <1>1, <3>1 DEF FitHeap
    <3>3. heap[scan.page].slots \in Seq(Slot)
      BY <3>2 DEF FitPage, Page
    <3>4. i \in DOMAIN heap[scan.page].slots
      BY <2>6, <3>1, <3>3
    <3> QED
      BY <3>1, <3>4 DEF SlotIn
  <2>10. Sets # {} /\ "overwrite" \in Avoided
    BY <2>2
  <2> HIDE DEF new
  <2>11. ASSUME PrudentUpdate(rid(i), new), heap' = done.heap PROVE SoundTable'
    <3>1. ~ UpdateOverwrites(heap, rid(i), new)
      BY <2>10, <2>11 DEF PrudentUpdate
    <3>2. NeatHeap(done.heap)
      BY <1>1, <2>8, <2>9, <3>1, UpdateRowSound
    <3> HIDE DEF done
    <3> QED
      BY <1>1, <2>10, <2>11, <3>2 DEF SoundTable
  <2> QED
    BY <1>3, <2>4, <2>11
<1>7. ASSUME NEW s, Begin(s) PROVE heap' = heap
  BY <1>7 DEF Begin
<1>8. CASE \/ \E rows \in Inserts : StartInsert(rows)
           \/ \E keys \in Wheres : StartDelete(keys) \/ \E set \in Sets : StartUpdate(keys, set)
           \/ UpdateNextPage \/ Done \/ CreateIndex \/ DropIndex \/ UNCHANGED vars
  <2>1. heap' = heap
    BY <1>7, <1>8, Zenon
       DEF StartInsert, StartDelete, StartUpdate, UpdateNextPage, Done, End, CreateIndex, DropIndex, vars
  <2> QED
    BY <1>3, <2>1
<1> QED
  BY <1>4, <1>5, <1>6, <1>8 DEF Next

\* What an INSERT says of the row it has written is an address.
LEMMA AddressOfRow ==
    ASSUME NEW h \in FitHeap, NEW row \in Row
    PROVE  InsertRow(h, row).rid \in RowId
<1> DEFINE p == Spot(h, row)
           long == Extended(h, p)
<1>1. Len(h) \in Nat /\ DOMAIN h = 1 .. Len(h)
  BY DEF FitHeap
<1>2. p \in Nat \ {0} /\ (p \in DOMAIN h \/ p = Len(h) + 1)
  BY <1>1, SpotIsFirst
<1>3. long[p] \in FitPage
  <2>1. CASE p \in DOMAIN h
    <3>1. ~ (p > Len(h))
      BY <1>1, <2>1
    <3>2. long = h
      BY <3>1 DEF Extended
    <3> HIDE DEF p
    <3> QED
      BY <2>1, <3>2 DEF FitHeap
  <2>2. CASE p = Len(h) + 1
    <3>1. p > Len(h)
      BY <1>1, <2>2
    <3>2. long = Append(h, EmptyPage)
      BY <3>1 DEF Extended
    <3> HIDE DEF p, long
    <3> QED
      BY <1>1, <2>2, <3>2, EmptyPageFits DEF FitHeap
  <2> QED
    BY <1>2, <2>1, <2>2
<1>4. Len(long[p].slots) \in Nat
  BY <1>3 DEF FitPage, Page
<1>5. InsertRow(h, row).rid = [page |-> p, slot |-> Len(long[p].slots) + 1]
  BY DEF InsertRow
<1> QED
  BY <1>2, <1>4, <1>5 DEF RowId

\* An address of a slot is an address.
LEMMA SlotHasRowId ==
    ASSUME NEW h \in FitHeap, NEW rid \in [page : Nat, slot : Nat], SlotIn(h, rid)
    PROVE  rid \in RowId
<1>1. rid.page \in DOMAIN h /\ rid.slot \in DOMAIN h[rid.page].slots
  BY DEF SlotIn
<1>2. h[rid.page] \in FitPage /\ rid.page # 0
  BY <1>1 DEF FitHeap
<1>3. rid.slot # 0
  BY <1>1, <1>2 DEF FitPage, Page
<1> QED
  BY <1>2, <1>3 DEF RowId

\* A slot that is not deleted.
LiveIn(h, rid) == SlotIn(h, rid) /\ RowAt(h, rid) # NoRow

\* The addresses a scan finds.
LEMMA RowIdsAre ==
    ASSUME NEW h \in FitHeap, NEW rid
    PROVE  rid \in RowIds(h) <=> rid \in RowId /\ LiveIn(h, rid)
<1> DEFINE U == UNION {DOMAIN h[p].slots : p \in DOMAIN h}
<1>1. \A p \in DOMAIN h : p \in Nat \ {0} /\ h[p] \in FitPage
  BY DEF FitHeap
<1>2. \A p \in DOMAIN h : \A i \in DOMAIN h[p].slots : i \in Nat \ {0}
  <2> SUFFICES ASSUME NEW p \in DOMAIN h, NEW i \in DOMAIN h[p].slots PROVE i \in Nat \ {0}
    OBVIOUS
  <2>1. h[p].slots \in Seq(Slot)
    BY <1>1 DEF FitPage, Page
  <2> QED
    BY <2>1
<1>3. rid \in RowIds(h) <=> rid \in [page : DOMAIN h, slot : U] /\ rid.slot \in Live(h[rid.page])
  BY DEF RowIds
<1>4. ASSUME rid \in RowIds(h) PROVE rid \in RowId /\ LiveIn(h, rid)
  <2>1. /\ rid = [page |-> rid.page, slot |-> rid.slot] /\ rid.page \in DOMAIN h
        /\ rid.slot \in DOMAIN h[rid.page].slots /\ h[rid.page].slots[rid.slot].row # NoRow
    BY <1>3, <1>4 DEF Live
  <2>2. rid.page \in Nat \ {0} /\ rid.slot \in Nat \ {0}
    BY <1>1, <1>2, <2>1
  <2> QED
    BY <2>1, <2>2 DEF RowId, LiveIn, SlotIn, RowAt
<1>5. ASSUME rid \in RowId, LiveIn(h, rid) PROVE rid \in RowIds(h)
  <2>1. /\ rid = [page |-> rid.page, slot |-> rid.slot] /\ rid.page \in DOMAIN h
        /\ rid.slot \in DOMAIN h[rid.page].slots /\ h[rid.page].slots[rid.slot].row # NoRow
    BY <1>5 DEF RowId, LiveIn, SlotIn, RowAt
  <2>2. rid.slot \in U
    BY <2>1
  <2> HIDE DEF U
  <2>3. rid \in [page : DOMAIN h, slot : U]
    BY <2>1, <2>2
  <2> QED
    BY <1>3, <2>1, <2>3 DEF Live
<1> QED
  BY <1>4, <1>5

\* What is in a slot that is not deleted is a row.
LEMMA RowsAre ==
    ASSUME NEW h \in FitHeap, NEW rid, LiveIn(h, rid)
    PROVE  RowAt(h, rid) \in Row
<1>1. rid.page \in DOMAIN h /\ rid.slot \in DOMAIN h[rid.page].slots /\ RowAt(h, rid) # NoRow
  BY DEF LiveIn, SlotIn
<1>2. h[rid.page] \in FitPage
  BY <1>1 DEF FitHeap
<1>3. h[rid.page].slots[rid.slot] \in Slot
  BY <1>1, <1>2 DEF FitPage, Page
<1> QED
  BY <1>1, <1>3 DEF Slot, RowAt

\* What an UPDATE is about: a slot of the table, what its copy of the page has in
\* the slot, and what becomes of that.
UpdateFacts(i, old, new) ==
    /\ SlotIn(heap, [page |-> stmt.scan.page, slot |-> i])
    /\ [page |-> stmt.scan.page, slot |-> i] \in RowId
    /\ old = stmt.scan.copy.slots[i].row /\ new = Assigned(old, stmt.set)
    /\ old \in Row /\ new \in Row
    /\ \A j \in Ahead : i <= j

\* An UPDATE that goes on takes up the next row of its scan.
LEMMA UpdateStep ==
    ASSUME Counted, UpdateNext
    PROVE  \E i \in Ahead, old \in Row, new \in Row :
             /\ UpdateFacts(i, old, new)
             /\ UpdateRid([page |-> stmt.scan.page, slot |-> i], old, new)
<1> DEFINE scan == stmt.scan
           old(i) == scan.copy.slots[i].row
           rid(i) == [page |-> scan.page, slot |-> i]
<1>1. heap \in FitHeap /\ stmt \in Statement /\ StatementFits(heap, stmt)
  BY DEF Counted
<1>2. stmt.kind = "update"
  BY DEF UpdateNext
<1>3. stmt \in [kind : {"update"}, where : Wheres, set : Sets, scan : Scan]
  BY <1>1, <1>2, SMTT(60) DEF Statement
<1>4. PICK i \in Ahead :
        /\ \A j \in Ahead : i <= j
        /\ UpdateRid(rid(i), old(i), Assigned(old(i), stmt.set))
  BY DEF UpdateNext
<1>5. scan \in Scan /\ ScanFits(heap, scan)
  BY <1>1, <1>2, <1>3 DEF StatementFits
<1>6. i \in DOMAIN scan.copy.slots /\ old(i) # NoRow /\ scan.copy.slots \in Seq(Slot)
  BY <1>5 DEF Ahead, Live, Scan, FitPage, Page
<1>7. old(i) \in Row
  <2>1. scan.copy.slots[i] \in Slot
    BY <1>6
  <2> QED
    BY <1>6, <2>1 DEF Slot
<1>8. Assigned(old(i), stmt.set) \in Row
  BY <1>3, <1>7, InputsAreRows
<1>9. SlotIn(heap, rid(i))
  <2>1. scan.page \in DOMAIN heap /\ Len(scan.copy.slots) <= Len(heap[scan.page].slots)
    BY <1>5 DEF ScanFits
  <2>2. heap[scan.page] \in FitPage
    BY <1>1, <2>1 DEF FitHeap
  <2>3. heap[scan.page].slots \in Seq(Slot)
    BY <2>2 DEF FitPage, Page
  <2>4. i \in DOMAIN heap[scan.page].slots
    BY <1>6, <2>1, <2>3
  <2> QED
    BY <2>1, <2>4 DEF SlotIn
<1>10. rid(i) \in RowId
  <2>1. rid(i) \in [page : Nat, slot : Nat]
    BY <1>5, <1>6 DEF Scan
  <2> HIDE DEF rid
  <2> QED
    BY <1>1, <1>9, <2>1, SlotHasRowId
<1>11. UpdateFacts(i, old(i), Assigned(old(i), stmt.set))
  BY <1>4, <1>7, <1>8, <1>9, <1>10 DEF UpdateFacts
<1>12. UpdateRid([page |-> stmt.scan.page, slot |-> i], old(i), Assigned(old(i), stmt.set))
  BY <1>4
<1> HIDE DEF old
<1> QED
  BY <1>7, <1>8, <1>11, <1>12

\* Other rows stay when one is deleted.
LEMMA OthersStay ==
    ASSUME NEW h \in FitHeap, NEW rid, SlotIn(h, rid), NEW other,
           <<other.page, other.slot>> # <<rid.page, rid.slot>>
    PROVE  /\ SlotIn(DeleteRow(h, rid), other) <=> SlotIn(h, other)
           /\ SlotIn(h, other) => RowAt(DeleteRow(h, rid), other) = RowAt(h, other)
<1> DEFINE g == DeleteRow(h, rid)
           p == rid.page
<1>1. p \in DOMAIN h /\ rid.slot \in DOMAIN h[p].slots /\ g = [h EXCEPT ![p] = Deleted(h[p], rid.slot)]
  BY DEF SlotIn, DeleteRow
<1>2. DOMAIN g = DOMAIN h /\ g[p] = Deleted(h[p], rid.slot) /\ \A q \in DOMAIN h : q # p => g[q] = h[q]
  BY <1>1
<1>3. h[p] \in FitPage
  BY <1>1 DEF FitHeap
<1>4. h[p].slots \in Seq(Slot)
  BY <1>3 DEF FitPage, Page
<1>5. g[p].slots = [h[p].slots EXCEPT ![rid.slot] = [at |-> 0, row |-> NoRow]]
  BY <1>2, <1>3 DEF Deleted, FitPage, Page
<1>6. /\ DOMAIN g[p].slots = DOMAIN h[p].slots
      /\ \A i \in DOMAIN h[p].slots : i # rid.slot => g[p].slots[i] = h[p].slots[i]
  BY <1>5
<1> HIDE DEF g
<1>7. CASE other.page = p
  <2>1. other.slot # rid.slot
    BY <1>7
  <2>2. SlotIn(g, other) <=> SlotIn(h, other)
    BY <1>1, <1>2, <1>6, <1>7 DEF SlotIn
  <2>3. SlotIn(h, other) => RowAt(g, other) = RowAt(h, other)
    BY <1>6, <1>7, <2>1 DEF SlotIn, RowAt
  <2> QED
    BY <2>2, <2>3 DEF g
<1>8. CASE other.page # p
  <2>1. SlotIn(g, other) <=> SlotIn(h, other)
    BY <1>2, <1>8 DEF SlotIn
  <2>2. SlotIn(h, other) => RowAt(g, other) = RowAt(h, other)
    BY <1>2, <1>8 DEF SlotIn, RowAt
  <2> QED
    BY <2>1, <2>2 DEF g
<1> QED
  BY <1>7, <1>8

\* An index is a tree whose root is a node, of nodes that keep their limits.
AnIndex(tree) == \E h : IsIndex(tree, h)

\* The rows that a DELETE has still to delete are there.
RestIsThere(h, s) == s.kind = "delete" => \A rid \in s.rest : LiveIn(h, rid)

WellIndexed ==
    /\ Counted
    /\ RestIsThere(heap, stmt)
    /\ HasIndex => AnIndex(index)
    /\ outcome \in {"none", "done", "refused", "failed"}

\* A DELETE deletes rows that are there, each once.
LEMMA RestGoesOn ==
    ASSUME Counted, RestIsThere(heap, stmt), [Next]_vars
    PROVE  RestIsThere(heap', stmt')
<1>1. heap \in FitHeap /\ stmt \in Statement /\ StatementFits(heap, stmt)
  BY DEF Counted
<1>2. ASSUME stmt'.kind # "delete" PROVE RestIsThere(heap', stmt')
  BY <1>2 DEF RestIsThere
<1>3. ASSUME stmt' = Idle PROVE RestIsThere(heap', stmt')
  BY <1>2, <1>3 DEF Idle
<1>4. ASSUME NEW keys, StartDelete(keys) PROVE RestIsThere(heap', stmt')
  <2> DEFINE rest == {rid \in Readable(heap) : RowAt(heap, rid).key \in keys}
             s == [kind |-> "delete", rest |-> rest]
  <2>1. stmt' = s /\ heap' = heap
    BY <1>4 DEF StartDelete, Begin
  <2>2. \A rid \in rest : LiveIn(heap, rid)
    BY <1>1, RowIdsAre DEF Readable
  <2> HIDE DEF rest
  <2> QED
    BY <2>1, <2>2 DEF RestIsThere
<1>5. ASSUME DeleteNext PROVE RestIsThere(heap', stmt')
  <2>1. PICK rid \in stmt.rest :
          heap' = DeleteRow(heap, rid) /\ stmt' = [stmt EXCEPT !.rest = @ \ {rid}]
    BY <1>5 DEF DeleteNext
  <2>2. stmt.kind = "delete"
    BY <1>5 DEF DeleteNext
  <2>3. stmt \in [kind : {"delete"}, rest : SUBSET [page : Nat, slot : Nat]]
    BY <1>1, <2>2 DEF Statement
  <2>4. stmt'.rest = stmt.rest \ {rid}
    BY <2>1, <2>3
  <2>5. \A r \in stmt.rest : LiveIn(heap, r) /\ r = [page |-> r.page, slot |-> r.slot]
    BY <2>2, <2>3 DEF RestIsThere
  <2>6. ASSUME NEW r \in stmt'.rest PROVE LiveIn(heap', r)
    <3>1. r \in stmt.rest /\ r # rid
      BY <2>4
    <3>2. <<r.page, r.slot>> # <<rid.page, rid.slot>>
      BY <2>5, <3>1
    <3>3. SlotIn(heap, rid) /\ SlotIn(heap, r) /\ RowAt(heap, r) # NoRow
      BY <2>5, <3>1 DEF LiveIn
    <3> QED
      BY <1>1, <2>1, <3>2, <3>3, OthersStay DEF LiveIn
  <2> QED
    BY <2>6 DEF RestIsThere
<1>6. ASSUME InsertNext PROVE RestIsThere(heap', stmt')
  <2>1. stmt.kind = "insert" /\ (stmt' = Idle \/ stmt' = [stmt EXCEPT !.rest = Tail(@)])
    BY <1>6, Zenon DEF InsertNext, Proceed, End
  <2>2. stmt \in [kind : {"insert"}, rest : Seq(Row)]
    BY <1>1, <2>1 DEF Statement
  <2>3. stmt'.kind = "idle" \/ stmt'.kind = "insert"
    BY <2>1, <2>2 DEF Idle
  <2> QED
    BY <1>2, <2>3
<1>7. ASSUME UpdateNext PROVE RestIsThere(heap', stmt')
  <2>1. PICK i \in Ahead :
          UpdateRid([page |-> stmt.scan.page, slot |-> i], stmt.scan.copy.slots[i].row,
                    Assigned(stmt.scan.copy.slots[i].row, stmt.set))
    BY <1>7 DEF UpdateNext
  <2>2. stmt.kind = "update"
    BY <1>7 DEF UpdateNext
  <2> DEFINE rid == [page |-> stmt.scan.page, slot |-> i]
  <2>3. stmt' = Idle \/ stmt' = [stmt EXCEPT !.scan.slot = rid.slot + 1]
    BY <2>1, Zenon DEF UpdateRid, Proceed, End
  <2>4. stmt \in [kind : {"update"}, where : Wheres, set : Sets, scan : Scan]
    BY <1>1, <2>2 DEF Statement
  <2>5. stmt'.kind = "idle" \/ stmt'.kind = "update"
    BY <2>3, <2>4 DEF Idle
  <2> QED
    BY <1>2, <2>5, SMTT(60)
<1>8. ASSUME UpdateNextPage PROVE RestIsThere(heap', stmt')
  <2>1. stmt.kind = "update" /\ stmt' = [stmt EXCEPT !.scan = At(@.page + 1)]
    BY <1>8 DEF UpdateNextPage
  <2>2. stmt \in [kind : {"update"}, where : Wheres, set : Sets, scan : Scan]
    BY <1>1, <2>1 DEF Statement
  <2>3. stmt'.kind = "update"
    BY <2>1, <2>2
  <2> QED
    BY <1>2, <2>3
<1>9. ASSUME NEW rows, StartInsert(rows) PROVE RestIsThere(heap', stmt')
  <2>1. stmt'.kind = "insert"
    BY <1>9 DEF StartInsert, Begin
  <2> QED
    BY <1>2, <2>1
<1>10. ASSUME NEW keys, NEW set, StartUpdate(keys, set) PROVE RestIsThere(heap', stmt')
  <2>1. stmt'.kind = "update"
    BY <1>10 DEF StartUpdate, Begin
  <2> QED
    BY <1>2, <2>1
<1>11. CASE Done \/ CreateIndex \/ DropIndex \/ UNCHANGED vars
  <2>1. stmt' = Idle \/ (stmt' = stmt /\ heap' = heap)
    BY <1>11 DEF Done, End, CreateIndex, DropIndex, vars
  <2> QED
    BY <1>3, <2>1
<1> QED
  BY <1>4, <1>5, <1>6, <1>7, <1>8, <1>9, <1>10, <1>11 DEF Next

\* The entry of a row is added.
LEMMA IndexInserts ==
    ASSUME HasIndex => AnIndex(index), NEW row \in Row, NEW rid \in RowId
    PROVE  HasIndex => AnIndex(AfterInsert(rid, row))
<1> SUFFICES ASSUME HasIndex PROVE AnIndex(AfterInsert(rid, row))
  OBVIOUS
<1>1. PICK h : IsIndex(index, h)
  BY DEF AnIndex
<1>2. row.key \in Key
  BY RowsHaveKeys
<1>3. AnIndex(InsertKey(index, row.key, rid))
  BY <1>1, <1>2, InsertTree DEF AnIndex
<1> QED
  BY <1>3 DEF AfterInsert

\* The entry of a row is taken out.
LEMMA IndexDeletes ==
    ASSUME HasIndex => AnIndex(index), NEW key \in Key, NEW rid
    PROVE  HasIndex => AnIndex(DeleteKey(index, key, rid))
<1> SUFFICES ASSUME HasIndex PROVE AnIndex(DeleteKey(index, key, rid))
  OBVIOUS
<1>1. PICK h : IsIndex(index, h)
  BY DEF AnIndex
<1>2. key \in Int
  BY KeysAreOrdered
<1> QED
  BY <1>1, <1>2, DeleteTree DEF AnIndex

\* The table as it is loaded: what holds of the empty table and, row by row, after
\* each INSERT.
LEMMA LoadedTableBy ==
    ASSUME NEW G, [heap |-> EmptyHeap, tree |-> EmptyTree] \in G[0],
           \A n \in Nat : n < Len(Loaded) => \A db \in G[n] : WithRow(db, Loaded[n + 1]) \in G[n + 1]
    PROVE  AfterLoading \in G[Len(Loaded)]
<1> DEFINE l == Len(Loaded)
<1>1. l \in Nat
  BY InputsAreRows
<1>2. \E f : Loads(f, l)
  BY <1>1, LoadsExist
<1>3. PICK f : Loads(f, l) /\ AfterLoading = f[l]
  BY <1>2, Zenon DEF Loads, AfterLoading
<1> HIDE DEF l
<1> DEFINE S == {n \in Nat : n <= l => f[n] \in G[n]}
<1>4. 0 \in S
  <2>1. 0 \in 0 .. l
    BY <1>1
  <2>2. f[0] = [heap |-> EmptyHeap, tree |-> EmptyTree]
    BY <1>3, <2>1 DEF Loads
  <2> QED
    BY <2>2
<1>5. ASSUME NEW n \in Nat, n \in S PROVE n + 1 \in S
  <2> SUFFICES ASSUME n + 1 <= l PROVE f[n + 1] \in G[n + 1]
    OBVIOUS
  <2>1. n < l /\ f[n] \in G[n]
    BY <1>1, <1>5
  <2>2. f[n + 1] = WithRow(f[n], Loaded[n + 1])
    <3>1. n + 1 \in 0 .. l /\ n + 1 # 0 /\ (n + 1) - 1 = n
      BY <1>1, <2>1
    <3> QED
      BY <1>3, <3>1 DEF Loads
  <2> QED
    BY <2>1, <2>2 DEF l
<1> HIDE DEF S
<1>6. \A n \in Nat : n \in S
  BY <1>4, <1>5, EveryNumber
<1> QED
  BY <1>1, <1>3, <1>6 DEF S, l

\* Indexes are records.
LEMMA IndexType ==
    ASSUME NEW t, AnIndex(t)
    PROVE  t \in [root : Nat, nodes : Trees]
<1>1. PICK h : IsIndex(t, h)
  BY DEF AnIndex
<1>2. /\ t = [root |-> t.root, nodes |-> t.nodes]
      /\ t.nodes \in Seq(Shaped(Len(t.nodes))) /\ t.root \in 1 .. Len(t.nodes)
      /\ Len(t.nodes) \in Nat
  BY <1>1, TreeNodes DEF IsIndex, IsTree
<1>3. t.root \in Nat /\ t.nodes \in Trees
  BY <1>2 DEF Trees
<1> QED
  BY <1>2, <1>3

\* It has an index.
LEMMA LoadedIndex == AnIndex(AfterLoading.tree)
<1> DEFINE G == {db \in [heap : FitHeap, tree : [root : Nat, nodes : Trees]] : AnIndex(db.tree)}
           F == [n \in Nat |-> G]
<1>2. [heap |-> EmptyHeap, tree |-> EmptyTree] \in G
  <2>1. EmptyHeap \in FitHeap
    BY EmptyPageFits DEF EmptyHeap, FitHeap
  <2>2. AnIndex(EmptyTree)
    BY EmptyIsTree DEF AnIndex
  <2>3. EmptyTree \in [root : Nat, nodes : Trees]
    BY <2>2, IndexType
  <2> HIDE DEF EmptyTree, EmptyHeap
  <2> QED
    BY <2>1, <2>2, <2>3
<1>3. ASSUME NEW db \in G, NEW row \in Row PROVE WithRow(db, row) \in G
  <2> DEFINE done == InsertRow(db.heap, row)
             tree == InsertKey(db.tree, row.key, done.rid)
  <2>1. db.heap \in FitHeap /\ row.key \in Key
    BY RowsHaveKeys
  <2>2. done.heap \in FitHeap /\ done.rid \in RowId
    BY <2>1, InsertRowFits, AddressOfRow
  <2>3. PICK h : IsIndex(db.tree, h)
    BY DEF AnIndex
  <2>4. AnIndex(tree)
    BY <2>1, <2>2, <2>3, InsertTree DEF AnIndex
  <2>5. tree \in [root : Nat, nodes : Trees]
    BY <2>4, IndexType
  <2>6. WithRow(db, row) = [heap |-> done.heap, tree |-> tree]
    BY DEF WithRow
  <2> HIDE DEF done, tree
  <2> QED
    BY <2>2, <2>4, <2>5, <2>6
<1>4. Len(Loaded) \in Nat /\ \A n \in Nat : n < Len(Loaded) => Loaded[n + 1] \in Row
  BY InputsAreRows
<1> HIDE DEF G
<1>5. /\ [heap |-> EmptyHeap, tree |-> EmptyTree] \in F[0]
      /\ \A n \in Nat : n < Len(Loaded) => \A db \in F[n] : WithRow(db, Loaded[n + 1]) \in F[n + 1]
  BY <1>2, <1>3, <1>4
<1> HIDE DEF F
<1>6. AfterLoading \in F[Len(Loaded)]
  BY <1>5, LoadedTableBy
<1>7. AfterLoading \in G
  BY <1>4, <1>6 DEF F
<1> QED
  BY <1>7 DEF G

\* The index is a tree after each step of a statement.
LEMMA IndexGoesOn == WellIndexed /\ [Next]_vars => WellIndexed'
<1> SUFFICES ASSUME WellIndexed, [Next]_vars PROVE WellIndexed'
  OBVIOUS
<1> DEFINE Outcomes == {"none", "done", "refused", "failed"}
<1>1. /\ Counted /\ (HasIndex => AnIndex(index)) /\ outcome \in Outcomes
      /\ heap \in FitHeap /\ stmt \in Statement /\ StatementFits(heap, stmt)
      /\ RestIsThere(heap, stmt)
  BY DEF WellIndexed, Counted
<1>2. Counted' /\ RestIsThere(heap', stmt')
  BY <1>1, CountedGoesOn, RestGoesOn
<1>3. ASSUME index' = index, outcome' \in Outcomes PROVE WellIndexed'
  BY <1>1, <1>2, <1>3 DEF WellIndexed, HasIndex
<1>4. ASSUME index' = NoIndex \/ AnIndex(index'), outcome' \in Outcomes PROVE WellIndexed'
  BY <1>2, <1>4 DEF WellIndexed, HasIndex
<1>5. ASSUME NEW how \in Outcomes, End(how) PROVE WellIndexed'
  BY <1>3, <1>5 DEF End
<1>6. CASE InsertNext
  <2> DEFINE row == Head(stmt.rest)
             done == InsertRow(heap, row)
  <2>1. /\ stmt.kind = "insert" /\ stmt.rest # <<>>
        /\ \/ End("refused")
           \/ /\ index' = index \/ index' = AfterInsert(done.rid, row)
              /\ outcome' = outcome \/ outcome' = "failed"
    BY <1>6, Zenon DEF InsertNext, Proceed
  <2>2. stmt \in [kind : {"insert"}, rest : Seq(Row)]
    BY <1>1, <2>1 DEF Statement
  <2>3. row \in Row
    BY <2>1, <2>2
  <2>4. done.rid \in RowId
    BY <1>1, <2>3, AddressOfRow
  <2> HIDE DEF row, done
  <2>5. AfterInsert(done.rid, row) = NoIndex \/ AnIndex(AfterInsert(done.rid, row))
    <3>1. CASE HasIndex
      BY <1>1, <2>3, <2>4, <3>1, IndexInserts
    <3>2. CASE ~ HasIndex
      BY <3>2 DEF AfterInsert, HasIndex
    <3> QED
      BY <3>1, <3>2
  <2>6. outcome' \in Outcomes \/ End("refused")
    BY <1>1, <2>1
  <2> QED
    BY <1>3, <1>4, <1>5, <2>1, <2>5, <2>6
<1>7. CASE DeleteNext
  <2>1. PICK rid \in stmt.rest : index' = AfterDelete(rid, RowAt(heap, rid))
    BY <1>7 DEF DeleteNext
  <2>2. stmt.kind = "delete" /\ outcome' = outcome
    BY <1>7 DEF DeleteNext
  <2>3. CASE ~ HasIndex
    BY <1>1, <1>3, <2>1, <2>2, <2>3 DEF AfterDelete
  <2>4. CASE HasIndex
    <3>1. RowAt(heap, rid).key \in Key
      BY <1>1, <2>1, <2>2, RowsAre, RowsHaveKeys DEF RestIsThere
    <3>2. index' = DeleteKey(index, RowAt(heap, rid).key, rid)
      BY <2>1, <2>4 DEF AfterDelete
    <3>3. AnIndex(index')
      BY <1>1, <2>4, <3>1, <3>2, IndexDeletes
    <3> QED
      BY <1>1, <1>4, <2>2, <3>3
  <2> QED
    BY <2>3, <2>4
<1>8. CASE UpdateNext
  <2>1. PICK i \in Ahead, old \in Row, new \in Row :
          /\ UpdateFacts(i, old, new)
          /\ UpdateRid([page |-> stmt.scan.page, slot |-> i], old, new)
    BY <1>1, <1>8, UpdateStep
  <2> DEFINE rid == [page |-> stmt.scan.page, slot |-> i]
  <2>2. \/ End("refused")
        \/ index' = AfterUpdate(rid, old, new) /\ (outcome' = outcome \/ outcome' = "failed")
    BY <2>1, ZenonT(60) DEF UpdateRid, Proceed
  <2>3. rid \in RowId /\ old.key \in Key /\ new.key \in Key
    BY <2>1, RowsHaveKeys DEF UpdateFacts
  <2> HIDE DEF rid
  <2>4. AfterUpdate(rid, old, new) = index \/ AnIndex(AfterUpdate(rid, old, new))
    <3>1. CASE ~ (HasIndex /\ old.key # new.key)
      BY <3>1 DEF AfterUpdate
    <3>2. CASE HasIndex /\ old.key # new.key
      <4>1. AnIndex(DeleteKey(index, old.key, rid))
        BY <1>1, <2>3, <3>2, IndexDeletes
      <4>2. PICK h : IsIndex(DeleteKey(index, old.key, rid), h)
        BY <4>1 DEF AnIndex
      <4>3. AnIndex(InsertKey(DeleteKey(index, old.key, rid), new.key, rid))
        BY <2>3, <4>2, InsertTree, SMTT(60) DEF AnIndex
      <4> QED
        BY <3>2, <4>3 DEF AfterUpdate
    <3> QED
      BY <3>1, <3>2
  <2>5. outcome' \in Outcomes \/ End("refused")
    BY <1>1, <2>2
  <2> QED
    BY <1>3, <1>4, <1>5, <2>2, <2>4, <2>5
<1>9. ASSUME NEW s, Begin(s) PROVE WellIndexed'
  BY <1>3, <1>9 DEF Begin
<1>10. CASE \/ \E rows \in Inserts : StartInsert(rows)
            \/ \E keys \in Wheres : StartDelete(keys) \/ \E set \in Sets : StartUpdate(keys, set)
  BY <1>9, <1>10, Zenon DEF StartInsert, StartDelete, StartUpdate
<1>11. CASE Done
  BY <1>5, <1>11 DEF Done
<1>12. CASE UpdateNextPage \/ UNCHANGED vars
  <2>1. index' = index /\ outcome' = outcome
    BY <1>12 DEF UpdateNextPage, vars
  <2> QED
    BY <1>1, <1>3, <2>1
<1>13. CASE CreateIndex
  <2>1. AnIndex(index') /\ outcome' = outcome
    BY <1>13, EmptyIsTree DEF CreateIndex, AnIndex
  <2> QED
    BY <1>1, <1>4, <2>1
<1>14. CASE DropIndex
  BY <1>1, <1>4, <1>14 DEF DropIndex
<1> QED
  BY <1>6, <1>7, <1>8, <1>10, <1>11, <1>12, <1>13, <1>14 DEF Next

\* IndexManager and BTreeIndex: whatever is inserted, updated and deleted, and
\* however often nodes are split, each node has an address or a child for each
\* key and fits into its page, provided that the size estimated for a key is the
\* size of a key and its length (compute_max_keys); rows, statements and their
\* ends have their shape.
THEOREM NodesFit == ASSUME KeysAreEstimated PROVE Spec => []TypeOK
<1>1. Init => WellIndexed
  <2> SUFFICES ASSUME Init PROVE WellIndexed
    OBVIOUS
  <2>1. /\ heap = AfterLoading.heap /\ stmt = Idle /\ outcome = "none"
        /\ index \in {NoIndex, AfterLoading.tree}
    BY DEF Init
  <2>2. Idle \in Statement /\ StatementFits(heap, Idle) /\ RestIsThere(heap, Idle)
    BY DEF Idle, Statement, StatementFits, RestIsThere
  <2>3. Counted
    BY <2>1, <2>2, LoadedFits DEF Counted
  <2>4. HasIndex => AnIndex(index)
    BY <2>1, LoadedIndex DEF HasIndex
  <2> QED
    BY <2>1, <2>2, <2>3, <2>4 DEF WellIndexed
<1>2. WellIndexed => TypeOK
  <2> SUFFICES ASSUME WellIndexed PROVE TypeOK
    OBVIOUS
  <2>1. HasIndex => \A n \in DOMAIN index.nodes : NodeOK(index.nodes[n])
    <3> SUFFICES ASSUME HasIndex, NEW n \in DOMAIN index.nodes PROVE NodeOK(index.nodes[n])
      OBVIOUS
    <3>1. PICK h : IsTree(index.nodes, h)
      BY DEF WellIndexed, AnIndex, IsIndex
    <3>2. n \in 1 .. Len(index.nodes)
      BY <3>1 DEF IsTree
    <3>3. index.nodes[n] \in Shaped(Len(index.nodes)) /\ Len(index.nodes) \in Nat
      BY <3>1, <3>2, TreeNodes
    <3> QED
      BY <3>3, ShapedFits
  <2>2. \A p \in DOMAIN heap : \A i \in DOMAIN heap[p].slots : heap[p].slots[i].row \in Row \cup {NoRow}
    <3> SUFFICES ASSUME NEW p \in DOMAIN heap, NEW i \in DOMAIN heap[p].slots
                 PROVE  heap[p].slots[i].row \in Row \cup {NoRow}
      OBVIOUS
    <3>1. heap[p] \in FitPage
      BY DEF WellIndexed, Counted, FitHeap
    <3>2. heap[p].slots[i] \in Slot
      BY <3>1 DEF FitPage, Page
    <3> QED
      BY <3>2 DEF Slot
  <2>3. stmt.kind \in {"idle", "insert", "delete", "update"}
    <3>1. stmt \in Statement
      BY DEF WellIndexed, Counted
    <3> QED
      BY <3>1 DEF Statement
  <2> QED
    BY <2>1, <2>2, <2>3 DEF WellIndexed, TypeOK
<1> QED
  BY <1>1, <1>2, IndexGoesOn, PTL DEF Spec

-----------------------------------------------------------------------------
(* What is stored where.                                                   *)

\* Every slot of h is in g, with its row.
RowsStay(h, g) == \A r : SlotIn(h, r) => SlotIn(g, r) /\ RowAt(g, r) = RowAt(h, r)

\* The same but for one slot, that was not there.
OnlyNew(h, g, rid) ==
    /\ RowsStay(h, g)
    /\ ~ SlotIn(h, rid) /\ SlotIn(g, rid)
    /\ \A r : SlotIn(g, r) => SlotIn(h, r) \/ (r.page = rid.page /\ r.slot = rid.slot)

\* The page that an insertion adds has no slots.
LEMMA ExtendedStores ==
    ASSUME NEW h \in FitHeap, NEW row
    PROVE  LET p == Spot(h, row)
               long == Extended(h, p)
           IN  /\ long \in FitHeap /\ p \in DOMAIN long
               /\ RowsStay(h, long) /\ \A r : SlotIn(long, r) => SlotIn(h, r)
<1> DEFINE p == Spot(h, row)
           long == Extended(h, p)
<1>1. Len(h) \in Nat /\ DOMAIN h = 1 .. Len(h)
  BY DEF FitHeap
<1>2. CASE p \in DOMAIN h
  <2>1. ~ (p > Len(h))
    BY <1>1, <1>2
  <2>2. long = h
    BY <2>1 DEF Extended
  <2> QED
    BY <1>2, <2>2 DEF RowsStay
<1>3. CASE p = Len(h) + 1
  <2>1. long = Append(h, EmptyPage)
    <3>1. p > Len(h)
      BY <1>1, <1>3
    <3> HIDE DEF p
    <3> QED
      BY <3>1 DEF Extended
  <2>2. /\ long \in FitHeap /\ Len(long) = Len(h) + 1 /\ \A q \in DOMAIN h : long[q] = h[q]
        /\ long[p] = EmptyPage
    BY <1>3, <2>1, EmptyPageFits, SMTT(60) DEF FitHeap
  <2>3. \A q : q \in DOMAIN long <=> q \in DOMAIN h \/ q = p
    BY <1>1, <1>3, <2>2 DEF FitHeap
  <2>4. DOMAIN EmptyPage.slots = {}
    BY DEF EmptyPage
  <2> HIDE DEF long, p
  <2>5. ASSUME NEW r, SlotIn(h, r) PROVE SlotIn(long, r) /\ RowAt(long, r) = RowAt(h, r)
    BY <2>2, <2>3, <2>5 DEF SlotIn, RowAt
  <2>6. ASSUME NEW r, SlotIn(long, r) PROVE SlotIn(h, r)
    <3>1. r.page # p
      BY <2>2, <2>4, <2>6 DEF SlotIn
    <3> QED
      BY <2>2, <2>3, <2>6, <3>1 DEF SlotIn
  <2> QED
    BY <2>2, <2>3, <2>5, <2>6 DEF RowsStay, long, p
<1> QED
  BY <1>2, <1>3, SpotIsFirst

\* A page with one more slot.
LEMMA PageStores ==
    ASSUME NEW h \in FitHeap, NEW p \in DOMAIN h, NEW row \in Row,
           NEW page \in FitPage, NEW slot \in Slot, slot.row = row,
           page.slots = Append(h[p].slots, slot)
    PROVE  LET g == [h EXCEPT ![p] = page]
               rid == [page |-> p, slot |-> Len(h[p].slots) + 1]
           IN  OnlyNew(h, g, rid) /\ RowAt(g, rid) = row
<1> DEFINE g == [h EXCEPT ![p] = page]
           l == Len(h[p].slots)
           rid == [page |-> p, slot |-> l + 1]
<1>1. DOMAIN g = DOMAIN h /\ g[p] = page /\ \A q \in DOMAIN h : q # p => g[q] = h[q]
  OBVIOUS
<1>2. h[p].slots \in Seq(Slot) /\ l \in Nat /\ DOMAIN h[p].slots = 1 .. l
  <2>1. h[p] \in FitPage
    BY DEF FitHeap
  <2>2. h[p].slots \in Seq(Slot)
    BY <2>1 DEF FitPage, Page
  <2> QED
    BY <2>2
<1>3. /\ DOMAIN page.slots = 1 .. l + 1 /\ page.slots[l + 1] = slot
      /\ \A i \in 1 .. l : page.slots[i] = h[p].slots[i]
  BY <1>2
<1> HIDE DEF g, l
<1>4. rid.page = p /\ rid.slot = l + 1
  OBVIOUS
<1>5. /\ l + 1 \in 1 .. l + 1 /\ l + 1 \notin 1 .. l
      /\ \A i \in 1 .. l + 1 : i \in 1 .. l \/ i = l + 1
      /\ \A i \in 1 .. l : i \in 1 .. l + 1
  BY <1>2
<1> HIDE DEF rid
<1>6. ASSUME NEW r, SlotIn(h, r) PROVE SlotIn(g, r) /\ RowAt(g, r) = RowAt(h, r)
  <2>1. CASE r.page = p
    BY <1>1, <1>2, <1>3, <1>5, <1>6, <2>1 DEF SlotIn, RowAt
  <2>2. CASE r.page # p
    BY <1>1, <1>6, <2>2 DEF SlotIn, RowAt
  <2> QED
    BY <2>1, <2>2
<1>7. ~ SlotIn(h, rid) /\ SlotIn(g, rid) /\ RowAt(g, rid) = row
  BY <1>1, <1>2, <1>3, <1>4, <1>5 DEF SlotIn, RowAt
<1>8. ASSUME NEW r, SlotIn(g, r) PROVE SlotIn(h, r) \/ (r.page = rid.page /\ r.slot = rid.slot)
  <2>1. CASE r.page = p
    BY <1>1, <1>2, <1>3, <1>4, <1>5, <1>8, <2>1 DEF SlotIn
  <2>2. CASE r.page # p
    BY <1>1, <1>8, <2>2 DEF SlotIn
  <2> QED
    BY <2>1, <2>2
<1> QED
  BY <1>6, <1>7, <1>8 DEF OnlyNew, RowsStay, g, rid, l

\* insert writes one row to a new slot, or none.
LEMMA InsertRowStores ==
    ASSUME NEW h \in FitHeap, NEW row \in Row
    PROVE  LET done == InsertRow(h, row)
           IN  /\ RowsStay(h, done.heap)
               /\ done.failed => \A r : SlotIn(done.heap, r) => SlotIn(h, r)
               /\ ~ done.failed => OnlyNew(h, done.heap, done.rid) /\ RowAt(done.heap, done.rid) = row
<1> DEFINE p == Spot(h, row)
           long == Extended(h, p)
           fails == ~ HasSpace(long[p], row) \/ Overflows(long[p], row)
           page == Inserted(long[p], row)
           slot == [at |-> long[p].top - row.len, row |-> row]
           done == InsertRow(h, row)
<1>1. /\ long \in FitHeap /\ p \in DOMAIN long
      /\ RowsStay(h, long) /\ \A r : SlotIn(long, r) => SlotIn(h, r)
  BY ExtendedStores
<1>2. /\ done.failed = fails
      /\ done.rid = [page |-> p, slot |-> Len(long[p].slots) + 1]
      /\ done.heap = IF fails THEN long ELSE [long EXCEPT ![p] = page]
  BY DEF InsertRow
<1>3. CASE fails
  <2> HIDE DEF fails, long, done
  <2> QED
    BY <1>1, <1>2, <1>3 DEF done
<1>4. CASE ~ fails
  <2>1. long[p] \in FitPage /\ HasSpace(long[p], row)
    BY <1>1, <1>4 DEF FitHeap
  <2>2. page \in FitPage
    BY <2>1, InsertedFits
  <2>3. page.slots = Append(long[p].slots, slot)
    BY DEF Inserted
  <2>4. long[p].top \in Int /\ row.len \in Nat
    BY <2>1, RowLength DEF FitPage, Page
  <2>5. slot \in Slot /\ slot.row = row
    BY <2>4 DEF Slot
  <2>6. done.heap = [long EXCEPT ![p] = page]
    BY <1>2, <1>4
  <2> HIDE DEF page, slot, long, p, fails, done
  <2>7. OnlyNew(long, done.heap, done.rid) /\ RowAt(done.heap, done.rid) = row
    BY <1>1, <1>2, <2>2, <2>3, <2>5, <2>6, PageStores
  <2>8. RowsStay(h, done.heap)
    BY <1>1, <2>7 DEF RowsStay, OnlyNew
  <2>9. OnlyNew(h, done.heap, done.rid)
    BY <1>1, <2>7, <2>8 DEF RowsStay, OnlyNew
  <2> QED
    BY <1>2, <1>4, <2>7, <2>8, <2>9 DEF done
<1> QED
  BY <1>3, <1>4

\* Table.update in place changes one slot.
InPlace(h, rid, row, g) == g = [h EXCEPT ![rid.page] = Rewritten(h[rid.page], rid.slot, row)]

\* An update in place changes the row at its address, and no other.
LEMMA RewrittenStores ==
    ASSUME NEW h \in FitHeap, NEW rid, SlotIn(h, rid), NEW row,
           NEW g, InPlace(h, rid, row, g)
    PROVE  /\ \A r : SlotIn(g, r) <=> SlotIn(h, r)
           /\ RowAt(g, rid) = row
           /\ \A r : SlotIn(h, r) /\ (r.page # rid.page \/ r.slot # rid.slot)
                       => RowAt(g, r) = RowAt(h, r)
<1> DEFINE p == rid.page
           s == rid.slot
           page == Rewritten(h[p], s, row)
           slot == [at |-> h[p].top - row.len, row |-> row]
<1>1. p \in DOMAIN h /\ s \in DOMAIN h[p].slots
  BY DEF SlotIn
<1>2. DOMAIN g = DOMAIN h /\ g[p] = page /\ \A q \in DOMAIN h : q # p => g[q] = h[q]
  BY <1>1 DEF InPlace
<1>3. page.slots = [h[p].slots EXCEPT ![s] = slot] /\ slot.row = row
  BY DEF Rewritten
<1>4. h[p].slots \in Seq(Slot)
  <2>1. h[p] \in FitPage
    BY <1>1 DEF FitHeap
  <2> QED
    BY <2>1 DEF FitPage, Page
<1> HIDE DEF page, slot
<1>5. /\ DOMAIN page.slots = DOMAIN h[p].slots /\ page.slots[s] = slot
      /\ \A i \in DOMAIN h[p].slots : i # s => page.slots[i] = h[p].slots[i]
  BY <1>1, <1>3, <1>4
<1>6. ASSUME NEW r PROVE SlotIn(g, r) <=> SlotIn(h, r)
  BY <1>2, <1>5 DEF SlotIn
<1>7. RowAt(g, rid) = row
  BY <1>1, <1>2, <1>3, <1>5 DEF RowAt
<1>8. ASSUME NEW r, SlotIn(h, r), r.page # p \/ r.slot # s PROVE RowAt(g, r) = RowAt(h, r)
  BY <1>1, <1>2, <1>5, <1>8 DEF RowAt, SlotIn
<1> QED
  BY <1>6, <1>7, <1>8

\* What UPDATE leaves of the other rows of the table: all of them.
LEMMA UpdateStores ==
    ASSUME NEW h \in FitHeap, NEW rid, SlotIn(h, rid), NEW row \in Row,
           NEW r, SlotIn(h, r), r.page # rid.page \/ r.slot # rid.slot
    PROVE  RowAt(UpdateRow(h, rid, row).heap, r) = RowAt(h, r)
<1> DEFINE done == UpdateRow(h, rid, row)
           fails == Overflows(h[rid.page], row)
           g == [h EXCEPT ![rid.page] = Rewritten(h[rid.page], rid.slot, row)]
<1>1. CASE UpdateMoves(h, rid, row)
  <2> DEFINE k == DeleteRow(h, rid)
  <2>1. done.heap = InsertRow(k, row).heap
    BY <1>1 DEF UpdateRow
  <2>2. k \in FitHeap
    BY DeleteRowFits
  <2>3. <<r.page, r.slot>> # <<rid.page, rid.slot>>
    OBVIOUS
  <2>4. SlotIn(k, r) /\ RowAt(k, r) = RowAt(h, r)
    BY <2>3, OthersStay
  <2> HIDE DEF k, done
  <2>5. RowsStay(k, InsertRow(k, row).heap)
    BY <2>2, InsertRowStores
  <2> QED
    BY <2>1, <2>4, <2>5 DEF RowsStay, done
<1>2. CASE ~ UpdateMoves(h, rid, row)
  <2>1. done.heap = IF fails THEN h ELSE g
    BY <1>2 DEF UpdateRow
  <2>2. InPlace(h, rid, row, g)
    BY DEF InPlace
  <2> HIDE DEF g, done, fails
  <2>3. RowAt(g, r) = RowAt(h, r)
    BY <2>2, RewrittenStores
  <2> QED
    BY <2>1, <2>3 DEF done
<1> QED
  BY <1>1, <1>2

\* A deleted row is gone.
LEMMA DeleteStores ==
    ASSUME NEW h \in FitHeap, NEW rid, SlotIn(h, rid)
    PROVE  ~ LiveIn(DeleteRow(h, rid), rid)
<1> DEFINE p == rid.page
           s == rid.slot
           g == DeleteRow(h, rid)
<1>1. p \in DOMAIN h /\ s \in DOMAIN h[p].slots /\ g = [h EXCEPT ![p] = Deleted(h[p], s)]
  BY DEF SlotIn, DeleteRow
<1>2. h[p] \in FitPage
  BY <1>1 DEF FitHeap
<1>3. g[p].slots = [h[p].slots EXCEPT ![s] = [at |-> 0, row |-> NoRow]]
  BY <1>1, <1>2, SMTT(60) DEF Deleted, FitPage, Page
<1> HIDE DEF g
<1>4. g[p].slots[s] = [at |-> 0, row |-> NoRow]
  BY <1>1, <1>3
<1>5. RowAt(g, rid) = NoRow
  BY <1>4 DEF RowAt
<1> QED
  BY <1>5 DEF LiveIn, g

\* What the scan of an UPDATE has still to look at in its copy of a page is in
\* the page.
ScanIsCurrent(h, s) ==
    s.kind = "update" =>
        \A i \in DOMAIN s.scan.copy.slots :
            i >= s.scan.slot => h[s.scan.page].slots[i].row = s.scan.copy.slots[i].row

\* An UPDATE writes to the row its scan is at, or to new slots.
LEMMA ScanGoesOn ==
    ASSUME Counted, ScanIsCurrent(heap, stmt), [Next]_vars
    PROVE  ScanIsCurrent(heap', stmt')
<1>1. heap \in FitHeap /\ stmt \in Statement /\ StatementFits(heap, stmt)
  BY DEF Counted
<1>2. ASSUME stmt'.kind # "update" PROVE ScanIsCurrent(heap', stmt')
  BY <1>2 DEF ScanIsCurrent
<1>3. ASSUME stmt' = Idle PROVE ScanIsCurrent(heap', stmt')
  BY <1>2, <1>3 DEF Idle
<1>4. ASSUME NEW p, stmt'.scan = At(p), heap' = heap PROVE ScanIsCurrent(heap', stmt')
  <2>1. stmt'.scan.page = p /\ stmt'.scan.copy = heap[p]
    BY <1>4 DEF At
  <2> QED
    BY <1>4, <2>1 DEF ScanIsCurrent
<1>5. CASE UpdateNext
  <2>1. PICK i \in Ahead, old \in Row, new \in Row :
          /\ UpdateFacts(i, old, new)
          /\ UpdateRid([page |-> stmt.scan.page, slot |-> i], old, new)
    BY <1>5, UpdateStep
  <2> DEFINE rid == [page |-> stmt.scan.page, slot |-> i]
  <2>2. stmt.kind = "update"
    BY <1>5 DEF UpdateNext
  <2>3. stmt \in [kind : {"update"}, where : Wheres, set : Sets, scan : Scan]
    BY <1>1, <2>2 DEF Statement
  <2>4. \/ stmt' = Idle
        \/ /\ stmt' = [stmt EXCEPT !.scan.slot = rid.slot + 1]
           /\ heap' = heap \/ heap' = UpdateRow(heap, rid, new).heap
    BY <2>1, Zenon DEF UpdateRid, Proceed, End
  <2>5. ASSUME stmt' = [stmt EXCEPT !.scan.slot = rid.slot + 1],
               heap' = heap \/ heap' = UpdateRow(heap, rid, new).heap
        PROVE  ScanIsCurrent(heap', stmt')
    <3>1. /\ stmt'.scan.page = stmt.scan.page /\ stmt'.scan.copy = stmt.scan.copy
          /\ stmt'.scan.slot = i + 1
      BY <2>3, <2>5, SMTT(60) DEF Scan
    <3>2. SlotIn(heap, rid) /\ rid.page = stmt.scan.page /\ rid.slot = i
      BY <2>1 DEF UpdateFacts
    <3>3. /\ i >= stmt.scan.slot /\ stmt.scan.slot \in Nat
          /\ i \in DOMAIN stmt.scan.copy.slots /\ stmt.scan.copy.slots \in Seq(Slot)
      BY <2>1, <2>3 DEF Ahead, Live, Scan, FitPage, Page
    <3>4. /\ stmt.scan.page \in DOMAIN heap
          /\ Len(stmt.scan.copy.slots) <= Len(heap[stmt.scan.page].slots)
      BY <1>1, <2>2 DEF StatementFits, ScanFits
    <3>5. heap[stmt.scan.page].slots \in Seq(Slot)
      <4>1. heap[stmt.scan.page] \in FitPage
        BY <1>1, <3>4 DEF FitHeap
      <4> QED
        BY <4>1, SMTT(60) DEF FitPage, Page
    <3>6. ASSUME NEW j \in DOMAIN stmt.scan.copy.slots, j >= i + 1
          PROVE  heap'[stmt.scan.page].slots[j].row = stmt.scan.copy.slots[j].row
      <4> DEFINE r == [page |-> stmt.scan.page, slot |-> j]
      <4>1. j >= stmt.scan.slot /\ j # i /\ j \in DOMAIN heap[stmt.scan.page].slots
        <5>1. i \in Nat /\ j \in Nat /\ j \in 1 .. Len(stmt.scan.copy.slots)
          BY <3>3, <3>6, SMTT(60)
        <5>2. Len(stmt.scan.copy.slots) \in Nat /\ Len(heap[stmt.scan.page].slots) \in Nat
          BY <3>3, <3>5, SMTT(60)
        <5>3. j \in 1 .. Len(heap[stmt.scan.page].slots)
          BY <3>4, <5>1, <5>2, SMTT(60)
        <5>4. j >= stmt.scan.slot /\ j # i
          BY <3>3, <3>6, <5>1
        <5> QED
          BY <3>5, <5>3, <5>4
      <4>2. heap[stmt.scan.page].slots[j].row = stmt.scan.copy.slots[j].row
        BY <2>2, <4>1 DEF ScanIsCurrent
      <4>3. r.page = stmt.scan.page /\ r.slot = j
        OBVIOUS
      <4> HIDE DEF r, rid
      <4>4. SlotIn(heap, r) /\ r.slot # rid.slot
        BY <3>2, <3>4, <4>1, <4>3 DEF SlotIn
      <4>5. RowAt(UpdateRow(heap, rid, new).heap, r) = RowAt(heap, r)
        BY <1>1, <3>2, <4>4, UpdateStores
      <4>6. RowAt(heap', r) = RowAt(heap, r)
        BY <2>5, <4>5
      <4> QED
        BY <4>2, <4>3, <4>6 DEF RowAt
    <3> QED
      BY <3>1, <3>6 DEF ScanIsCurrent
  <2> QED
    BY <1>3, <2>4, <2>5
<1>6. CASE UpdateNextPage
  <2>1. stmt.kind = "update" /\ stmt' = [stmt EXCEPT !.scan = At(@.page + 1)] /\ heap' = heap
    BY <1>6 DEF UpdateNextPage
  <2>2. stmt \in [kind : {"update"}, where : Wheres, set : Sets, scan : Scan]
    BY <1>1, <2>1 DEF Statement
  <2>3. stmt'.scan = At(stmt.scan.page + 1)
    BY <2>1, <2>2
  <2> QED
    BY <1>4, <2>1, <2>3
<1>7. ASSUME NEW keys, NEW set, StartUpdate(keys, set) PROVE ScanIsCurrent(heap', stmt')
  <2>1. stmt' = [kind |-> "update", where |-> keys, set |-> set, scan |-> At(1)] /\ heap' = heap
    BY <1>7 DEF StartUpdate, Begin
  <2>2. stmt'.scan = At(1)
    BY <2>1
  <2> QED
    BY <1>4, <2>1, <2>2
<1>8. ASSUME InsertNext PROVE ScanIsCurrent(heap', stmt')
  <2>1. stmt.kind = "insert" /\ (stmt' = Idle \/ stmt' = [stmt EXCEPT !.rest = Tail(@)])
    BY <1>8, Zenon DEF InsertNext, Proceed, End
  <2>2. stmt \in [kind : {"insert"}, rest : Seq(Row)]
    BY <1>1, <2>1 DEF Statement
  <2>3. stmt'.kind = "idle" \/ stmt'.kind = "insert"
    BY <2>1, <2>2 DEF Idle
  <2> QED
    BY <1>2, <2>3
<1>9. ASSUME DeleteNext PROVE ScanIsCurrent(heap', stmt')
  <2>1. stmt.kind = "delete" /\ \E rid \in stmt.rest : stmt' = [stmt EXCEPT !.rest = @ \ {rid}]
    BY <1>9 DEF DeleteNext
  <2>2. stmt \in [kind : {"delete"}, rest : SUBSET [page : Nat, slot : Nat]]
    BY <1>1, <2>1 DEF Statement
  <2>3. stmt'.kind = "delete"
    BY <2>1, <2>2
  <2> QED
    BY <1>2, <2>3
<1>10. ASSUME NEW keys, StartDelete(keys) PROVE ScanIsCurrent(heap', stmt')
  <2>1. stmt'.kind = "delete"
    BY <1>10 DEF StartDelete, Begin
  <2> QED
    BY <1>2, <2>1
<1>11. ASSUME NEW rows, StartInsert(rows) PROVE ScanIsCurrent(heap', stmt')
  <2>1. stmt'.kind = "insert"
    BY <1>11 DEF StartInsert, Begin
  <2> QED
    BY <1>2, <2>1
<1>12. CASE Done \/ CreateIndex \/ DropIndex \/ UNCHANGED vars
  <2>1. stmt' = Idle \/ (stmt' = stmt /\ heap' = heap)
    BY <1>12, ZenonT(60) DEF Done, End, CreateIndex, DropIndex, vars
  <2> QED
    BY <1>3, <2>1
<1> QED
  BY <1>5, <1>6, <1>7, <1>8, <1>9, <1>10, <1>11, <1>12, SMTT(60) DEF Next

-----------------------------------------------------------------------------
(* The scan of an UPDATE misses no row.                                    *)

\* A row that was assigned to has the values.
LEMMA AssignedHasValues ==
    ASSUME NEW row \in Row, NEW set \in Sets
    PROVE  HasValues(Assigned(row, set), set)
<1>1. DOMAIN row = {"key", "len"}
  BY RowsHaveKeys
<1>2. DOMAIN set \subseteq DOMAIN row
  BY <1>1, InputsAreRows
<1>3. ASSUME NEW field \in DOMAIN set PROVE Assigned(row, set)[field] = set[field]
  BY <1>2 DEF Assigned
<1> QED
  BY <1>3 DEF HasValues

\* What cannot be read cannot be read later on.
LostStays(h, g) == \A p \in DOMAIN h : h[p].lost \subseteq g[p].lost

\* An insertion gives no lost row back.
LEMMA InsertKeepsLost ==
    ASSUME NEW h \in FitHeap, NEW row
    PROVE  LostStays(h, InsertRow(h, row).heap)
<1> DEFINE p == Spot(h, row)
           long == Extended(h, p)
           fails == ~ HasSpace(long[p], row) \/ Overflows(long[p], row)
           g == InsertRow(h, row).heap
<1>1. Len(h) \in Nat /\ DOMAIN h = 1 .. Len(h) /\ h \in Seq(FitPage)
  BY DEF FitHeap
<1>2. g = IF fails THEN long ELSE [long EXCEPT ![p] = Inserted(long[p], row)]
  BY DEF InsertRow
<1>3. \A q \in DOMAIN h : q \in DOMAIN long /\ long[q] = h[q]
  <2>1. CASE p > Len(h)
    <3>1. long = Append(h, EmptyPage)
      BY <2>1 DEF Extended
    <3> HIDE DEF long, p
    <3> QED
      BY <1>1, <3>1
  <2>2. CASE ~ (p > Len(h))
    <3>1. long = h
      BY <2>2 DEF Extended
    <3> HIDE DEF long, p
    <3> QED
      BY <3>1
  <2> QED
    BY <2>1, <2>2
<1>4. Inserted(long[p], row).lost = long[p].lost \cup Inserted(long[p], row).lost
  BY DEF Inserted
<1> HIDE DEF long, fails, p, g
<1>5. ASSUME NEW q \in DOMAIN h PROVE h[q].lost \subseteq g[q].lost
  BY <1>2, <1>3, <1>4
<1> QED
  BY <1>5 DEF LostStays, g

\* A deletion loses nothing and gives nothing back.
LEMMA DeleteKeepsLost ==
    ASSUME NEW h \in FitHeap, NEW rid, SlotIn(h, rid)
    PROVE  LostStays(h, DeleteRow(h, rid)) /\ DOMAIN DeleteRow(h, rid) = DOMAIN h
<1> DEFINE p == rid.page
           g == DeleteRow(h, rid)
<1>1. p \in DOMAIN h /\ g = [h EXCEPT ![p] = Deleted(h[p], rid.slot)]
  BY DEF SlotIn, DeleteRow
<1>2. h[p] \in FitPage
  BY <1>1 DEF FitHeap
<1>3. Deleted(h[p], rid.slot).lost = h[p].lost
  BY <1>2, SMTT(60) DEF Deleted, FitPage, Page
<1> HIDE DEF g
<1>4. DOMAIN g = DOMAIN h /\ \A q \in DOMAIN h : g[q].lost = h[q].lost
  BY <1>1, <1>3
<1> QED
  BY <1>4 DEF LostStays, g

\* An UPDATE gives back at most the row it writes.
LEMMA UpdateKeepsLost ==
    ASSUME NEW h \in FitHeap, NEW rid, SlotIn(h, rid), NEW row \in Row,
           NEW p \in DOMAIN h, NEW i \in h[p].lost, p # rid.page \/ i # rid.slot
    PROVE  i \in UpdateRow(h, rid, row).heap[p].lost
<1> DEFINE done == UpdateRow(h, rid, row)
           fails == Overflows(h[rid.page], row)
           page == Rewritten(h[rid.page], rid.slot, row)
           g == [h EXCEPT ![rid.page] = page]
<1>1. CASE UpdateMoves(h, rid, row)
  <2> DEFINE k == DeleteRow(h, rid)
  <2>1. done.heap = InsertRow(k, row).heap
    BY <1>1 DEF UpdateRow
  <2>2. k \in FitHeap
    BY DeleteRowFits
  <2>3. LostStays(h, k) /\ DOMAIN k = DOMAIN h
    BY DeleteKeepsLost
  <2> HIDE DEF k, done
  <2>4. LostStays(k, InsertRow(k, row).heap)
    BY <2>2, InsertKeepsLost
  <2> QED
    BY <2>1, <2>3, <2>4 DEF LostStays, done
<1>2. CASE ~ UpdateMoves(h, rid, row)
  <2>1. done.heap = IF fails THEN h ELSE g
    BY <1>2 DEF UpdateRow
  <2>2. h[rid.page].lost \ {rid.slot} \subseteq page.lost
    BY DEF Rewritten
  <2> HIDE DEF page, done, fails
  <2>3. i \in g[p].lost
    BY <2>2 DEF SlotIn
  <2> HIDE DEF g
  <2> QED
    BY <2>1, <2>3 DEF done
<1> QED
  BY <1>1, <1>2

\* After an UPDATE of one row every row is that one, or was there before.
LEMMA UpdateWrites ==
    ASSUME NEW h \in FitHeap, NEW rid, SlotIn(h, rid), NEW row \in Row,
           ~ UpdateRow(h, rid, row).failed,
           NEW r, LiveIn(UpdateRow(h, rid, row).heap, r),
           RowAt(UpdateRow(h, rid, row).heap, r) # row
    PROVE  /\ SlotIn(h, r) /\ (r.page # rid.page \/ r.slot # rid.slot)
           /\ RowAt(UpdateRow(h, rid, row).heap, r) = RowAt(h, r)
<1> DEFINE done == UpdateRow(h, rid, row)
           g == done.heap
<1>1. CASE UpdateMoves(h, rid, row)
  <2> DEFINE k == DeleteRow(h, rid)
             ins == InsertRow(k, row)
  <2>1. g = ins.heap /\ ~ ins.failed
    BY <1>1 DEF UpdateRow
  <2>2. k \in FitHeap /\ ~ LiveIn(k, rid)
    BY DeleteRowFits, DeleteStores
  <2> HIDE DEF k
  <2>3. OnlyNew(k, g, ins.rid) /\ RowAt(g, ins.rid) = row
    BY <2>1, <2>2, InsertRowStores
  <2> HIDE DEF ins, g
  <2>4. SlotIn(g, r) /\ RowAt(g, r) # NoRow /\ RowAt(g, r) # row
    BY DEF LiveIn, g
  <2>5. SlotIn(k, r)
    <3>1. SlotIn(k, r) \/ (r.page = ins.rid.page /\ r.slot = ins.rid.slot)
      BY <2>3, <2>4 DEF OnlyNew
    <3> QED
      BY <2>3, <2>4, <3>1 DEF RowAt
  <2>6. RowAt(g, r) = RowAt(k, r)
    BY <2>3, <2>5 DEF OnlyNew, RowsStay
  <2>7. r.page # rid.page \/ r.slot # rid.slot
    BY <2>2, <2>4, <2>5, <2>6 DEF LiveIn, SlotIn, RowAt
  <2>8. <<r.page, r.slot>> # <<rid.page, rid.slot>>
    BY <2>7
  <2>9. SlotIn(h, r) /\ RowAt(k, r) = RowAt(h, r)
    BY <2>5, <2>8, OthersStay DEF k
  <2> QED
    BY <2>6, <2>7, <2>9 DEF g
<1>2. CASE ~ UpdateMoves(h, rid, row)
  <2>1. InPlace(h, rid, row, g)
    BY <1>2 DEF UpdateRow, InPlace
  <2> HIDE DEF g
  <2>2. /\ SlotIn(g, r) <=> SlotIn(h, r)
        /\ RowAt(g, rid) = row
        /\ SlotIn(h, r) /\ (r.page # rid.page \/ r.slot # rid.slot) => RowAt(g, r) = RowAt(h, r)
    BY <2>1, RewrittenStores
  <2>3. SlotIn(g, r) /\ RowAt(g, r) # row
    BY DEF LiveIn, g
  <2>4. r.page # rid.page \/ r.slot # rid.slot
    BY <2>2, <2>3 DEF RowAt
  <2> QED
    BY <2>2, <2>3, <2>4 DEF g
<1> QED
  BY <1>1, <1>2

\* A row that is to have other values.
Unset(h, s, r) ==
    r \in Readable(h) /\ RowAt(h, r).key \in s.where /\ ~ HasValues(RowAt(h, r), s.set)

\* Such a row is in the copy of the scan's page, where the scan has still to look,
\* or on a later page; and what the scan takes for lost is.
StillAhead(h, s) ==
    s.kind = "update" =>
        /\ \A i \in s.scan.copy.lost : i \in DOMAIN s.scan.copy.slots => i \in h[s.scan.page].lost
        /\ \A r : Unset(h, s, r) =>
            \/ /\ r.page = s.scan.page
               /\ r.slot \in DOMAIN s.scan.copy.slots /\ r.slot >= s.scan.slot
            \/ r.page > s.scan.page /\ s.scan.more

\* The next row of the scan's page to be set is among those it will look at.
LEMMA ScanFinds ==
    ASSUME Counted, ScanIsCurrent(heap, stmt), StillAhead(heap, stmt), stmt.kind = "update",
           NEW r, Unset(heap, stmt, r), r.page = stmt.scan.page
    PROVE  r.slot \in Ahead
<1> DEFINE scan == stmt.scan
<1>1. heap \in FitHeap /\ stmt \in Statement /\ ScanFits(heap, scan)
  BY DEF Counted, StatementFits
<1>2. scan.page \in Nat
  <2>1. stmt \in [kind : {"update"}, where : Wheres, set : Sets, scan : Scan]
    BY <1>1, SMTT(60) DEF Statement
  <2> QED
    BY <2>1 DEF Scan
<1>3. r.slot \in DOMAIN scan.copy.slots /\ r.slot >= scan.slot
  <2>1. ~ (r.page > scan.page)
    BY <1>2
  <2> QED
    BY <2>1 DEF StillAhead
<1>4. r \in RowIds(heap) /\ r.slot \notin heap[scan.page].lost
  BY DEF Unset, Readable
<1>5. LiveIn(heap, r)
  BY <1>1, <1>4, RowIdsAre
<1>6. scan.copy.slots[r.slot].row = RowAt(heap, r)
  BY <1>3 DEF ScanIsCurrent, RowAt
<1>7. r.slot \in Live(scan.copy)
  BY <1>3, <1>5, <1>6 DEF Live, LiveIn
<1>8. r.slot \notin scan.copy.lost
  BY <1>3, <1>4 DEF StillAhead
<1>9. RowAt(heap, r).key \in stmt.where
  BY DEF Unset
<1> QED
  BY <1>3, <1>6, <1>7, <1>8, <1>9 DEF Ahead

\* A scan that takes up a page has the rows of the page ahead, and the later pages.
LEMMA TakenUpAhead ==
    ASSUME heap \in FitHeap, heap' = heap, NEW p \in DOMAIN heap, stmt'.scan = At(p),
           \A r : Unset(heap, stmt', r) => r.page >= p
    PROVE  StillAhead(heap', stmt')
<1>1. /\ stmt'.scan.page = p /\ stmt'.scan.copy = heap[p] /\ stmt'.scan.slot = 1
      /\ stmt'.scan.more = (p < Len(heap))
  <2>1. At(p).page = p /\ At(p).copy = heap[p] /\ At(p).slot = 1 /\ At(p).more = (p < Len(heap))
    BY ZenonT(60) DEF At
  <2> QED
    BY <2>1, Zenon
<1>2. Len(heap) \in Nat /\ DOMAIN heap = 1 .. Len(heap)
  BY DEF FitHeap
<1>3. ASSUME NEW r, Unset(heap, stmt', r)
      PROVE  \/ r.page = p /\ r.slot \in DOMAIN heap[p].slots /\ r.slot >= 1
             \/ r.page > p /\ p < Len(heap)
  <2>1. r \in RowId /\ LiveIn(heap, r)
    BY <1>3, RowIdsAre DEF Unset, Readable
  <2>2. r.page \in 1 .. Len(heap) /\ r.slot \in DOMAIN heap[r.page].slots /\ r.slot \in Nat \ {0}
    BY <1>2, <2>1 DEF LiveIn, SlotIn, RowId
  <2>3. r.page >= p
    BY <1>3
  <2> QED
    BY <1>2, <2>2, <2>3
<1> QED
  BY <1>1, <1>3 DEF StillAhead

\* One row of an UPDATE: the rows that were ahead still are, but for that one.
LEMMA UpdateStaysAhead ==
    ASSUME Counted, ScanIsCurrent(heap, stmt), StillAhead(heap, stmt), UpdateNext,
           stmt' # Idle
    PROVE  StillAhead(heap', stmt')
<1>1. heap \in FitHeap /\ stmt \in Statement /\ ScanFits(heap, stmt.scan) /\ stmt.kind = "update"
  BY DEF Counted, StatementFits, UpdateNext
<1>2. stmt \in [kind : {"update"}, where : Wheres, set : Sets, scan : Scan]
  BY <1>1, SMTT(60) DEF Statement
<1>3. PICK i \in Ahead, old \in Row, new \in Row :
        /\ UpdateFacts(i, old, new)
        /\ UpdateRid([page |-> stmt.scan.page, slot |-> i], old, new)
  BY UpdateStep
<1> DEFINE rid == [page |-> stmt.scan.page, slot |-> i]
           done == UpdateRow(heap, rid, new)
<1>4. /\ stmt' = [stmt EXCEPT !.scan.slot = rid.slot + 1]
      /\ heap' = done.heap /\ ~ done.failed
  BY <1>3, Zenon DEF UpdateRid, Proceed, End
<1>5. /\ stmt'.scan.page = stmt.scan.page /\ stmt'.scan.copy = stmt.scan.copy
      /\ stmt'.scan.slot = i + 1 /\ stmt'.scan.more = stmt.scan.more
      /\ stmt'.where = stmt.where /\ stmt'.set = stmt.set
  BY <1>2, <1>4, SMTT(60) DEF Scan
<1>6. SlotIn(heap, rid) /\ rid.page = stmt.scan.page /\ rid.slot = i
  BY <1>3 DEF UpdateFacts
<1>7. HasValues(new, stmt.set)
  BY <1>2, <1>3, AssignedHasValues DEF UpdateFacts
<1>8. i \in Nat /\ i \notin stmt.scan.copy.lost /\ \A j \in Ahead : i <= j
  BY <1>2, <1>3 DEF Ahead, Live, UpdateFacts, Scan, FitPage, Page
<1>9. stmt.scan.page \in DOMAIN heap
  BY <1>1 DEF ScanFits
<1> HIDE DEF done, rid
<1>10. \A p \in DOMAIN heap : \A j \in heap[p].lost :
         p # rid.page \/ j # rid.slot => j \in heap'[p].lost
  BY <1>1, <1>3, <1>4, <1>6, UpdateKeepsLost DEF done
<1>11. \A j \in stmt.scan.copy.lost :
         j \in DOMAIN stmt.scan.copy.slots => j \in heap'[stmt.scan.page].lost
  BY <1>1, <1>6, <1>8, <1>9, <1>10 DEF StillAhead
<1>12. heap' \in FitHeap
  BY <1>1, <1>3, <1>4, <1>6, UpdateRowFits DEF done
<1>13. ASSUME NEW r, Unset(heap', stmt', r)
       PROVE  \/ r.page = stmt.scan.page /\ r.slot \in DOMAIN stmt.scan.copy.slots /\ r.slot >= i + 1
              \/ r.page > stmt.scan.page /\ stmt.scan.more
  <2>1. r \in RowId /\ LiveIn(heap', r) /\ r.slot \notin heap'[r.page].lost
    BY <1>12, <1>13, RowIdsAre DEF Unset, Readable
  <2>2. RowAt(heap', r) # new
    BY <1>5, <1>7, <1>13 DEF Unset
  <2>3. SlotIn(heap, r) /\ (r.page # rid.page \/ r.slot # rid.slot) /\ RowAt(heap', r) = RowAt(heap, r)
    BY <1>1, <1>3, <1>4, <1>6, <2>1, <2>2, UpdateWrites DEF done
  <2>4. r.slot \notin heap[r.page].lost
    BY <1>10, <2>1, <2>3 DEF SlotIn
  <2>5. r \in RowIds(heap)
    BY <1>1, <2>1, <2>3, RowIdsAre DEF LiveIn
  <2>6. Unset(heap, stmt, r)
    BY <1>5, <1>13, <2>3, <2>4, <2>5 DEF Unset, Readable
  <2>7. CASE r.page = stmt.scan.page
    <3>1. r.slot \in Ahead
      BY <1>1, <2>6, <2>7, ScanFinds
    <3>2. r.slot \in DOMAIN stmt.scan.copy.slots /\ i <= r.slot /\ r.slot # i
      BY <1>6, <1>8, <2>3, <2>7, <3>1 DEF Ahead, Live
    <3>3. r.slot \in Nat
      BY <2>1 DEF RowId
    <3> QED
      BY <1>8, <2>7, <3>2, <3>3
  <2>8. CASE r.page # stmt.scan.page
    BY <1>1, <2>6, <2>8 DEF StillAhead
  <2> QED
    BY <2>7, <2>8
<1> QED
  BY <1>5, <1>11, <1>13 DEF StillAhead

\* Whatever comes next, the rows that are to be set are ahead of the scan.
LEMMA AheadGoesOn ==
    ASSUME Counted, ScanIsCurrent(heap, stmt), StillAhead(heap, stmt), [Next]_vars
    PROVE  StillAhead(heap', stmt')
<1>1. heap \in FitHeap /\ 1 \in DOMAIN heap /\ stmt \in Statement /\ StatementFits(heap, stmt)
  BY DEF Counted
<1>2. ASSUME stmt'.kind # "update" PROVE StillAhead(heap', stmt')
  BY <1>2 DEF StillAhead
<1>3. ASSUME stmt' = Idle PROVE StillAhead(heap', stmt')
  BY <1>2, <1>3 DEF Idle
<1>4. CASE UpdateNext
  BY <1>3, <1>4, UpdateStaysAhead
<1>5. CASE UpdateNextPage
  <2>1. /\ stmt.kind = "update" /\ Ahead = {} /\ stmt.scan.more
        /\ stmt' = [stmt EXCEPT !.scan = At(@.page + 1)] /\ heap' = heap
    BY <1>5 DEF UpdateNextPage
  <2>2. stmt \in [kind : {"update"}, where : Wheres, set : Sets, scan : Scan]
    BY <1>1, <2>1, SMTT(60) DEF Statement
  <2>3. /\ stmt'.scan = At(stmt.scan.page + 1)
        /\ stmt'.where = stmt.where /\ stmt'.set = stmt.set
    BY <2>1, <2>2
  <2>4. stmt.scan.page \in Nat /\ stmt.scan.page + 1 \in DOMAIN heap
    BY <1>1, <2>1, <2>2 DEF StatementFits, ScanFits, Scan
  <2>5. ASSUME NEW r, Unset(heap, stmt', r) PROVE r.page >= stmt.scan.page + 1
    <3>1. Unset(heap, stmt, r)
      BY <2>3, <2>5 DEF Unset
    <3>2. r.page # stmt.scan.page
      BY <2>1, <3>1, ScanFinds
    <3>3. r.page \in Nat
      BY <1>1, <3>1, RowIdsAre DEF Unset, Readable, RowId
    <3> QED
      BY <2>1, <2>4, <3>1, <3>2, <3>3 DEF StillAhead
  <2> QED
    BY <1>1, <2>1, <2>3, <2>4, <2>5, TakenUpAhead
<1>6. ASSUME NEW keys, NEW set, StartUpdate(keys, set) PROVE StillAhead(heap', stmt')
  <2>1. stmt' = [kind |-> "update", where |-> keys, set |-> set, scan |-> At(1)] /\ heap' = heap
    BY <1>6 DEF StartUpdate, Begin
  <2>2. stmt'.scan = At(1)
    BY <2>1
  <2>3. ASSUME NEW r, Unset(heap, stmt', r) PROVE r.page >= 1
    BY <1>1, <2>3, RowIdsAre DEF Unset, Readable, RowId
  <2> QED
    BY <1>1, <2>1, <2>2, <2>3, TakenUpAhead
<1>7. ASSUME InsertNext PROVE StillAhead(heap', stmt')
  <2>1. stmt.kind = "insert" /\ (stmt' = Idle \/ stmt' = [stmt EXCEPT !.rest = Tail(@)])
    BY <1>7, Zenon DEF InsertNext, Proceed, End
  <2>2. stmt \in [kind : {"insert"}, rest : Seq(Row)]
    BY <1>1, <2>1 DEF Statement
  <2>3. stmt'.kind = "idle" \/ stmt'.kind = "insert"
    BY <2>1, <2>2 DEF Idle
  <2> QED
    BY <1>2, <2>3
<1>8. ASSUME DeleteNext PROVE StillAhead(heap', stmt')
  <2>1. stmt.kind = "delete" /\ \E rid \in stmt.rest : stmt' = [stmt EXCEPT !.rest = @ \ {rid}]
    BY <1>8 DEF DeleteNext
  <2>2. stmt \in [kind : {"delete"}, rest : SUBSET [page : Nat, slot : Nat]]
    BY <1>1, <2>1 DEF Statement
  <2>3. stmt'.kind = "delete"
    BY <2>1, <2>2
  <2> QED
    BY <1>2, <2>3
<1>9. ASSUME NEW keys, StartDelete(keys) PROVE StillAhead(heap', stmt')
  <2>1. stmt'.kind = "delete"
    BY <1>9 DEF StartDelete, Begin
  <2> QED
    BY <1>2, <2>1
<1>10. ASSUME NEW rows, StartInsert(rows) PROVE StillAhead(heap', stmt')
  <2>1. stmt'.kind = "insert"
    BY <1>10 DEF StartInsert, Begin
  <2> QED
    BY <1>2, <2>1
<1>11. CASE Done \/ CreateIndex \/ DropIndex \/ UNCHANGED vars
  <2>1. stmt' = Idle \/ (stmt' = stmt /\ heap' = heap)
    BY <1>11, ZenonT(60) DEF Done, End, CreateIndex, DropIndex, vars
  <2> QED
    BY <1>3, <2>1
<1> QED
  BY <1>4, <1>5, <1>6, <1>7, <1>8, <1>9, <1>10, <1>11, SMTT(60) DEF Next

\* UPDATE writes to the table that it is still scanning: it replaces rows in the
\* page it holds a copy of, and moves rows to later pages and to pages it adds.
\* Whatever it writes, over other rows too, its scan has come by every row that it
\* is for when it ends (DmlOperator._execute_update, Table.scan).
THEOREM UpdatesReachAll == Spec => []UpdateReachesAll
<1> DEFINE Inv == Counted /\ ScanIsCurrent(heap, stmt) /\ StillAhead(heap, stmt)
<1>1. Init => ScanIsCurrent(heap, stmt) /\ StillAhead(heap, stmt)
  BY DEF Init, Idle, ScanIsCurrent, StillAhead
<1>2. Counted /\ ScanIsCurrent(heap, stmt) /\ StillAhead(heap, stmt) /\ [Next]_vars
        => ScanIsCurrent(heap, stmt)' /\ StillAhead(heap, stmt)'
  BY ScanGoesOn, AheadGoesOn
<1>3. Inv => UpdateReachesAll
  <2> SUFFICES ASSUME Inv, stmt.kind = "update", Ahead = {}, ~ stmt.scan.more,
                      NEW r, Unset(heap, stmt, r)
               PROVE  FALSE
    BY DEF UpdateReachesAll, Unset
  <2>1. r.page # stmt.scan.page
    BY ScanFinds
  <2> QED
    BY <2>1 DEF StillAhead
<1> QED
  BY <1>1, <1>2, <1>3, CountedHolds, PTL DEF Spec
-----------------------------------------------------------------------------
(* The rows of the table.                                                  *)

\* What is stored, and what a scan reads if nothing is overwritten.
StoredRows(h) == {RowAt(h, rid) : rid \in RowIds(h)}

\* No two rows have a key in common, none but those at the addresses has this key.
KeysDiffer(h) == \A p, q \in RowIds(h) : RowAt(h, p).key = RowAt(h, q).key => p = q
KeyIsFree(h, key, except) == \A p \in RowIds(h) \ except : RowAt(h, p).key # key

\* The rows of h are those of g, at their addresses.
SameRows(h, g) == RowIds(g) = RowIds(h) /\ \A r \in RowIds(h) : RowAt(g, r) = RowAt(h, r)

\* A row more, at a new address; a row less; another row at the address.
RowAdded(h, g, rid, row) ==
    /\ rid \notin RowIds(h) /\ RowIds(g) = RowIds(h) \cup {rid} /\ RowAt(g, rid) = row
    /\ \A r \in RowIds(h) : RowAt(g, r) = RowAt(h, r)
RowRemoved(h, g, rid) ==
    /\ rid \in RowIds(h) /\ RowIds(g) = RowIds(h) \ {rid}
    /\ \A r \in RowIds(g) : RowAt(g, r) = RowAt(h, r)
RowReplaced(h, g, rid, row) ==
    /\ rid \in RowIds(h) /\ RowIds(g) = RowIds(h) /\ RowAt(g, rid) = row
    /\ \A r \in RowIds(h) \ {rid} : RowAt(g, r) = RowAt(h, r)

\* The same rows are the same set.
LEMMA SameIsSame ==
    ASSUME NEW h, NEW g, SameRows(h, g)
    PROVE  StoredRows(g) = StoredRows(h) /\ (KeysDiffer(h) => KeysDiffer(g))
BY DEF SameRows, StoredRows, KeysDiffer

\* A row with a new key is one more.
LEMMA AddedIsMore ==
    ASSUME NEW h, NEW g, NEW rid, NEW row, RowAdded(h, g, rid, row),
           KeysDiffer(h), KeyIsFree(h, row.key, {})
    PROVE  StoredRows(g) = StoredRows(h) \cup {row} /\ KeysDiffer(g)
<1>1. ASSUME NEW x PROVE x \in StoredRows(g) <=> x \in StoredRows(h) \cup {row}
  BY DEF RowAdded, StoredRows
<1>2. ASSUME NEW p \in RowIds(g), NEW q \in RowIds(g), RowAt(g, p).key = RowAt(g, q).key
      PROVE  p = q
  <2>1. CASE p = rid /\ q = rid
    BY <2>1
  <2>2. CASE p # rid /\ q = rid
    <3>1. p \in RowIds(h) /\ RowAt(h, p).key = row.key
      BY <1>2, <2>2 DEF RowAdded
    <3> QED
      BY <3>1 DEF KeyIsFree
  <2>3. CASE p = rid /\ q # rid
    <3>1. q \in RowIds(h) /\ RowAt(h, q).key = row.key
      BY <1>2, <2>3 DEF RowAdded
    <3> QED
      BY <3>1 DEF KeyIsFree
  <2>4. CASE p # rid /\ q # rid
    <3>1. p \in RowIds(h) /\ q \in RowIds(h) /\ RowAt(h, p).key = RowAt(h, q).key
      BY <1>2, <2>4 DEF RowAdded
    <3> QED
      BY <3>1 DEF KeysDiffer
  <2> QED
    BY <2>1, <2>2, <2>3, <2>4
<1> QED
  BY <1>1, <1>2 DEF KeysDiffer

\* Where keys differ, a deleted row is one less.
LEMMA RemovedIsLess ==
    ASSUME NEW h, NEW g, NEW rid, RowRemoved(h, g, rid), KeysDiffer(h)
    PROVE  /\ StoredRows(g) = StoredRows(h) \ {RowAt(h, rid)}
           /\ KeysDiffer(g)
           /\ \A key : KeyIsFree(h, key, {rid}) => KeyIsFree(g, key, {})
<1>1. ASSUME NEW x PROVE x \in StoredRows(g) <=> x \in StoredRows(h) \ {RowAt(h, rid)}
  <2>1. ASSUME x \in StoredRows(g) PROVE x \in StoredRows(h) \ {RowAt(h, rid)}
    <3>1. PICK r \in RowIds(g) : x = RowAt(g, r)
      BY <2>1 DEF StoredRows
    <3>2. r \in RowIds(h) /\ r # rid /\ x = RowAt(h, r)
      BY <3>1 DEF RowRemoved
    <3>3. x # RowAt(h, rid)
      BY <3>2 DEF KeysDiffer, RowRemoved
    <3> QED
      BY <3>2, <3>3 DEF StoredRows
  <2>2. ASSUME x \in StoredRows(h) \ {RowAt(h, rid)} PROVE x \in StoredRows(g)
    <3>1. PICK r \in RowIds(h) : x = RowAt(h, r)
      BY <2>2 DEF StoredRows
    <3>2. r \in RowIds(g) /\ x = RowAt(g, r)
      BY <2>2, <3>1 DEF RowRemoved
    <3> QED
      BY <3>2 DEF StoredRows
  <2> QED
    BY <2>1, <2>2
<1>2. KeysDiffer(g)
  BY DEF KeysDiffer, RowRemoved
<1>3. \A key : KeyIsFree(h, key, {rid}) => KeyIsFree(g, key, {})
  BY DEF KeyIsFree, RowRemoved
<1> QED
  BY <1>1, <1>2, <1>3

\* A row whose key no other row has takes the place of one.
LEMMA ReplacedIsOther ==
    ASSUME NEW h, NEW g, NEW rid, NEW row, RowReplaced(h, g, rid, row),
           KeysDiffer(h), KeyIsFree(h, row.key, {rid})
    PROVE  StoredRows(g) = (StoredRows(h) \ {RowAt(h, rid)}) \cup {row} /\ KeysDiffer(g)
<1>1. ASSUME NEW x PROVE x \in StoredRows(g) <=> x \in (StoredRows(h) \ {RowAt(h, rid)}) \cup {row}
  <2>1. ASSUME x \in StoredRows(g) PROVE x \in (StoredRows(h) \ {RowAt(h, rid)}) \cup {row}
    <3>1. PICK r \in RowIds(g) : x = RowAt(g, r)
      BY <2>1 DEF StoredRows
    <3>2. CASE r = rid
      BY <3>1, <3>2 DEF RowReplaced
    <3>3. CASE r # rid
      <4>1. r \in RowIds(h) /\ x = RowAt(h, r)
        BY <3>1, <3>3 DEF RowReplaced
      <4>2. x # RowAt(h, rid)
        BY <3>3, <4>1 DEF KeysDiffer, RowReplaced
      <4> QED
        BY <4>1, <4>2 DEF StoredRows
    <3> QED
      BY <3>2, <3>3
  <2>2. ASSUME x \in StoredRows(h) \ {RowAt(h, rid)} PROVE x \in StoredRows(g)
    <3>1. PICK r \in RowIds(h) : x = RowAt(h, r)
      BY <2>2 DEF StoredRows
    <3>2. r \in RowIds(g) /\ x = RowAt(g, r)
      BY <2>2, <3>1 DEF RowReplaced
    <3> QED
      BY <3>2 DEF StoredRows
  <2>3. row \in StoredRows(g)
    BY DEF RowReplaced, StoredRows
  <2> QED
    BY <2>1, <2>2, <2>3
<1>2. ASSUME NEW p \in RowIds(g), NEW q \in RowIds(g), RowAt(g, p).key = RowAt(g, q).key
      PROVE  p = q
  <2>1. CASE p = rid /\ q = rid
    BY <2>1
  <2>2. CASE p # rid /\ q = rid
    <3>1. p \in RowIds(h) \ {rid} /\ RowAt(h, p).key = row.key
      BY <1>2, <2>2 DEF RowReplaced
    <3> QED
      BY <3>1 DEF KeyIsFree
  <2>3. CASE p = rid /\ q # rid
    <3>1. q \in RowIds(h) \ {rid} /\ RowAt(h, q).key = row.key
      BY <1>2, <2>3 DEF RowReplaced
    <3> QED
      BY <3>1 DEF KeyIsFree
  <2>4. CASE p # rid /\ q # rid
    <3>1. p \in RowIds(h) /\ q \in RowIds(h) /\ RowAt(h, p).key = RowAt(h, q).key
      BY <1>2, <2>4 DEF RowReplaced
    <3> QED
      BY <3>1 DEF KeysDiffer
  <2> QED
    BY <2>1, <2>2, <2>3, <2>4
<1> QED
  BY <1>1, <1>2 DEF KeysDiffer

\* Addresses are told apart by page and slot.
LEMMA AddressIs ==
    \A a, b \in RowId : a.page = b.page /\ a.slot = b.slot => a = b
BY DEF RowId

\* INSERT adds its row, if it does not fail.
LEMMA InsertAdds ==
    ASSUME NEW h \in FitHeap, NEW row \in Row
    PROVE  LET done == InsertRow(h, row)
           IN  /\ done.failed => SameRows(h, done.heap)
               /\ ~ done.failed => RowAdded(h, done.heap, done.rid, row)
<1> DEFINE done == InsertRow(h, row)
<1>1. /\ RowsStay(h, done.heap)
      /\ done.failed => \A r : SlotIn(done.heap, r) => SlotIn(h, r)
      /\ ~ done.failed => OnlyNew(h, done.heap, done.rid) /\ RowAt(done.heap, done.rid) = row
      /\ done.rid \in RowId /\ done.heap \in FitHeap
  BY InsertRowStores, AddressOfRow, InsertRowFits
<1> HIDE DEF done
<1>2. ASSUME NEW r
      PROVE  /\ r \in RowIds(h) <=> r \in RowId /\ LiveIn(h, r)
             /\ r \in RowIds(done.heap) <=> r \in RowId /\ LiveIn(done.heap, r)
  BY <1>1, RowIdsAre
<1>3. ASSUME done.failed PROVE SameRows(h, done.heap)
  <2>1. ASSUME NEW r PROVE LiveIn(done.heap, r) <=> LiveIn(h, r)
    BY <1>1, <1>3 DEF LiveIn, RowsStay
  <2>2. ASSUME NEW r, LiveIn(h, r) PROVE RowAt(done.heap, r) = RowAt(h, r)
    BY <1>1, <2>2 DEF LiveIn, RowsStay
  <2>3. RowIds(done.heap) = RowIds(h)
    BY <1>2, <2>1
  <2> QED
    BY <1>2, <2>2, <2>3 DEF SameRows
<1>4. ASSUME ~ done.failed PROVE RowAdded(h, done.heap, done.rid, row)
  <2>1. row # NoRow
    BY NoRowIsNoRow
  <2>2. ASSUME NEW r \in RowId
        PROVE  /\ LiveIn(done.heap, r) <=> LiveIn(h, r) \/ r = done.rid
               /\ LiveIn(h, r) => RowAt(done.heap, r) = RowAt(h, r) /\ r # done.rid
    <3>1. SlotIn(h, r) => RowAt(done.heap, r) = RowAt(h, r) /\ r # done.rid /\ SlotIn(done.heap, r)
      BY <1>1, <1>4 DEF RowsStay, OnlyNew
    <3>2. SlotIn(done.heap, r) => SlotIn(h, r) \/ r = done.rid
      BY <1>1, <1>4, AddressIs DEF OnlyNew
    <3>3. LiveIn(done.heap, done.rid)
      BY <1>1, <1>4, <2>1 DEF OnlyNew, LiveIn
    <3> QED
      BY <3>1, <3>2, <3>3 DEF LiveIn
  <2>3. RowIds(done.heap) = RowIds(h) \cup {done.rid}
    BY <1>1, <1>2, <2>2
  <2>4. done.rid \notin RowIds(h) /\ \A r \in RowIds(h) : RowAt(done.heap, r) = RowAt(h, r)
    BY <1>1, <1>2, <2>2
  <2> QED
    BY <1>1, <1>4, <2>3, <2>4 DEF RowAdded
<1> QED
  BY <1>3, <1>4 DEF done

\* DELETE removes the row at its address.
LEMMA DeleteRemoves ==
    ASSUME NEW h \in FitHeap, NEW rid \in RowIds(h)
    PROVE  RowRemoved(h, DeleteRow(h, rid), rid)
<1> DEFINE g == DeleteRow(h, rid)
<1>1. rid \in RowId /\ SlotIn(h, rid) /\ g \in FitHeap /\ ~ LiveIn(g, rid)
  BY RowIdsAre, DeleteRowFits, DeleteStores DEF LiveIn
<1>2. ASSUME NEW r \in RowId, r # rid
      PROVE  (LiveIn(g, r) <=> LiveIn(h, r)) /\ (LiveIn(h, r) => RowAt(g, r) = RowAt(h, r))
  <2>1. <<r.page, r.slot>> # <<rid.page, rid.slot>>
    BY <1>1, <1>2, AddressIs
  <2>2. (SlotIn(g, r) <=> SlotIn(h, r)) /\ (SlotIn(h, r) => RowAt(g, r) = RowAt(h, r))
    BY <1>1, <2>1, OthersStay
  <2> HIDE DEF g
  <2> QED
    BY <2>2 DEF LiveIn
<1> HIDE DEF g
<1>3. ASSUME NEW r
      PROVE  /\ r \in RowIds(h) <=> r \in RowId /\ LiveIn(h, r)
             /\ r \in RowIds(g) <=> r \in RowId /\ LiveIn(g, r)
  BY <1>1, RowIdsAre
<1>4. RowIds(g) = RowIds(h) \ {rid}
  BY <1>1, <1>2, <1>3
<1>5. \A r \in RowIds(g) : RowAt(g, r) = RowAt(h, r)
  BY <1>2, <1>3, <1>4
<1> QED
  BY <1>4, <1>5 DEF RowRemoved, g

\* UPDATE in place replaces the row at its address.
LEMMA RewriteReplaces ==
    ASSUME NEW h \in FitHeap, NEW rid \in RowIds(h), NEW row \in Row,
           NEW g \in FitHeap, InPlace(h, rid, row, g)
    PROVE  RowReplaced(h, g, rid, row)
<1>1. rid \in RowId /\ SlotIn(h, rid)
  BY RowIdsAre DEF LiveIn
<1>2. /\ \A r : SlotIn(g, r) <=> SlotIn(h, r)
      /\ RowAt(g, rid) = row
      /\ \A r : SlotIn(h, r) /\ (r.page # rid.page \/ r.slot # rid.slot)
                  => RowAt(g, r) = RowAt(h, r)
  BY <1>1, RewrittenStores
<1>3. row # NoRow
  BY NoRowIsNoRow
<1>4. ASSUME NEW r
      PROVE  /\ r \in RowIds(h) <=> r \in RowId /\ LiveIn(h, r)
             /\ r \in RowIds(g) <=> r \in RowId /\ LiveIn(g, r)
  BY RowIdsAre
<1>5. ASSUME NEW r \in RowId, r # rid, SlotIn(h, r) PROVE RowAt(g, r) = RowAt(h, r)
  BY <1>1, <1>2, <1>5, AddressIs
<1>6. ASSUME NEW r \in RowId PROVE LiveIn(g, r) <=> LiveIn(h, r)
  <2>1. CASE r = rid
    BY <1>1, <1>2, <1>3, <1>4, <2>1 DEF LiveIn
  <2>2. CASE r # rid
    BY <1>2, <1>5, <2>2 DEF LiveIn
  <2> QED
    BY <2>1, <2>2
<1>7. RowIds(g) = RowIds(h)
  BY <1>4, <1>6
<1>8. \A r \in RowIds(h) \ {rid} : RowAt(g, r) = RowAt(h, r)
  BY <1>4, <1>5 DEF LiveIn
<1> QED
  BY <1>2, <1>7, <1>8 DEF RowReplaced

-----------------------------------------------------------------------------
(* The index and the table.                                                *)

\* The entries of the tree are the rows of the table, by key and address.
Listed(h, nodes) ==
    \A k, p : HasEntry(nodes, k, p) <=> p \in RowIds(h) /\ RowAt(h, p).key = k

Searchable(tree) == \E g, R : SearchTree(tree, g, R)
Matches(h, tree) == Searchable(tree) /\ Listed(h, tree.nodes)

\* A row is written, and indexed if that did not fail.
LEMMA InsertMatches ==
    ASSUME KeysAreEstimated,
           NEW h \in FitHeap, NEW row \in Row, NEW tree, Matches(h, tree), ~ HasKey(tree.nodes, row.key)
    PROVE  LET done == InsertRow(h, row)
           IN  /\ done.failed => Matches(done.heap, tree)
               /\ ~ done.failed => Matches(done.heap, InsertKey(tree, row.key, done.rid))
<1> DEFINE done == InsertRow(h, row)
           new == InsertKey(tree, row.key, done.rid)
<1>1. /\ done.failed => SameRows(h, done.heap)
      /\ ~ done.failed => RowAdded(h, done.heap, done.rid, row)
      /\ done.rid \in RowId
  BY InsertAdds, AddressOfRow
<1>2. Listed(h, tree.nodes)
  BY DEF Matches
<1>3. PICK g, R : SearchTree(tree, g, R)
  BY DEF Matches, Searchable
<1>4. row.key \in Key
  BY RowsHaveKeys
<1>5. (\E f, Q : SearchTree(new, f, Q)) /\ Added(tree.nodes, new.nodes, row.key, done.rid)
  <2> HIDE DEF done
  <2> QED
    BY <1>1, <1>3, <1>4, InsertHolds
<1> HIDE DEF done, new
<1>6. ASSUME done.failed PROVE Matches(done.heap, tree)
  BY <1>1, <1>2, <1>6 DEF Matches, Listed, SameRows
<1>7. ASSUME ~ done.failed PROVE Matches(done.heap, new)
  <2>1. ASSUME NEW k, NEW p
        PROVE  HasEntry(new.nodes, k, p) <=> p \in RowIds(done.heap) /\ RowAt(done.heap, p).key = k
    <3>1. HasEntry(new.nodes, k, p) <=> HasEntry(tree.nodes, k, p) \/ (k = row.key /\ p = done.rid)
      BY <1>5 DEF Added
    <3>2. HasEntry(tree.nodes, k, p) <=> p \in RowIds(h) /\ RowAt(h, p).key = k
      BY <1>2 DEF Listed
    <3> QED
      BY <1>1, <1>7, <3>1, <3>2 DEF RowAdded
  <2>2. Listed(done.heap, new.nodes)
    BY <2>1 DEF Listed
  <2> QED
    BY <1>5, <2>2 DEF Matches, Searchable
<1> QED
  BY <1>6, <1>7 DEF done, new

\* A row is deleted, and its entry.
LEMMA DeleteMatches ==
    ASSUME NEW h \in FitHeap, NEW tree, Matches(h, tree), NEW rid \in RowIds(h)
    PROVE  Matches(DeleteRow(h, rid), DeleteKey(tree, RowAt(h, rid).key, rid))
<1> DEFINE g == DeleteRow(h, rid)
           key == RowAt(h, rid).key
           new == DeleteKey(tree, key, rid)
<1>1. RowRemoved(h, g, rid)
  BY DeleteRemoves
<1>2. key \in Int
  <2>1. RowAt(h, rid) \in Row
    BY RowIdsAre, RowsAre
  <2> QED
    BY <2>1, RowsHaveKeys, KeysAreOrdered
<1>3. PICK f, R : SearchTree(tree, f, R)
  BY DEF Matches, Searchable
<1>4. SearchTree(new, f, R) /\ Removed(tree.nodes, new.nodes, key, rid)
  <2> HIDE DEF key
  <2> QED
    BY <1>2, <1>3, DeleteHolds
<1>5. Listed(h, tree.nodes)
  BY DEF Matches
<1> HIDE DEF g, new
<1>6. ASSUME NEW k, NEW p
      PROVE  HasEntry(new.nodes, k, p) <=> p \in RowIds(g) /\ RowAt(g, p).key = k
  <2>1. HasEntry(new.nodes, k, p) <=> HasEntry(tree.nodes, k, p) /\ ~ (k = key /\ p = rid)
    BY <1>4 DEF Removed
  <2>2. HasEntry(tree.nodes, k, p) <=> p \in RowIds(h) /\ RowAt(h, p).key = k
    BY <1>5 DEF Listed
  <2> QED
    BY <1>1, <2>1, <2>2 DEF RowRemoved
<1>7. Listed(g, new.nodes)
  BY <1>6 DEF Listed
<1> QED
  BY <1>4, <1>7 DEF Matches, Searchable, g, new

\* A row is rewritten in place; its entry moves if its key changes.
LEMMA UpdateMatches ==
    ASSUME KeysAreEstimated,
           NEW h \in FitHeap, NEW tree, Matches(h, tree), NEW rid, NEW new \in Row,
           new.key = RowAt(h, rid).key \/ ~ HasKey(tree.nodes, new.key),
           NEW g, RowReplaced(h, g, rid, new)
    PROVE  Matches(g,
                   IF new.key = RowAt(h, rid).key THEN tree
                   ELSE InsertKey(DeleteKey(tree, RowAt(h, rid).key, rid), new.key, rid))
<1> DEFINE old == RowAt(h, rid)
           without == DeleteKey(tree, old.key, rid)
           next == InsertKey(without, new.key, rid)
<1>1. rid \in RowId /\ rid \in RowIds(h) /\ old \in Row
  BY RowIdsAre, RowsAre DEF RowReplaced
<1>2. old.key \in Int /\ new.key \in Key
  <2> HIDE DEF old
  <2> QED
    BY <1>1, RowsHaveKeys, KeysAreOrdered
<1>3. PICK f, R : SearchTree(tree, f, R)
  BY DEF Matches, Searchable
<1>4. Listed(h, tree.nodes)
  BY DEF Matches
<1>5. CASE new.key = old.key
  <2>1. ASSUME NEW k, NEW p
        PROVE  HasEntry(tree.nodes, k, p) <=> p \in RowIds(g) /\ RowAt(g, p).key = k
    <3>1. HasEntry(tree.nodes, k, p) <=> p \in RowIds(h) /\ RowAt(h, p).key = k
      BY <1>4 DEF Listed
    <3> QED
      BY <1>5, <3>1 DEF RowReplaced
  <2>2. Matches(g, tree)
    BY <2>1 DEF Matches, Listed
  <2> QED
    BY <1>5, <2>2
<1>6. CASE new.key # old.key
  <2>1. SearchTree(without, f, R) /\ Removed(tree.nodes, without.nodes, old.key, rid)
    <3> HIDE DEF old
    <3> QED
      BY <1>2, <1>3, DeleteHolds
  <2>2. ~ HasKey(without.nodes, new.key)
    BY <1>6, <2>1 DEF Removed
  <2> HIDE DEF without
  <2>3. (\E b, Q : SearchTree(next, b, Q)) /\ Added(without.nodes, next.nodes, new.key, rid)
    BY <1>1, <1>2, <2>1, <2>2, InsertHolds
  <2> HIDE DEF next, old
  <2>4. ASSUME NEW k, NEW p
        PROVE  HasEntry(next.nodes, k, p) <=> p \in RowIds(g) /\ RowAt(g, p).key = k
    <3>1. HasEntry(tree.nodes, k, p) <=> p \in RowIds(h) /\ RowAt(h, p).key = k
      BY <1>4 DEF Listed
    <3>2. HasEntry(without.nodes, k, p) <=> HasEntry(tree.nodes, k, p) /\ ~ (k = old.key /\ p = rid)
      BY <2>1 DEF Removed
    <3>3. HasEntry(next.nodes, k, p) <=> HasEntry(without.nodes, k, p) \/ (k = new.key /\ p = rid)
      BY <2>3 DEF Added
    <3>4. CASE p = rid
      <4>1. HasEntry(tree.nodes, k, p) => k = old.key
        BY <3>1, <3>4 DEF old
      <4>2. HasEntry(next.nodes, k, p) <=> k = new.key
        BY <3>2, <3>3, <3>4, <4>1
      <4> QED
        BY <3>4, <4>2 DEF RowReplaced
    <3>5. CASE p # rid
      BY <3>1, <3>2, <3>3, <3>5 DEF RowReplaced
    <3> QED
      BY <3>4, <3>5
  <2>5. Matches(g, next)
    BY <2>3, <2>4 DEF Matches, Listed, Searchable
  <2> QED
    BY <1>6, <2>5 DEF next, without, old
<1> QED
  BY <1>5, <1>6

\* A row that fits into an empty page is inserted, where no row has been updated.
LEMMA InsertRowSucceeds ==
    ASSUME NEW h \in FitHeap, NeatHeap(h), RoomyHeap(h), NEW row \in Row,
           row.len + SlotSize <= PageSize - HeaderSize
    PROVE  ~ InsertRow(h, row).failed
<1> DEFINE p == Spot(h, row)
           long == Extended(h, p)
<1>1. InsertRow(h, row).failed = (~ HasSpace(long[p], row) \/ Overflows(long[p], row))
  BY DEF InsertRow
<1>2. Len(h) \in Nat /\ DOMAIN h = 1 .. Len(h)
  BY DEF FitHeap
<1>3. row.len \in Nat /\ SlotSize \in Nat /\ HeaderSize \in Nat /\ PageSize \in Nat
  BY RowLength, SizesArePositive
<1>4. CASE p \in DOMAIN h /\ HasSpace(h[p], row)
  <2>1. ~ (p > Len(h))
    BY <1>2, <1>4
  <2>2. long[p] = h[p]
    BY <2>1 DEF Extended
  <2>3. h[p] \in FitPage /\ Neat(h[p]) /\ Roomy(h[p])
    BY <1>4 DEF FitHeap, NeatHeap, RoomyHeap
  <2> DEFINE page == h[p]
             e == Entry(Len(page.slots) + 1)
  <2>4. page.top \in Int /\ page.space \in Int /\ e \in Nat
    BY <2>3, SoundParts DEF FitPage, Neat
  <2>5. page.space <= page.top - e
    BY <2>3 DEF Roomy, Gap
  <2>6. row.len + SlotSize <= page.space
    BY <1>4 DEF HasSpace
  <2> HIDE DEF page, e
  <2>7. ~ (page.top < row.len)
    BY <1>3, <2>4, <2>5, <2>6
  <2> QED
    BY <1>1, <1>4, <2>2, <2>7 DEF Overflows, page
<1>5. CASE p = Len(h) + 1
  <2>1. p > Len(h)
    BY <1>2, <1>5
  <2>2. long = Append(h, EmptyPage)
    BY <2>1 DEF Extended
  <2>3. long[p] = EmptyPage
    BY <1>2, <1>5, <2>2
  <2>4. EmptyPage.space = PageSize - HeaderSize /\ EmptyPage.top = PageSize
    BY DEF EmptyPage
  <2>5. HasSpace(EmptyPage, row) /\ ~ Overflows(EmptyPage, row)
    BY <1>3, <2>4 DEF HasSpace, Overflows
  <2> QED
    BY <1>1, <2>3, <2>5
<1> QED
  BY <1>4, <1>5, SpotIsFirst

\* The rows that are loaded, each with its entry.
LoadedSoFar(db, n) ==
    /\ db.heap \in FitHeap /\ NeatHeap(db.heap) /\ RoomyHeap(db.heap)
    /\ Matches(db.heap, db.tree) /\ KeysDiffer(db.heap)
    /\ \A k : HasKey(db.tree.nodes, k) => \E j \in 1 .. n : Loaded[j].key = k

\* An empty tree lists the rows of a heap that holds none.
LEMMA EmptyMatches ==
    ASSUME NEW h, RowIds(h) = {}
    PROVE  Matches(h, EmptyTree)
<1>1. ASSUME NEW k, NEW p
      PROVE  HasEntry(EmptyTree.nodes, k, p) <=> p \in RowIds(h) /\ RowAt(h, p).key = k
  BY EmptyHolds
<1>2. Searchable(EmptyTree)
  BY EmptyHolds DEF Searchable
<1> QED
  BY <1>1, <1>2 DEF Matches, Listed

\* Once the rows of Loaded are inserted, the tree lists them, and keys differ.
LEMMA LoadedMatches ==
    ASSUME KeysAreEstimated
    PROVE  Matches(AfterLoading.heap, AfterLoading.tree) /\ KeysDiffer(AfterLoading.heap)
<1> DEFINE Db == [heap : FitHeap, tree : [root : Nat, nodes : Trees]]
           G == [n \in Nat |-> {db \in Db : LoadedSoFar(db, n)}]
           l == Len(Loaded)
<1>1. /\ l \in Nat /\ DOMAIN Loaded = 1 .. l
      /\ \A n \in 1 .. l : Loaded[n] \in Row
  BY InputsAreRows
<1>2. [heap |-> EmptyHeap, tree |-> EmptyTree] \in G[0]
  <2> DEFINE db == [heap |-> EmptyHeap, tree |-> EmptyTree]
  <2>1. EmptyHeap \in FitHeap /\ Len(EmptyHeap) = 1 /\ EmptyHeap[1] = EmptyPage
    BY EmptyPageFits DEF EmptyHeap, FitHeap
  <2>2. EmptyTree \in [root : Nat, nodes : Trees]
    BY EmptyIsTree, IndexType DEF AnIndex
  <2>3. NeatHeap(EmptyHeap) /\ RoomyHeap(EmptyHeap)
    BY <2>1, EmptyPageSound DEF NeatHeap, RoomyHeap, FitHeap
  <2>4. RowIds(EmptyHeap) = {}
    <3> SUFFICES ASSUME NEW r \in RowIds(EmptyHeap) PROVE FALSE
      OBVIOUS
    <3>1. SlotIn(EmptyHeap, r)
      BY <2>1, RowIdsAre DEF LiveIn
    <3>2. EmptyPage.slots = <<>>
      BY DEF EmptyPage
    <3>3. r.page = 1 /\ r.slot \in DOMAIN EmptyPage.slots
      BY <2>1, <3>1 DEF SlotIn, FitHeap
    <3> QED
      BY <3>2, <3>3
  <2>5. Matches(EmptyHeap, EmptyTree) /\ KeysDiffer(EmptyHeap)
    BY <2>4, EmptyMatches DEF KeysDiffer
  <2>6. \A k : ~ HasKey(EmptyTree.nodes, k)
    BY EmptyHolds
  <2> HIDE DEF EmptyHeap, EmptyTree
  <2>7. LoadedSoFar(db, 0) /\ db \in Db
    BY <2>1, <2>2, <2>3, <2>5, <2>6 DEF LoadedSoFar
  <2> HIDE DEF db, Db
  <2> QED
    BY <2>7 DEF db
<1>3. ASSUME NEW n \in Nat, n < l, NEW db \in G[n] PROVE WithRow(db, Loaded[n + 1]) \in G[n + 1]
  <2> DEFINE row == Loaded[n + 1]
             done == InsertRow(db.heap, row)
             tree == InsertKey(db.tree, row.key, done.rid)
             next == [heap |-> done.heap, tree |-> tree]
  <2>1. LoadedSoFar(db, n)
    OBVIOUS
  <2>2. /\ db.heap \in FitHeap /\ NeatHeap(db.heap) /\ RoomyHeap(db.heap)
        /\ Matches(db.heap, db.tree) /\ KeysDiffer(db.heap)
        /\ \A k : HasKey(db.tree.nodes, k) => \E j \in 1 .. n : Loaded[j].key = k
    BY <2>1, Zenon DEF LoadedSoFar
  <2>3. n + 1 \in 1 .. l /\ \A j \in 1 .. n : j \in 1 .. l /\ j # n + 1
    BY <1>1, <1>3
  <2>4. row \in Row /\ row.key \in Key /\ row.len + SlotSize <= PageSize - HeaderSize
    BY <1>1, <2>3, RowsHaveKeys, LoadedRowsAreInserted
  <2>5. ~ HasKey(db.tree.nodes, row.key)
    BY <1>1, <2>2, <2>3, LoadedRowsAreInserted
  <2>6. WithRow(db, row) = next
    BY DEF WithRow
  <2> HIDE DEF row
  <2>7. ~ done.failed
    BY <2>2, <2>4, InsertRowSucceeds
  <2>8. done.heap \in FitHeap /\ NeatHeap(done.heap) /\ RoomyHeap(done.heap) /\ done.rid \in RowId
    BY <2>2, <2>4, InsertRowFits, InsertRowSound, AddressOfRow
  <2>9. Matches(done.heap, tree)
    BY <2>2, <2>4, <2>5, <2>7, InsertMatches
  <2>10. KeysDiffer(done.heap)
    <3>1. RowAdded(db.heap, done.heap, done.rid, row)
      BY <2>2, <2>4, <2>7, InsertAdds
    <3>2. KeyIsFree(db.heap, row.key, {})
      <4>1. \A p : ~ HasEntry(db.tree.nodes, row.key, p)
        BY <2>5 DEF HasEntry, EntryIn, HasKey, KeyIn
      <4>2. Listed(db.heap, db.tree.nodes)
        BY <2>2 DEF Matches
      <4> QED
        BY <4>1, <4>2, SMTT(60) DEF Listed, KeyIsFree
    <3> QED
      BY <2>2, <3>1, <3>2, AddedIsMore
  <2> HIDE DEF done
  <2>11. Added(db.tree.nodes, tree.nodes, row.key, done.rid)
    BY <2>2, <2>4, <2>5, <2>8, InsertHolds DEF Matches, Searchable
  <2> HIDE DEF tree
  <2>12. \A k : HasKey(tree.nodes, k) => \E j \in 1 .. n + 1 : Loaded[j].key = k
    <3> SUFFICES ASSUME NEW k, HasKey(tree.nodes, k) PROVE \E j \in 1 .. n + 1 : Loaded[j].key = k
      OBVIOUS
    <3>1. HasKey(db.tree.nodes, k) \/ k = row.key
      BY <2>11 DEF Added
    <3>2. \A j \in 1 .. n : j \in 1 .. n + 1
      BY <1>3
    <3>3. n + 1 \in 1 .. n + 1
      BY <1>3
    <3> QED
      BY <2>2, <3>1, <3>2, <3>3 DEF row
  <2>13. tree \in [root : Nat, nodes : Trees]
    BY <2>9, IndexType DEF Matches, Searchable, SearchTree, AnIndex
  <2>14. next \in Db
    BY <2>8, <2>13
  <2>15. next.heap = done.heap /\ next.tree = tree
    OBVIOUS
  <2> HIDE DEF next, Db
  <2>16. LoadedSoFar(next, n + 1)
    BY <2>8, <2>9, <2>12, <2>15, <2>10 DEF LoadedSoFar
  <2> QED
    BY <1>3, <2>6, <2>14, <2>16 DEF row
<1> HIDE DEF G
<1>4. AfterLoading \in G[l]
  BY <1>2, <1>3, LoadedTableBy
<1>5. LoadedSoFar(AfterLoading, l)
  BY <1>1, <1>4 DEF G
<1> QED
  BY <1>5 DEF LoadedSoFar

\* What keeps the index true of the table: what its statements rest on, and the
\* entries.
WellMatched ==
    /\ Counted
    /\ RestIsThere(heap, stmt)
    /\ ScanIsCurrent(heap, stmt)
    /\ HasIndex => Matches(heap, index)

\* A key that was checked is not in the tree, unless it parts children.
LEMMA CheckedKeyIsNew ==
    ASSUME HasIndex, Searchable(index), NEW key \in Key, NEW except,
           ~ Conflict(key, except), ~ Parts(key)
    PROVE  ~ HasKey(index.nodes, key)
<1>1. PICK h, R : SearchTree(index, h, R)
  BY DEF Searchable
<1>2. Search(index, key) = {} /\ key \in Int
  BY KeysAreOrdered DEF Conflict
<1>3. DOMAIN index.nodes = 1 .. Len(index.nodes)
  BY <1>1 DEF SearchTree, IsIndex, IsTree
<1>4. \A n \in 1 .. Len(index.nodes) : ~ index.nodes[n].leaf =>
         ~ \E i \in DOMAIN index.nodes[n].keys : index.nodes[n].keys[i] = key
  BY <1>3 DEF Parts
<1>5. ASSUME NEW n \in 1 .. Len(index.nodes), ~ index.nodes[n].leaf
      PROVE  ~ KeyIn(index.nodes[n], key)
  <2>1. index.nodes[n] \in Shaped(Len(index.nodes)) /\ Len(index.nodes) \in Nat
    BY <1>1, TreeNodes DEF SearchTree, IsIndex
  <2>2. index.nodes[n].keys \in Seq(Key)
    BY <2>1, NodeParts
  <2>3. DOMAIN index.nodes[n].keys = 1 .. Len(index.nodes[n].keys)
    BY <2>2
  <2> QED
    BY <1>4, <1>5, <2>3 DEF KeyIn
<1> QED
  BY <1>1, <1>2, <1>5, KeyIsNew

\* What the client must stay away from while there is an index.
IndexIsSafe ==
    {"indexed move", "long move", "parting key", "rows before index"} \subseteq Avoided

\* INSERT adds an entry for each row it writes.
LEMMA InsertKeepsMatch ==
    ASSUME KeysAreEstimated, IndexIsSafe, WellMatched, InsertNext, HasIndex
    PROVE  Matches(heap', index')
<1> DEFINE row == Head(stmt.rest)
           done == InsertRow(heap, row)
<1>1. /\ heap \in FitHeap /\ stmt \in Statement /\ Matches(heap, index)
  BY DEF WellMatched, Counted
<1>2. /\ stmt.kind = "insert" /\ stmt.rest # <<>>
      /\ \/ Conflict(row.key, {}) /\ End("refused")
         \/ /\ ~ Conflict(row.key, {}) /\ PrudentInsert(row) /\ heap' = done.heap
            /\ index' = IF done.failed THEN index ELSE AfterInsert(done.rid, row)
  BY Zenon DEF InsertNext
<1>3. stmt \in [kind : {"insert"}, rest : Seq(Row)]
  BY <1>1, <1>2 DEF Statement
<1>4. row \in Row
  BY <1>2, <1>3
<1> HIDE DEF row
<1>5. CASE End("refused")
  BY <1>1, <1>5 DEF End
<1>6. CASE /\ ~ Conflict(row.key, {}) /\ PrudentInsert(row) /\ heap' = done.heap
           /\ index' = IF done.failed THEN index ELSE AfterInsert(done.rid, row)
  <2>1. ~ Parts(row.key)
    BY <1>6 DEF PrudentInsert, IndexIsSafe
  <2>2. row.key \in Key
    BY <1>4, RowsHaveKeys
  <2>3. ~ HasKey(index.nodes, row.key)
    BY <1>1, <1>6, <2>1, <2>2, CheckedKeyIsNew DEF Matches
  <2>4. /\ done.failed => Matches(done.heap, index)
        /\ ~ done.failed => Matches(done.heap, InsertKey(index, row.key, done.rid))
    BY <1>1, <1>4, <2>3, InsertMatches
  <2>5. AfterInsert(done.rid, row) = InsertKey(index, row.key, done.rid)
    BY DEF AfterInsert
  <2> HIDE DEF done
  <2> QED
    BY <1>6, <2>4, <2>5
<1> QED
  BY <1>2, <1>5, <1>6

\* DELETE takes out the entry of each row it deletes.
LEMMA DeleteKeepsMatch ==
    ASSUME WellMatched, DeleteNext, HasIndex
    PROVE  Matches(heap', index')
<1>1. PICK rid \in stmt.rest :
        heap' = DeleteRow(heap, rid) /\ index' = AfterDelete(rid, RowAt(heap, rid))
  BY DEF DeleteNext
<1>2. stmt.kind = "delete"
  BY DEF DeleteNext
<1>3. /\ heap \in FitHeap /\ stmt \in Statement /\ Matches(heap, index)
      /\ RestIsThere(heap, stmt)
  BY DEF WellMatched, Counted
<1>4. LiveIn(heap, rid)
  BY <1>1, <1>2, <1>3 DEF RestIsThere
<1>5. stmt \in [kind : {"delete"}, rest : SUBSET [page : Nat, slot : Nat]]
  BY <1>2, <1>3 DEF Statement
<1>6. rid \in RowIds(heap)
  BY <1>1, <1>3, <1>4, <1>5, SlotHasRowId, RowIdsAre DEF LiveIn
<1>7. index' = DeleteKey(index, RowAt(heap, rid).key, rid)
  BY <1>1, SMTT(60) DEF AfterDelete
<1> QED
  BY <1>1, <1>3, <1>6, <1>7, DeleteMatches

\* The row an UPDATE is at is still what its scan has read.
LEMMA ScannedRow ==
    ASSUME Counted, ScanIsCurrent(heap, stmt), stmt.kind = "update",
           NEW i \in Ahead, NEW old, NEW new, UpdateFacts(i, old, new)
    PROVE  /\ LiveIn(heap, [page |-> stmt.scan.page, slot |-> i])
           /\ RowAt(heap, [page |-> stmt.scan.page, slot |-> i]) = old
<1> DEFINE rid == [page |-> stmt.scan.page, slot |-> i]
<1>1. /\ SlotIn(heap, rid) /\ old = stmt.scan.copy.slots[i].row /\ old \in Row
  BY DEF UpdateFacts
<1>2. i \in DOMAIN stmt.scan.copy.slots /\ i >= stmt.scan.slot
  BY SMTT(60) DEF Ahead, Live
<1>3. heap[stmt.scan.page].slots[i].row = old
  BY <1>1, <1>2 DEF ScanIsCurrent
<1>4. RowAt(heap, rid) = old
  BY <1>3 DEF RowAt
<1>5. old # NoRow
  BY <1>1, NoRowIsNoRow
<1> QED
  BY <1>1, <1>4, <1>5, SMTT(60) DEF LiveIn

\* UPDATE moves the entry of a row whose key it changes.
LEMMA UpdateKeepsMatch ==
    ASSUME KeysAreEstimated, IndexIsSafe, WellMatched, UpdateNext, HasIndex
    PROVE  Matches(heap', index')
<1>1. /\ Counted /\ heap \in FitHeap /\ Matches(heap, index) /\ ScanIsCurrent(heap, stmt)
      /\ stmt.kind = "update"
  BY DEF WellMatched, Counted, UpdateNext
<1>2. PICK i \in Ahead, old \in Row, new \in Row :
        /\ UpdateFacts(i, old, new)
        /\ UpdateRid([page |-> stmt.scan.page, slot |-> i], old, new)
  BY <1>1, UpdateStep, SMTT(60)
<1> DEFINE rid == [page |-> stmt.scan.page, slot |-> i]
           done == UpdateRow(heap, rid, new)
<1>3. rid \in RowId /\ LiveIn(heap, rid) /\ RowAt(heap, rid) = old
  BY <1>1, <1>2, ScannedRow DEF UpdateFacts
<1>4. old.key \in Key /\ new.key \in Key /\ old.key \in Int
  BY <1>2, RowsHaveKeys, KeysAreOrdered
<1>5. UpdateRid(rid, old, new)
  BY <1>2
<1> HIDE DEF rid
<1>6. \/ Conflict(new.key, {rid}) /\ End("refused")
      \/ /\ ~ Conflict(new.key, {rid}) /\ PrudentUpdate(rid, new)
         /\ index' = AfterUpdate(rid, old, new)
         /\ heap' = IF UpdateRaises(rid, old, new) THEN heap ELSE done.heap
  BY <1>5, Zenon DEF UpdateRid
<1>7. CASE End("refused")
  BY <1>1, <1>7 DEF End
<1>8. CASE /\ ~ Conflict(new.key, {rid}) /\ PrudentUpdate(rid, new)
           /\ index' = AfterUpdate(rid, old, new)
           /\ heap' = IF UpdateRaises(rid, old, new) THEN heap ELSE done.heap
  <2>1. ~ UpdateMoves(heap, rid, new) /\ ~ done.failed /\ (new.key = old.key \/ ~ Parts(new.key))
    BY <1>3, <1>8 DEF PrudentUpdate, IndexIsSafe
  <2>2. new.key = old.key \/ ~ HasKey(index.nodes, new.key)
    BY <1>1, <1>4, <1>8, <2>1, CheckedKeyIsNew DEF Matches
  <2>3. ~ UpdateRaises(rid, old, new)
    <3>1. PICK h : IsIndex(index, h)
      BY <1>1 DEF Matches, Searchable, SearchTree
    <3>2. IsIndex(DeleteKey(index, old.key, rid), h)
      BY <1>4, <3>1, DeleteTree
    <3>3. ~ Raises(DeleteKey(index, old.key, rid), new.key, rid)
      BY <1>3, <1>4, <3>2, InsertFits
    <3> QED
      BY <3>3 DEF UpdateRaises
  <2>4. InPlace(heap, rid, new, done.heap)
    <3> DEFINE g == [heap EXCEPT ![rid.page] = Rewritten(heap[rid.page], rid.slot, new)]
               fails == Overflows(heap[rid.page], new)
    <3>1. done = [heap |-> IF fails THEN heap ELSE g, rid |-> rid, failed |-> fails]
      BY <2>1 DEF UpdateRow
    <3> HIDE DEF g, fails
    <3>2. done.heap = g
      BY <2>1, <3>1
    <3> QED
      BY <3>2 DEF InPlace, g
  <2>5. RowReplaced(heap, done.heap, rid, new)
    <3>1. done.heap \in FitHeap
      BY <1>1, <1>2, <1>3, UpdateRowFits DEF LiveIn
    <3> HIDE DEF done
    <3> QED
      BY <1>1, <1>2, <1>3, <2>4, <3>1, RowIdsAre, RewriteReplaces
  <2>6. index' = IF new.key = old.key THEN index
                 ELSE InsertKey(DeleteKey(index, old.key, rid), new.key, rid)
    BY <1>8 DEF AfterUpdate
  <2>7. heap' = done.heap
    BY <1>8, <2>3
  <2> HIDE DEF done
  <2> QED
    BY <1>1, <1>2, <1>3, <2>2, <2>6, <2>7, <2>5, UpdateMatches
<1> QED
  BY <1>6, <1>7, <1>8

\* The loaded rows and their index match.
LEMMA MatchStarts == ASSUME KeysAreEstimated PROVE Init => WellMatched
<1> SUFFICES ASSUME Init PROVE WellMatched
  OBVIOUS
<1>1. /\ heap = AfterLoading.heap /\ stmt = Idle
      /\ index \in {NoIndex, AfterLoading.tree}
  BY DEF Init
<1>2. /\ Idle \in Statement /\ StatementFits(heap, Idle)
      /\ RestIsThere(heap, Idle) /\ ScanIsCurrent(heap, Idle)
  BY DEF Idle, Statement, StatementFits, RestIsThere, ScanIsCurrent
<1>3. Counted
  BY <1>1, <1>2, LoadedFits DEF Counted
<1>4. HasIndex => Matches(heap, index)
  BY <1>1, LoadedMatches DEF HasIndex
<1> QED
  BY <1>1, <1>2, <1>3, <1>4 DEF WellMatched

\* So the index is true of the table after every step.
LEMMA MatchGoesOn ==
    ASSUME KeysAreEstimated, IndexIsSafe, WellMatched, [Next]_vars
    PROVE  WellMatched'
<1>1. /\ Counted' /\ RestIsThere(heap', stmt') /\ ScanIsCurrent(heap', stmt')
      /\ heap \in FitHeap
  BY CountedGoesOn, RestGoesOn, ScanGoesOn DEF WellMatched, Counted
<1>2. ASSUME Matches(heap', index') \/ index' = NoIndex PROVE WellMatched'
  BY <1>1, <1>2 DEF WellMatched, HasIndex
<1>3. ASSUME heap' = heap, index' = index PROVE WellMatched'
  BY <1>1, <1>3 DEF WellMatched, HasIndex
<1>4. CASE InsertNext
  <2>1. CASE HasIndex
    BY <1>2, <1>4, <2>1, InsertKeepsMatch
  <2>2. CASE ~ HasIndex
    <3>1. index' = index
      BY <1>4, <2>2, ZenonT(60) DEF InsertNext, End, AfterInsert
    <3> QED
      BY <1>2, <2>2, <3>1 DEF HasIndex
  <2> QED
    BY <2>1, <2>2
<1>5. CASE DeleteNext
  <2>1. CASE HasIndex
    BY <1>2, <1>5, <2>1, DeleteKeepsMatch
  <2>2. CASE ~ HasIndex
    <3>1. index' = index
      BY <1>5, <2>2 DEF DeleteNext, AfterDelete
    <3> QED
      BY <1>2, <2>2, <3>1 DEF HasIndex
  <2> QED
    BY <2>1, <2>2
<1>6. CASE UpdateNext
  <2>1. CASE HasIndex
    BY <1>2, <1>6, <2>1, UpdateKeepsMatch
  <2>2. CASE ~ HasIndex
    <3>1. PICK i \in Ahead : UpdateRid([page |-> stmt.scan.page, slot |-> i],
                                       stmt.scan.copy.slots[i].row,
                                       Assigned(stmt.scan.copy.slots[i].row, stmt.set))
      BY <1>6 DEF UpdateNext
    <3>2. index' = index
      BY <2>2, <3>1, Zenon DEF UpdateRid, End, AfterUpdate
    <3> QED
      BY <1>2, <2>2, <3>2, SMTT(60) DEF HasIndex
  <2> QED
    BY <2>1, <2>2
<1>7. CASE CreateIndex
  <2>1. heap' = heap /\ index' = EmptyTree /\ RowIds(heap) = {}
    BY <1>7 DEF CreateIndex, IndexIsSafe
  <2>2. Matches(heap', index')
    BY <1>1, <2>1, EmptyMatches
  <2> QED
    BY <1>2, <2>2
<1>8. CASE DropIndex
  BY <1>2, <1>8 DEF DropIndex
<1>9. ASSUME NEW s, Begin(s) PROVE heap' = heap /\ index' = index
  BY <1>9 DEF Begin
<1>10. CASE \/ \E rows \in Inserts : StartInsert(rows)
            \/ \E keys \in Wheres : StartDelete(keys) \/ \E set \in Sets : StartUpdate(keys, set)
            \/ UpdateNextPage \/ Done \/ UNCHANGED vars
  <2>1. heap' = heap /\ index' = index
    BY <1>9, <1>10, Zenon
       DEF StartInsert, StartDelete, StartUpdate, UpdateNextPage, Done, End, vars
  <2> QED
    BY <1>3, <2>1
<1> QED
  BY <1>4, <1>5, <1>6, <1>7, <1>8, <1>10 DEF Next

\* The index finds the addresses of the rows with a key.
LEMMA SearchFindsRows ==
    ASSUME heap \in FitHeap, Matches(heap, index), NEW key \in Key, NEW rid
    PROVE  rid \in Search(index, key) <=> rid \in RowIds(heap) /\ RowAt(heap, rid).key = key
<1>1. PICK h, R : SearchTree(index, h, R)
  BY DEF Matches, Searchable
<1>2. rid \in Search(index, key) <=> HasEntry(index.nodes, key, rid)
  BY <1>1, SearchHolds, KeysAreOrdered
<1> QED
  BY <1>2 DEF Matches, Listed

\* So it finds, for every key, the rows of the table with that key.
LEMMA MatchIsFound == WellMatched => IndexMatchesTable
<1> SUFFICES ASSUME WellMatched, HasIndex
             PROVE  {<<RowAt(heap, rid).key, rid>> : rid \in RowIds(heap)}
                      = UNION {{<<key, rid>> : rid \in Search(index, key)} : key \in Key}
  BY DEF IndexMatchesTable
<1>1. heap \in FitHeap /\ Matches(heap, index)
  BY DEF WellMatched, Counted
<1>2. ASSUME NEW key \in Key, NEW rid
      PROVE  rid \in Search(index, key) <=> rid \in RowIds(heap) /\ RowAt(heap, rid).key = key
  BY <1>1, SearchFindsRows
<1>3. \A rid \in RowIds(heap) : RowAt(heap, rid).key \in Key
  BY <1>1, RowIdsAre, RowsAre, RowsHaveKeys, SMTT(60)
<1> DEFINE A == {<<RowAt(heap, rid).key, rid>> : rid \in RowIds(heap)}
           B == UNION {{<<key, rid>> : rid \in Search(index, key)} : key \in Key}
<1>4. ASSUME NEW x \in A PROVE x \in B
  <2>1. PICK rid \in RowIds(heap) : x = <<RowAt(heap, rid).key, rid>>
    OBVIOUS
  <2>2. rid \in Search(index, RowAt(heap, rid).key)
    BY <1>2, <1>3
  <2> QED
    BY <1>3, <2>1, <2>2
<1>5. ASSUME NEW x \in B PROVE x \in A
  <2>1. PICK key \in Key : \E rid \in Search(index, key) : x = <<key, rid>>
    OBVIOUS
  <2>2. PICK rid \in Search(index, key) : x = <<key, rid>>
    BY <2>1
  <2>3. rid \in RowIds(heap) /\ RowAt(heap, rid).key = key
    BY <1>2
  <2> QED
    BY <2>2, <2>3
<1> QED
  BY <1>4, <1>5

\* BTreeIndex and IndexManager: search finds, for every key, the rows of the table
\* with that key, where they are, whatever has been inserted, updated and deleted
\* and however often nodes have been split, as long as the client stays away from
\* the four things that the code gets wrong (Prudent) and a key is not longer than
\* it is estimated.
THEOREM RowsAreFound ==
    ASSUME KeysAreEstimated, IndexIsSafe
    PROVE  Spec => []IndexMatchesTable
<1>1. Init => WellMatched
  BY MatchStarts
<1>2. WellMatched => IndexMatchesTable
  BY MatchIsFound
<1>3. WellMatched /\ [Next]_vars => WellMatched'
  BY MatchGoesOn
<1> QED
  BY <1>1, <1>2, <1>3, PTL DEF Spec

-----------------------------------------------------------------------------
(* The table is a KeyedTable.                                              *)

\* An update that succeeds replaces its row, in place or as a new row.
LEMMA UpdateReplaces ==
    ASSUME NEW h \in FitHeap, NEW rid \in RowIds(h), NEW new \in Row,
           KeysDiffer(h), KeyIsFree(h, new.key, {rid}), ~ UpdateRow(h, rid, new).failed
    PROVE  /\ StoredRows(UpdateRow(h, rid, new).heap) = (StoredRows(h) \ {RowAt(h, rid)}) \cup {new}
           /\ KeysDiffer(UpdateRow(h, rid, new).heap)
<1> DEFINE done == UpdateRow(h, rid, new)
<1>1. rid \in RowId /\ SlotIn(h, rid)
  BY RowIdsAre DEF LiveIn
<1>2. CASE UpdateMoves(h, rid, new)
  <2> DEFINE k == DeleteRow(h, rid)
  <2>1. done = InsertRow(k, new)
    BY <1>2 DEF UpdateRow
  <2>2. k \in FitHeap /\ RowRemoved(h, k, rid)
    BY <1>1, DeleteRowFits, DeleteRemoves
  <2> HIDE DEF k, done
  <2>3. /\ StoredRows(k) = StoredRows(h) \ {RowAt(h, rid)}
        /\ KeysDiffer(k) /\ KeyIsFree(k, new.key, {})
    BY <2>2, RemovedIsLess
  <2>4. ~ done.failed
    BY DEF done
  <2>5. RowAdded(k, done.heap, done.rid, new)
    BY <2>1, <2>2, <2>4, InsertAdds
  <2> QED
    BY <2>3, <2>5, AddedIsMore DEF done
<1>3. CASE ~ UpdateMoves(h, rid, new)
  <2> DEFINE g == [h EXCEPT ![rid.page] = Rewritten(h[rid.page], rid.slot, new)]
             fails == Overflows(h[rid.page], new)
  <2>1. done = [heap |-> IF fails THEN h ELSE g, rid |-> rid, failed |-> fails]
    BY <1>3 DEF UpdateRow
  <2> HIDE DEF g, fails
  <2>2. done.heap = g
    BY <2>1
  <2>3. InPlace(h, rid, new, g)
    BY DEF InPlace, g
  <2>4. done.heap \in FitHeap
    BY <1>1, UpdateRowFits
  <2> HIDE DEF done
  <2>5. RowReplaced(h, g, rid, new)
    BY <2>2, <2>3, <2>4, RewriteReplaces
  <2> QED
    BY <2>2, <2>5, ReplacedIsOther DEF done
<1> QED
  BY <1>2, <1>3

\* What keeps the promise: pages are sound, the index is right, keys differ.
KeepsPromise == SoundTable /\ WellMatched /\ KeysDiffer(heap)

\* No slot is lost, so all rows are read.
LEMMA AllReadable == ASSUME NEW h, NeatHeap(h) PROVE Readable(h) = RowIds(h)
BY DEF NeatHeap, Neat, Sound, Readable, RowIds

\* The uniqueness check finds a row with the key, if there is one that counts.
LEMMA ConflictIs ==
    ASSUME KeepsPromise, NEW key \in Key, NEW except
    PROVE  /\ Conflict(key, except) => \E rid \in RowIds(heap) : RowAt(heap, rid).key = key
           /\ ~ Conflict(key, except) => KeyIsFree(heap, key, except)
<1>1. heap \in FitHeap /\ NeatHeap(heap) /\ (HasIndex => Matches(heap, index))
  BY DEF KeepsPromise, SoundTable, WellMatched, Counted
<1>2. CASE HasIndex
  <2>1. Conflict(key, except) <=> Search(index, key) # {}
    BY <1>2 DEF Conflict
  <2>2. \A rid : rid \in Search(index, key) <=> rid \in RowIds(heap) /\ RowAt(heap, rid).key = key
    BY <1>1, <1>2, SearchFindsRows
  <2> QED
    BY <2>1, <2>2 DEF KeyIsFree
<1>3. CASE ~ HasIndex
  <2>1. Readable(heap) = RowIds(heap)
    BY <1>1, AllReadable
  <2> QED
    BY <1>3, <2>1 DEF Conflict, KeyIsFree
<1> QED
  BY <1>2, <1>3

\* INSERT: refused for a key that is taken, failed, or one row more.
LEMMA InsertIsPromised ==
    ASSUME KeysAreEstimated, KeepsPromise, InsertNext
    PROVE  /\ KeysDiffer(heap')
           /\ stmt.kind = "insert"
           /\ \E row \in Row :
                \/ /\ \E x \in StoredRows(heap) : x.key = row.key
                   /\ stmt' = Idle /\ outcome' = "refused" /\ StoredRows(heap') = StoredRows(heap)
                \/ stmt' = Idle /\ outcome' = "failed" /\ StoredRows(heap') = StoredRows(heap)
                \/ /\ ~ \E x \in StoredRows(heap) : x.key = row.key
                   /\ StoredRows(heap') = StoredRows(heap) \cup {row}
                   /\ stmt'.kind = "insert" /\ outcome' = outcome
<1> DEFINE row == Head(stmt.rest)
           done == InsertRow(heap, row)
<1>1. /\ heap \in FitHeap /\ stmt \in Statement /\ KeysDiffer(heap)
      /\ HasIndex => Matches(heap, index)
  BY DEF KeepsPromise, WellMatched, Counted
<1>2. /\ stmt.kind = "insert" /\ stmt.rest # <<>>
      /\ \/ Conflict(row.key, {}) /\ End("refused")
         \/ /\ ~ Conflict(row.key, {}) /\ heap' = done.heap
            /\ Proceed(done.failed \/ InsertRaises(done.rid, row), [stmt EXCEPT !.rest = Tail(@)])
  BY Zenon, ZenonT(60) DEF InsertNext
<1>3. stmt \in [kind : {"insert"}, rest : Seq(Row)]
  BY <1>1, <1>2 DEF Statement
<1>4. row \in Row /\ row.key \in Key
  BY <1>2, <1>3, RowsHaveKeys
<1> DEFINE next == [stmt EXCEPT !.rest = Tail(@)]
<1>5. next.kind = "insert"
  BY <1>3
<1> HIDE DEF row, next
<1>6. CASE Conflict(row.key, {}) /\ End("refused")
  <2>1. heap' = heap /\ stmt' = Idle /\ outcome' = "refused"
    BY <1>6 DEF End
  <2>2. \E x \in StoredRows(heap) : x.key = row.key
    BY <1>4, <1>6, ConflictIs DEF StoredRows
  <2> QED
    BY <1>1, <1>2, <1>4, <2>1, <2>2
<1>7. CASE /\ ~ Conflict(row.key, {}) /\ heap' = done.heap
           /\ Proceed(done.failed \/ InsertRaises(done.rid, row), next)
  <2>1. KeyIsFree(heap, row.key, {})
    BY <1>4, <1>7, ConflictIs
  <2>2. ~ \E x \in StoredRows(heap) : x.key = row.key
    BY <2>1 DEF StoredRows, KeyIsFree
  <2>3. /\ done.failed => SameRows(heap, done.heap)
        /\ ~ done.failed => RowAdded(heap, done.heap, done.rid, row)
    BY <1>1, <1>4, InsertAdds
  <2>4. ~ InsertRaises(done.rid, row)
    <3>1. CASE HasIndex
      <4>1. PICK h : IsIndex(index, h)
        BY <1>1, <3>1 DEF Matches, Searchable, SearchTree
      <4>2. done.rid \in RowId
        BY <1>1, <1>4, AddressOfRow
      <4> HIDE DEF done
      <4>3. ~ Raises(index, row.key, done.rid)
        BY <1>4, <4>1, <4>2, InsertFits
      <4> QED
        BY <4>3 DEF InsertRaises
    <3> QED
      BY <3>1 DEF InsertRaises
  <2> HIDE DEF done
  <2>5. CASE done.failed
    <3>1. stmt' = Idle /\ outcome' = "failed"
      BY <1>7, <2>5 DEF Proceed
    <3>2. StoredRows(heap') = StoredRows(heap) /\ KeysDiffer(heap')
      BY <1>1, <1>7, <2>3, <2>5, SameIsSame
    <3> QED
      BY <1>2, <1>4, <3>1, <3>2
  <2>6. CASE ~ done.failed
    <3>1. stmt' = next /\ outcome' = outcome
      BY <1>7, <2>4, <2>6 DEF Proceed
    <3>2. StoredRows(heap') = StoredRows(heap) \cup {row} /\ KeysDiffer(heap')
      BY <1>1, <1>7, <2>1, <2>3, <2>6, AddedIsMore
    <3> QED
      BY <1>2, <1>4, <1>5, <2>2, <3>1, <3>2
  <2> QED
    BY <2>5, <2>6
<1> QED
  BY <1>2, <1>6, <1>7 DEF next

\* DELETE: one row less.
LEMMA DeleteIsPromised ==
    ASSUME KeepsPromise, DeleteNext
    PROVE  /\ KeysDiffer(heap')
           /\ stmt.kind = "delete"
           /\ stmt'.kind = "delete" /\ outcome' = outcome
           /\ \E row \in StoredRows(heap) : StoredRows(heap') = StoredRows(heap) \ {row}
<1>1. PICK rid \in stmt.rest :
        heap' = DeleteRow(heap, rid) /\ stmt' = [stmt EXCEPT !.rest = @ \ {rid}]
  BY DEF DeleteNext
<1>2. stmt.kind = "delete" /\ outcome' = outcome
  BY DEF DeleteNext
<1>3. /\ heap \in FitHeap /\ stmt \in Statement /\ RestIsThere(heap, stmt) /\ KeysDiffer(heap)
  BY DEF KeepsPromise, WellMatched, Counted
<1>4. LiveIn(heap, rid)
  BY <1>1, <1>2, <1>3 DEF RestIsThere
<1>5. stmt \in [kind : {"delete"}, rest : SUBSET [page : Nat, slot : Nat]]
  BY <1>2, <1>3 DEF Statement
<1>6. rid \in RowIds(heap)
  BY <1>1, <1>3, <1>4, <1>5, SlotHasRowId, RowIdsAre DEF LiveIn
<1>7. stmt'.kind = "delete"
  BY <1>1, <1>5
<1>8. RowRemoved(heap, heap', rid)
  BY <1>1, <1>3, <1>6, DeleteRemoves
<1>9. StoredRows(heap') = StoredRows(heap) \ {RowAt(heap, rid)} /\ KeysDiffer(heap')
  BY <1>3, <1>8, RemovedIsLess
<1> QED
  BY <1>2, <1>6, <1>7, <1>9 DEF StoredRows

\* UPDATE: refused for a key that is taken, or another row for one.
LEMMA UpdateIsPromised ==
    ASSUME KeysAreEstimated, IndexIsSafe, KeepsPromise, UpdateNext
    PROVE  /\ KeysDiffer(heap')
           /\ stmt.kind = "update"
           /\ \E old \in StoredRows(heap), new \in Row :
                \/ /\ \E x \in StoredRows(heap) : x.key = new.key
                   /\ stmt' = Idle /\ outcome' = "refused" /\ StoredRows(heap') = StoredRows(heap)
                \/ /\ new.key = old.key \/ ~ \E x \in StoredRows(heap) : x.key = new.key
                   /\ StoredRows(heap') = (StoredRows(heap) \ {old}) \cup {new}
                   /\ stmt'.kind = "update" /\ outcome' = outcome
<1>1. /\ Counted /\ heap \in FitHeap /\ ScanIsCurrent(heap, stmt) /\ stmt \in Statement
      /\ stmt.kind = "update" /\ KeysDiffer(heap) /\ (HasIndex => Matches(heap, index))
  BY DEF KeepsPromise, WellMatched, Counted, UpdateNext
<1>2. PICK i \in Ahead, old \in Row, new \in Row :
        /\ UpdateFacts(i, old, new)
        /\ UpdateRid([page |-> stmt.scan.page, slot |-> i], old, new)
  BY <1>1, UpdateStep, SMTT(60)
<1> DEFINE rid == [page |-> stmt.scan.page, slot |-> i]
           done == UpdateRow(heap, rid, new)
           next == [stmt EXCEPT !.scan.slot = rid.slot + 1]
<1>3. rid \in RowId /\ LiveIn(heap, rid) /\ RowAt(heap, rid) = old
  BY <1>1, <1>2, ScannedRow DEF UpdateFacts
<1>4. old.key \in Key /\ new.key \in Key /\ old.key \in Int
  BY <1>2, RowsHaveKeys, KeysAreOrdered
<1>5. UpdateRid(rid, old, new)
  BY <1>2
<1> HIDE DEF rid
<1>6. rid \in RowIds(heap) /\ old \in StoredRows(heap)
  BY <1>1, <1>3, RowIdsAre DEF StoredRows
<1>7. next.kind = "update"
  BY <1>1 DEF Statement
<1> HIDE DEF next
<1>8. \/ Conflict(new.key, {rid}) /\ End("refused")
      \/ /\ ~ Conflict(new.key, {rid}) /\ PrudentUpdate(rid, new)
         /\ heap' = IF UpdateRaises(rid, old, new) THEN heap ELSE done.heap
         /\ Proceed(UpdateRaises(rid, old, new) \/ done.failed, next)
  BY <1>5, Zenon DEF UpdateRid, next
<1>9. CASE Conflict(new.key, {rid}) /\ End("refused")
  <2>1. heap' = heap /\ stmt' = Idle /\ outcome' = "refused"
    BY <1>9 DEF End
  <2>2. \E x \in StoredRows(heap) : x.key = new.key
    BY <1>4, <1>9, ConflictIs DEF StoredRows
  <2> QED
    BY <1>1, <1>2, <1>6, <2>1, <2>2
<1>10. CASE /\ ~ Conflict(new.key, {rid}) /\ PrudentUpdate(rid, new)
            /\ heap' = IF UpdateRaises(rid, old, new) THEN heap ELSE done.heap
            /\ Proceed(UpdateRaises(rid, old, new) \/ done.failed, next)
  <2>1. ~ done.failed
    BY <1>10 DEF PrudentUpdate, IndexIsSafe
  <2>2. KeyIsFree(heap, new.key, {rid})
    BY <1>4, <1>10, ConflictIs
  <2>3. new.key = old.key \/ ~ \E x \in StoredRows(heap) : x.key = new.key
    BY <1>3, <2>2 DEF KeyIsFree, StoredRows
  <2>4. ~ UpdateRaises(rid, old, new)
    <3>1. CASE HasIndex
      <4>1. PICK h : IsIndex(index, h)
        BY <1>1, <3>1 DEF Matches, Searchable, SearchTree
      <4>2. IsIndex(DeleteKey(index, old.key, rid), h)
        BY <1>4, <4>1, DeleteTree
      <4>3. ~ Raises(DeleteKey(index, old.key, rid), new.key, rid)
        BY <1>3, <1>4, <4>2, InsertFits
      <4> QED
        BY <4>3 DEF UpdateRaises
    <3> QED
      BY <3>1 DEF UpdateRaises
  <2>5. heap' = done.heap
    BY <1>10, <2>4
  <2>6. stmt' = next /\ outcome' = outcome
    BY <1>10, <2>1, <2>4, Zenon DEF Proceed
  <2>7. /\ StoredRows(done.heap) = (StoredRows(heap) \ {old}) \cup {new}
        /\ KeysDiffer(done.heap)
    BY <1>1, <1>2, <1>3, <1>6, <2>1, <2>2, UpdateReplaces, SMTT(60)
  <2> HIDE DEF done
  <2> QED
    BY <1>1, <1>2, <1>6, <1>7, <2>3, <2>5, <2>6, <2>7
<1> QED
  BY <1>8, <1>9, <1>10

\* The rows of the abstract table.
LEMMA ShownRows ==
    ASSUME KeepsPromise
    PROVE  {RowAt(heap, rid) : rid \in Readable(heap)} = StoredRows(heap)
BY AllReadable DEF KeepsPromise, SoundTable, StoredRows

\* Each step keeps the promise and is one that it allows, or shows nothing.
LEMMA PromiseGoesOn ==
    ASSUME KeysAreEstimated, IndexIsSafe, "overwrite" \in Avoided \/ Sets = {},
           KeepsPromise, [Next]_vars
    PROVE  KeepsPromise' /\ [Promise!Next]_(Promise!vars)
<1> DEFINE rows == {RowAt(heap, rid) : rid \in Readable(heap)}
<1>1. SoundTable' /\ WellMatched'
  BY SoundGoesOn, MatchGoesOn DEF KeepsPromise
<1>2. KeysDiffer(heap) /\ stmt \in Statement
  BY DEF KeepsPromise, SoundTable, Counted
<1>3. ASSUME KeysDiffer(heap') PROVE KeepsPromise'
  BY <1>1, <1>3 DEF KeepsPromise
<1>4. rows = StoredRows(heap)
  BY ShownRows
<1>5. ASSUME KeepsPromise' PROVE rows' = StoredRows(heap')
  <2>1. NeatHeap(heap')
    BY <1>1 DEF SoundTable
  <2>2. Readable(heap') = RowIds(heap')
    BY <2>1, AllReadable
  <2> QED
    BY <2>2 DEF StoredRows
<1>6. Idle.kind = "idle"
  BY DEF Idle
<1> HIDE DEF rows
<1>7. CASE InsertNext
  <2>1. KeysDiffer(heap') /\ stmt.kind = "insert"
    BY <1>7, InsertIsPromised
  <2>2. KeepsPromise' /\ rows' = StoredRows(heap')
    BY <1>3, <1>5, <2>1
  <2>3. PICK row \in Row :
          \/ /\ \E x \in StoredRows(heap) : x.key = row.key
             /\ stmt' = Idle /\ outcome' = "refused" /\ StoredRows(heap') = StoredRows(heap)
          \/ stmt' = Idle /\ outcome' = "failed" /\ StoredRows(heap') = StoredRows(heap)
          \/ /\ ~ \E x \in StoredRows(heap) : x.key = row.key
             /\ StoredRows(heap') = StoredRows(heap) \cup {row}
             /\ stmt'.kind = "insert" /\ outcome' = outcome
    BY <1>7, InsertIsPromised
  <2>4. Promise!Refuse(row.key) \/ Promise!End("failed") \/ Promise!Insert(row)
    BY <1>4, <1>6, <2>1, <2>2, <2>3
       DEF Promise!Refuse, Promise!End, Promise!Insert, Promise!Taken, rows
  <2> QED
    BY <2>2, <2>4 DEF Promise!Next
<1>8. CASE DeleteNext
  <2>1. KeysDiffer(heap') /\ stmt.kind = "delete" /\ stmt'.kind = "delete" /\ outcome' = outcome
    BY <1>8, DeleteIsPromised DEF KeepsPromise
  <2>2. KeepsPromise' /\ rows' = StoredRows(heap')
    BY <1>3, <1>5, <2>1
  <2>3. PICK row \in StoredRows(heap) : StoredRows(heap') = StoredRows(heap) \ {row}
    BY <1>8, DeleteIsPromised
  <2>4. row \in rows /\ Promise!Remove(row)
    BY <1>4, <2>1, <2>2, <2>3 DEF Promise!Remove, rows
  <2> QED
    BY <2>2, <2>4 DEF Promise!Next, rows
<1>9. CASE UpdateNext
  <2>1. KeysDiffer(heap') /\ stmt.kind = "update"
    BY <1>9, UpdateIsPromised
  <2>2. KeepsPromise' /\ rows' = StoredRows(heap')
    BY <1>3, <1>5, <2>1
  <2>3. PICK old \in StoredRows(heap), new \in Row :
          \/ /\ \E x \in StoredRows(heap) : x.key = new.key
             /\ stmt' = Idle /\ outcome' = "refused" /\ StoredRows(heap') = StoredRows(heap)
          \/ /\ new.key = old.key \/ ~ \E x \in StoredRows(heap) : x.key = new.key
             /\ StoredRows(heap') = (StoredRows(heap) \ {old}) \cup {new}
             /\ stmt'.kind = "update" /\ outcome' = outcome
    BY <1>9, UpdateIsPromised
  <2>4. old \in rows /\ (Promise!Refuse(new.key) \/ Promise!Change(old, new))
    BY <1>4, <1>6, <2>1, <2>2, <2>3
       DEF Promise!Refuse, Promise!End, Promise!Change, Promise!Taken, rows
  <2> QED
    BY <2>2, <2>4 DEF Promise!Next, rows
<1>10. ASSUME heap' = heap PROVE KeepsPromise' /\ rows' = rows
  <2>1. KeepsPromise'
    BY <1>2, <1>3, <1>10
  <2> QED
    BY <1>4, <1>5, <1>10, <2>1
<1>11. ASSUME NEW s, Begin(s), s.kind \in {"insert", "update", "delete"}
       PROVE  KeepsPromise' /\ Promise!Next
  <2>1. heap' = heap /\ stmt = Idle /\ stmt' = s /\ outcome' = "none"
    BY <1>11 DEF Begin
  <2>2. KeepsPromise' /\ rows' = rows
    BY <1>10, <2>1
  <2>3. Promise!Start(s.kind)
    BY <1>6, <2>1, <2>2 DEF Promise!Start, rows
  <2> QED
    BY <1>11, <2>2, <2>3 DEF Promise!Next
<1>12. CASE \E r \in Inserts : StartInsert(r)
  BY <1>11, <1>12 DEF StartInsert
<1>13. CASE \E keys \in Wheres : StartDelete(keys) \/ \E set \in Sets : StartUpdate(keys, set)
  BY <1>11, <1>13 DEF StartDelete, StartUpdate
<1>14. CASE Done
  <2>1. heap' = heap /\ stmt' = Idle /\ outcome' = "done" /\ stmt.kind # "idle"
    BY <1>14 DEF Done, End
  <2>2. KeepsPromise' /\ rows' = rows
    BY <1>10, <2>1
  <2>3. Promise!End("done")
    BY <1>6, <2>1, <2>2 DEF Promise!End, rows
  <2> QED
    BY <2>2, <2>3 DEF Promise!Next
<1>15. ASSUME heap' = heap, stmt'.kind = stmt.kind, outcome' = outcome
       PROVE  KeepsPromise' /\ [Promise!Next]_(Promise!vars)
  BY <1>10, <1>15 DEF Promise!vars, rows
<1>16. CASE UpdateNextPage
  <2>1. stmt'.kind = stmt.kind
    BY <1>2, <1>16 DEF UpdateNextPage, Statement
  <2> QED
    BY <1>15, <1>16, <2>1 DEF UpdateNextPage
<1>17. CASE CreateIndex \/ DropIndex \/ UNCHANGED vars
  BY <1>15, <1>17 DEF CreateIndex, DropIndex, vars
<1> QED
  BY <1>7, <1>8, <1>9, <1>12, <1>13, <1>14, <1>16, <1>17 DEF Next

\* Whatever it is stored in, with an index or without: the table is a set of rows
\* with distinct keys, which each statement changes row by row, and a row is refused
\* only for a key that is taken (DmlOperator, _check_unique, Table, IndexManager), as
\* long as the client stays away from what breaks an index or overwrites rows.
THEOREM TableKeepsItsPromise ==
    ASSUME KeysAreEstimated, IndexIsSafe, "overwrite" \in Avoided \/ Sets = {}
    PROVE  Spec => ImplementsKeyedTable
<1>1. Init => KeepsPromise /\ Promise!Init
  <2> SUFFICES ASSUME Init PROVE KeepsPromise /\ Promise!Init
    OBVIOUS
  <2>1. /\ heap = AfterLoading.heap /\ stmt = Idle /\ outcome = "none"
        /\ Counted /\ WellMatched
    BY MatchStarts, Zenon DEF Init, WellMatched
  <2>2. heap \in FitHeap /\ NeatHeap(heap) /\ RoomyHeap(heap) /\ KeysDiffer(heap)
    BY <2>1, LoadedFits, LoadedSound, LoadedMatches
  <2>3. KeepsPromise
    BY <2>1, <2>2 DEF KeepsPromise, SoundTable
  <2>4. {RowAt(heap, rid) : rid \in Readable(heap)} = StoredRows(heap)
    BY <2>3, ShownRows
  <2>5. StoredRows(heap) \in SUBSET Row
    BY <2>2, RowIdsAre, RowsAre DEF StoredRows
  <2>6. \A x, y \in StoredRows(heap) : x.key = y.key => x = y
    BY <2>2 DEF StoredRows, KeysDiffer
  <2>7. stmt.kind = "idle"
    BY <2>1 DEF Idle
  <2> QED
    BY <2>1, <2>3, <2>4, <2>5, <2>6, <2>7 DEF Promise!Init
<1>2. KeepsPromise /\ [Next]_vars => KeepsPromise' /\ [Promise!Next]_(Promise!vars)
  BY PromiseGoesOn, Zenon
<1>3. Spec => Promise!Init /\ [][Promise!Next]_(Promise!vars)
  BY <1>1, <1>2, PTL DEF Spec
<1> QED
  BY <1>3, PTL DEF ImplementsKeyedTable, Promise!Spec
=============================================================================
