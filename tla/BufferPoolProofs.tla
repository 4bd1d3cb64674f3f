------------------------- MODULE BufferPoolProofs -------------------------
(***************************************************************************)
(* Proofs about BufferPool: for any threads, pages, contents and capacity, *)
(* and, in the last part, for any pool that only one thread uses.          *)
(***************************************************************************)
EXTENDS BufferPool, TLAPS

Step(t) == GetPage(t) \/ Change(t) \/ Pin(t) \/ Flush(t)

\* What the variables of a call are at the places that use them.
ReadsPage == {"seek", "read", "pinseek", "pinread"}
HasContent == {"insert", "evict", "evictwrite", "flushwrite"}

LocalsOK(t) ==
    /\ pc[t] \in ReadsPage \cup HasContent => page[t] \in Page
    /\ pc[t] \in HasContent => buf[t] \in Data

Typed == TypeOK /\ \A t \in Thread : LocalsOK(t)

-----------------------------------------------------------------------------
(* Types.                                                                  *)

\* Typed holds initially.
LEMMA InitTyped == Init => Typed
BY DEF Init, Typed, LocalsOK, TypeOK, Cached, Unlocked, Locked, ReadsPage, HasContent, Reply

\* A page number is a natural number.
LEMMA PlaceIsNat == Typed => \A t \in Thread : page[t] \in Nat
<1>1. Page \cup {0} \subseteq Nat
  BY PagesAreNumbers
<1> QED
  BY <1>1, Zenon DEF Typed, TypeOK

\* What a read finds at the position of the file.
LEMMA AtPositionType == Typed => AtPosition \in Data \cup {NoData}
BY DEF Typed, TypeOK, AtPosition

\* The steps of get_page keep the types.
LEMMA GetPageTyped ==
    ASSUME Typed, NEW t \in Thread, GetPage(t)
    PROVE  Typed'
<1> USE PagesAreNumbers, NoDataIsNoContent, PlaceIsNat
        DEF Typed, TypeOK, LocalsOK, ReadsPage, HasContent,
            Cached, Locked, Unlocked, Reply, pool, file, local
<1>1. ASSUME NEW p \in Page, GetHit(t, p) PROVE Typed'
  BY <1>1 DEF GetHit, Hit, OrderWithLast, OrderWithout, Return, Finish, GoTo, Found
<1>2. ASSUME NEW p \in Page, GetMiss(t, p) PROVE Typed'
  BY <1>2 DEF GetMiss, GoTo
<1>3. CASE SeekPage(t)
  BY <1>3 DEF SeekPage, Seek, GoTo
<1>4. CASE ReadPage(t)
  <2>1. UNCHANGED <<disk, cache, dirty, pinned, older, todo, pins>> /\ pos' = pos + 1
    BY <1>4 DEF ReadPage, Advance
  <2>2. CASE AtPosition = NoData
    <3>1. Return(t, Error)
      BY <1>4, <2>2 DEF ReadPage
    <3> QED
      BY <2>1, <3>1 DEF Return, Finish, GoTo, Error
  <2>3. CASE AtPosition # NoData
    <3>1. /\ GoTo(t, "insert") /\ UNCHANGED <<page, reply>>
          /\ buf' = [buf EXCEPT ![t] = AtPosition]
      BY <1>4, <2>3 DEF ReadPage
    <3>2. page[t] \in Page /\ AtPosition \in Data
      BY <1>4, <2>3, AtPositionType DEF ReadPage
    <3> QED
      BY <2>1, <3>1, <3>2 DEF GoTo
  <2> QED
    BY <2>2, <2>3
<1>5. CASE DoubleCheckHit(t)
  BY <1>5 DEF DoubleCheckHit, Hit, OrderWithLast, OrderWithout, Return, Finish, GoTo, Found
<1>6. CASE DoubleCheckMiss(t)
  BY <1>6 DEF DoubleCheckMiss, GoTo
<1>7. CASE EvictClean(t)
  BY <1>7 DEF EvictClean, Victim, Drop, OrderWithout
<1>8. CASE EvictSeek(t)
  BY <1>8 DEF EvictSeek, Victim, Seek, GoTo
<1>9. CASE EvictWrite(t)
  BY <1>9 DEF EvictWrite, Victim, WriteAtPosition, Drop, OrderWithout, GoTo
<1>10. CASE AllPinned(t)
  BY <1>10 DEF AllPinned, Return, Finish, GoTo, Error
<1>11. CASE InsertPage(t)
  BY <1>11 DEF InsertPage, Put, OrderWithLast, OrderWithout, Return, Finish, GoTo, Found
<1> QED
  BY <1>1, <1>2, <1>3, <1>4, <1>5, <1>6, <1>7, <1>8, <1>9, <1>10, <1>11 DEF GetPage

\* So do those of set_page_data and mark_dirty,
LEMMA ChangeTyped ==
    ASSUME Typed, NEW t \in Thread, Change(t)
    PROVE  Typed'
<1> USE PagesAreNumbers, NoDataIsNoContent, PlaceIsNat
        DEF Typed, TypeOK, LocalsOK, ReadsPage, HasContent,
            Cached, Locked, Unlocked, Reply, pool, file, local
<1>1. ASSUME NEW p \in Page, MarkDirty(t, p) PROVE Typed'
  BY <1>1 DEF MarkDirty
<1>2. ASSUME NEW p \in Page, NEW d \in Data, SetPageData(t, p, d) PROVE Typed'
  <2>1. /\ UNCHANGED <<disk, pos, pinned, older, pc, page, buf, todo, pins>>
        /\ reply' = [reply EXCEPT ![t] = [op |-> "write", page |-> p]]
    BY <1>2 DEF SetPageData
  <2>2. reply' \in [Thread -> Reply]
    BY <2>1
  <2>3. CASE p \in Cached
    <3>1. cache' = [cache EXCEPT ![p] = d] /\ dirty' = dirty \cup {p}
      BY <1>2, <2>3 DEF SetPageData
    <3> QED
      BY <2>1, <2>2, <3>1
  <2>4. CASE p \notin Cached
    <3>1. UNCHANGED <<cache, dirty>>
      BY <1>2, <2>4 DEF SetPageData
    <3> QED
      BY <2>1, <2>2, <3>1
  <2> QED
    BY <2>3, <2>4
<1> QED
  BY <1>1, <1>2 DEF Change

\* of pin and unpin,
LEMMA PinTyped ==
    ASSUME Typed, NEW t \in Thread, Pin(t)
    PROVE  Typed'
<1> USE PagesAreNumbers, NoDataIsNoContent, PlaceIsNat
        DEF Typed, TypeOK, LocalsOK, ReadsPage, HasContent,
            Cached, Locked, Unlocked, Reply, pool, file, local
<1>1. ASSUME NEW p \in Page, PinCached(t, p) PROVE Typed'
  BY <1>1 DEF PinCached, OrderWithLast, OrderWithout
<1>2. ASSUME NEW p \in Page, PinMiss(t, p) PROVE Typed'
  BY <1>2 DEF PinMiss, GoTo
<1>3. ASSUME NEW p \in Page, Unpin(t, p) PROVE Typed'
  BY <1>3 DEF Unpin
<1>4. CASE PinSeek(t)
  BY <1>4 DEF PinSeek, Seek, GoTo
<1>5. CASE PinRead(t)
  <2>1. UNCHANGED <<disk, dirty, todo>> /\ pos' = pos + 1
    BY <1>5 DEF PinRead, Advance
  <2>2. CASE AtPosition = NoData
    <3>1. Return(t, Error) /\ UNCHANGED <<cache, pinned, older, pins>>
      BY <1>5, <2>2 DEF PinRead
    <3> QED
      BY <2>1, <3>1 DEF Return, Finish, GoTo, Error
  <2>3. CASE AtPosition # NoData
    <3>1. page[t] \in Page /\ AtPosition \in Data
      BY <1>5, <2>3, AtPositionType DEF PinRead
    <3>2. /\ cache' = [cache EXCEPT ![page[t]] = AtPosition]
          /\ older' = OrderWithLast(page[t])
          /\ pinned' = pinned \cup {page[t]}
          /\ pins' = [pins EXCEPT ![t] = pins[t] \cup {page[t]}]
          /\ Finish(t) /\ UNCHANGED reply
      BY <1>5, <2>3 DEF PinRead, Put
    <3>3. older' \subseteq Page \X Page
      BY <3>1, <3>2 DEF OrderWithLast, OrderWithout
    <3>4. dirty' \subseteq Cached'
      BY <2>1, <3>1, <3>2
    <3>5. /\ cache' \in [Page -> Data \cup {NoData}]
          /\ pinned' \subseteq Page /\ pins' \in [Thread -> SUBSET Page]
      BY <3>1, <3>2, ZenonT(60)
    <3>6. /\ pc' \in [Thread -> Locked \cup Unlocked]
          /\ page' \in [Thread -> Page \cup {0}] /\ buf' \in [Thread -> Data \cup {NoData}]
          /\ \A u \in Thread : LocalsOK(u)'
      BY <3>2 DEF Finish, GoTo
    <3> QED
      BY <2>1, <3>2, <3>3, <3>4, <3>5, <3>6
  <2> QED
    BY <2>2, <2>3
<1> QED
  BY <1>1, <1>2, <1>3, <1>4, <1>5 DEF Pin

\* and of flush.
LEMMA FlushTyped ==
    ASSUME Typed, NEW t \in Thread, Flush(t)
    PROVE  Typed'
<1> USE PagesAreNumbers, NoDataIsNoContent, PlaceIsNat
        DEF Typed, TypeOK, LocalsOK, ReadsPage, HasContent,
            Cached, Locked, Unlocked, Reply, pool, file, local
<1>1. CASE FlushCollect(t)
  BY <1>1 DEF FlushCollect, GoTo
<1>2. CASE FlushSeek(t)
  BY <1>2 DEF FlushSeek, Seek, GoTo
<1>3. CASE FlushWrite(t)
  BY <1>3 DEF FlushWrite, WriteAtPosition, GoTo
<1>4. CASE FlushClear(t)
  BY <1>4 DEF FlushClear, Return, Finish, GoTo
<1> QED
  BY <1>1, <1>2, <1>3, <1>4 DEF Flush

\* A crash keeps the types.
LEMMA CrashTyped == ASSUME Typed, Crash PROVE Typed'
BY DEF Crash, Typed, TypeOK, LocalsOK, Cached, Locked, Unlocked, ReadsPage, HasContent, Reply

\* Every step keeps the types.
LEMMA NextTyped == ASSUME Typed, [Next]_vars PROVE Typed'
<1>1. ASSUME NEW t \in Thread, Step(t) PROVE Typed'
  BY <1>1, GetPageTyped, ChangeTyped, PinTyped, FlushTyped DEF Step
<1>2. CASE UNCHANGED vars
  BY <1>2 DEF vars, Typed, TypeOK, LocalsOK, Cached
<1> QED
  BY <1>1, <1>2, CrashTyped DEF Next, Step

\* Every reachable state is well typed, and the variables of a call are set
\* wherever they are used.
THEOREM AlwaysTyped == Spec => []Typed
BY InitTyped, NextTyped, PTL DEF Spec

\* Type correctness, for any threads, pages, contents and capacity.
THEOREM PoolTypeCorrect == Spec => []TypeOK
BY AlwaysTyped, PTL DEF Typed

-----------------------------------------------------------------------------
(* The order of the dict, and the pins.                                    *)

\* The OrderedDict orders the cached pages, so that at most one is the victim.
OrderIsTotal ==
    /\ older \subseteq Cached \X Cached
    /\ \A p, q \in Cached : <<p, q>> \in older <=> p # q /\ <<q, p>> \notin older
    /\ \A p, q, r \in Cached :
        <<p, q>> \in older /\ <<q, r>> \in older => <<p, r>> \in older

PoolOK == OrderIsTotal /\ PinnedStayCached

\* What a step can do to the pages in the cache: nothing, use one, lose one.
Keeps ==
    /\ Cached' = Cached /\ older' = older
    /\ pinned' \subseteq pinned
Uses(p) ==
    /\ p \in Page
    /\ Cached' = Cached \cup {p} /\ older' = OrderWithLast(p)
    /\ pinned' \subseteq pinned \cup {p}
Loses(p) ==
    /\ p \in Cached \ pinned
    /\ Cached' = Cached \ {p} /\ older' = OrderWithout(p)
    /\ pinned' = pinned

\* Every step of a thread does one of the three.
LEMMA CacheSteps ==
    ASSUME Typed, NEW t \in Thread, Step(t)
    PROVE  Keeps \/ \E p \in Page : Uses(p) \/ Loses(p)
<1> USE NoDataIsNoContent DEF Typed, TypeOK, LocalsOK, HasContent, ReadsPage, Keeps, pool, file
<1>1. ASSUME NEW p \in Page, Hit(t, p) PROVE Uses(p)
  BY <1>1 DEF Hit, Uses, Cached
<1>2. CASE GetPage(t)
  <2>1. CASE \E p \in Page : GetHit(t, p) \/ GetMiss(t, p)
    BY <1>1, <2>1 DEF GetHit, GetMiss, Cached
  <2>2. CASE SeekPage(t) \/ ReadPage(t) \/ DoubleCheckMiss(t) \/ EvictSeek(t) \/ AllPinned(t)
    BY <2>2 DEF SeekPage, ReadPage, DoubleCheckMiss, EvictSeek, AllPinned, Cached
  <2>3. CASE DoubleCheckHit(t)
    BY <1>1, <2>3 DEF DoubleCheckHit
  <2>4. CASE EvictClean(t) \/ EvictWrite(t)
    <3>1. PICK v \in Page : Victim(v) /\ Drop(v)
      BY <2>4 DEF EvictClean, EvictWrite
    <3>2. Cached' = Cached \ {v}
      BY <3>1 DEF Drop, Cached
    <3> QED
      BY <3>1, <3>2 DEF Victim, Drop, Loses
  <2>5. CASE InsertPage(t)
    <3>1. page[t] \in Page /\ buf[t] # NoData
      BY <2>5 DEF InsertPage
    <3>2. Cached' = Cached \cup {page[t]}
      BY <2>5, <3>1 DEF InsertPage, Put, Cached
    <3> QED
      BY <2>5, <3>1, <3>2 DEF InsertPage, Put, Uses
  <2> QED
    BY <1>2, <2>1, <2>2, <2>3, <2>4, <2>5 DEF GetPage
<1>3. CASE Change(t)
  <2>1. ASSUME NEW p \in Page, MarkDirty(t, p) PROVE Keeps
    BY <2>1 DEF MarkDirty, Cached
  <2>2. ASSUME NEW p \in Page, NEW d \in Data, SetPageData(t, p, d) PROVE Keeps
    <3>1. Cached' = Cached
      BY <2>2 DEF SetPageData, Cached
    <3> QED
      BY <2>2, <3>1 DEF SetPageData
  <2> QED
    BY <1>3, <2>1, <2>2 DEF Change
<1>4. CASE Pin(t)
  <2>1. ASSUME NEW p \in Page, PinCached(t, p) PROVE Uses(p)
    BY <2>1 DEF PinCached, Uses, Cached
  <2>2. ASSUME NEW p \in Page, PinMiss(t, p) \/ Unpin(t, p) PROVE Keeps
    BY <2>2 DEF PinMiss, Unpin, Cached
  <2>3. CASE PinSeek(t)
    BY <2>3 DEF PinSeek, Cached
  <2>4. CASE PinRead(t) /\ AtPosition = NoData
    BY <2>4 DEF PinRead, Cached
  <2>5. CASE PinRead(t) /\ AtPosition # NoData
    <3>1. /\ page[t] \in Page
          /\ Put(page[t], AtPosition) /\ pinned' = pinned \cup {page[t]}
      BY <2>5 DEF PinRead
    <3>2. Cached' = Cached \cup {page[t]}
      BY <2>5, <3>1 DEF Put, Cached
    <3> QED
      BY <3>1, <3>2 DEF Put, Uses
  <2> QED
    BY <1>4, <2>1, <2>2, <2>3, <2>4, <2>5 DEF Pin
<1>5. CASE Flush(t)
  BY <1>5 DEF Flush, FlushCollect, FlushSeek, FlushWrite, FlushClear, Cached
<1> QED
  BY <1>2, <1>3, <1>4, <1>5 DEF Step

\* Each of the three keeps the order total and the pinned pages cached.
LEMMA CacheStepKeepsPoolOK ==
    ASSUME Typed, PoolOK, NEW t \in Thread, Step(t)
    PROVE  PoolOK'
<1> USE DEF PoolOK, OrderIsTotal, PinnedStayCached
<1>1. CASE Keeps
  BY <1>1 DEF Keeps
<1>2. ASSUME NEW p \in Page, Uses(p) PROVE PoolOK'
  BY <1>2 DEF Uses, OrderWithLast, OrderWithout
<1>3. ASSUME NEW p \in Page, Loses(p) PROVE PoolOK'
  BY <1>3 DEF Loses, OrderWithout
<1> QED
  BY <1>1, <1>2, <1>3, CacheSteps

\* The cache of any pool is totally ordered and keeps the pinned pages.
THEOREM PoolStaysOK == Spec => []PoolOK
<1>1. Init => PoolOK
  BY DEF Init, PoolOK, OrderIsTotal, PinnedStayCached, Cached
<1>2. ASSUME Typed, PoolOK, [Next]_vars PROVE PoolOK'
  <2>1. CASE Crash
    BY <2>1 DEF Crash, PoolOK, OrderIsTotal, PinnedStayCached, Cached
  <2>2. CASE UNCHANGED vars
    BY <1>2, <2>2 DEF vars, PoolOK, OrderIsTotal, PinnedStayCached, Cached
  <2> QED
    BY <1>2, <2>1, <2>2, CacheStepKeepsPoolOK DEF Next, Step
<1> QED
  BY <1>1, <1>2, AlwaysTyped, PTL DEF Spec

\* No interleaving of threads evicts a pinned page (PinnedStayCached).
THEOREM PinsProtect == Spec => []PinnedStayCached
BY PoolStaysOK, PTL DEF PoolOK

-----------------------------------------------------------------------------
(* One thread: the pool is a page store.                                   *)

InGetPage == {"seek", "read", "insert", "evict", "evictwrite"}

\* A page without the flag dirty is in the file.
CleanIsSaved == \A p \in Cached \ dirty : cache[p] = disk[p]

\* A flush has still to write whatever is dirty and not in the file.
FlushOK(t) ==
    /\ \A w \in todo[t] : w[1] \in Cached /\ w[2] = cache[w[1]]
    /\ \A p \in dirty :
        \/ cache[p] = disk[p]
        \/ <<p, cache[p]>> \in todo[t]
        \/ pc[t] = "flushwrite" /\ page[t] = p

\* What a call knows between two of its steps when nobody else runs.
CallOK(t) ==
    /\ pc[t] \in InGetPage \cup {"pinseek", "pinread"} => page[t] \notin Cached
    /\ pc[t] \in {"read", "pinread", "flushwrite"} => pos = page[t]
    /\ pc[t] \in {"insert", "evict", "evictwrite"} => buf[t] = disk[page[t]]
    /\ pc[t] = "evictwrite" => pos \in dirty /\ Victim(pos)
    /\ pc[t] \in {"flush", "flushwrite"} => FlushOK(t)
    /\ pc[t] = "flushwrite" => page[t] \in Cached /\ buf[t] = cache[page[t]]
    /\ pc[t] \notin InGetPage /\ reply[t].op = "read" => reply[t].page \in Cached

SeqOK(t) == CleanIsSaved /\ CallOK(t)

\* There is at most one victim.
LEMMA OneVictim ==
    ASSUME OrderIsTotal, NEW v \in Page, NEW w \in Page, Victim(v), Victim(w)
    PROVE  v = w
BY DEF OrderIsTotal, Victim, Cached

\* get_page keeps what a single thread knows.
LEMMA GetPageSeqOK ==
    ASSUME Typed, PoolOK, NEW t \in Thread, SeqOK(t), GetPage(t)
    PROVE  SeqOK(t)'
<1> USE NoDataIsNoContent
        DEF Typed, TypeOK, LocalsOK, HasContent, ReadsPage, SeqOK, CallOK, CleanIsSaved,
            InGetPage, Cached, pool, file
<1>1. ASSUME NEW p \in Page, GetHit(t, p) PROVE SeqOK(t)'
  BY <1>1 DEF GetHit, Hit, Return, Finish, GoTo, Found
<1>2. ASSUME NEW p \in Page, GetMiss(t, p) PROVE SeqOK(t)'
  BY <1>2 DEF GetMiss, GoTo
<1>3. CASE SeekPage(t)
  BY <1>3 DEF SeekPage, Seek, GoTo, local
<1>4. CASE ReadPage(t)
  <2>1. AtPosition = disk[page[t]] /\ AtPosition # NoData
    BY <1>4 DEF ReadPage, AtPosition
  <2> QED
    BY <1>4, <2>1 DEF ReadPage, Advance, GoTo
<1>5. CASE DoubleCheckHit(t)
  BY <1>5 DEF DoubleCheckHit, Hit
<1>6. CASE DoubleCheckMiss(t)
  BY <1>6 DEF DoubleCheckMiss, GoTo, local
<1>7. CASE EvictClean(t)
  BY <1>7 DEF EvictClean, Drop, local
<1>8. CASE EvictSeek(t)
  BY <1>8 DEF EvictSeek, Seek, GoTo, Victim, local
<1>9. CASE EvictWrite(t)
  <2>1. PICK v \in Page : Victim(v) /\ WriteAtPosition(cache[v]) /\ Drop(v)
    BY <1>9 DEF EvictWrite
  <2>2. v = pos
    BY <1>9, <2>1, OneVictim DEF EvictWrite, PoolOK
  <2>3. v # page[t]
    BY <1>9, <2>1 DEF EvictWrite, Victim
  <2> QED
    BY <1>9, <2>1, <2>2, <2>3 DEF EvictWrite, WriteAtPosition, Drop, GoTo, local
<1>10. CASE AllPinned(t)
  BY <1>10 DEF AllPinned, Return, Finish, GoTo, Error
<1>11. CASE InsertPage(t)
  BY <1>11, SMTT(60) DEF InsertPage, Put, Return, Finish, GoTo, Found
<1> QED
  BY <1>1, <1>2, <1>3, <1>4, <1>5, <1>6, <1>7, <1>8, <1>9, <1>10, <1>11 DEF GetPage

\* So do set_page_data and mark_dirty, pin and unpin,
LEMMA ChangeAndPinSeqOK ==
    ASSUME Typed, PoolOK, NEW t \in Thread, SeqOK(t), Change(t) \/ Pin(t)
    PROVE  SeqOK(t)'
<1> USE NoDataIsNoContent
        DEF Typed, TypeOK, LocalsOK, HasContent, ReadsPage, SeqOK, CallOK, CleanIsSaved,
            InGetPage, Cached, pool, file
<1>1. ASSUME NEW p \in Page, MarkDirty(t, p) PROVE SeqOK(t)'
  BY <1>1 DEF MarkDirty, local
<1>2. ASSUME NEW p \in Page, NEW d \in Data, SetPageData(t, p, d) PROVE SeqOK(t)'
  BY <1>2 DEF SetPageData, local
<1>3. ASSUME NEW p \in Page, PinCached(t, p) PROVE SeqOK(t)'
  BY <1>3 DEF PinCached, local
<1>4. ASSUME NEW p \in Page, PinMiss(t, p) PROVE SeqOK(t)'
  BY <1>4 DEF PinMiss, GoTo
<1>5. ASSUME NEW p \in Page, Unpin(t, p) PROVE SeqOK(t)'
  BY <1>5 DEF Unpin, local
<1>6. CASE PinSeek(t)
  BY <1>6 DEF PinSeek, Seek, GoTo, local
<1>7. CASE PinRead(t)
  <2>1. AtPosition = disk[page[t]] /\ AtPosition # NoData
    BY <1>7 DEF PinRead, AtPosition
  <2> QED
    BY <1>7, <2>1 DEF PinRead, Advance, Put, Finish, GoTo
<1> QED
  BY <1>1, <1>2, <1>3, <1>4, <1>5, <1>6, <1>7 DEF Change, Pin

\* and flush.
LEMMA FlushSeqOK ==
    ASSUME Typed, PoolOK, NEW t \in Thread, SeqOK(t), Flush(t)
    PROVE  SeqOK(t)'
<1> USE NoDataIsNoContent
        DEF Typed, TypeOK, LocalsOK, HasContent, ReadsPage, SeqOK, CallOK, CleanIsSaved,
            InGetPage, Cached, pool, file, FlushOK
<1>1. CASE FlushCollect(t)
  BY <1>1 DEF FlushCollect, GoTo
<1>2. CASE FlushSeek(t)
  BY <1>2 DEF FlushSeek, Seek, GoTo
<1>3. CASE FlushWrite(t)
  BY <1>3 DEF FlushWrite, WriteAtPosition, GoTo, local
<1>4. CASE FlushClear(t)
  BY <1>4 DEF FlushClear, Return, Finish, GoTo
<1> QED
  BY <1>1, <1>2, <1>3, <1>4 DEF Flush

\* The store is what the cache and the file are worth together.
Contents == [p \in Page |-> Content(p)]

\* Contents is unchanged when the content of every page is.
LEMMA SameContents ==
    ASSUME \A p \in Page : Content(p)' = Content(p)
    PROVE  Contents' = Contents
BY DEF Contents

\* Each step of get_page is a step of the store, or none.
LEMMA GetPageIsStoreStep ==
    ASSUME Typed, PoolOK, NEW t \in Thread, SeqOK(t), GetPage(t)
    PROVE  [Store!StoreNext]_<<Contents, disk, reply>>
<1> USE NoDataIsNoContent
        DEF Typed, TypeOK, LocalsOK, HasContent, ReadsPage, SeqOK, CallOK, CleanIsSaved,
            InGetPage, Cached, pool, file
<1> DEFINE Same == \A p \in Page : Content(p)' = Content(p)
<1>1. ASSUME NEW p \in Page, GetHit(t, p) PROVE Store!StoreRead(t, p)
  <2>1. Same
    BY <1>1 DEF GetHit, Hit, Content
  <2>2. reply' = [reply EXCEPT ![t] = Found(p, Content(p))] /\ disk' = disk
    BY <1>1 DEF GetHit, Hit, Return, Content
  <2> QED
    BY <2>1, <2>2, SameContents
    DEF Store!StoreRead, Store!ReadReply, Found, Contents
<1>2. ASSUME NEW p \in Page, GetMiss(t, p) PROVE Same /\ UNCHANGED <<disk, reply>>
  BY <1>2 DEF GetMiss, Content
<1>3. CASE SeekPage(t) \/ DoubleCheckMiss(t) \/ EvictSeek(t)
  <2>1. Same /\ UNCHANGED <<disk, reply>>
    BY <1>3 DEF SeekPage, DoubleCheckMiss, EvictSeek, Seek, Content
  <2> QED
    BY <2>1, SameContents
<1>4. CASE ReadPage(t)
  <2>1. AtPosition # NoData
    BY <1>4 DEF ReadPage, AtPosition
  <2>2. Same /\ UNCHANGED <<disk, reply>>
    BY <1>4, <2>1 DEF ReadPage, Advance, Content
  <2> QED
    BY <2>2, SameContents
<1>5. CASE DoubleCheckHit(t)
  BY <1>5 DEF DoubleCheckHit, Hit
<1>6. CASE EvictClean(t)
  <2>1. Same /\ UNCHANGED <<disk, reply>>
    BY <1>6 DEF EvictClean, Victim, Drop, Content
  <2> QED
    BY <2>1, SameContents
<1>7. CASE EvictWrite(t)
  <2>1. PICK v \in Page : Victim(v) /\ WriteAtPosition(cache[v]) /\ Drop(v)
    BY <1>7 DEF EvictWrite
  <2>2. v = pos
    BY <1>7, <2>1, OneVictim DEF EvictWrite, PoolOK
  <2>3. Same /\ disk' = [disk EXCEPT ![v] = Content(v)] /\ reply' = reply
    <3>1. /\ disk' = [q \in Page |-> IF q = v THEN cache[v] ELSE disk[q]]
          /\ cache' = [cache EXCEPT ![v] = NoData] /\ cache[v] # NoData /\ reply' = reply
      BY <1>7, <2>1, <2>2 DEF EvictWrite, Victim, WriteAtPosition, Drop
    <3>2. Content(v)' = Content(v) /\ disk'[v] = Content(v)
      BY <3>1 DEF Content
    <3>3. \A q \in Page \ {v} : Content(q)' = Content(q) /\ disk'[q] = disk[q]
      BY <3>1 DEF Content
    <3>4. disk' = [disk EXCEPT ![v] = Content(v)]
      BY <3>1, <3>2, <3>3
    <3> QED
      BY <3>1, <3>2, <3>3, <3>4
  <2>4. Store!StoreSave(v)
    BY <2>3, SameContents DEF Store!StoreSave, Contents
  <2> QED
    BY <2>4 DEF Store!StoreNext
<1>8. CASE AllPinned(t)
  <2>1. Same /\ disk' = disk
    BY <1>8 DEF AllPinned, Content
  <2>2. Store!StoreFail(t)
    BY <1>8, <2>1, SameContents
    DEF AllPinned, Return, Error, Store!StoreFail, Store!ErrorReply, Contents
  <2> QED
    BY <2>2 DEF Store!StoreNext
<1>9. CASE InsertPage(t)
  <2>1. Same /\ disk' = disk /\ buf[t] = Content(page[t]) /\ page[t] \in Page
    BY <1>9 DEF InsertPage, Put, Content
  <2>2. Store!StoreRead(t, page[t])
    BY <1>9, <2>1, SameContents
    DEF InsertPage, Return, Found, Store!StoreRead, Store!ReadReply, Contents
  <2> QED
    BY <2>1, <2>2 DEF Store!StoreNext
<1>10. CASE \E p \in Page : GetHit(t, p) \/ GetMiss(t, p)
  <2>1. PICK p \in Page : GetHit(t, p) \/ GetMiss(t, p)
    BY <1>10
  <2>2. CASE GetHit(t, p)
    BY <2>2, <1>1 DEF Store!StoreNext
  <2>3. CASE GetMiss(t, p)
    BY <2>3, <1>2, SameContents
  <2> QED
    BY <2>1, <2>2, <2>3
<1> QED
  BY <1>3, <1>4, <1>5, <1>6, <1>7, <1>8, <1>9, <1>10 DEF GetPage

\* So is each step of set_page_data and mark_dirty, pin and unpin,
LEMMA ChangeOrPinIsStoreStep ==
    ASSUME Typed, PoolOK, NEW t \in Thread, SeqOK(t), Change(t) \/ Pin(t)
    PROVE  [Store!StoreNext]_<<Contents, disk, reply>>
<1> USE NoDataIsNoContent
        DEF Typed, TypeOK, LocalsOK, HasContent, ReadsPage, SeqOK, CallOK, CleanIsSaved,
            InGetPage, Cached, pool, file
<1> DEFINE Same == \A p \in Page : Content(p)' = Content(p)
<1>1. ASSUME NEW p \in Page, MarkDirty(t, p) \/ PinCached(t, p) \/ PinMiss(t, p) \/ Unpin(t, p)
      PROVE  Same /\ UNCHANGED <<disk, reply>>
  BY <1>1 DEF MarkDirty, PinCached, PinMiss, Unpin, Content
<1>2. ASSUME NEW p \in Page, NEW d \in Data, SetPageData(t, p, d)
      PROVE  Store!StoreWrite(t, p, d)
  <2>1. p \in Cached /\ cache' = [cache EXCEPT ![p] = d] /\ disk' = disk
    BY <1>2 DEF SetPageData
  <2>2. Contents' = [Contents EXCEPT ![p] = d]
    BY <2>1 DEF Contents, Content
  <2> QED
    BY <1>2, <2>1, <2>2 DEF SetPageData, Store!StoreWrite, Store!WriteReply, Contents
<1>3. CASE PinSeek(t)
  <2>1. Same /\ UNCHANGED <<disk, reply>>
    BY <1>3 DEF PinSeek, Seek, Content
  <2> QED
    BY <2>1, SameContents
<1>4. CASE PinRead(t)
  <2>1. AtPosition = disk[page[t]] /\ AtPosition # NoData
    BY <1>4 DEF PinRead, AtPosition
  <2>2. Same /\ UNCHANGED <<disk, reply>>
    BY <1>4, <2>1 DEF PinRead, Advance, Put, Content
  <2> QED
    BY <2>2, SameContents
<1> QED
  BY <1>1, <1>2, <1>3, <1>4, SameContents DEF Change, Pin, Store!StoreNext

\* and of flush.
LEMMA FlushIsStoreStep ==
    ASSUME Typed, PoolOK, NEW t \in Thread, SeqOK(t), Flush(t)
    PROVE  [Store!StoreNext]_<<Contents, disk, reply>>
<1> USE NoDataIsNoContent
        DEF Typed, TypeOK, LocalsOK, HasContent, ReadsPage, SeqOK, CallOK, CleanIsSaved,
            InGetPage, Cached, pool, file, FlushOK
<1> DEFINE Same == \A p \in Page : Content(p)' = Content(p)
<1>1. CASE FlushCollect(t) \/ FlushSeek(t)
  <2>1. Same /\ UNCHANGED <<disk, reply>>
    BY <1>1 DEF FlushCollect, FlushSeek, Seek, Content
  <2> QED
    BY <2>1, SameContents
<1>2. CASE FlushWrite(t)
  <2>1. /\ Same /\ page[t] \in Page /\ reply' = reply
        /\ disk' = [disk EXCEPT ![page[t]] = Content(page[t])]
    <3>1. /\ disk' = [q \in Page |-> IF q = page[t] THEN buf[t] ELSE disk[q]]
          /\ page[t] \in Page /\ reply' = reply /\ cache' = cache
          /\ Content(page[t]) = buf[t]
      BY <1>2 DEF FlushWrite, WriteAtPosition, Content
    <3>2. ASSUME NEW q \in Page PROVE Content(q)' = Content(q)
      <4>1. CASE q = page[t]
        BY <3>1, <4>1 DEF Content
      <4>2. CASE q # page[t]
        BY <3>1, <4>2 DEF Content
      <4> QED
        BY <4>1, <4>2
    <3>3. disk' = [disk EXCEPT ![page[t]] = Content(page[t])]
      BY <3>1
    <3> QED
      BY <3>1, <3>2, <3>3
  <2>2. Store!StoreSave(page[t])
    BY <2>1, SameContents DEF Store!StoreSave, Contents
  <2> QED
    BY <2>1, <2>2 DEF Store!StoreNext
<1>3. CASE FlushClear(t)
  <2>1. Same /\ disk' = disk /\ \A p \in Page : Content(p) = disk[p]
    BY <1>3 DEF FlushClear, Content
  <2>2. disk = Contents
    BY <2>1 DEF Contents
  <2>3. Store!StoreFlush(t)
    BY <1>3, <2>1, <2>2, SameContents
    DEF FlushClear, Return, Store!StoreFlush, Store!FlushReply, Contents
  <2> QED
    BY <2>3 DEF Store!StoreNext
<1> QED
  BY <1>1, <1>2, <1>3 DEF Flush

\* A crash is a crash of the store, and leaves what a thread knows true.
LEMMA CrashIsStoreCrash ==
    ASSUME Typed, NEW t \in Thread, Crash
    PROVE  SeqOK(t)' /\ [Store!StoreNext]_<<Contents, disk, reply>>
<1>1. SeqOK(t)'
  BY DEF Crash, SeqOK, CleanIsSaved, CallOK, Cached, InGetPage
<1>2. Contents' = disk
  <2>1. \A p \in Page : Content(p)' = disk[p]
    BY DEF Crash, Content
  <2> QED
    BY <2>1 DEF Contents, Typed, TypeOK
<1>3. Store!StoreCrash
  BY <1>2 DEF Crash, Store!StoreCrash, Store!NoReply, Contents
<1> QED
  BY <1>1, <1>3 DEF Store!StoreNext

\* A buffer pool that a single thread uses is a page store
\* (ImplementsPageStore): get_page, set_page_data and flush promise what the
\* store does, also across crashes.
THEOREM OneThreadIsAPageStore ==
    ASSUME NEW t, Thread = {t}
    PROVE  Spec => ImplementsPageStore
<1>1. Init => SeqOK(t) /\ Store!StoreInit
  <2> SUFFICES ASSUME Init PROVE SeqOK(t) /\ Store!StoreInit
    OBVIOUS
  <2>1. SeqOK(t)
    BY DEF Init, SeqOK, CleanIsSaved, CallOK, Cached, InGetPage
  <2>2. Contents = disk
    BY DEF Init, Contents, Content
  <2> QED
    BY <2>1, <2>2 DEF Init, Store!StoreInit, Store!NoReply, Contents
<1>2. ASSUME Typed, PoolOK, SeqOK(t), [Next]_vars
      PROVE  SeqOK(t)' /\ [Store!StoreNext]_<<Contents, disk, reply>>
  <2>1. CASE Step(t)
    BY <1>2, <2>1, GetPageSeqOK, ChangeAndPinSeqOK, FlushSeqOK,
       GetPageIsStoreStep, ChangeOrPinIsStoreStep, FlushIsStoreStep DEF Step
  <2>2. CASE UNCHANGED vars
    <3>1. SeqOK(t)'
      BY <1>2, <2>2 DEF vars, SeqOK, CleanIsSaved, CallOK, FlushOK, Cached, Victim
    <3>2. UNCHANGED <<Contents, disk, reply>>
      BY <2>2 DEF vars, Contents, Content
    <3> QED
      BY <3>1, <3>2
  <2>3. CASE Crash
    BY <1>2, <2>3, CrashIsStoreCrash
  <2> QED
    BY <1>2, <2>1, <2>2, <2>3 DEF Next, Step
<1>3. Spec => Store!StoreInit /\ [][Store!StoreNext]_<<Contents, disk, reply>>
  BY <1>1, <1>2, AlwaysTyped, PoolStaysOK, PTL DEF Spec
<1> QED
  BY <1>3, PTL DEF ImplementsPageStore, Store!StoreSpec, Store!storeVars, Contents
=============================================================================
