----------------------------- MODULE BufferPool -----------------------------
(***************************************************************************)
(* The LRU buffer pool of tinydb (buffer_pool.py) on the page file         *)
(* (file_manager.py): threads call get_page, set_page_data, mark_dirty,    *)
(* pin, unpin and flush.  A critical section of BufferPool._lock is one    *)
(* action unless it reads or writes the file: the file has one position,   *)
(* which all threads share, and seek and read (or write) are two steps.    *)
(* _lock is held by the thread whose pc is in Locked.                      *)
(*                                                                         *)
(* Not here: the lock manager behind pin and unpin (LockManager), the      *)
(* snapshots of get_page, growing files, and TransactionManager.commit,    *)
(* which empties the cache behind the pool's back.                         *)
(***************************************************************************)
EXTENDS Naturals, FiniteSets

CONSTANTS
    Thread,         \* threads that call the pool
    Page,           \* the pages of the file but the header, page 0
    Data,           \* contents of a page
    NoData,         \* the absence of a content: not cached, past the end of file
    Capacity        \* BufferPool._capacity

ASSUME PagesAreNumbers == Page \subseteq Nat \ {0} /\ IsFiniteSet(Page)
ASSUME NoDataIsNoContent == NoData \notin Data
ASSUME CapacityIsPositive == Capacity \in Nat \ {0}

VARIABLES
    disk,           \* disk[p]: the content of page p in the file
    pos,            \* position of the file, as the number of a page
    cache,          \* cache[p]: content of the cached page p, or NoData
    dirty,          \* the cached pages with the flag dirty
    pinned,         \* BufferPool._pinned
    older,          \* <<p, q>>: p comes before q in the OrderedDict
    pc,             \* pc[t]: where thread t is
    page,           \* page[t]: the page that t is reading or writing, or 0
    buf,            \* buf[t]: the content t has read or is going to write
    todo,           \* todo[t]: pages and contents t's flush has yet to write
    reply,          \* reply[t]: what the last call of t returned
    pins            \* pins[t]: pages t has pinned and not yet unpinned

vars == <<disk, pos, cache, dirty, pinned, older, pc, page, buf, todo, reply, pins>>
pool == <<cache, dirty, pinned, older>>
file == <<disk, pos>>
local == <<page, buf, todo>>      \* the variables of a call

\* Places where _lock is held, and where it is not.
Locked == {"evict", "evictwrite", "pinseek", "pinread"}
Unlocked == {"idle", "seek", "read", "insert", "flush", "flushwrite"}

Reply ==
    [op : {"none", "flush", "error"}] \cup [op : {"write"}, page : Page]
        \cup [op : {"read"}, page : Page, data : Data]

LockIsFree == \A t \in Thread : pc[t] \notin Locked

-----------------------------------------------------------------------------
(* The file.                                                               *)

\* write_page and read_page first seek ...
Seek(p) == pos' = p /\ UNCHANGED disk

\* ... and then use the position: a read past the end finds no page,
AtPosition == IF pos \in Page THEN disk[pos] ELSE NoData
Advance == pos' = pos + 1 /\ UNCHANGED disk

\* and a write puts the content wherever the file is by then.
WriteAtPosition(d) ==
    /\ disk' = [p \in Page |-> IF p = pos THEN d ELSE disk[p]]
    /\ pos' = pos + 1

-----------------------------------------------------------------------------
(* The cache, an OrderedDict with the least recently used page first.      *)

Cached == {p \in Page : cache[p] # NoData}

OrderWithout(p) == {pq \in older : pq[1] # p /\ pq[2] # p}

\* move_to_end
OrderWithLast(p) == OrderWithout(p) \cup ((Cached \ {p}) \X {p})

\* Mutant: eviction overlooks the pins.
VictimAnyPage(p) == p \in Cached /\ \A q \in Cached : <<q, p>> \notin older

\* The first page of the dict that is not pinned.
Victim(p) ==
    /\ p \in Cached \ pinned
    /\ \A q \in Cached \ pinned : <<q, p>> \notin older

\* Mutant: the flag of the page stays.
DropKeepsFlag(p) ==
    /\ cache' = [cache EXCEPT ![p] = NoData]
    /\ older' = OrderWithout(p)
    /\ UNCHANGED <<dirty, pinned>>

Drop(p) ==
    /\ cache' = [cache EXCEPT ![p] = NoData]
    /\ dirty' = dirty \ {p}
    /\ older' = OrderWithout(p)
    /\ UNCHANGED pinned

Put(p, d) ==
    /\ cache' = [cache EXCEPT ![p] = d]
    /\ older' = OrderWithLast(p)

GoTo(t, where) == pc' = [pc EXCEPT ![t] = where]

\* Returning to the caller: the variables of the call are gone.
Finish(t) ==
    /\ GoTo(t, "idle")
    /\ page' = [page EXCEPT ![t] = 0]
    /\ buf' = [buf EXCEPT ![t] = NoData]

Return(t, r) == Finish(t) /\ reply' = [reply EXCEPT ![t] = r]

Error == [op |-> "error"]
Found(p, d) == [op |-> "read", page |-> p, data |-> d]

-----------------------------------------------------------------------------
Init ==
    /\ disk \in [Page -> Data]
    /\ pos = 0
    /\ cache = [p \in Page |-> NoData]
    /\ dirty = {} /\ pinned = {} /\ older = {}
    /\ pc = [t \in Thread |-> "idle"]
    /\ page = [t \in Thread |-> 0]
    /\ buf = [t \in Thread |-> NoData]
    /\ todo = [t \in Thread |-> {}]
    /\ reply = [t \in Thread |-> [op |-> "none"]]
    /\ pins = [t \in Thread |-> {}]

(* get_page                                                                *)

\* The page is in the cache: on entry, or when the double check finds it.
Hit(t, p) ==
    /\ p \in Cached
    /\ older' = OrderWithLast(p)
    /\ Return(t, Found(p, cache[p]))
    /\ UNCHANGED <<file, cache, dirty, pinned, todo, pins>>

GetHit(t, p) == pc[t] = "idle" /\ LockIsFree /\ Hit(t, p)

\* The page is not in the cache: _lock is left for the time of the read.
GetMiss(t, p) ==
    /\ pc[t] = "idle" /\ LockIsFree
    /\ p \notin Cached
    /\ GoTo(t, "seek")
    /\ page' = [page EXCEPT ![t] = p]
    /\ UNCHANGED <<file, pool, buf, todo, reply, pins>>

SeekPage(t) ==
    /\ pc[t] = "seek"
    /\ Seek(page[t])
    /\ GoTo(t, "read")
    /\ UNCHANGED <<pool, local, reply, pins>>

\* parse_page_header raises when no page was read.
ReadPage(t) ==
    /\ pc[t] = "read"
    /\ Advance
    /\ IF AtPosition = NoData
       THEN Return(t, Error)
       ELSE /\ GoTo(t, "insert")
            /\ buf' = [buf EXCEPT ![t] = AtPosition]
            /\ UNCHANGED <<page, reply>>
    /\ UNCHANGED <<pool, todo, pins>>

DoubleCheckHit(t) == pc[t] = "insert" /\ LockIsFree /\ Hit(t, page[t])

DoubleCheckMiss(t) ==
    /\ pc[t] = "insert" /\ LockIsFree
    /\ page[t] \notin Cached
    /\ GoTo(t, "evict")
    /\ UNCHANGED <<file, pool, local, reply, pins>>

\* _insert_page evicts until there is room.
Full == Cardinality(Cached) >= Capacity

\* Mutant: a victim is dropped whether it is dirty or not.
EvictCleanAny(t) ==
    /\ pc[t] = "evict" /\ Full
    /\ \E v \in Page : Victim(v) /\ Drop(v)
    /\ UNCHANGED <<file, pc, local, reply, pins>>

EvictClean(t) ==
    /\ pc[t] = "evict" /\ Full
    /\ \E v \in Page \ dirty : Victim(v) /\ Drop(v)
    /\ UNCHANGED <<file, pc, local, reply, pins>>

EvictSeek(t) ==
    /\ pc[t] = "evict" /\ Full
    /\ \E v \in dirty : Victim(v) /\ Seek(v)
    /\ GoTo(t, "evictwrite")
    /\ UNCHANGED <<pool, local, reply, pins>>

\* _lock is held since EvictSeek: the victim is still the same.
EvictWrite(t) ==
    /\ pc[t] = "evictwrite"
    /\ \E v \in Page : Victim(v) /\ WriteAtPosition(cache[v]) /\ Drop(v)
    /\ GoTo(t, "evict")
    /\ UNCHANGED <<local, reply, pins>>

\* Mutant: _evict_one returns when it finds no victim, and the loop goes on.
AllPinnedGoesOn(t) ==
    /\ pc[t] = "evict" /\ Full
    /\ \A v \in Page : ~Victim(v)
    /\ UNCHANGED vars

AllPinned(t) ==
    /\ pc[t] = "evict" /\ Full
    /\ \A v \in Page : ~Victim(v)
    /\ Return(t, Error)
    /\ UNCHANGED <<file, pool, todo, pins>>

InsertPage(t) ==
    /\ pc[t] = "evict" /\ ~Full
    /\ Put(page[t], buf[t])
    /\ Return(t, Found(page[t], buf[t]))
    /\ UNCHANGED <<file, dirty, pinned, todo, pins>>

(* set_page_data, mark_dirty                                               *)

\* Callers read a page, change it and write it back (Table.insert, update and
\* delete).  A page that is no longer cached is left alone, silently.
SetPageData(t, p, d) ==
    /\ pc[t] = "idle" /\ LockIsFree
    /\ reply[t].op = "read" /\ reply[t].page = p
    /\ IF p \in Cached
       THEN cache' = [cache EXCEPT ![p] = d] /\ dirty' = dirty \cup {p}
       ELSE UNCHANGED <<cache, dirty>>
    /\ reply' = [reply EXCEPT ![t] = [op |-> "write", page |-> p]]
    /\ UNCHANGED <<file, pinned, older, pc, local, pins>>

MarkDirty(t, p) ==
    /\ pc[t] = "idle" /\ LockIsFree
    /\ p \in Cached
    /\ dirty' = dirty \cup {p}
    /\ UNCHANGED <<file, cache, pinned, older, pc, local, reply, pins>>

(* pin, unpin                                                              *)

PinCached(t, p) ==
    /\ pc[t] = "idle" /\ LockIsFree
    /\ p \in Cached \ pins[t]
    /\ pinned' = pinned \cup {p}
    /\ older' = OrderWithLast(p)
    /\ pins' = [pins EXCEPT ![t] = @ \cup {p}]
    /\ UNCHANGED <<file, cache, dirty, pc, local, reply>>

\* The page is read under _lock ...
PinMiss(t, p) ==
    /\ pc[t] = "idle" /\ LockIsFree
    /\ p \notin Cached \cup pins[t]
    /\ GoTo(t, "pinseek")
    /\ page' = [page EXCEPT ![t] = p]
    /\ UNCHANGED <<file, pool, buf, todo, reply, pins>>

PinSeek(t) ==
    /\ pc[t] = "pinseek"
    /\ Seek(page[t])
    /\ GoTo(t, "pinread")
    /\ UNCHANGED <<pool, local, reply, pins>>

\* ... and put into the cache without making room for it.
PinRead(t) ==
    /\ pc[t] = "pinread"
    /\ Advance
    /\ IF AtPosition = NoData
       THEN Return(t, Error) /\ UNCHANGED <<cache, pinned, older, pins>>
       ELSE /\ Put(page[t], AtPosition)
            /\ pinned' = pinned \cup {page[t]}
            /\ pins' = [pins EXCEPT ![t] = @ \cup {page[t]}]
            /\ Finish(t)
            /\ UNCHANGED reply
    /\ UNCHANGED <<dirty, todo>>

\* There is one pin for all threads.
Unpin(t, p) ==
    /\ pc[t] = "idle" /\ LockIsFree
    /\ p \in pins[t]
    /\ pinned' = pinned \ {p}
    /\ pins' = [pins EXCEPT ![t] = @ \ {p}]
    /\ UNCHANGED <<file, cache, dirty, older, pc, local, reply>>

(* flush                                                                   *)

\* The dirty pages are collected under _lock ...
FlushCollect(t) ==
    /\ pc[t] = "idle" /\ LockIsFree
    /\ todo' = [todo EXCEPT ![t] = {<<p, cache[p]>> : p \in dirty}]
    /\ GoTo(t, "flush")
    /\ UNCHANGED <<file, pool, page, buf, reply, pins>>

\* ... written without it, in the order of the dict (here: in any order) ...
FlushSeek(t) ==
    /\ pc[t] = "flush"
    /\ \E w \in todo[t] :
        /\ Seek(w[1])
        /\ page' = [page EXCEPT ![t] = w[1]]
        /\ buf' = [buf EXCEPT ![t] = w[2]]
        /\ todo' = [todo EXCEPT ![t] = @ \ {w}]
    /\ GoTo(t, "flushwrite")
    /\ UNCHANGED <<pool, reply, pins>>

FlushWrite(t) ==
    /\ pc[t] = "flushwrite"
    /\ WriteAtPosition(buf[t])
    /\ GoTo(t, "flush")
    /\ UNCHANGED <<pool, local, reply, pins>>

\* ... and then every flag is cleared.
FlushClear(t) ==
    /\ pc[t] = "flush" /\ LockIsFree
    /\ todo[t] = {}
    /\ dirty' = {}
    /\ Return(t, [op |-> "flush"])
    /\ UNCHANGED <<file, cache, pinned, older, todo, pins>>

-----------------------------------------------------------------------------
\* The process dies: the file is all that is left.
Crash ==
    /\ pos' = 0
    /\ cache' = [p \in Page |-> NoData]
    /\ dirty' = {} /\ pinned' = {} /\ older' = {}
    /\ pc' = [t \in Thread |-> "idle"]
    /\ page' = [t \in Thread |-> 0]
    /\ buf' = [t \in Thread |-> NoData]
    /\ todo' = [t \in Thread |-> {}]
    /\ reply' = [t \in Thread |-> [op |-> "none"]]
    /\ pins' = [t \in Thread |-> {}]
    /\ UNCHANGED disk

GetPage(t) ==
    \/ \E p \in Page : GetHit(t, p) \/ GetMiss(t, p)
    \/ SeekPage(t) \/ ReadPage(t) \/ DoubleCheckHit(t) \/ DoubleCheckMiss(t)
    \/ EvictClean(t) \/ EvictSeek(t) \/ EvictWrite(t) \/ AllPinned(t) \/ InsertPage(t)

Change(t) ==
    \E p \in Page : MarkDirty(t, p) \/ \E d \in Data : SetPageData(t, p, d)

Pin(t) ==
    \/ \E p \in Page : PinCached(t, p) \/ PinMiss(t, p) \/ Unpin(t, p)
    \/ PinSeek(t) \/ PinRead(t)

Flush(t) == FlushCollect(t) \/ FlushSeek(t) \/ FlushWrite(t) \/ FlushClear(t)

Next == (\E t \in Thread : GetPage(t) \/ Change(t) \/ Pin(t) \/ Flush(t)) \/ Crash

Spec == Init /\ [][Next]_vars

\* The steps inside a call: a thread that is running goes on, but nothing makes
\* a client call the pool.
Continue(t) == pc[t] # "idle" /\ (GetPage(t) \/ Pin(t) \/ Flush(t))

FairSpec == Spec /\ \A t \in Thread : WF_vars(Continue(t))

-----------------------------------------------------------------------------
TypeOK ==
    /\ disk \in [Page -> Data]
    /\ pos \in Nat
    /\ cache \in [Page -> Data \cup {NoData}]
    /\ dirty \subseteq Cached
    /\ pinned \subseteq Page
    /\ older \subseteq Page \X Page
    /\ pc \in [Thread -> Locked \cup Unlocked]
    /\ page \in [Thread -> Page \cup {0}]
    /\ buf \in [Thread -> Data \cup {NoData}]
    /\ todo \in [Thread -> SUBSET (Page \X Data)]
    /\ reply \in [Thread -> Reply]
    /\ pins \in [Thread -> SUBSET Page]

\* No interleaving of threads evicts a page that is in the set of the pins
\* (_evict_one skips them).
PinnedStayCached == pinned \subseteq Cached

\* Every call of a lone thread returns: whatever pins and dirty pages it meets,
\* in a cache that pin has filled beyond the capacity, the loop of _insert_page
\* runs out of pages to evict or raises, and flush comes to its end.
CallsReturn == \A t \in Thread : []<>(pc[t] = "idle")

\* What the pool and the file are worth to a caller.
Content(p) == IF cache[p] = NoData THEN disk[p] ELSE cache[p]

Store == INSTANCE PageStore WITH
    store <- [p \in Page |-> Content(p)], durable <- disk, replies <- reply

\* With one thread the pool is a page store: no read is stale, no eviction
\* loses a change, a flush that has returned survives a crash, and a crash
\* leaves the contents of the file.
ImplementsPageStore == Store!StoreSpec

-----------------------------------------------------------------------------
\* A thread that reads a page from the file gets that page.
ReadsItsPage ==
    [][\A t \in Thread : ReadPage(t) => AtPosition = disk[page[t]]]_vars
=============================================================================
