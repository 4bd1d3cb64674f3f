------------------------------ MODULE Storage ------------------------------
(***************************************************************************)
(* Tables, shadow pages and the page file of tinydb, as one session uses   *)
(* them: src/tinydb/database.py over catalog.py, table.py,                 *)
(* transaction/txn_manager.py, transaction/shadow_paging.py and            *)
(* file_manager.py.                                                        *)
(*                                                                         *)
(* A statement is one action, for no statement but COMMIT, CREATE, DROP    *)
(* and closing touches pages of the file that were in use before; those    *)
(* write page by page, and the process may die between two writes.  The    *)
(* buffer pool is larger than the database: eviction is in BufferPool.     *)
(* A row stands for one INSERT, so no two rows are alike.                  *)
(***************************************************************************)
EXTENDS Integers, Sequences, FiniteSets

CONSTANTS
    Table,          \* names of tables
    Row,            \* rows the client inserts
    Existing,       \* tables the database has at the start
    Room,           \* rows that fit into a page
    MaxPage,        \* bound: pages of the file, header and catalog left out
    Client,         \* what the client does and what happens to the process
    NoPage,         \* cache entry of a page that is not cached
    NoTable         \* content of a table that does not exist

ASSUME RowsFit == Room \in Nat \ {0}
ASSUME PagesAreNumbered == MaxPage \in Nat
ASSUME SomeTablesExist ==
    Existing \subseteq Table /\ IsFiniteSet(Existing) /\ Cardinality(Existing) <= MaxPage

Page == 1..MaxPage
Link == 0..MaxPage
Content == [rows : SUBSET Row, room : 0..Room, next : Link]

ASSUME NoPageIsNoContent == NoPage \notin Content
ASSUME NoTableIsNoContent == \A rows \in SUBSET Row : rows # NoTable

VARIABLES
    store,          \* the file, the pool and the transaction, see TypeOK
    tables,         \* Catalog._tables: root page of each table, 0 if none
    catalog,        \* the same in the catalog page of the file
    pc,             \* what the session is doing
    copied,         \* shadow pages COMMIT has copied
    fresh           \* rows that were not inserted yet

vars == <<store, tables, catalog, pc, copied, fresh>>

-----------------------------------------------------------------------------
(* Pages of the file: FileManager.                                         *)

Zero == [rows |-> {}, room |-> 0, next |-> 0]
Empty == [rows |-> {}, room |-> Room, next |-> 0]

\* alloc_page: the head of the free list, or a new page at the end.
NextPage(st) == IF st.free # 0 THEN st.free ELSE st.count + 1

\* Mutant: the head stays in the free list.
TakenTwice(st) == IF st.free # 0 THEN st ELSE [st EXCEPT !.count = @ + 1]

\* Mutant: the new page is not counted.
TakenUncounted(st) ==
    IF st.free # 0 THEN [st EXCEPT !.free = st.disk[st.free].next] ELSE st

Taken(st) ==
    IF st.free # 0
    THEN [st EXCEPT !.free = st.disk[st.free].next]
    ELSE [st EXCEPT !.count = @ + 1]

\* free_page: the page is emptied and becomes the head of the list.
Freed(st, p) ==
    [st EXCEPT !.disk[p] = [rows |-> {}, room |-> 0, next |-> st.free], !.free = p]

(* Pages as the session sees them: BufferPool and ShadowBufferPool.        *)

\* The shadow of p in the open transaction: its place in shadows, if any.
ShadowOf(st, p) == {i \in DOMAIN st.shadows : st.shadows[i][1] = p}

\* The page that stands for p in the open transaction.
Where(st, p) ==
    LET places == ShadowOf(st, p)
    IN  IF places = {} THEN p ELSE st.shadows[CHOOSE i \in places : TRUE][2]

Base(st, p) == IF st.cache[p] = NoPage THEN st.disk[p] ELSE st.cache[p]
BaseView(st) == [p \in Page |-> Base(st, p)]
SessionView(st) == [p \in Page |-> Base(st, Where(st, p))]

Loaded(st, P) ==
    [st EXCEPT !.cache =
        [p \in Page |-> IF p \in P /\ st.cache[p] = NoPage THEN st.disk[p] ELSE st.cache[p]]]

\* _ensure_shadow: a copy of p on a page of its own, cached and clean.
Shadowed(st, p) ==
    IF ShadowOf(st, p) # {}
    THEN st
    ELSE LET s == NextPage(st)
         IN  [Loaded(Taken(st), {p}) EXCEPT
                !.disk[s] = Base(st, p),
                !.cache[s] = Base(st, p),
                !.dirty = @ \ {s},
                !.shadows = Append(@, <<p, s>>)]

\* set_page_data of the pool in use.
Written(st, p, content) ==
    LET target == IF st.active THEN Shadowed(st, p) ELSE st
        q == Where(target, p)
    IN  [target EXCEPT !.cache[q] = content, !.dirty = @ \cup {q}]

(* Page chains: Table.                                                     *)

\* The pages from root on, in a view c of the pages.
Chain(c, root) ==
    LET walk[left \in 0..MaxPage] ==
            [p \in Link |->
                IF p = 0 \/ left = 0 THEN <<>> ELSE <<p>> \o walk[left - 1][c[p].next]]
    IN  walk[MaxPage][root]

PagesOf(c, root) == LET pages == Chain(c, root) IN {pages[i] : i \in DOMAIN pages}
RowsOf(c, root) == UNION {c[p].rows : p \in PagesOf(c, root)}
LastOf(c, root) == LET pages == Chain(c, root) IN pages[Len(pages)]

\* Mutant: a full page is taken as well.
SpotInFullPage(c, root) ==
    LET pages == Chain(c, root)
        roomy == {i \in DOMAIN pages : c[pages[i]].room >= 0}
    IN  IF roomy = {} THEN 0 ELSE pages[CHOOSE i \in roomy : \A k \in roomy : i <= k]

\* The first page of a chain with room for a row, 0 if there is none.
Spot(c, root) ==
    LET pages == Chain(c, root)
        roomy == {i \in DOMAIN pages : c[pages[i]].room > 0}
    IN  IF roomy = {} THEN 0 ELSE pages[CHOOSE i \in roomy : \A k \in roomy : i <= k]

\* The store once a statement has read all pages of a table: INSERT and UPDATE
\* do it to check the primary key, the others to find their rows.
Scanned(t) ==
    Loaded(store, {Where(store, p) : p \in PagesOf(SessionView(store), tables[t])})

\* The whole rollback of TransactionManager: shadow pages are freed in the
\* order they were made, and stay in the cache.
RolledBack(st) ==
    LET freeing[n \in 0..Len(st.shadows)] ==
            IF n = 0 THEN st ELSE Freed(freeing[n - 1], st.shadows[n][2])
    IN  [freeing[Len(st.shadows)] EXCEPT !.active = FALSE, !.shadows = <<>>]

\* A statement that fails rolls an open transaction back.
Failed(st) == IF st.active THEN RolledBack(st) ELSE st

WithRow(st, p, r) ==
    LET c == SessionView(st)[p]
    IN  Written(st, p, [c EXCEPT !.rows = @ \cup {r}, !.room = @ - 1])

\* A new page at the end of the chain: linked through the pool, written to the
\* file directly, read back through the pool.
Extended(st, root) ==
    LET q == NextPage(st)
        c == SessionView(st)
        last == LastOf(c, root)
        linked == Written(Taken(st), last, [c[last] EXCEPT !.next = q])
    IN  Loaded([linked EXCEPT !.disk[q] = Empty], {q})

-----------------------------------------------------------------------------
\* A database file with the tables Existing, just opened.
Init ==
    \E root \in [Existing -> 1..Cardinality(Existing)] :
        /\ \A t, u \in Existing : root[t] = root[u] => t = u
        /\ tables = [t \in Table |-> IF t \in Existing THEN root[t] ELSE 0]
        /\ catalog = tables
        /\ store = [disk |-> [p \in Page |-> IF p <= Cardinality(Existing) THEN Empty ELSE Zero],
                    count |-> Cardinality(Existing),
                    free |-> 0,
                    cache |-> [p \in Page |-> NoPage],
                    dirty |-> {},
                    active |-> FALSE,
                    shadows |-> <<>>]
        /\ pc = "idle"
        /\ copied = 0
        /\ fresh = Row

(* Statements on rows.                                                     *)

\* Bound: a statement that may need pages finds that many left.
RoomToGrow == store.count + 3 <= MaxPage

\* The first page with room takes the row, or else a new page; a stale copy of
\* the new page in the pool makes the statement fail or bring old rows back.
Insert(t, r) ==
    /\ "insert" \in Client
    /\ pc = "idle" /\ tables[t] # 0
    /\ RoomToGrow
    /\ r \in fresh
    /\ \E st \in {Scanned(t)} : \E p \in {Spot(SessionView(st), tables[t])} :
        \/ p # 0 /\ store' = WithRow(st, p, r)
        \/ p = 0 /\ \E longer \in {Extended(st, tables[t])}, q \in {NextPage(st)} :
                store' = IF SessionView(longer)[q].room > 0
                         THEN WithRow(longer, q, r)
                         ELSE Failed(longer)
    /\ fresh' = fresh \ {r}
    /\ UNCHANGED <<tables, catalog, pc, copied>>

Delete(t, r) ==
    /\ "delete" \in Client
    /\ pc = "idle" /\ tables[t] # 0
    /\ RoomToGrow
    /\ \E p \in PagesOf(SessionView(store), tables[t]) :
        LET c == SessionView(store)[p]
        IN  /\ r \in c.rows
            /\ store' = Written(Scanned(t), p, [c EXCEPT !.rows = @ \ {r}])
    /\ UNCHANGED <<tables, catalog, pc, copied, fresh>>

\* The new row has the size of the old one and takes its place.
Update(t, r, q) ==
    /\ "update" \in Client
    /\ pc = "idle" /\ tables[t] # 0
    /\ RoomToGrow
    /\ q \in fresh
    /\ \E p \in PagesOf(SessionView(store), tables[t]) :
        LET c == SessionView(store)[p]
        IN  /\ r \in c.rows
            /\ store' = Written(Scanned(t), p, [c EXCEPT !.rows = (@ \ {r}) \cup {q}])
    /\ fresh' = fresh \ {q}
    /\ UNCHANGED <<tables, catalog, pc, copied>>

Select(t) ==
    /\ "select" \in Client
    /\ pc = "idle" /\ tables[t] # 0
    /\ store' = Scanned(t)
    /\ UNCHANGED <<tables, catalog, pc, copied, fresh>>

(* Transactions.                                                           *)

Begin ==
    /\ "begin" \in Client
    /\ pc = "idle" /\ ~store.active
    /\ store' = [store EXCEPT !.active = TRUE]
    /\ UNCHANGED <<tables, catalog, pc, copied, fresh>>

\* ROLLBACK, and a statement that fails for a reason of its own
Rollback ==
    /\ "rollback" \in Client
    /\ pc = "idle" /\ store.active
    /\ store' = RolledBack(store)
    /\ UNCHANGED <<tables, catalog, pc, copied, fresh>>

\* COMMIT: flush, then copy every shadow page over its original.
Commit ==
    /\ "commit" \in Client
    /\ pc = "idle" /\ store.active
    /\ pc' = "committing"
    /\ UNCHANGED <<store, tables, catalog, copied, fresh>>

Flushing == {"committing", "saving", "closing"}

FlushPage(p) ==
    /\ pc \in Flushing
    /\ p \in store.dirty
    /\ store' = [store EXCEPT !.disk[p] = store.cache[p], !.dirty = @ \ {p}]
    /\ UNCHANGED <<tables, catalog, pc, copied, fresh>>

\* Mutant: the copying starts before the flush has ended.
StartCopyingUnflushed ==
    /\ pc = "committing"
    /\ pc' = "copying"
    /\ UNCHANGED <<store, tables, catalog, copied, fresh>>

StartCopying ==
    /\ pc = "committing" /\ store.dirty = {}
    /\ pc' = "copying"
    /\ UNCHANGED <<store, tables, catalog, copied, fresh>>

CopyPage ==
    /\ pc = "copying" /\ copied < Len(store.shadows)
    /\ LET pair == store.shadows[copied + 1]
       IN  store' = [store EXCEPT !.disk[pair[1]] = store.disk[pair[2]]]
    /\ copied' = copied + 1
    /\ UNCHANGED <<tables, catalog, pc, fresh>>

\* Mutant: the cache keeps the originals.
EndCommitCached ==
    /\ pc = "copying" /\ copied = Len(store.shadows)
    /\ store' = [store EXCEPT !.active = FALSE, !.shadows = <<>>]
    /\ pc' = "idle"
    /\ copied' = 0
    /\ UNCHANGED <<tables, catalog, fresh>>

\* The shadow pages are neither freed nor used again.
EndCommit ==
    /\ pc = "copying" /\ copied = Len(store.shadows)
    /\ store' = [store EXCEPT
        !.cache = [p \in Page |-> NoPage], !.active = FALSE, !.shadows = <<>>]
    /\ pc' = "idle"
    /\ copied' = 0
    /\ UNCHANGED <<tables, catalog, fresh>>

(* DDL goes past an open transaction: the page and the catalog are written *)
(* to the file at once, then the pool is flushed.                          *)

Create(t) ==
    /\ "create" \in Client
    /\ pc = "idle" /\ tables[t] = 0
    /\ RoomToGrow
    /\ store' = [Taken(store) EXCEPT !.disk[NextPage(store)] = Empty]
    /\ tables' = [tables EXCEPT ![t] = NextPage(store)]
    /\ catalog' = tables'
    /\ pc' = "saving"
    /\ UNCHANGED <<copied, fresh>>

\* Only the root page is freed, and it is freed before the catalog is saved.
Drop(t) ==
    /\ "drop" \in Client
    /\ pc = "idle" /\ tables[t] # 0
    /\ store.active => "drop in transaction" \in Client
    /\ store' = Freed(store, tables[t])
    /\ tables' = [tables EXCEPT ![t] = 0]
    /\ pc' = "dropping"
    /\ UNCHANGED <<catalog, copied, fresh>>

SaveCatalog ==
    /\ pc = "dropping"
    /\ catalog' = tables
    /\ pc' = "saving"
    /\ UNCHANGED <<store, tables, copied, fresh>>

EndSave ==
    /\ pc = "saving" /\ store.dirty = {}
    /\ pc' = "idle"
    /\ UNCHANGED <<store, tables, catalog, copied, fresh>>

-----------------------------------------------------------------------------
Close ==
    /\ "close" \in Client
    /\ pc = "idle"
    /\ pc' = "closing"
    /\ UNCHANGED <<store, tables, catalog, copied, fresh>>

\* The file is opened again: nothing else is left.
Opened ==
    /\ store' = [store EXCEPT
        !.cache = [p \in Page |-> NoPage], !.dirty = {}, !.active = FALSE, !.shadows = <<>>]
    /\ pc' = "idle"
    /\ copied' = 0
    /\ UNCHANGED fresh

Reopen ==
    /\ pc = "closing" /\ store.dirty = {}
    /\ Opened
    /\ catalog' = tables
    /\ UNCHANGED tables

\* The process dies, in some runs also between two copies of COMMIT or between
\* the two writes of DROP.
Crash ==
    /\ "crash" \in Client
    /\ pc = "copying" /\ copied \notin {0, Len(store.shadows)} => "crash while copying" \in Client
    /\ pc = "dropping" => "crash while dropping" \in Client
    /\ Opened
    /\ tables' = catalog
    /\ UNCHANGED catalog

Statement ==
    \/ \E t \in Table :
        \/ \E r \in Row : Insert(t, r) \/ Delete(t, r) \/ \E q \in Row : Update(t, r, q)
        \/ Select(t) \/ Create(t) \/ Drop(t)
    \/ Begin \/ Rollback \/ Commit

Step ==
    \/ \E p \in Page : FlushPage(p)
    \/ StartCopying \/ CopyPage \/ EndCommit
    \/ SaveCatalog \/ EndSave \/ Reopen

Next == Statement \/ Step \/ Close \/ Crash

Spec == Init /\ [][Next]_vars

-----------------------------------------------------------------------------
TypeOK ==
    /\ store.disk \in [Page -> Content]
    /\ store.count \in Link
    /\ store.free \in Link
    /\ store.cache \in [Page -> Content \cup {NoPage}]
    /\ store.dirty \subseteq {p \in Page : store.cache[p] # NoPage}
    /\ store.active \in BOOLEAN
    /\ store.shadows \in Seq(Page \X Page)
    /\ tables \in [Table -> Link]
    /\ catalog \in [Table -> Link]
    /\ pc \in Flushing \cup {"idle", "copying", "dropping"}
    /\ copied \in 0..Len(store.shadows)
    /\ fresh \subseteq Row

FreePages == PagesOf(store.disk, store.free)
ShadowPages == {store.shadows[i][2] : i \in DOMAIN store.shadows}
Pages(c, roots) == UNION {PagesOf(c, roots[t]) : t \in Table}

\* A page belongs to one table at most, and is no shadow page and not in the
\* free list as long as it does: to the session, without its transaction, and
\* after a crash (alloc_page and free_page, page chains, shadow pages).
PagesHaveOneOwner ==
    /\ \A view \in {SessionView(store), BaseView(store)} :
        /\ Pages(view, tables) \cap (FreePages \cup ShadowPages) = {}
        /\ \A t, u \in Table :
            t # u => PagesOf(view, tables[t]) \cap PagesOf(view, tables[u]) = {}
    /\ ShadowPages \cap FreePages = {}
    /\ \A i, k \in DOMAIN store.shadows : i # k => store.shadows[i][2] # store.shadows[k][2]
    /\ pc # "dropping" => Pages(store.disk, catalog) \cap FreePages = {}

-----------------------------------------------------------------------------
(* The store the session is promised.                                      *)

Contents(view, roots) ==
    [t \in Table |-> IF roots[t] = 0 THEN NoTable ELSE RowsOf(view, roots[t])]

\* COMMIT takes effect when its last page is copied, DROP when the page is
\* freed: the crashes that would show something else in between are apart.
Switched == pc = "copying" /\ copied = Len(store.shadows)
InTransaction == store.active /\ ~Switched

Current == Contents(SessionView(store), tables)
Committed == IF Switched THEN Current ELSE Contents(BaseView(store), tables)
Durable ==
    IF pc = "copying" /\ ~Switched THEN Committed
    ELSE IF pc = "dropping" THEN Contents(store.disk, tables)
    ELSE Contents(store.disk, catalog)

Sql == INSTANCE SqlStore WITH
    current <- Current, committed <- Committed, durable <- Durable, open <- InTransaction

\* Whatever statements, transactions, restarts and crashes follow each other,
\* the session sees the tables a plain store would show it: its own changes at
\* once, none of a transaction that was not committed, all of one that was.
ImplementsSqlStore == Sql!StoreSpec

\* The process dies during COMMIT: afterwards the tables are those of before
\* the transaction or those of after it.
CommitIsAtomic ==
    [][pc = "copying" /\ Crash => Current' \in {Current, Committed}]_vars

\* The free list never leads to a page of a table, whatever was rolled back.
FreePagesAreUnused == Pages(BaseView(store), tables) \cap FreePages = {}
=============================================================================
