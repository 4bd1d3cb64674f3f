# TLA+ specifications of tinydb

tinydb is an embedded relational database in Python: a page file with a free
list, a buffer pool, heap tables in page chains, B-tree indexes, shadow-paging
transactions, page locks with deadlock detection, page versions for snapshots,
an SQL front end and a REPL.  The modules here are translated from the source
under `src/tinydb/`; `PROJECT.json` maps every definition to the lines it
stands for, lists the runs, their mutants, the hazards and the theorems.

## The system

| Component | State | Operations | What makes it correct |
|---|---|---|---|
| `FileManager` (`file_manager.py`) | position of the one file handle, page count, free list through the free pages, header written at every change | `read_page`, `write_page`, `alloc_page`, `free_page` | a reader gets its page; a page is free or has one owner |
| `BufferPool` (`buffer_pool.py`) | `OrderedDict` of cached pages, dirty flags, set of pins, `_lock` | `get_page`, `set_page_data`, `mark_dirty`, `pin`, `unpin`, `flush`, LRU eviction | reads are current, no eviction loses a change, pinned pages stay |
| `LockManager`, `DeadlockDetector` (`concurrency/`) | holders, deques and conditions per page; wait-for graph | `acquire` with time-out, `upgrade`, `release`, `release_all`; `detect_cycle` | exclusion, no lost waiter, real and complete deadlock detection |
| `MVCCManager` (`concurrency/mvcc_manager.py`) | version chain per page | `create_version`, `get_visible_version`, `mark_deleted`, `gc` | chains are ordered, versions in use are kept |
| `TransactionManager`, `ShadowBufferPool` (`transaction/`) | active transactions, map from pages to shadow pages, snapshots | `begin`, `commit`, `rollback`, `ensure_shadow`, copy on first write | atomic, durable COMMIT; ROLLBACK undoes everything; transactions do not mix |
| slotted pages (`page.py`) | header, slots, rows, free space | `insert_row_into_page`, `delete_row_from_page`, update in place | no row is written over another |
| `Table` (`table.py`) | page chain from the root page | `insert`, `scan`, `get`, `delete`, `update` | no row is lost or shown twice |
| `Catalog` (`catalog.py`) | root pages in memory and in the catalog page | `create_table`, `drop_table`, `save`, `load` | tables do not share pages, a restart finds them |
| `BTree` (`index/btree.py`) | nodes in pages | `insert` with splits, `delete`, `search`, `range_scan` | a key that was inserted is found, a node fits into its page |
| `IndexManager` (`index/index_manager.py`) | indexes by table and column | `create_index`, `drop_index`, `after_insert`, `after_delete`, `after_update` | an index finds exactly the rows of its table |
| `Lexer`, `Parser`, expressions (`sql/`) | the position in the tokens | recursive descent | what was written is what is run |
| `Planner`, `Executor` (`sql/`) | iterators of one statement | scan, joins, filter, groups, projection, sort, limit; INSERT, UPDATE, DELETE | answers are what SQL says, all join algorithms agree |
| `Database` (`database.py`), REPL (`cli/`) | the session; the input buffer | `execute`, `commit`, `rollback`, `close` | every statement ends in a usable session |

How they interact.  A session calls `Database.execute`; DML goes through the
planner and executor to `Table`, which reads and writes pages of the
`BufferPool`, or of a `ShadowBufferPool` while a transaction is open.  Pages are
allocated and freed by `FileManager` directly: the pool does not hear of it.  The
catalog page, too, is read and written past the pool.  Indexes live in the pool
below the transaction.  `commit` flushes the pool, copies every shadow page over
its original through the file, clears the cache and collects versions;
`rollback` frees the shadow pages.  `TransactionManager` owns a `LockManager`
with a detector and an `MVCCManager`; `BufferPool` has a lock manager and a
version manager of its own, which nothing connects with those: a read by
snapshot through the pool never meets a recorded version.  Statements of the
`Database` pass no transaction, so the SQL path uses neither locks nor versions;
those serve programs that use the storage layers from several threads.

Hard behaviours: threads interleaving between the critical sections of
`BufferPool` and `LockManager`; wake-ups and time-outs; a file that is written
both through and past the cache; the process dying between two writes; stale
copies of pages that were freed and allocated again; several transactions that
share the oldest one's shadow pages and end in any order; UPDATE writing under
its own scan; a statement that fails half-way through its rows; splits and
deletions of a tree whose parting keys outlive their rows; two join algorithms
that have to agree on NULLs and duplicates.  Each is a line of "hazards" in
`PROJECT.json`, with the properties that watch it.

## Modules

| Module | Models | Abstract specification | Proofs |
|---|---|---|---|
| `LockManager`, `DeadlockDetector` | `lock_manager.py`, the graph of `deadlock_detector.py` | `LockTable` | `LockManagerProofs` |
| `DetectCycle` | the depth-first search of `detect_cycle` | the operator `HasCycle` | `DetectCycleProofs` |
| `BufferPool` | `buffer_pool.py` over the file handle | `PageStore` | `BufferPoolProofs` |
| `Storage` | `database.py`, `catalog.py`, `table.py`, `txn_manager.py`, `shadow_paging.py`, `file_manager.py` as one session uses them | `SqlStore` | `StorageProofs` |
| `Transactions` | `txn_manager.py`, `shadow_paging.py`, `mvcc_manager.py` with several transactions at once | `Workspace` | `TransactionsProofs` |
| `SlottedPage`, `HeapTable`, `BTree` | `page.py`, `table.py`, `btree.py` as functions from state to state | - | `TreeProofs` for `BTree`, `IndexedTableProofs` |
| `IndexedTable` | the DML operators of `executor.py` and `index_manager.py`, over those three | `KeyedTable` | `IndexedTableProofs` |
| `Ast`, `Parser` | the trees of `ast.py` and `expressions.py`; `parser.py` | `Written`: how a tree is written | - |
| `Expressions`, `Executor` | `expressions.py`; the operators of `executor.py`, `JoinPlanner` | the references of `Select` | `SelectProofs` |
| `Select` | a SELECT from its text to its answer: `planner.py` over those | joins, three-valued logic, groups and order as SQL has them | `SelectProofs` |
| `MC...` | small instances for TLC | | |

### Page locks

One thread works for each transaction.  A critical section of
`LockManager._lock` is one action; what lies between two of them is a step of
its own: entering the wait of the condition variable, waking up, the removal of
wait-for edges after a time-out, the pages of `release_all`.  `holders`, `queue`
and `before` are `_holders` and the deques (the entries and their order),
`waitFor` is the graph, `pc` and `req` are where a call is and its arguments.
Time is the action `Expire`: a waiting call may time out whenever it sleeps or
has just been notified.  `Finish` is the end of `commit` and `rollback`.

`DeadlockDetector` says what `detect_cycle` has to answer (`HasCycle`: some
transactions all of which wait for one of them); `DetectCycle` models the search
itself with its stack and colours and shows that it gives that answer, for every
graph and every order in which Python may iterate over the sets.

### Buffer pool

One action per critical section of `BufferPool._lock`, with the seek and the read
or write of the shared file handle as separate steps, for this is how
`get_page`, `pin` and `flush` run.  `cache`, `dirty`, `pinned` and `older` are
the `OrderedDict` with its flags, pins and order; `pos` is the position of the
file; `reply` is what the last call of a thread returned.  A thread unpins what
it has pinned.  A read that follows another thread's seek gets what is at the
position then, the next page included.

### Transactional storage

The state is one record `store` (file: `disk`, `count`, `free`; pool: `cache`,
`dirty`; transaction: `active`, `shadows`), the catalog in memory and in the file,
and the control of the multi-step operations.  A page is its rows, the rows that
still fit, and the link to the next page.  Operators like `Taken`, `Freed`,
`Shadowed`, `Written` are the methods of the code as functions from store to
store; a statement is one action composed of them, since the only pages of the
file it writes are free or new.  `COMMIT`, `CREATE`, `DROP` and `close` write
pages in use, one action per page, and `Crash` may come between any two.

What the code does past the pool is modelled past the pool: a page from the free
list is written to the file while the cache may hold an older copy, freed pages
stay in the cache, shadow pages are put into it clean.  A row stands for one
INSERT, so rows are distinct; tables have a primary key, so every statement
reads the whole chain.  The rows of a statement that handles several are several
statements of the model.  The pool is taken to be larger than the database (its
capacity is 100 pages): eviction is the subject of `BufferPool`.

`Client` says what the client does and where the process may die, so that a run
can leave out what is known to break the promise (see below).

### Several transactions

`Transactions` is what `Storage` leaves out: any number of transactions, begun
and ended in any order.  `counter`, `state`, `snapshot` and `shadow` are the
fields of `TransactionManager` and its `Transaction`s, `used` and `free` the
spare pages of the file, `held` and `dirty` what the pool has of them,
`versions` the chains.  `Database._get_pool` takes the first key of the
dictionary of active transactions and `ensure_shadow` the smallest number; these
are the same, `Oldest`.  Hence whoever issues a statement, it is run for the
oldest transaction, and a transaction that comes to be the oldest takes over.
`Workspace` states what is left of the promise then: all changes belong to one
transaction, whose commit makes everything that is seen the database and whose
rollback makes the database what is seen, while the end of any other has no
effect.  A page of a table is one value here; that the pool is in step with the
file for such pages is shown by `Storage`.

`Collected` is the loop of `gc` over one chain, the sequence kept after each
round as a recursive function, so that it can be proved about.

### Tables with an index

`SlottedPage` has the arithmetic of the header: `space`, the number of free bytes
the page believes in, and `top`, the address of its lowest row, are kept apart as
in the code, because the update in place changes one and not the other.  Rows
are their keys and lengths; what a write destroys is noted in `lost`.
`HeapTable` is the chain of such pages, `BTree` the nodes, with `MaxLeaf` and
`MaxInner` computed as `compute_max_keys` does and `Fits` as `_persist_node`
needs it.

`IndexedTable` composes them.  A statement is a process: `InsertNext`,
`DeleteNext` and `UpdateNext` handle one row each in the order of the code
(check of uniqueness, index, row), `stmt` is the local state of the operator: the
rows that are left, or the page an UPDATE has a copy of, the position in it and
what the code's `next_page_id` says of a next page.  A statement ends `"done"`,
`"refused"` (the key is taken) or `"failed"` (an exception), and what it has
written stays.  `KeyedTable` is the promise to the client: a set of rows with
distinct keys, changed row by row, refused only for a key that is taken.

`BTree` follows its loops (the way down to a leaf) by recursive functions over the
nodes, and `stmt.scan`, the addresses an INSERT, DELETE or UPDATE has still to
visit, is taken from the chain when the statement begins, so that nothing
that is proved about rests on a recursive operator.

`Avoided` lists what the client stays away from, each for a fault of the code
described below; without any one of them TLC finds the promise broken at once.

### SELECT

`Ast` has the trees.  `Parser` follows the recursive descent, one operator per method, from tokens to
trees; the levels of `_parse_expression` to `_parse_unary` are one operator with
the level as its argument, as they differ in their words alone.  `Written` is the
converse: it writes a tree with the parentheses it needs by a table of its own
(`Level`), the precedence that the documents state, so that a parser with other
levels does not read back what was written.  `Expressions` is the value of a tree over
a row (Python's booleans are the numbers 0 and 1, and `Truth` is `_to_bool`), a function over the set `Expression` of the trees that
are evaluated; `Size` has their sizes, and `ExpressionsAreTrees` says that they are
what the parser makes: finite trees whose operations have one operand or two.
`Executor` has the operators of a plan as functions from rows to rows, with the names rows get in
joins (prefixes, columns both sides have), the hash table, the row-by-row
accumulation of groups and the stable sort for each key.  `Select` runs a
statement, one action for each operator the planner stacks; what the parser makes
of a statement is its parameter `Parsing`, which the run gives `Parse` over the
text that `Written` writes.  So `Select` does not reach the recursive operators of
`Parser`, and its theorems hold for whatever the parser returns, as long as it is a
statement with its clauses (`AskedAssumption`).

## Runs

| Run | Instance | Shows |
|---|---|---|
| `lock_strict` | 3 transactions, 2 pages, detector, locks kept to the end | types; the graph is acyclic whenever `_lock` is free; a transaction outside `acquire` waits for nobody but one that is ending; `DeadlockError` only for a real circle |
| `lock_timeouts` | 3 transactions, 1 page, no detector, early releases, fairness | exclusion; nobody sleeps for a free page; deque and waiters agree; every `acquire` returns; refines `LockTable` |
| `detect_cycle` | all graphs over 4 transactions | the search ends, is right, and reports a real cycle |
| `pool_sequential` | 1 thread, 3 pages, capacity 1, 2 contents, fairness | refines `PageStore`: reads are current, flushed changes survive a crash; every call of the pool returns, whatever is pinned |
| `pool_threads` | 2 threads, 2 pages, capacity 1 | types; pinned pages stay cached |
| `storage_growth` | 1 table, 1 row per page, 3 rows, 7 pages | types; no page has two owners; refines `SqlStore` while tables grow in and out of transactions |
| `storage_rollback` | 2 tables of one page, 2 rows, 6 pages | the same with ROLLBACK, DROP and reuse of free pages |
| `transactions` | 3 transactions, 2 pages, 3 spare pages, 2 contents | types; only the oldest has shadow pages, none is shared or free; before-images are current, chains descend, `gc` spares the versions of those that go on; refines `Workspace` |
| `indexed_table` | 10 loaded rows in 2 pages, 22 keys, tree of 3 levels, with and without index | nodes fit and rows keep their shape; no page promises more room than it has; an UPDATE misses no row though it moves rows under its own scan; index and table agree after every row; refines `KeyedTable` |
| `select` | some 10,000 pairs of a database and a statement | what is written is what is parsed; joins, filters, groups, order and limits are SQL's |
| `storage_frees_live_page` | 1 table, 1 row per page | violated, see findings |
| `index_overflow` | 1 row, keys of the width of INTEGER, leaf of two keys | violated, see findings |

Bounds.  Three transactions are needed for a queue with two waiters, a
stale edge or a cycle through a third party; two pages for locks in opposite
order.  The upgrade of two shared holders gives a deadlock on one page, so the
run without a detector still has deadlocks that only the time-out ends.  Three
pages and one place let a victim be dirty, clean or pinned; since `pin` fills the
cache beyond its capacity, there are two and three pages in it too, pinned or
unpinned again, whose LRU order matters.  In `Storage` three rows
with one row per page give a chain of three pages, a transaction that shadows
two of them and extends the chain, and a second transaction on what the first
one left; `RoomToGrow` stops statements when fewer than three pages are left
(one for the row, two for shadows).  Six pages let the second run commit twice,
roll back in between and drop a table.

Three transactions over two pages let one become the oldest while another, with
a younger snapshot, goes on, and let a third reuse what a rolled back one left;
three spare pages make the free list and growth both necessary.  `TransactionsProofs`
takes these bounds away.  In `indexed_table` a page holds fewer rows than the table
has, so rows move and pages are added; the tree starts with a full root and a full
leaf below an inner node that is full, so single insertions split one, two and
three levels; `MaxPages` and `MaxSlots` bound the growth.  The sizes keep the
proportions of the code: a node is split before its page is full, as it is for
TEXT keys of at most 26 bytes (`KeyEstimate` and `KeyBytes`).  In `select` the
conditions are all that two nested operators make, one of each precedence level;
the clauses are combined in every way; tables have up to three rows, with
duplicates and NULLs, and `Few`, the threshold of 50 rows below which rows are
compared in nested loops, is three.

Deadlock is checked except where statements or transactions simply run out
(`transactions`, `indexed_table`, `select`); a finished system of locks
stutters by `Terminated`.

Fairness is used in `lock_timeouts`, `detect_cycle` and `pool_sequential` alone.  A
thread that has something to do inside a call is scheduled eventually (`WF(Continue)`), and
`Condition.wait_for` with a time-out returns eventually (`WF(Expire)`).  Callers
owe nothing: they need not call, release or finish.  The search of `detect_cycle`
is a loop of one thread.  In `FairSpec` of `BufferPool` a thread inside `get_page`,
`pin` or `flush` goes on (`WF(Continue)`), as a thread that waits for nothing does;
nobody has to call, to unpin or to flush, and a thread may crash with the process.  The
other modules promise no progress: a session that
stops has stopped.

What `storage_growth` and `storage_rollback` leave out.  Both exclude a crash
between two copies of COMMIT and between the two writes of DROP; the first
excludes ROLLBACK and DROP, the second growth and CREATE.  With the parts
together the promise does not hold, and TLC says so at once.  The runs show
that nothing else is wrong.

### Configurations that are kept to be run by hand

Each makes TLC show a behaviour of the code that contradicts what it says of
itself or what its caller would expect.  `tlc -config X.cfg M`:

| Configuration | Module | Shows |
|---|---|---|
| `LockNoLostWakeup.cfg` | `MCLockManager` | `release` notifies the head of the deque only while the page keeps a holder; an upgrade behind it sleeps on although it could be granted (`openspec/specs/concurrency-control/spec.md:49`) |
| `LockDeadlocksAreDetected.cfg` | `MCLockManager` | wait-for edges go to the holders of the moment; a transaction that becomes a holder later gets none, and a circle through it ends by time-out only (`spec.md:86` there) |
| `PoolReadsItsPage.cfg` | `MCBufferPool` | seek and read are two steps of a handle all threads share, done without `_lock`; a thread can cache and return another page (`src/README.md:220` calls the pool thread-safe) |
| `StorageTornCommit.cfg` | `MCStorage` | COMMIT copies page by page, so a crash in between leaves half a transaction; the root pointer is written but never differs (`docs/操作手册.md:429` and `openspec/specs/shadow-paging/spec.md:14` speak of an atomic switch of it) |
| `RepeatableRead.cfg` | `MCTransactions` | what a transaction reads through its snapshot changes when another one commits: its before-image is collected because its creator is older than every active transaction (`openspec/specs/concurrency-control/spec.md:72`, `docs/操作手册.md:440`) |
| `PageOverwritten.cfg` | `MCIndexedTable` | repeated updates in place move `free_offset` down and never back, until rows are written over the slots, though free space is reported |
| `CountOfNothing.cfg` | `MCSelect` | an aggregate of an empty table has no row (`openspec/specs/executor/spec.md:30` has one with the number of rows); without this case, COUNT of a column counts NULLs (`docs/操作手册.md:383`: values only) |
| `JoinChain.cfg` | `MCSelect` | `l JOIN r ON l.k = r.k JOIN c ON r.k = c.k` returns nothing: behind a join only the first table's name is known (`docs/操作手册.md:335`, `:355`) |

## What the code does and does not promise

Findings with a run of their own:

* `storage_frees_live_page`: ROLLBACK leaves dirty shadow pages in the cache; the
  next flush writes them over the free list, which then leads to live pages.
  (Seen in the program: two-page table, BEGIN, DELETE, ROLLBACK, reopen, two
  CREATE TABLE: the second one is given a page of the first table.)
* `index_overflow`: `compute_max_keys` leaves out the two bytes of length that
  every key is written with.  An index on INTEGER is split at 253 keys, but the
  page is full at 225; the next insertion raises after the row was stored.  (Seen
  in the program at the 226th key.)

### Storage and transactions

* With `"create"` added to `storage_rollback`, a table created after DROP shows
  the rows of the dropped one: the cached root page is never invalidated
  (`openspec/specs/ddl/spec.md:18` says the data is removed).
* With `"crash while dropping"` the catalog names a page of the free list, because
  `drop_table` frees the page before the catalog is saved.
* With `"drop in transaction"` COMMIT copies the shadow of the dropped root over a
  page that another table uses as its shadow.
* Changes made outside a transaction are durable only after the next COMMIT, DDL
  or `close`: `SqlStore` has the action `Save`, not durability at once.
* Shadow pages are leaked at COMMIT, and the pages of a chain but the first at
  DROP; `PagesHaveOneOwner` says that no page has two owners, not that it has one.
* `ensure_shadow` writes the copy past the pool: if the free page it takes is still
  held there from a transaction that was rolled back, old content is seen.  Only
  tests call it; `Transactions` with an empty `Avoided` shows it.
* After a second BEGIN two transactions are active, `COMMIT` and `ROLLBACK` without
  a number both fail, and so does the rollback of the error path: the session
  cannot end either.
* `Database.execute` hands a `DatabaseError` on without a rollback, and an `SQLError`
  of the front end as a `DatabaseError`, also without one: the transaction stays
  open.  Every other exception rolls an active transaction back; outside of one, what
  a statement has written by then stays.

### Concurrency

* With two threads a page may be evicted between `get_page` and `set_page_data` of
  a caller, and its change is dropped; pins are a set, so one unpin releases all;
  `flush` clears flags of pages that changed after they were collected; `pin` fills
  the cache beyond its capacity.
* A shared request overtakes queued exclusive ones (there is no FIFO order), the
  victim of a deadlock is the requester and not the youngest, and if locks are
  released before the end of a transaction, left-over edges can raise
  `DeadlockError` without a deadlock; `lock_strict` shows that they cannot if
  they are kept.

### Tables and indexes

`MCIndexedTable` breaks at once without one of these in `MCAvoided`:

* `"overwrite"`: the update in place described above.
* `"long move"`: an update to a row longer than a page deletes the old row, then
  fails; the row is gone.  (An INSERT of such a row appends an empty page.)
* `"indexed move"`: the index is changed before the row moves, and keeps the old
  address.
* `"rows before index"`: CREATE INDEX starts with an empty tree; what was stored
  before is not in it, and its keys are accepted again.
* `"parting key"`: a deleted key that still parts two children goes to the left of
  itself when it is inserted during a split; search goes to the right.

Further: an UPDATE that leaves an indexed primary key as it is is refused for its
own key; a page added behind the one an UPDATE has a copy of is not scanned; index
entries survive a rollback (`src/README.md:217` says otherwise); `next_leaf`
is never set, so `range_scan` ends with its first leaf.

### SELECT

What the run leaves out of its instances, because the answer is not SQL's: `USING`
on small tables is a cross join; a hash join matches NULL keys, and reads the keys
the wrong way round if ON is written from right to left with different names;
rows without a partner in RIGHT and FULL lose columns of the left side whose name
both have; NATURAL compares the first common column only; ORDER BY of a column
that is not projected is ignored; two aggregates of one function overwrite each other;
arithmetic with NULL raises; `NULL <> x` and NOT of an unknown condition are true.

Among the instances are two more, named in front of the property:
`GroupsAreReference` compares with SQL (`GroupsAreSql`) unless an aggregate without
GROUP BY reads nothing (`SomethingIsCounted`), where the code has no row, or COUNT of a
column meets a NULL (`NoNullIsCounted`), which the code counts.  `CountOfNothing.cfg`
has them in.

## Proofs

TLAPS checks the theorems for every value of the constants: any sets of
transactions, threads, pages, tables and rows, any capacity, any sizes of pages
and rows.  What the README calls bounds of a run stays a parameter: the theorems
hold for every `MaxPage`, `MaxPages` or `MaxSlots`.  Assumptions are the named
ASSUMEs of the modules: flags are Boolean, there is a page, the capacity and the
room of a page are positive, page and transaction numbers are natural, the tables
the file is opened with are finitely many and have a page each, what the client
inserts or assigns are rows, expressions are finite trees, rows and clauses are
lists, LIMIT and OFFSET are natural numbers, the markers (`NoPage`, `NoTable`,
`NoRow`, `Null`, ...) are no values.  Where a theorem has a hypothesis of its own, it says what the client does
not do, and the runs show what happens if it does.

`LockManagerProofs`.

* `TypeCorrect` is inductive as it stands and is used everywhere else.
* `LocksExclude`: `MutualExclusion` with types is inductive, since `Grant`,
  `AcquireGranted` and `Upgrade` look at the other holders in the step that
  takes the lock.
* `GraphStaysAcyclic`: removing edges cannot close a cycle (a lemma on `HasCycle`),
  and the one step that adds edges is guarded by the detector.
* `QueuesKnowWaiters`: the invariant is the conjunction of three parts, none of
  which is inductive alone: a waiter is queued, an entry is explained by a
  waiting call or a held lock, the deque is a total order.  The second is needed
  to show that a request is never queued twice, which the third rests on.
* `NoSleeperOnFreePage`: from the previous one, the release that frees a page finds
  the entry of every sleeper and notifies it.
* `ManagerIsLockTable`: every step is a step of `LockTable` or stutters under the
  mapping that reads the answer of a call from `pc`.
* `IdleHasNoEdges` and `DeniedInADeadlock` need that locks are kept to the end of
  their transaction (`~EarlyRelease`): a release in between leaves the edges to the
  releaser behind, and the code then denies requests without a deadlock.  Their
  invariant, `EdgesInv`, explains every edge: it goes to a holder that blocks the
  request of a call in progress, or to a transaction that is just being cleared,
  of which there is one at a time; after a time-out the edges that are still there
  are those the thread has still to remove.  A circle that the detector finds
  then consists of blocked requests alone.

`DetectCycleProofs`, for any transactions, any graph without self-loops and any
order of iteration.

* `GrayIsThePath`, `CyclesAreFound`, `CycleIsListed`.  The invariant `Search` says
  that no call of `dfs` is active twice; that what a frame has read of its
  successors is black or is the next frame; that the successors of black nodes
  are black; that no knot of the graph lies in the black ones; and that the
  links of `parent` lead up, so that the walk over them that lists the cycle
  ends (`ParentsEnd`, a rank for each transaction).  The list is a cycle
  because the frames of the stack are the path that the walk goes back.

`BufferPoolProofs`.

* `PoolTypeCorrect` and `PinsProtect` hold for any number of threads.  That a victim
  is found needs that `older`, the order of the dictionary, stays total
  (`OrderIsTotal`, a lemma).
* `OneThreadIsAPageStore` holds for one thread.  Its strengthening relates the
  local variables of a call in progress to the pool: the file is at the position
  the thread seeked, the buffer holds the content of the page, a page that is not
  dirty has its content in the file, and what a flush has still to write is
  what the dirty pages hold.

`TransactionsProofs`.

* `GcSelects`: the loop of `gc` leaves of a chain, however long, what is no garbage,
  in its order, and nothing else, by induction over its length.
* The inductive invariant `IInv` is `TypeOK`, `ShadowsAreApart`,
  `BeforeImagesAreCurrent`, `ChainsDescend` and `VersionsFollow`.  The last one is
  there for the others: no version is younger than an active transaction, so the
  next one goes to the head of its chain in order, and who left a version of a
  page has a shadow of it, so he leaves no second one and the page itself does not
  change while he is active.  `TransactionsTyped`, `ShadowsStayApart`,
  `BeforeImagesStayCurrent` and `ChainsStayDescending` are its parts.
* `OwnVersionsAreKept`: a commit collects no version of a transaction that goes on;
  every other step leaves chains alone or makes them longer.
* `WorkspaceIsKept`: every step is one of `Workspace` or changes nothing of it, if
  `"stale shadow"` is avoided.  It needs `PoolAgrees` besides: what the pool holds
  of a shadow page and will not write is what the file has.  So a commit copies
  what was seen.

`StorageProofs`.

* `StorageTypes` holds for everything a client can do.  The free list is followed
  by recursive functions; they are defined for every list, also a circular one,
  and return pages.
* `PagesStayApart` is for a client that frees no page (no ROLLBACK, no DROP).  Its
  invariant `Apart` gives every table a set of pages of its own such that no
  version of them, in the file, in the pool or in a shadow page, has a link that
  leads elsewhere; shadow pages are outside of these sets.  So it does not matter
  which versions a crash or a half-done COMMIT puts together.  With ROLLBACK it is
  not so: a page that was freed keeps its dirty copy in the pool, and
  `storage_frees_live_page` shows what comes of it.
* `SessionSeesAStore`: `Storage` implements `SqlStore` for such a client, if the
  process does not die between two copies of COMMIT.  There `StorageTornCommit.cfg`
  breaks it, and for ROLLBACK and DROP `storage_rollback` has to leave out growth
  for the same freed pages.  The
  invariant `Kept` says of the three views of the file (what the session sees, what
  it sees without its transaction, what is in the file):
  - links lead to later pages, so every chain ends and the recursive `Chain` lists
    its pages; every row has one home, a page that all its versions are on
    (`Version`, `Settled`): a scan shows no row twice, and an UPDATE or DELETE of a
    page takes its row from nowhere else;
  - a page has one shadow page at most, and both are in the pool (`Paired`); what the
    pool has and is not dirty is in the file (`Clean`);
  - the file lags behind the pool in a way that a flush or a crash can end: a link
    in it is the committed one or none, and pages it does not lead to hold no rows
    that are not there in the end (`Trails`); between statements they hold none at
    all (`Unborn`).  This is what makes the page that is written past the pool by
    `alloc_page` harmless, and what a crash relies on;
  - during COMMIT the shadow pages are in the file, and the first `copied` of their
    originals are equal to them (`Halfway`): between the first copy and the last one
    the file is neither, and the last one is the instant of the commit.

  Each action has a lemma that says which step of `SqlStore`, or which stutter, it is.

`IndexedTableProofs`.

* `CountIsHonest`: the free bytes a header counts are never more than the page has
  left, whatever is inserted, deleted, moved and updated.  The invariant `Counted`
  has this of the copy too that an UPDATE scans, and that the addresses a statement
  has still to visit stay addresses of the chain.
* `UpdatesReachAll`: an UPDATE that has come to the end of its scan has set every
  row it is for, with no hypothesis on what the client does.  The invariant
  `StillAhead` says where the rows to be set are while the scan goes on: in its page at
  or behind its position, and so in the copy it reads (`ScanIsCurrent`), or in a later
  page, and then the scan knows of a next page.  A row that moves has its values
  already, wherever it goes; a row that an update in place destroys is no longer one.
* `NodesFit`: `TypeOK`, if the size estimated for a key covers the key and the two
  bytes of its length; `IndexOverflow.cfg` is what happens without that.
* `RowsAreFound`: `IndexMatchesTable`, under the same hypothesis and for a client that
  avoids the four statements that break an index (`IndexIsSafe`, the instance of
  `indexed_table` does so; TLC finds `IndexMatchesTable` broken without any one of
  them).  The invariant `WellMatched` relates a tree and a heap (`Matches`): there are
  heights and ranges of keys that make the nodes a search tree (`SearchTree`), a leaf
  has an entry for a key and an address exactly if a row with that key is stored at
  that address, and the copy of a page an UPDATE walks through has, from its position
  on, the rows that are stored (`ScanIsCurrent`), so that the entry it removes is the
  one that is there.  `InsertMatches`, `DeleteMatches` and `UpdateMatches` change tree
  and heap together, as the three handlers do.
* `TableKeepsItsPromise`: `IndexedTable` implements `KeyedTable`, under the same
  hypotheses and for a client that never updates (`Sets = {}`) or stays away from
  updates that overwrite, which is a real restriction: no client can see the gap that
  decides it, and `PageOverwritten.cfg` is the code without it.  The invariant
  `KeepsPromise` is that no row, slot or header is lost (`SoundTable`; without UPDATE
  because the count is at most the gap above the slots, `Roomy`), that of `RowsAreFound`
  and that keys differ (`KeysDiffer`): so what is
  read is what is stored; the uniqueness check finds a row with the key if one counts,
  by the scan without an index and by `RowsAreFound` with one (`ConflictIs`); and the
  row a scan is at is still the one it has read (`ScannedRow`).  So each row that is
  handled is a step of `KeyedTable` (`InsertIsPromised`, `DeleteIsPromised`,
  `UpdateIsPromised`), an update that moves its row included, and an insertion into
  the index does not raise after the row is written.

`TreeProofs` has what these two say of a B-tree alone, in two layers.

* The shape (`IsIndex`): there are heights such that a leaf has height 0 and each
  child is one lower than its parent, and no node has more keys than
  `compute_max_keys` allows.  `_split_child` keeps it (`SplitTree`), and so does the
  split of the root (`RootSplitTree`).  On the way down the current node has room
  (`Way`), each step gets one lower (`LowerGoes`), and so the loop of `Reached` is at
  a leaf before it ends, with room for the entry (`LeafReached`, `PlacedIs`); search
  and delete look at a leaf for the same reason (`LeafForIs`).
* The order (`Ranged`): every node has a set of keys that lead to it, the root has
  all of them, and a key of an inner node's set is in the set of the one child that
  `Position` leads it to.  Sets instead of pairs of bounds let a split be said in one
  line: the left half keeps the keys that its parent sends left, the right half gets
  the others (`SplitRanges`, `SplitRanged`).  A node has one parent at most
  (`OneParent`), so no other set changes.  `InsertHolds` then says that an insertion
  adds one entry and `DeleteHolds` that a deletion removes one, and `SearchHolds`
  that a search returns the entries of its key, wherever they are.  It is here that
  `"parting key"` has to be avoided: a key equal to the one that parts the halves of
  the node being split is sent to the left by `_insert_nonfull` and to the right by
  `search`.

`SelectProofs`.

* The lemma `SelectInvariant` has the inductive invariant `Inv`, what one operator may
  expect of the one below it: lists of rows, the clauses of the statement, tables of
  the catalog.  The three properties below are then about one operator each, over
  lists of any length.
* `AnswersAreOrdered`.  A stable sort puts the row at position p at its rank, the
  number of rows before it (`SortedIs`; ranks in a strict total order are a
  bijection, `RankGrows` to `PlaceIs`).  After the pass for key k the rows are in the
  order in which keys k, k + 1, ... count, and position decides between equals
  (`PassOrders`, from the last key to the first, `SortedByIs`): a pass keeps the
  order of the passes before it among the rows it does not tell apart, which is
  where stability is used.  `LimitedIs` cuts the part.  It is for keys that are
  numbers or NULL (`Sortable`): texts are sorted in the same way but have no order
  in the model, and the code raises where a number meets a text.
* `WhereKeepsTrue`.  `Eval`, `Truth3` and `Positive` are recursive functions over the
  trees; they exist by induction over the size (`ComputesExist`, once for all three),
  and `PositiveTruth` says, by the same induction, that a condition without NOT and
  unequal is true for the code exactly if it is true in three values.  With NOT it is
  not so: NULL = 1 is false for the code, and its negation true.  The reference has
  comparisons of its own (`Holds`), and a column or a number may be a condition, true
  if it is neither NULL nor 0.
* `GroupsReferred`.  The invariant of the loop over the rows is `Grouped`: the keys of
  the groups differ, each row seen so far has its group, and a state has the count,
  the sum or sum and count of the rows seen so far with that key (`StepKeeps`,
  `AbsorbKeeps`).  `ClearGrouping` is its condition: keys are plain columns, what is
  summed up are numbers or NULL, and no name is given twice; `SomethingIsCounted` and
  `NoNullIsCounted` are the two cases where the code is not SQL.
* `AlgorithmsAgree`: over a name that both sides have, the hash join and the nested
  loops give the same rows in the same order, whatever the tables and the type of the
  join, if no left row has NULL for it.  With NULL they differ: `None` equals itself
  as a key of the hash table and nothing in `_compare_eq`.

The proofs over numbers use induction in one form: a set of numbers with 0 and every
successor is all of them (`EveryNumber`), by the smallest counterexample
(`SmallestOf`), from the well-foundedness of their order.  Each module that needs
these two lemmas begins with them.

Only model-checked: liveness (`AcquireReturns`, `SearchEnds`, `CallsReturn`), which the prover
cannot do under fairness; ownership and the refinement of `Storage` with pages that
are freed (`storage_rollback`), where they hold within the bounds of the run only,
since the code leaves stale copies in the pool; `IndexedTable` with the statements
`Avoided` names, where the properties do not hold; `ParsesWhatWasWritten`, since
the parser is a set of recursive operators over trees; and `JoinIsReference`, which
holds for the statements of the run and not for all: `JoinChain.cfg` is a chain of
joins where it fails.

## Not modelled

* `Lexer`: text to tokens, character by character; the models begin with tokens.
* `types.py`, `row_format.py`: value conversion and byte layout.  Keys are numbers in
  the order of their encoding, rows are their lengths.
* CREATE TABLE and CREATE INDEX as text, column metadata, the checks of the file header
  and format versions, a catalog larger than a page.
* The REPL, its commands, completion and colours: presentation around
  `Database.execute`.
* `range_scan`, `mark_deleted`, `select_victim`, `release_read_locks`, the commit and
  rollback of `ShadowBufferPool`: only tests call them.  The sort-merge join and the
  CREATE and DROP operators of the executor are constructed nowhere.
* Composite keys and several indexes of one table; indexes inside transactions.

## Plan

1. Done: page locks, buffer pool, transactional storage, several transactions with
   versions, tables with an index, SELECT, each with an abstract specification or a
   reference.
2. Indexes inside transactions: what a rollback leaves of an index, as a
   composition of `IndexedTable` with `Transactions`.
3. The reference join as a theorem, for statements in which every column that ON
   names is still to be found under its name.
4. The encoding of keys in `btree.py` against the order of their values.
