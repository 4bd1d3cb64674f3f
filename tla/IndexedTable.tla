--------------------------- MODULE IndexedTable ----------------------------
(***************************************************************************)
(* INSERT, UPDATE and DELETE on a table with a primary key that may be     *)
(* indexed: DmlOperator of src/tinydb/sql/executor.py over                 *)
(* index/index_manager.py, index/btree.py and table.py, for one session    *)
(* outside a transaction.                                                  *)
(*                                                                         *)
(* A statement is a process: it handles its rows one by one, checks,       *)
(* indexes and writes each, and ends at the first that is refused; what it *)
(* has written stays.  UPDATE writes while its own scan goes on: the scan  *)
(* holds a copy of the page it is at and reads the next page when it gets  *)
(* there.                                                                  *)
(***************************************************************************)
EXTENDS HeapTable, BTree

CONSTANTS
    Key,            \* encoded values of the primary key
    Loaded,         \* rows inserted, in this order, before the run begins
    MaxPages,       \* bound: pages of the chain
    MaxSlots,       \* bound: rows written to new slots
    Inserts,        \* the sequences of rows of the client's INSERTs
    Wheres,         \* the sets of keys its UPDATEs and DELETEs are for
    Sets,           \* what UPDATE ... SET assigns: key, len or both
    Avoided,        \* what the client stays away from, see Prudent
    NoIndex         \* the table has no index

ASSUME KeysAreOrdered == Key \subseteq Int
ASSUME RowsHaveKeys == Row \subseteq [key : Key, len : Nat \ {0}]

VARIABLES
    heap,           \* the pages of the table
    index,          \* IndexManager._btrees for the key column
    stmt,           \* the statement in progress
    outcome         \* how it ended, as in KeyedTable

vars == <<heap, index, stmt, outcome>>

Idle == [kind |-> "idle"]

\* UPDATE ... SET: a new key, a value of another length, or both.
Assigned(row, set) ==
    [field \in DOMAIN row |-> IF field \in DOMAIN set THEN set[field] ELSE row[field]]

ASSUME InputsAreRows ==
    /\ Loaded \in Seq(Row) /\ Inserts \subseteq Seq(Row)
    /\ \A set \in Sets : DOMAIN set \subseteq {"key", "len"}
    /\ \A set \in Sets : \A row \in Row : Assigned(row, set) \in Row

\* The loaded rows were inserted: no key was taken, no row longer than a page.
ASSUME LoadedRowsAreInserted ==
    /\ \A i, j \in DOMAIN Loaded : i # j => Loaded[i].key # Loaded[j].key
    /\ \A i \in DOMAIN Loaded : Loaded[i].len + SlotSize <= PageSize - HeaderSize

-----------------------------------------------------------------------------
(* IndexManager.                                                           *)

HasIndex == index # NoIndex

AfterInsert(rid, row) == IF HasIndex THEN InsertKey(index, row.key, rid) ELSE index
AfterDelete(rid, row) == IF HasIndex THEN DeleteKey(index, row.key, rid) ELSE index

\* Mutant: the entry of the old key is left in the tree.
AfterUpdateUnremoved(rid, old, new) ==
    IF HasIndex /\ old.key # new.key THEN InsertKey(index, new.key, rid) ELSE index

\* after_update runs before the row is written: the address is the old one.
AfterUpdate(rid, old, new) ==
    IF HasIndex /\ old.key # new.key
    THEN InsertKey(DeleteKey(index, old.key, rid), new.key, rid)
    ELSE index

InsertRaises(rid, row) == HasIndex /\ Raises(index, row.key, rid)
UpdateRaises(rid, old, new) ==
    HasIndex /\ old.key # new.key /\ Raises(DeleteKey(index, old.key, rid), new.key, rid)

\* Mutant: without an index nothing is checked.
ConflictByIndex(key, except) == HasIndex /\ Search(index, key) # {}
\* _check_unique: by the index, which knows no exception, or by a scan that
\* leaves out the row that is updated.
Conflict(key, except) ==
    IF HasIndex THEN Search(index, key) # {}
    ELSE \E rid \in Readable(heap) \ except : RowAt(heap, rid).key = key

-----------------------------------------------------------------------------
(* What a prudent client avoids.                                           *)

Slots(h) == UNION {{<<p, i>> : i \in DOMAIN h[p].slots} : p \in DOMAIN h}
InBounds(h) == Len(h) <= MaxPages /\ Cardinality(Slots(h)) <= MaxSlots

\* The key parts two children of an inner node.
Parts(key) == HasIndex /\ \E n \in DOMAIN index.nodes :
    ~ index.nodes[n].leaf /\ \E i \in DOMAIN index.nodes[n].keys : index.nodes[n].keys[i] = key

PrudentInsert(row) ==
    /\ "overwrite" \in Avoided => ~ InsertOverwrites(heap, row)
    /\ "parting key" \in Avoided => ~ Parts(row.key)

PrudentUpdate(rid, row) ==
    /\ "overwrite" \in Avoided => ~ UpdateOverwrites(heap, rid, row)
    /\ "indexed move" \in Avoided => ~ (HasIndex /\ UpdateMoves(heap, rid, row))
    /\ "long move" \in Avoided => ~ UpdateRow(heap, rid, row).failed
    /\ "parting key" \in Avoided => (RowAt(heap, rid).key = row.key \/ ~ Parts(row.key))

-----------------------------------------------------------------------------
(* Statements.                                                             *)

\* CREATE TABLE, CREATE INDEX, and an INSERT of every loaded row.
WithRow(db, row) ==
    LET done == InsertRow(db.heap, row)
    IN  [heap |-> done.heap, tree |-> InsertKey(db.tree, row.key, done.rid)]

AfterLoading ==
    LET Db[n \in 0 .. Len(Loaded)] ==
            IF n = 0 THEN [heap |-> EmptyHeap, tree |-> EmptyTree] ELSE WithRow(Db[n - 1], Loaded[n])
    IN  Db[Len(Loaded)]

Init ==
    /\ heap = AfterLoading.heap
    /\ index \in {NoIndex, AfterLoading.tree}
    /\ stmt = Idle
    /\ outcome = "none"

Begin(s) == stmt = Idle /\ stmt' = s /\ outcome' = "none" /\ UNCHANGED <<heap, index>>
End(how) == stmt' = Idle /\ outcome' = how /\ UNCHANGED <<heap, index>>

\* After a row: on to the next, unless an exception ended the statement.
Proceed(failed, next) ==
    /\ stmt' = IF failed THEN Idle ELSE next
    /\ outcome' = IF failed THEN "failed" ELSE outcome

StartInsert(rows) == Begin([kind |-> "insert", rest |-> rows])

\* One row of _execute_insert: check, write, index.
InsertNext ==
    /\ stmt.kind = "insert" /\ stmt.rest # <<>>
    /\ \E row \in {Head(stmt.rest)}, done \in {InsertRow(heap, Head(stmt.rest))} :
        IF Conflict(row.key, {}) THEN End("refused")
        ELSE /\ PrudentInsert(row)
             /\ InBounds(done.heap)
             /\ heap' = done.heap
             /\ index' = IF done.failed THEN index ELSE AfterInsert(done.rid, row)
             /\ Proceed(done.failed \/ InsertRaises(done.rid, row),
                        [stmt EXCEPT !.rest = Tail(@)])

\* _execute_delete collects the rows of its scan, then deletes them in order.
StartDelete(keys) ==
    Begin([kind |-> "delete", rest |-> {rid \in Readable(heap) : RowAt(heap, rid).key \in keys}])

Before(a, b) == a.page < b.page \/ (a.page = b.page /\ a.slot < b.slot)

DeleteNext ==
    /\ stmt.kind = "delete"
    /\ \E rid \in stmt.rest :
        /\ \A other \in stmt.rest \ {rid} : Before(rid, other)
        /\ heap' = DeleteRow(heap, rid)
        /\ index' = AfterDelete(rid, RowAt(heap, rid))
        /\ stmt' = [stmt EXCEPT !.rest = @ \ {rid}]
    /\ UNCHANGED outcome

\* Mutant: the scan ends before the last page of the chain.
AtSkipsLast(p) == [page |-> p, slot |-> 1, copy |-> heap[p], more |-> p + 1 < Len(heap)]

\* The scan has a copy of page p; the copy says whether there is another page.
At(p) == [page |-> p, slot |-> 1, copy |-> heap[p], more |-> p < Len(heap)]

StartUpdate(keys, set) ==
    Begin([kind |-> "update", where |-> keys, set |-> set, scan |-> At(1)])

\* Slots of the copied page the scan has still to look at.
Ahead == {i \in Live(stmt.scan.copy) \ stmt.scan.copy.lost :
            i >= stmt.scan.slot /\ stmt.scan.copy.slots[i].row.key \in stmt.where}

\* One row of _execute_update: check, index, write.
UpdateRid(rid, old, new) ==
    IF Conflict(new.key, {rid}) THEN End("refused")
    ELSE /\ PrudentUpdate(rid, new)
         /\ InBounds(UpdateRow(heap, rid, new).heap)
         /\ index' = AfterUpdate(rid, old, new)
         /\ heap' = IF UpdateRaises(rid, old, new) THEN heap ELSE UpdateRow(heap, rid, new).heap
         /\ Proceed(UpdateRaises(rid, old, new) \/ UpdateRow(heap, rid, new).failed,
                    [stmt EXCEPT !.scan.slot = rid.slot + 1])

UpdateNext ==
    /\ stmt.kind = "update"
    /\ \E i \in Ahead :
        /\ \A j \in Ahead : i <= j
        /\ UpdateRid([page |-> stmt.scan.page, slot |-> i], stmt.scan.copy.slots[i].row,
                     Assigned(stmt.scan.copy.slots[i].row, stmt.set))

\* The scan goes on to the next page as it is now.
UpdateNextPage ==
    /\ stmt.kind = "update" /\ Ahead = {} /\ stmt.scan.more
    /\ stmt' = [stmt EXCEPT !.scan = At(@.page + 1)]
    /\ UNCHANGED <<heap, index, outcome>>

Done ==
    /\ \/ stmt.kind = "insert" /\ stmt.rest = <<>>
       \/ stmt.kind = "delete" /\ stmt.rest = {}
       \/ stmt.kind = "update" /\ Ahead = {} /\ ~ stmt.scan.more
    /\ End("done")

\* create_index starts with an empty tree, whatever the table holds.
CreateIndex ==
    /\ stmt = Idle /\ ~ HasIndex
    /\ "rows before index" \in Avoided => RowIds(heap) = {}
    /\ index' = EmptyTree
    /\ UNCHANGED <<heap, stmt, outcome>>

DropIndex ==
    /\ stmt = Idle /\ HasIndex
    /\ index' = NoIndex
    /\ UNCHANGED <<heap, stmt, outcome>>

Next ==
    \/ \E rows \in Inserts : StartInsert(rows)
    \/ \E keys \in Wheres : StartDelete(keys) \/ \E set \in Sets : StartUpdate(keys, set)
    \/ InsertNext \/ DeleteNext \/ UpdateNext \/ UpdateNextPage \/ Done
    \/ CreateIndex \/ DropIndex

Spec == Init /\ [][Next]_vars

-----------------------------------------------------------------------------
(* Properties.                                                             *)

\* Rows, statements and outcomes have their shape; a node of the index fits
\* into its page, with an address or a child for each key.
NodeOK(node) == Fits(node) /\ Len(node.ptrs) = Len(node.keys) + IF node.leaf THEN 0 ELSE 1
TypeOK ==
    /\ HasIndex => \A n \in DOMAIN index.nodes : NodeOK(index.nodes[n])
    /\ \A p \in DOMAIN heap : \A i \in DOMAIN heap[p].slots :
        heap[p].slots[i].row \in Row \cup {NoRow}
    /\ stmt.kind \in {"idle", "insert", "delete", "update"}
    /\ outcome \in {"none", "done", "refused", "failed"}

\* The header of a page never counts more free bytes than the page has, in
\* one piece or not: rows, slot entries, header and free bytes fit into it.
SpaceIsFree == \A p \in DOMAIN heap : SpaceFits(heap[p])

\* No row is written over another row, the slot array or the header.  Table.update
\* writes below the lowest row where the header counts enough free bytes, and so
\* breaks this: see PageOverwritten.cfg.
PagesAreSound == \A p \in DOMAIN heap : Sound(heap[p])

HasValues(row, set) == \A field \in DOMAIN set : row[field] = set[field]

\* Although UPDATE moves rows while its scan goes on, in the copy of one page and
\* on to pages it has itself added, the scan misses none: when it has come to its
\* end every row of the table that it is for has the values it assigns.
UpdateReachesAll ==
    stmt.kind = "update" /\ Ahead = {} /\ ~ stmt.scan.more =>
        \A rid \in Readable(heap) :
            RowAt(heap, rid).key \in stmt.where => HasValues(RowAt(heap, rid), stmt.set)

\* The index finds, for every key, exactly the rows of the table with that
\* key, where they are now, whatever splits and deletions the tree has seen.
IndexMatchesTable ==
    HasIndex => {<<RowAt(heap, rid).key, rid>> : rid \in RowIds(heap)}
                  = UNION {{<<key, rid>> : rid \in Search(index, key)} : key \in Key}

\* Whatever it is stored in, the table is a set of rows with distinct keys,
\* changed row by row, and a row is refused only for a key that is taken.
Promise == INSTANCE KeyedTable WITH rows <- {RowAt(heap, rid) : rid \in Readable(heap)},
                                     doing <- stmt.kind
ImplementsKeyedTable == Promise!Spec
=============================================================================
