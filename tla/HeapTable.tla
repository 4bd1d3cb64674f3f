----------------------------- MODULE HeapTable -----------------------------
(***************************************************************************)
(* A table as a chain of slotted pages: insert, delete and update of       *)
(* src/tinydb/table.py as functions from chain to chain.  The chain is the *)
(* sequence of its pages; how it hangs together in the file is the subject *)
(* of Storage.                                                             *)
(***************************************************************************)
EXTENDS SlottedPage, FiniteSets

Heap == Seq(Page)
RowId == [page : Nat \ {0}, slot : Nat \ {0}]

EmptyHeap == <<EmptyPage>>

RowAt(heap, rid) == heap[rid.page].slots[rid.slot].row

\* Table.scan: what a reader finds in each slot that is not deleted.
RowIds(heap) ==
    {rid \in [page : DOMAIN heap, slot : UNION {DOMAIN heap[p].slots : p \in DOMAIN heap}] :
        rid.slot \in Live(heap[rid.page])}

\* A slot that was overwritten does not give its row back.
Readable(heap) == {rid \in RowIds(heap) : rid.slot \notin heap[rid.page].lost}

-----------------------------------------------------------------------------

\* The first page of the chain with space, or a new one at its end.
Candidates(heap, row) == {p \in DOMAIN heap : HasSpace(heap[p], row)}

Spot(heap, row) ==
    IF Candidates(heap, row) = {} THEN Len(heap) + 1
    ELSE CHOOSE p \in Candidates(heap, row) : \A q \in Candidates(heap, row) : p <= q

Extended(heap, p) == IF p > Len(heap) THEN Append(heap, EmptyPage) ELSE heap

\* Table.insert: the chain and the address of the row.  A row longer than a
\* page leaves the new page behind; a negative address cannot be written.
InsertRow(heap, row) ==
    LET p == Spot(heap, row)
        long == Extended(heap, p)
        fails == ~ HasSpace(long[p], row) \/ Overflows(long[p], row)
    IN  [heap |-> IF fails THEN long ELSE [long EXCEPT ![p] = Inserted(@, row)],
         rid |-> [page |-> p, slot |-> Len(long[p].slots) + 1],
         failed |-> fails]

DeleteRow(heap, rid) == [heap EXCEPT ![rid.page] = Deleted(@, rid.slot)]

UpdateMoves(heap, rid, row) == ~ CanRewrite(heap[rid.page], rid.slot, row)

\* Mutant: the old row of an update that moves is not deleted.
UpdateRowTwice(heap, rid, row) ==
    IF UpdateMoves(heap, rid, row) THEN InsertRow(heap, row)
    ELSE [heap |-> [heap EXCEPT ![rid.page] = Rewritten(@, rid.slot, row)], rid |-> rid,
          failed |-> FALSE]

\* Table.update: in place, or as a new row after the old one is deleted.
UpdateRow(heap, rid, row) ==
    LET fails == Overflows(heap[rid.page], row)
    IN  IF UpdateMoves(heap, rid, row) THEN InsertRow(DeleteRow(heap, rid), row)
        ELSE [heap |-> IF fails THEN heap ELSE [heap EXCEPT ![rid.page] = Rewritten(@, rid.slot, row)],
              rid |-> rid, failed |-> fails]

-----------------------------------------------------------------------------
(* Where the byte count of the header is not the room there is.            *)

\* The row is written below the gap, over slot entries or the header.
InsertOverwrites(heap, row) ==
    LET p == Spot(heap, row)
    IN  p <= Len(heap) /\ Gap(heap[p]) < row.len + SlotSize

UpdateOverwrites(heap, rid, row) ==
    IF UpdateMoves(heap, rid, row)
    THEN InsertOverwrites(DeleteRow(heap, rid), row)
    ELSE Gap(heap[rid.page]) < row.len
=============================================================================
