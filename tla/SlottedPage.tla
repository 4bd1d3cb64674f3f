---------------------------- MODULE SlottedPage ----------------------------
(***************************************************************************)
(* The layout of a data page: src/tinydb/page.py, and the update in place  *)
(* of src/tinydb/table.py.                                                 *)
(*                                                                         *)
(* A page is a header, a slot array that grows upwards behind it, and rows *)
(* that grow downwards from the end.  The header keeps the number of free  *)
(* bytes (space) and the address of the lowest row (top) apart, and the    *)
(* code trusts the first and writes at the second.  What a page contains   *)
(* is the row each slot stands for; a slot is lost when bytes of its entry *)
(* or of its row have been overwritten, and then reads as garbage.         *)
(***************************************************************************)
EXTENDS Integers, Sequences

CONSTANTS
    PageSize, HeaderSize, SlotSize,     \* in bytes
    Row,            \* serialized rows: records with a field len
    NoRow           \* content of the slot of a deleted row

ASSUME SizesArePositive ==
    /\ HeaderSize \in Nat \ {0} /\ SlotSize \in Nat \ {0}
    /\ PageSize \in Nat /\ PageSize >= HeaderSize
ASSUME RowsHaveBytes == \A row \in Row : row.len \in Nat \ {0}
ASSUME NoRowIsNoRow == NoRow \notin Row

Slot == [at : Int, row : Row \cup {NoRow}]
Page == [slots : Seq(Slot), space : Int, top : Int, lost : SUBSET Nat]

EmptyPage == [slots |-> <<>>, space |-> PageSize - HeaderSize, top |-> PageSize, lost |-> {}]

-----------------------------------------------------------------------------

Entry(i) == HeaderSize + (i - 1) * SlotSize

\* The ranges of n bytes from a and of m bytes from b have a byte in common.
Meet(a, n, b, m) == a < b + m /\ b < a + n

Live(page) == {i \in DOMAIN page.slots : page.slots[i].row # NoRow}

\* Live slots whose row has a byte in the range.
RowsIn(page, a, n) ==
    {i \in Live(page) : Meet(page.slots[i].at, page.slots[i].row.len, a, n)}

\* Slots that lose bytes of their row or of their entry to a write.
Overwritten(page, a, n) ==
    RowsIn(page, a, n) \cup {i \in DOMAIN page.slots : Meet(Entry(i), SlotSize, a, n)}

\* A row written at a loses what its own entry and the header, which are
\* written later, have in common with it.
Spoilt(i, a, n) == IF a < HeaderSize \/ Meet(Entry(i), SlotSize, a, n) THEN {i} ELSE {}

\* Bytes of the row of a slot; a deleted row has none.
RowBytes(row) == IF row = NoRow THEN 0 ELSE row.len

\* The code looks at space only; at a negative address pack_into raises.
HasSpace(page, row) == row.len + SlotSize <= page.space
CanRewrite(page, i, row) == row.len <= page.space + RowBytes(page.slots[i].row)

Overflows(page, row) == page.top < row.len

\* insert_row_into_page: the row, its slot entry, then the header.
Inserted(page, row) ==
    LET i == Len(page.slots) + 1
        at == page.top - row.len
    IN  [slots |-> Append(page.slots, [at |-> at, row |-> row]),
         space |-> page.space - row.len - SlotSize,
         top |-> at,
         lost |-> page.lost \cup Overwritten(page, at, row.len)
                    \cup RowsIn(page, Entry(i), SlotSize) \cup Spoilt(i, at, row.len)]

\* Table.update in place: the new row below top, whatever the old one was.
Rewritten(page, i, row) ==
    LET at == page.top - row.len
    IN  [slots |-> [page.slots EXCEPT ![i] = [at |-> at, row |-> row]],
         space |-> page.space + RowBytes(page.slots[i].row) - row.len,
         top |-> at,
         lost |-> ((page.lost \cup Overwritten(page, at, row.len)) \ {i})
                    \cup Spoilt(i, at, row.len)]

\* Mutant: a deleted row and its slot entry are counted as free.
DeletedWithSlot(page, i) ==
    [page EXCEPT !.slots[i] = [at |-> 0, row |-> NoRow],
                 !.space = @ + page.slots[i].row.len + SlotSize]

\* delete_row_from_page: the space of the row is not given back.
Deleted(page, i) == [page EXCEPT !.slots[i] = [at |-> 0, row |-> NoRow]]

-----------------------------------------------------------------------------
(* What a sound page is.                                                   *)

\* Bytes of the rows that are not deleted.
Used(slots) ==
    LET Sum[n \in 0 .. Len(slots)] == IF n = 0 THEN 0 ELSE Sum[n - 1] + RowBytes(slots[n].row)
    IN  Sum[Len(slots)]

\* Header, slot entries, rows and what is counted as free fit into the page.
SpaceFits(page) ==
    /\ page.space >= 0
    /\ page.space + Used(page.slots) + Entry(Len(page.slots) + 1) <= PageSize

\* Between the slot array and the lowest row.
Gap(page) == page.top - Entry(Len(page.slots) + 1)

RowsInBounds(page) ==
    \A i \in Live(page) :
        /\ page.top <= page.slots[i].at
        /\ page.slots[i].at + page.slots[i].row.len <= PageSize

RowsApart(page) ==
    \A i, j \in Live(page) : i # j =>
        ~ Meet(page.slots[i].at, page.slots[i].row.len,
               page.slots[j].at, page.slots[j].row.len)

Sound(page) == page.lost = {} /\ Gap(page) >= 0 /\ RowsInBounds(page) /\ RowsApart(page)
=============================================================================
