--------------------------- MODULE MCIndexedTable ---------------------------
EXTENDS IndexedTable

\* Ten rows are loaded: the tree has three levels and a full inner node.
MCKey == 1..22
MCRow == [key : MCKey, len : {1, 2, 20}] \cup [key : {17, 21}, len : {3}]
MCLoaded == [i \in 1..10 |-> [key |-> 2 * i, len |-> 1]]

\* One row: the third key does not fit into the leaf.
MCFewLoaded == <<[key |-> 2, len |-> 1]>>

\* New keys in the middle and at the end, a second row whose key may be taken,
\* a key that is deleted and comes back, and a row longer than a page.
MCInserts == {<<[key |-> 11, len |-> 2]>>,
              <<[key |-> 14, len |-> 1]>>,
              <<[key |-> 22, len |-> 1], [key |-> 17, len |-> 1]>>,
              <<[key |-> 7, len |-> 20]>>}
MCWheres == {{4}, {14, 17}, MCKey}
MCSets == {[len |-> 2], [len |-> 20], [key |-> 21], [key |-> 17, len |-> 3]}
MCAvoided == {"overwrite", "indexed move", "long move", "parting key", "rows before index"}
MCOverwriting == MCAvoided \ {"overwrite"}
=============================================================================
