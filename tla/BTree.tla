------------------------------- MODULE BTree -------------------------------
(***************************************************************************)
(* The B-tree of src/tinydb/index/btree.py: nodes in pages, an insertion   *)
(* that splits full nodes on its way down, search, and deletion that never *)
(* merges nodes.  Keys are encoded keys, compared as the code compares     *)
(* bytes; a tree is the set of its pages and the root.  The pages of an    *)
(* index are numbered by themselves; they are never given back.            *)
(***************************************************************************)
EXTENDS Integers, FiniteSets, SequencesExt

CONSTANTS
    NodeSpace,      \* bytes of a page behind the headers of page and node
    KeyEstimate,    \* key_size: what a key is taken to need, by its type
    KeyBytes        \* what an encoded key does need

\* compute_max_keys; an address has 8 bytes, a page number 4.
MaxLeaf == (NodeSpace - 4) \div (KeyEstimate + 8)
MaxInner == (NodeSpace - 4) \div (KeyEstimate + 4)

ASSUME NodeSizes == NodeSpace \in Nat /\ KeyEstimate \in Nat /\ KeyBytes \in Nat
ASSUME SplitsAreProper == MaxLeaf >= 2 /\ MaxInner >= 3

\* A leaf has a row address for each key, an inner node one child more than keys.
Leaf(keys, ptrs) == [leaf |-> TRUE, keys |-> keys, ptrs |-> ptrs]
Inner(keys, kids) == [leaf |-> FALSE, keys |-> keys, ptrs |-> kids]

\* _persist_node: every key is written with its length, in 2 bytes.
Fits(node) ==
    Len(node.keys) * (2 + KeyBytes) + (IF node.leaf THEN 8 ELSE 4) * Len(node.ptrs)
        + (IF node.leaf THEN 4 ELSE 0) <= NodeSpace

EmptyTree == [root |-> 1, nodes |-> <<Leaf(<<>>, <<>>)>>]

\* Mutant: an inner node is split one key too late.
FullTooLate(node) == IF node.leaf THEN Len(node.keys) >= MaxLeaf ELSE Len(node.keys) > MaxInner

Full(node) == Len(node.keys) >= IF node.leaf THEN MaxLeaf ELSE MaxInner

\* The first entry greater than the key: where it is inserted, or the child
\* that is entered for it.
Position(node, key) ==
    LET Greater(k) == key < k
        i == SelectInSeq(node.keys, Greater)
    IN  IF i = 0 THEN Len(node.keys) + 1 ELSE i

\* The halves of a full node and the key that parts them.
Halves(node) ==
    LET mid == Len(node.keys) \div 2
        size == Len(node.keys)
    IN  IF node.leaf
        THEN [left |-> Leaf(SubSeq(node.keys, 1, mid), SubSeq(node.ptrs, 1, mid)),
              right |-> Leaf(SubSeq(node.keys, mid + 1, size), SubSeq(node.ptrs, mid + 1, size)),
              key |-> node.keys[mid + 1]]
        ELSE [left |-> Inner(SubSeq(node.keys, 1, mid), SubSeq(node.ptrs, 1, mid + 1)),
              right |-> Inner(SubSeq(node.keys, mid + 2, size), SubSeq(node.ptrs, mid + 2, size + 1)),
              key |-> node.keys[mid + 1]]

\* _split_child: the right half goes to a new page.
SplitChild(nodes, parent, i) ==
    LET child == nodes[parent].ptrs[i]
        half == Halves(nodes[child])
        above == Inner(InsertAt(nodes[parent].keys, i, half.key),
                       InsertAt(nodes[parent].ptrs, i + 1, Len(nodes) + 1))
    IN  Append([nodes EXCEPT ![child] = half.left, ![parent] = above], half.right)

\* _insert_nonfull at an inner node: on to the child for the key, which is split
\* before it is entered if it is full.
Lower(at, key) ==
    LET node == at.nodes[at.page]
        i == Position(node, key)
        split == SplitChild(at.nodes, at.page, i)
    IN  IF node.leaf THEN at
        ELSE IF ~ Full(at.nodes[node.ptrs[i]]) THEN [at EXCEPT !.page = node.ptrs[i]]
        ELSE LET j == IF key > split[at.page].keys[i] THEN i + 1 ELSE i
             IN  [nodes |-> split, page |-> split[at.page].ptrs[j]]

\* The tree and the leaf that the insertion gets to, in a set by themselves: no
\* path is longer than the number of nodes.
Reached(nodes, page, key) ==
    LET At[n \in 0 .. Len(nodes)] ==
            IF n = 0 THEN {[nodes |-> nodes, page |-> page]}
            ELSE {Lower(at, key) : at \in At[n - 1]}
    IN  At[Len(nodes)]

LongerLeaf(leaf, key, ptr) ==
    LET i == Position(leaf, key)
    IN  Leaf(InsertAt(leaf.keys, i, key), InsertAt(leaf.ptrs, i, ptr))

\* A leaf that would not fit into its page raises and is not written; the
\* splits on the way to it are.
Placed(at, key, ptr) ==
    LET longer == LongerLeaf(at.nodes[at.page], key, ptr)
    IN  IF Fits(longer) THEN [at.nodes EXCEPT ![at.page] = longer] ELSE at.nodes

InsertNonfull(nodes, page, key, ptr) ==
    CHOOSE new \in {Placed(at, key, ptr) : at \in Reached(nodes, page, key)} : TRUE

\* insert: a full root gets a new root above it; its limit is that of a leaf.
Opened(tree) ==
    LET n == Len(tree.nodes)
        half == Halves(tree.nodes[tree.root])
        grown == [tree.nodes EXCEPT ![tree.root] = half.left]
                 \o <<Inner(<<half.key>>, <<tree.root, n + 2>>), half.right>>
    IN  IF Len(tree.nodes[tree.root].keys) >= MaxLeaf THEN [root |-> n + 1, nodes |-> grown]
        ELSE tree

InsertKey(tree, key, ptr) ==
    LET open == Opened(tree)
    IN  [open EXCEPT !.nodes = InsertNonfull(@, open.root, key, ptr)]

\* The insertion raises: the leaf it gets to does not fit with the entry.
Raises(tree, key, ptr) ==
    \E at \in Reached(Opened(tree).nodes, Opened(tree).root, key) :
        ~ Fits(LongerLeaf(at.nodes[at.page], key, ptr))

\* The one leaf that search and delete look at.
LeafFor(nodes, page, key) ==
    LET Below[n \in DOMAIN nodes] ==
            IF nodes[n].leaf THEN n ELSE Below[nodes[n].ptrs[Position(nodes[n], key)]]
    IN  Below[page]

Search(tree, key) ==
    LET node == tree.nodes[LeafFor(tree.nodes, tree.root, key)]
    IN  {node.ptrs[i] : i \in {j \in DOMAIN node.keys : node.keys[j] = key}}

\* The positions of a leaf's entries but that of the key and the address.
Without(leaf, key, ptr) ==
    LET Kept[n \in 0 .. Len(leaf.keys)] ==
            IF n = 0 THEN <<>>
            ELSE IF leaf.keys[n] = key /\ leaf.ptrs[n] = ptr THEN Kept[n - 1]
            ELSE Append(Kept[n - 1], n)
    IN  Kept[Len(leaf.keys)]

\* delete: the leaf shrinks, down to nothing; nodes are not merged.
DeleteKey(tree, key, ptr) ==
    LET page == LeafFor(tree.nodes, tree.root, key)
        node == tree.nodes[page]
        kept == Without(node, key, ptr)
    IN  [tree EXCEPT !.nodes[page] =
            Leaf([i \in DOMAIN kept |-> node.keys[kept[i]]],
                 [i \in DOMAIN kept |-> node.ptrs[kept[i]]])]
=============================================================================
