----------------------------- MODULE BTreeNode ------------------------------
(***************************************************************************)
(* The nodes of the B+tree of src/storage/btree.cpp: their sizes, lookup,  *)
(* and the nodes that insertions, splits, merges and new links build.      *)
(*                                                                         *)
(* A page is never changed while the tree uses it, so a child pointer is   *)
(* the child node itself. Keys are numbers; the sentinel, the empty key,   *)
(* is 0. A value is its size. Sizes are counted as the code counts them,   *)
(* with a smaller page and smaller overheads. Positions start at 1, and 0  *)
(* stands for the code's -1.                                               *)
(***************************************************************************)
EXTENDS Integers, SequencesExt

CONSTANTS
    Keys,       \* a set of positive numbers
    Vals,       \* a set of value sizes
    KeySize,    \* the size of each key
    PageSize    \* BTREE_PAGE_SIZE

Header == 1     \* 4 bytes in the code
Overhead == 1   \* BNODE_KV_ENTRY_OVERHEAD, 14 bytes in the code

\* The largest entry, by the static_assert in btree.h.
Half == (PageSize - Header) \div 2

ASSUME EntryAssumption ==
    /\ Keys \subseteq Nat \ {0} /\ KeySize \in [Keys -> Nat] /\ Vals \subseteq Nat /\ Vals # {}
    /\ PageSize \in Nat /\ Overhead <= Half
    /\ \A k \in Keys : \A v \in Vals : Overhead + KeySize[k] + v <= Half

Nil == [page |-> 0]     \* no page

Entry(key, val, child) == [key |-> key, val |-> val, child |-> child]
Node(leaf, kvs) == [leaf |-> leaf, kvs |-> kvs]
Leaf(kvs) == Node(TRUE, kvs)
Inner(kvs) == Node(FALSE, kvs)

\* An entry of a leaf, a link, or the sentinel, with pointers to members of Child.
EntryOf(Child) ==
    {e \in [key : Keys \cup {0}, val : Vals \cup {0}, child : Child] : e.key = 0 => e.val = 0}

NodeOf(Child) == [leaf : BOOLEAN, kvs : Seq(EntryOf(Child))]

Ascending(kvs) == \A i, j \in 1 .. Len(kvs) : i < j => kvs[i].key < kvs[j].key

\* A link to a child, under its first key.
Link(node) == Entry(node.kvs[1].key, 0, node)

-----------------------------------------------------------------------------
(* Sizes *)

EntrySize(e) == Overhead + (IF e.key = 0 THEN 0 ELSE KeySize[e.key]) + e.val

\* BNode::nbytes, of the first n entries
nbytes(node, n) ==
    LET bytes[i \in 0 .. n] == IF i = 0 THEN Header ELSE bytes[i - 1] + EntrySize(node.kvs[i])
    IN  bytes[n]

Bytes(node) == nbytes(node, Len(node.kvs))

Fits(node) == Bytes(node) <= PageSize

-----------------------------------------------------------------------------
(* Lookup *)

\* One pass of node_lookup_le's loop. The key itself ends it.
search(kvs, key, s) ==
    LET mid == s.lo + (s.hi - s.lo) \div 2
    IN  IF s.lo > s.hi THEN s
        ELSE IF kvs[mid].key = key THEN [lo |-> mid + 1, hi |-> mid, result |-> mid]
        ELSE IF kvs[mid].key < key THEN [lo |-> mid + 1, hi |-> s.hi, result |-> mid]
        ELSE [lo |-> s.lo, hi |-> mid - 1, result |-> s.result]

\* The last position whose key is at most key, or 0.
node_lookup_le(node, key) ==
    LET n == Len(node.kvs)
        after[i \in 0 .. n] ==
            IF i = 0 THEN [lo |-> 1, hi |-> n, result |-> 0] ELSE search(node.kvs, key, after[i - 1])
    IN  after[n].result

HasKeyAt(node, idx, key) == idx > 0 /\ node.kvs[idx].key = key

-----------------------------------------------------------------------------
(* Splits *)

\* Faulty: node_split without its two loops.
SplitAt_middle(node) == Len(node.kvs) \div 2

\* node_split: from the middle, as far left as the left half needs, then as
\* far right as the right half needs.
SplitAt(node) ==
    LET n == Len(node.kvs)
        nleft == Max({i \in 0 .. n \div 2 : nbytes(node, i) <= PageSize})
    IN  Min({i \in nleft .. n : Bytes(node) - nbytes(node, i) + Header <= PageSize})

\* Faulty: the right half starts one entry late.
node_split_drops(node) ==
    LET nleft == SplitAt(node)
    IN  << Node(node.leaf, SubSeq(node.kvs, 1, nleft)),
           Node(node.leaf, SubSeq(node.kvs, nleft + 2, Len(node.kvs))) >>

node_split(node) ==
    LET nleft == SplitAt(node)
    IN  << Node(node.leaf, SubSeq(node.kvs, 1, nleft)),
           Node(node.leaf, SubSeq(node.kvs, nleft + 1, Len(node.kvs))) >>

node_split_if_needed(node) == IF Fits(node) THEN <<node>> ELSE node_split(node)

\* The assertions of node_split.
SplitOk(node) ==
    \/ Fits(node)
    \/ /\ Len(node.kvs) >= 2
       /\ \E i \in 1 .. Len(node.kvs) \div 2 : nbytes(node, i) <= PageSize
       /\ SplitAt(node) \in 1 .. Len(node.kvs) - 1
       /\ \A i \in 1 .. 2 : Fits(node_split(node)[i])

-----------------------------------------------------------------------------
(* New nodes *)

leaf_insert(node, idx, entry) == Leaf(InsertAt(node.kvs, idx, entry))
leaf_update(node, idx, entry) == Leaf(ReplaceAt(node.kvs, idx, entry))
leaf_delete(node, idx) == Leaf(RemoveAt(node.kvs, idx))

\* tree_insert on a leaf.
leaf_set(node, key, val) ==
    LET idx == node_lookup_le(node, key)
        entry == Entry(key, val, Nil)
    IN  IF HasKeyAt(node, idx, key) THEN leaf_update(node, idx, entry) ELSE leaf_insert(node, idx + 1, entry)

node_merge(left, right) == Node(left.leaf, left.kvs \o right.kvs)

\* Faulty: the first link keeps its old key.
replace_links_old_key(node, idx, n, children) ==
    Inner(SubSeq(node.kvs, 1, idx - 1)
            \o [i \in DOMAIN children |->
                    Entry(IF i = 1 THEN node.kvs[idx].key ELSE children[i].kvs[1].key, 0, children[i])]
            \o SubSeq(node.kvs, idx + n, Len(node.kvs)))

\* Links to children instead of the n links from idx on.
replace_links(node, idx, n, children) ==
    Inner(SubSeq(node.kvs, 1, idx - 1)
            \o [i \in DOMAIN children |-> Link(children[i])]
            \o SubSeq(node.kvs, idx + n, Len(node.kvs)))

node_replace_child_n(node, idx, children) == replace_links(node, idx, 1, children)
node_replace_2_child(node, idx, child) == replace_links(node, idx, 2, <<child>>)
=============================================================================
