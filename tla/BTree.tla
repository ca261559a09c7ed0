------------------------------- MODULE BTree --------------------------------
(***************************************************************************)
(* The copy-on-write B+tree of src/storage/btree.cpp: lookup, insert with  *)
(* splits, remove with merges, and the pages each operation takes and      *)
(* gives back. BTreeNode.tla has the nodes.                                *)
(***************************************************************************)
EXTENDS BTreeNode

VARIABLES
    root,       \* the root node, or Nil
    removed,    \* what the last remove returned
    ok,         \* no assertion of the code has failed
    map,        \* the abstract map, which takes every step with the tree
    found       \* what the abstract map's last Remove returned

vars == <<root, removed, ok, map, found>>

Map == INSTANCE KeyMap

-----------------------------------------------------------------------------
(* An operation returns the node it built, the pages it took (new_page) and  *)
(* gave back (del), and whether its assertions held. The node is Nil when a  *)
(* key to remove was not found.                                              *)

Result(node, news, dels, good) == [node |-> node, news |-> news, dels |-> dels, ok |-> good]

NotFound == Result(Nil, {}, {}, TRUE)

\* tree_insert, tree_delete and get visit the nodes on the way to key, down to a
\* leaf, or to an inner node without a place for the key.
Visited(tree, key, i) ==
    LET node[j \in 0 .. i] ==
            IF j = 0 THEN tree ELSE node[j - 1].kvs[node_lookup_le(node[j - 1], key)].child
    IN  node[i]

Ends(node, key) == node.leaf \/ node_lookup_le(node, key) = 0

\* The number of links to the last node visited.
Depth(tree, key) ==
    LET down[i \in Nat] == IF Ends(Visited(tree, key, i), key) THEN i ELSE down[i + 1]
    IN  down[0]

\* node_insert: node with its child replaced by updated, split if needed.
node_insert(node, key, updated) ==
    LET idx == node_lookup_le(node, key)
        split == node_split_if_needed(updated.node)
        new_node == node_replace_child_n(node, idx, split)
    IN  Result(new_node, updated.news \cup ToSet(split), updated.dels \cup {node.kvs[idx].child},
               updated.ok /\ SplitOk(updated.node) /\ Bytes(new_node) <= 2 * PageSize)

\* The results of the calls for the nodes visited, from the last one up.
tree_insert(tree, key, val) ==
    LET d == Depth(tree, key)
        last == Visited(tree, key, d)
        leaf == leaf_set(last, key, val)
        new_leaf == Result(leaf, {}, {}, last.leaf /\ Bytes(leaf) <= 2 * PageSize)
        result[i \in 0 .. d] ==
            IF i = 0 THEN new_leaf ELSE node_insert(Visited(tree, key, d - i), key, result[i - 1])
    IN  result[d]

\* The root that takes the place of tree: updated, or a level above its halves.
insert_root(tree, updated) ==
    LET split == node_split_if_needed(updated.node)
        new_root == IF Len(split) > 1
                    THEN Inner([i \in DOMAIN split |-> Link(split[i])]) ELSE split[1]
    IN  Result(new_root, updated.news \cup ToSet(split) \cup {new_root}, updated.dels \cup {tree},
               updated.ok /\ SplitOk(updated.node) /\ Fits(new_root))

\* BTree::insert
insert(tree, key, val) ==
    LET first == Leaf(<<Entry(0, 0, Nil), Entry(key, val, Nil)>>)
    IN  IF tree = Nil THEN Result(first, {first}, {}, Fits(first))
        ELSE insert_root(tree, tree_insert(tree, key, val))

\* Faulty: a sibling with no room is merged with.
should_merge_no_room(node, idx, updated) ==
    IF Bytes(updated) > PageSize \div 4 THEN 0
    ELSE IF idx > 1 THEN idx - 1
    ELSE IF idx < Len(node.kvs) THEN idx + 1
    ELSE 0

\* should_merge: the neighbour to merge with, left before right, or 0.
should_merge(node, idx, updated) ==
    LET room(i) == Bytes(node.kvs[i].child) + Bytes(updated) - Header <= PageSize
    IN  IF Bytes(updated) > PageSize \div 4 THEN 0
        ELSE IF idx > 1 /\ room(idx - 1) THEN idx - 1
        ELSE IF idx < Len(node.kvs) /\ room(idx + 1) THEN idx + 1
        ELSE 0

\* node_delete: node with the child that key belongs to replaced by updated.
node_delete(node, key, updated) ==
    LET idx == node_lookup_le(node, key)
        child == node.kvs[idx].child
        with == should_merge(node, idx, updated.node)
        sibling == node.kvs[with].child
        merged == IF with < idx THEN node_merge(sibling, updated.node)
                  ELSE node_merge(updated.node, sibling)
        gone == updated.dels \cup {child}
        one_page(new_node) == updated.ok /\ Fits(new_node)
    IN  IF updated = NotFound THEN NotFound
        ELSE IF with # 0
        THEN LET new_node == node_replace_2_child(node, IF with < idx THEN with ELSE idx, merged)
             IN  Result(new_node, updated.news \cup {merged}, gone \cup {sibling},
                        one_page(new_node) /\ Fits(merged))
        ELSE IF updated.node.kvs = <<>>
        THEN Result(Inner(<<>>), updated.news, gone, updated.ok /\ Len(node.kvs) = 1)
        ELSE LET new_node == node_replace_child_n(node, idx, <<updated.node>>)
             IN  Result(new_node, updated.news \cup {updated.node}, gone, one_page(new_node))

tree_delete(tree, key) ==
    LET d == Depth(tree, key)
        last == Visited(tree, key, d)
        idx == node_lookup_le(last, key)
        new_leaf == IF HasKeyAt(last, idx, key) THEN Result(leaf_delete(last, idx), {}, {}, last.leaf)
                    ELSE NotFound
        result[i \in 0 .. d] ==
            IF i = 0 THEN new_leaf ELSE node_delete(Visited(tree, key, d - i), key, result[i - 1])
    IN  result[d]

\* Faulty: the old root is not given back when a level is dropped.
remove_root_leaks(tree, updated) ==
    IF ~updated.node.leaf /\ Len(updated.node.kvs) = 1
    THEN Result(updated.node.kvs[1].child, updated.news, updated.dels, updated.ok)
    ELSE Result(updated.node, updated.news \cup {updated.node}, updated.dels \cup {tree}, updated.ok)

\* The root that takes the place of tree: updated, or its only child.
remove_root(tree, updated) ==
    LET one_child == ~updated.node.leaf /\ Len(updated.node.kvs) = 1
        new_root == IF one_child THEN updated.node.kvs[1].child ELSE updated.node
    IN  Result(new_root, IF one_child THEN updated.news ELSE updated.news \cup {new_root},
               updated.dels \cup {tree}, updated.ok)

\* BTree::remove
remove(tree, key) ==
    LET updated == tree_delete(tree, key)
    IN  IF tree = Nil \/ updated = NotFound THEN NotFound ELSE remove_root(tree, updated)

\* Faulty: takes a link with the key for the key's entry.
get_from_link(tree, key) ==
    LET found_at == {i \in 0 .. Depth(tree, key) :
                        LET node == Visited(tree, key, i) IN HasKeyAt(node, node_lookup_le(node, key), key)}
        node == Visited(tree, key, Min(found_at))
    IN  IF tree = Nil \/ found_at = {} THEN {} ELSE {node.kvs[node_lookup_le(node, key)].val}

\* BTree::get: the value found, as a set of at most one.
get(tree, key) ==
    LET last == Visited(tree, key, Depth(tree, key))
        idx == node_lookup_le(last, key)
    IN  IF tree # Nil /\ HasKeyAt(last, idx, key) THEN {last.kvs[idx].val} ELSE {}

-----------------------------------------------------------------------------
Init == root = Nil /\ removed = FALSE /\ ok = TRUE /\ Map!Init

\* KVTX::set
set(key, val) ==
    /\ ok
    /\ LET r == insert(root, key, val)
       IN  root' = r.node /\ ok' = r.ok
    /\ UNCHANGED removed
    /\ Map!Insert(key, val)

\* KVTX::del
del(key) ==
    /\ ok
    /\ LET r == remove(root, key)
       IN  IF r = NotFound THEN removed' = FALSE /\ UNCHANGED <<root, ok>>
           ELSE removed' = TRUE /\ root' = r.node /\ ok' = r.ok
    /\ Map!Remove(key)

Next == \E k \in Keys : del(k) \/ \E v \in Vals : set(k, v)

Spec == Init /\ [][Next]_vars

-----------------------------------------------------------------------------
(* Properties *)

\* The nodes that are i links below tree.
Nodes(tree, i) ==
    LET level[j \in 0 .. i] ==
            IF j = 0 THEN {tree} ELSE UNION {{e.child : e \in ToSet(n.kvs)} : n \in level[j - 1]}
    IN  level[i]

\* The sentinel is the first key of every tree.
Height(tree) == Depth(tree, 0)

Reach(tree) == IF tree = Nil THEN {} ELSE UNION {Nodes(tree, i) : i \in 0 .. Height(tree)}

\* The entries of the leaves, h links below tree.
Held(tree, h) == UNION {ToSet(n.kvs) : n \in Nodes(tree, h)}

\* The tree holds the map that the calls made, and a remove says whether its key
\* was there, whatever splits and merges the calls caused.
HoldsMap ==
    ok => /\ removed = found
          /\ {Entry(k, map[k], Nil) : k \in DOMAIN map} =
                {e \in IF root = Nil THEN {} ELSE Held(root, Height(root)) : e.key # 0}

\* No assertion of btree.cpp fails: node_append_kv never writes past its
\* buffer, node_split never needs a third node, an only child alone may empty
\* its parent.
NoAssertFails == ok

\* The keys of range that lookup finds below the link at i.
Below(node, i, range) ==
    {k \in range : node.kvs[i].key <= k /\ (i < Len(node.kvs) => k < node.kvs[i + 1].key)}

\* The nodes i links below tree, each with the keys that belong into it.
Ranges(tree, range, i) ==
    LET level[j \in 0 .. i] ==
            IF j = 0 THEN {<<tree, range>>}
            ELSE UNION {{<<t[1].kvs[k].child, Below(t[1], k, t[2])>> : k \in DOMAIN t[1].kvs} : t \in level[j - 1]}
    IN  level[i]

\* A node that fits its page and is in order. Its first key is the least that
\* belongs into it, and so the key of the link to it.
Proper(node, range, leaf) ==
    /\ node \in NodeOf({e.child : e \in ToSet(node.kvs)}) /\ node.leaf = leaf
    /\ node.kvs # <<>> /\ Fits(node)
    /\ Ascending(node.kvs)
    /\ \A i \in DOMAIN node.kvs : node.kvs[i].key \in range
    /\ \A k \in range : node.kvs[1].key <= k

\* A tree of h levels above its leaves.
IsTree(tree, range, h) ==
    \A i \in 0 .. h : \A t \in Ranges(tree, range, i) : Proper(t[1], t[2], i = h)

\* All leaves are equally deep, and every node is in order, fits a page, and has
\* only keys that lookup finds there, the first of which is its link's.
WellFormed == ok /\ root # Nil => IsTree(root, Keys \cup {0}, Height(root))

\* BTree::get returns the value last set, wherever the key has moved to.
GetFinds == ok => \A k \in Keys : get(root, k) = {map[j] : j \in DOMAIN map \cap {k}}

\* What KV.tla assumes of the tree: an operation gives back exactly the pages
\* it replaces, each of which it did not take itself, and moves the root to a
\* page it took.
PagesReplaced ==
    ok => \A k \in Keys :
        LET old == Reach(root)
            Good(r) ==
                r.ok =>
                    /\ Reach(r.node) = (old \ r.dels) \cup r.news
                    /\ r.dels \subseteq old
                    /\ r.node \in r.news
                    /\ root \in r.dels \cup {Nil}
            gone == remove(root, k)
        IN  /\ \A v \in Vals : Good(insert(root, k, v))
            /\ gone # NotFound => Good(gone)
=============================================================================
