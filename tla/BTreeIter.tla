----------------------------- MODULE BTreeIter ------------------------------
(***************************************************************************)
(* The iterator of src/storage/btree_iter.cpp over the trees of BTree:     *)
(* seek, next and prev on a path from the root to a leaf, whose position   *)
(* may be the sentinel (before the first key) or one past the last entry   *)
(* (after the last key). Positions start at 1.                             *)
(***************************************************************************)
EXTENDS BTree

VARIABLES
    iter,   \* the iterator, [path, pos], or NoIter
    at      \* the abstract position, which takes every step with the iterator

iterVars == <<vars, iter, at>>

Cursor == INSTANCE KeyCursor WITH keys <- DOMAIN map

NoIter == [path |-> <<Nil>>, pos |-> <<0>>]

\* BIter's initial value, which is what an empty tree gets.
EmptyIter == [path |-> <<>>, pos |-> <<>>]

CMP == {"GE", "GT", "LE", "LT"}

cmp_ok(key, cmp, ref) ==
    CASE cmp = "GE" -> key >= ref
      [] cmp = "GT" -> key > ref
      [] cmp = "LE" -> key <= ref
      [] cmp = "LT" -> key < ref

Bottom(it) == Len(it.path)

\* Faulty: going back, too, starts at the first key of the subtree.
reload_kid_first(it, level, at_last) ==
    LET kid == it.path[level].kvs[it.pos[level]].child
    IN  IF level = Bottom(it) THEN it
        ELSE [it EXCEPT !.path[level + 1] = kid, !.pos[level + 1] = 1]

\* The node below level, at its first or last key.
reload_kid(it, level, at_last) ==
    LET kid == it.path[level].kvs[it.pos[level]].child
    IN  IF level = Bottom(it) THEN it
        ELSE [it EXCEPT !.path[level + 1] = kid,
                        !.pos[level + 1] = IF at_last THEN Len(kid.kvs) ELSE 1]

\* iter_prev and iter_next give NoIter where the code returns false.
RECURSIVE iter_prev(_, _)
iter_prev(it, level) ==
    LET above == iter_prev(it, level - 1)
    IN  IF it.pos[level] > 1
        THEN reload_kid([it EXCEPT !.pos[level] = it.pos[level] - 1], level, TRUE)
        ELSE IF level = 1 \/ above = NoIter THEN NoIter
        ELSE reload_kid(above, level, TRUE)

RECURSIVE iter_next(_, _)
iter_next(it, level) ==
    LET above == iter_next(it, level - 1)
    IN  IF it.pos[level] < Len(it.path[level].kvs)
        THEN reload_kid([it EXCEPT !.pos[level] = it.pos[level] + 1], level, FALSE)
        ELSE IF level = 1 \/ above = NoIter THEN NoIter
        ELSE reload_kid(above, level, FALSE)

\* On a leaf entry: not an empty tree's iterator, not past the last entry.
OnEntry(it) == it.path # <<>> /\ Last(it.pos) <= Len(Last(it.path).kvs)

deref(it) == Last(it.path).kvs[Last(it.pos)]

valid(it) == OnEntry(it) /\ deref(it).key # 0

prev(it) ==
    LET back == iter_prev(it, Bottom(it))
    IN  IF it.path = <<>> \/ back = NoIter THEN it ELSE back

next(it) ==
    LET forth == iter_next(it, Bottom(it))
    IN  IF it.path = <<>> THEN it
        ELSE IF forth = NoIter THEN [it EXCEPT !.pos[Bottom(it)] = Len(Last(it.path).kvs) + 1]
        ELSE forth

\* BTree::seek_le: the path that node_lookup_le takes.
RECURSIVE seek_le(_, _)
seek_le(node, key) ==
    LET idx == node_lookup_le(node, key)
        below == IF node.leaf THEN EmptyIter ELSE seek_le(node.kvs[idx].child, key)
    IN  IF node = Nil THEN EmptyIter
        ELSE [path |-> <<node>> \o below.path, pos |-> <<idx>> \o below.pos]

\* BTree::seek
seek(key, cmp) ==
    LET it == seek_le(root, key)
        good == valid(it) /\ cmp_ok(deref(it).key, cmp, key)
    IN  IF ~good /\ cmp \in {"GE", "GT"} THEN next(it)
        ELSE IF ~good /\ valid(it) THEN prev(it)
        ELSE it

-----------------------------------------------------------------------------
IterInit == Init /\ iter = NoIter /\ Cursor!Init

\* An iterator is not used across an update.
Update == iter = NoIter /\ Next /\ UNCHANGED <<iter, at>>

Seek(key, cmp) == iter' = seek(key, cmp) /\ Cursor!Seek(key, cmp) /\ UNCHANGED vars

StepNext == iter # NoIter /\ iter' = next(iter) /\ Cursor!Forward /\ UNCHANGED vars

StepPrev == iter # NoIter /\ iter' = prev(iter) /\ Cursor!Backward /\ UNCHANGED vars

IterNext == Update \/ StepNext \/ StepPrev \/ \E key \in Keys : \E cmp \in CMP : Seek(key, cmp)

IterSpec == IterInit /\ [][IterNext]_iterVars

-----------------------------------------------------------------------------
\* Across the node boundaries of every tree that updates can build, seek finds
\* the closest key, next and prev move by one key, and stop at, and come back
\* from, the two ends (btree_iter.h).
FollowsKeys ==
    LET keys == DOMAIN map
        here == {k \in keys : k <= deref(iter).key}
    IN  iter # NoIter =>
            /\ valid(iter) <=> at \in 1 .. Cardinality(keys)
            /\ valid(iter) => deref(iter).key \in keys /\ Cardinality(here) = at
=============================================================================
