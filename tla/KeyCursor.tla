----------------------------- MODULE KeyCursor ------------------------------
(***************************************************************************)
(* What a BTree iterator promises (btree_iter.h): a position in the keys   *)
(* in order. Position i is the i-th key; 0 is before the first key and one *)
(* more than the number of keys is after the last.                         *)
(***************************************************************************)
EXTENDS Integers, FiniteSets

VARIABLES
    keys,   \* the keys that are set
    at      \* the position, or -1 when there is no iterator

Init == at = -1

Count(P(_)) == Cardinality({k \in keys : P(k)})

\* The position of the key closest to key that is in relation cmp to it. With
\* no key at all there is one position.
Closest(key, cmp) ==
    IF keys = {} THEN 0
    ELSE CASE cmp = "GE" -> Count(LAMBDA k : k < key) + 1
           [] cmp = "GT" -> Count(LAMBDA k : k <= key) + 1
           [] cmp = "LE" -> Count(LAMBDA k : k <= key)
           [] cmp = "LT" -> Count(LAMBDA k : k < key)

Seek(key, cmp) == at' = Closest(key, cmp)

Forward == at' = IF keys = {} \/ at > Cardinality(keys) THEN at ELSE at + 1

Backward == at' = IF at = 0 THEN 0 ELSE at - 1
=============================================================================
