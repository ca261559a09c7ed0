------------------------------ MODULE MCBTree -------------------------------
(* Small instances of BTree. *)
EXTENDS BTree

\* All keys have the same size.
EvenKeys == [k \in Keys |-> 2]

\* Every other key is longer.
UnevenKeys == [k \in Keys |-> IF k % 2 = 0 THEN 3 ELSE 1]
=============================================================================
