---------------------------- MODULE MCBTreeIter -----------------------------
(* Small instances of BTreeIter. *)
EXTENDS BTreeIter

\* All keys have the same size.
EvenKeys == [k \in Keys |-> 2]
=============================================================================
