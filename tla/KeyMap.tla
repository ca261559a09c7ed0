------------------------------- MODULE KeyMap -------------------------------
(***************************************************************************)
(* What the B+tree promises: a map from keys to values, in which insert    *)
(* sets one key and remove deletes one key and says whether it was there.  *)
(***************************************************************************)
EXTENDS Functions

CONSTANTS Keys, Vals

VARIABLES
    map,    \* the keys that are set, with their values
    found   \* what the last remove returned

vars == <<map, found>>

Init == map = <<>> /\ found = FALSE

Insert(k, v) ==
    /\ map' = [j \in DOMAIN map \cup {k} |-> IF j = k THEN v ELSE map[j]]
    /\ UNCHANGED found

Remove(k) ==
    /\ found' = (k \in DOMAIN map)
    /\ map' = Restrict(map, DOMAIN map \ {k})

Next == \E k \in Keys : Remove(k) \/ \E v \in Vals : Insert(k, v)

Spec == Init /\ [][Next]_vars
=============================================================================
