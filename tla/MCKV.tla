-------------------------------- MODULE MCKV --------------------------------
(* Small instances of KV, with its inductive invariant at hand. *)
EXTENDS KVInv
=============================================================================
