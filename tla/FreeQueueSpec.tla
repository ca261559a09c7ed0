---------------------------- MODULE FreeQueueSpec ----------------------------
(***************************************************************************)
(* What the store relies on of its free list across updates: an update     *)
(* starts from the latest committed list, takes and frees pages with the   *)
(* operators of FreeQueue, and is committed or dropped as a whole; a crash *)
(* brings back, unchanged, one of the lists the meta page may hold.        *)
(*                                                                         *)
(* It is KV.tla reduced to the free list. FreeList.tla implements it with  *)
(* pages that are updated in place.                                        *)
(***************************************************************************)
EXTENDS FreeQueue

CONSTANTS MaxVersion, MaxPage   \* bounds: commits, and pages of the file

VARIABLES
    latest,     \* the committed list: [version, space, used]
    metas,      \* the committed lists a crash may bring back
    run         \* the running update: [on, min_reader, space, used]

\* used: the pages that are in use, neither free nor nodes of the list.
vars == <<latest, metas, run>>

Empty == [items |-> <<>>, nodes |-> <<1>>, head |-> 0, tail |-> 0, top |-> 2, updates |-> {}]

NoRun == [on |-> FALSE, min_reader |-> 0, space |-> Empty, used |-> {}]

Init ==
    /\ latest = [version |-> 0, space |-> Empty, used |-> {}]
    /\ metas = {latest}
    /\ run = NoRun

\* min_reader: at most the oldest version a crash may bring back.
Begin ==
    /\ ~run.on
    /\ latest.version < MaxVersion
    /\ \E min_reader \in 0 .. latest.version :
          /\ \A m \in metas : min_reader <= m.version
          /\ run' = [on |-> TRUE, min_reader |-> min_reader, space |-> latest.space,
                     used |-> latest.used]
    /\ UNCHANGED <<latest, metas>>

PageNew ==
    /\ run.on
    /\ LET got == page_new(run.space, latest.version, run.min_reader)
       IN  /\ got.space.top <= MaxPage
           /\ run' = [run EXCEPT !.space = got.space, !.used = run.used \cup {got.ptr}]
    /\ UNCHANGED <<latest, metas>>

\* Of any page in use, one that the update took itself included: this allows all
\* that TreeDel of KV.tla does.
PageDel(p) ==
    /\ run.on
    /\ p \in run.used
    /\ LET space == push_tail(run.space, p, latest.version, run.min_reader)
       IN  /\ space.top <= MaxPage
           /\ run' = [run EXCEPT !.space = space, !.used = run.used \ {p}]
    /\ UNCHANGED <<latest, metas>>

\* The update is committed, and the new meta page is known to be durable or not.
Commit ==
    /\ run.on
    /\ latest' = [version |-> latest.version + 1, used |-> run.used,
                  space |-> [run.space EXCEPT !.updates = {}]]
    /\ metas' \in {{latest'}, metas \cup {latest'}}
    /\ run' = NoRun

\* The update is dropped.
Drop ==
    /\ run.on
    /\ run' = NoRun
    /\ UNCHANGED <<latest, metas>>

Crash ==
    /\ ~run.on
    /\ latest' \in metas
    /\ metas' = {latest'}
    /\ UNCHANGED run

Next == Begin \/ PageNew \/ (\E p \in run.used : PageDel(p)) \/ Commit \/ Drop \/ Crash

Spec == Init /\ [][Next]_vars
=============================================================================
