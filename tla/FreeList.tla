------------------------------ MODULE FreeList ------------------------------
(***************************************************************************)
(* The unrolled list of src/storage/freelist.cpp in the pages of the file: *)
(* nodes with a next pointer and CAP slots, updated in place, found from   *)
(* the FreeListState of a meta page.                                       *)
(*                                                                         *)
(* An update that fails, or that a crash interrupts, may have written its  *)
(* pages. What a meta page points at must be intact whatever was written:  *)
(* the list implements FreeQueueSpec, where a dropped update leaves        *)
(* nothing behind; LiveWordsKept covers pages written in part.             *)
(***************************************************************************)
EXTENDS Integers, Sequences, FiniteSets

CONSTANTS
    CAP,                    \* FREE_LIST_CAP, items per list node (255 in the code)
    MaxVersion, MaxPage     \* bounds: commits, and pages of the file

ASSUME CapAssumption == CAP \in Nat /\ CAP >= 2

\* An empty store has two pages: the meta page and the list's first node.
ASSUME BoundsAssumption == MaxVersion \in Nat /\ MaxPage \in Nat /\ MaxPage >= 2

VARIABLES
    latest,     \* KV: version_, free_, flushed_; and the pages in use
    metas,      \* the versions the meta page may hold after a crash
    run,        \* the running update: its FreeList, page_append_ and page_updates_
    file        \* the pages of the file

vars == <<latest, metas, run, file>>

Pages == 1 .. MaxPage

\* A page as a list node (LNodeT): its items, [ptr, ver], and its next pointer
\* are words that a write that does not finish may leave old or new.
NextWord == CAP
Words == 0 .. CAP
Node(next, item) == [w \in Words |-> IF w = NextWord THEN next ELSE item]

ZeroPage == Node(0, [ptr |-> 0, ver |-> 0])

\* A page of the tree: bytes that would pass for a link and reusable items.
TreePage == Node(1, [ptr |-> 1, ver |-> 0])

\* FreeListState
EmptyState == [head_page |-> 1, head_seq |-> 0, tail_page |-> 1, tail_seq |-> 0]

seq_to_idx(seq) == seq % CAP

-----------------------------------------------------------------------------
(* The operations: u is an update, [state, top, pages, updates, version,     *)
(* min_reader], with pages as it sees them through page_updates_.            *)

\* KVTX::page_use and a store into the buffered page.
store(u, p, word, val) ==
    [u EXCEPT !.pages[p][word] = val, !.updates = u.updates \cup {p}]

\* Faulty: the slot is cleared once its item is taken.
pop_clears_slot(u) ==
    LET s == u.state
        node == u.pages[s.head_page]
        idx == seq_to_idx(s.head_seq)
        last == seq_to_idx(s.head_seq + 1) = 0
    IN  IF s.head_seq = s.tail_seq \/ ~(node[idx].ver < u.min_reader)
        THEN [ptr |-> 0, drained_head |-> 0, u |-> u]
        ELSE [ptr |-> node[idx].ptr,
              drained_head |-> IF last THEN s.head_page ELSE 0,
              u |-> [store(u, s.head_page, idx, [ptr |-> 0, ver |-> 0])
                        EXCEPT !.state.head_seq = s.head_seq + 1,
                               !.state.head_page = IF last THEN node[NextWord] ELSE s.head_page]]

\* FreeList::pop
pop(u) ==
    LET s == u.state
        node == u.pages[s.head_page]
        item == node[seq_to_idx(s.head_seq)]
        last == seq_to_idx(s.head_seq + 1) = 0
    IN  IF s.head_seq = s.tail_seq \/ ~(item.ver < u.min_reader)
        THEN [ptr |-> 0, drained_head |-> 0, u |-> u]
        ELSE [ptr |-> item.ptr,
              drained_head |-> IF last THEN s.head_page ELSE 0,
              u |-> [u EXCEPT !.state.head_seq = s.head_seq + 1,
                              !.state.head_page = IF last THEN node[NextWord] ELSE s.head_page]]

\* FreeList::append_item
append_item(u, ptr) ==
    LET s == u.state
        item == [ptr |-> ptr, ver |-> u.version]
    IN  [store(u, s.tail_page, seq_to_idx(s.tail_seq), item)
            EXCEPT !.state.tail_seq = s.tail_seq + 1]

\* KVTX::page_append
page_append(u) ==
    [u EXCEPT !.pages[u.top] = ZeroPage, !.updates = u.updates \cup {u.top}, !.top = u.top + 1]

\* Faulty: the full tail node keeps its stale next pointer.
link_tail_stale_next(u) ==
    LET popped == pop(u)
        next == IF popped.ptr # 0 THEN popped.ptr ELSE u.top
        got == IF popped.ptr # 0 THEN popped.u ELSE page_append(u)
        linked == [got EXCEPT !.state.tail_page = next]
    IN  IF popped.drained_head # 0 THEN append_item(linked, popped.drained_head) ELSE linked

\* FreeList::push_tail once the tail node is full.
link_tail(u) ==
    LET popped == pop(u)
        next == IF popped.ptr # 0 THEN popped.ptr ELSE u.top
        got == IF popped.ptr # 0 THEN popped.u ELSE page_append(u)
        linked == [store(got, got.state.tail_page, NextWord, next) EXCEPT !.state.tail_page = next]
    IN  IF popped.drained_head # 0 THEN append_item(linked, popped.drained_head) ELSE linked

\* FreeList::push_tail
push_tail(u, ptr) ==
    LET appended == append_item(u, ptr)
    IN  IF seq_to_idx(appended.state.tail_seq) # 0 THEN appended ELSE link_tail(appended)

\* FreeList::pop_head
pop_head(u) ==
    LET popped == pop(u)
    IN  [ptr |-> popped.ptr,
         u |-> IF popped.drained_head # 0 THEN push_tail(popped.u, popped.drained_head)
               ELSE popped.u]

\* KVTX::page_new, which writes the tree's node over the whole page.
page_new(u) ==
    LET got == pop_head(u)
        ptr == IF got.ptr # 0 THEN got.ptr ELSE u.top
    IN  [ptr |-> ptr,
         u |-> [got.u EXCEPT !.pages[ptr] = TreePage, !.updates = got.u.updates \cup {ptr},
                             !.top = IF got.ptr # 0 THEN got.u.top ELSE u.top + 1]]

-----------------------------------------------------------------------------
(* The behaviours *)

NoRun ==
    [on |-> FALSE, used |-> {}, state |-> EmptyState, top |-> 2, updates |-> {},
     pages |-> [p \in Pages |-> ZeroPage], version |-> 0, min_reader |-> 0]

Init ==
    /\ latest = [version |-> 0, state |-> EmptyState, top |-> 2, used |-> {}]
    /\ metas = {latest}
    /\ run = NoRun
    /\ file = [p \in Pages |-> ZeroPage]

\* KV::begin. min_reader is at most every version the file may hold.
begin ==
    /\ ~run.on
    /\ latest.version < MaxVersion
    /\ \E min_reader \in 0 .. latest.version :
          /\ \A m \in metas : min_reader <= m.version
          /\ run' = [on |-> TRUE, used |-> latest.used, state |-> latest.state,
                     top |-> latest.top, updates |-> {}, pages |-> file,
                     version |-> latest.version, min_reader |-> min_reader]
    /\ UNCHANGED <<latest, metas, file>>

\* KVTX::page_new
PageNew ==
    /\ run.on
    /\ LET got == page_new(run)
       IN  /\ got.u.top <= MaxPage
           /\ run' = [got.u EXCEPT !.used = run.used \cup {got.ptr}]
    /\ UNCHANGED <<latest, metas, file>>

\* KVTX::page_del, of any page in use: from its second call on, a transaction frees
\* pages that it took itself (btree.cpp:356, 433, 501).
PageDel(p) ==
    /\ run.on
    /\ p \in run.used
    /\ run' = [push_tail(run, p) EXCEPT !.used = run.used \ {p}]
    /\ run'.top <= MaxPage
    /\ UNCHANGED <<latest, metas, file>>

\* KV::commit: the pages are on disk before the new state is published; its
\* meta page is durable if phase 2 succeeds, and may be on disk otherwise.
commit ==
    /\ run.on
    /\ file' = run.pages
    /\ latest' = [version |-> latest.version + 1, state |-> run.state, top |-> run.top,
                  used |-> run.used]
    /\ metas' \in {{latest'}, metas \cup {latest'}}
    /\ run' = NoRun

\* Phase 1 fails or a crash interrupts it, after all the pages were written or
\* before any was, or the update is aborted: the next one starts from free_
\* again (FreeList::revert), on what the file holds now.
drop ==
    /\ run.on
    /\ file' \in {file, run.pages}
    /\ run' = NoRun
    /\ UNCHANGED <<latest, metas>>

\* The machine stops, between updates or after a drop, and the file is opened
\* again at a version that its meta page may hold.
crash ==
    /\ ~run.on
    /\ latest' \in metas
    /\ metas' = {latest'}
    /\ UNCHANGED <<run, file>>

Next == begin \/ PageNew \/ (\E p \in run.used : PageDel(p)) \/ commit \/ drop \/ crash

Spec == Init /\ [][Next]_vars

-----------------------------------------------------------------------------
(* Refinement *)

\* The items and the nodes that state reaches in pages.
Walk(state, pages) ==
    LET first == state.head_seq - seq_to_idx(state.head_seq)
        count == (state.tail_seq - first) \div CAP + 1
        page[i \in 1 .. count] == IF i = 1 THEN state.head_page ELSE pages[page[i - 1]][NextWord]
    IN  [nodes |-> [i \in 1 .. count |-> page[i]],
         items |-> [i \in 1 .. state.tail_seq - state.head_seq |->
                       LET seq == state.head_seq + i - 1
                       IN  pages[page[(seq - first) \div CAP + 1]][seq_to_idx(seq)]]]

\* The words of the list: the next pointers between its nodes and its items.
LiveWords(state, pages) ==
    LET nodes == Walk(state, pages).nodes
        first == state.head_seq - seq_to_idx(state.head_seq)
    IN  {<<nodes[i], NextWord>> : i \in 1 .. Len(nodes) - 1}
          \cup {<<nodes[(seq - first) \div CAP + 1], seq_to_idx(seq)>> :
                   seq \in state.head_seq .. state.tail_seq - 1}

SpaceOf(c, pages, updates) ==
    [items |-> Walk(c.state, pages).items, nodes |-> Walk(c.state, pages).nodes,
     head |-> seq_to_idx(c.state.head_seq), tail |-> seq_to_idx(c.state.tail_seq),
     top |-> c.top, updates |-> updates]

Version(c) ==
    [version |-> c.version, used |-> c.used, space |-> SpaceOf(c, file, {})]

Queue == INSTANCE FreeQueueSpec WITH
    latest <- Version(latest),
    metas <- {Version(m) : m \in metas},
    run <- [on |-> run.on, min_reader |-> run.min_reader, used |-> run.used,
            space |-> SpaceOf(run, run.pages, run.updates)]

\* The pages, with whatever failed updates left in them, hold exactly the queue
\* that the committed operations make, for the running update and for every
\* version a crash may bring back.
ImplementsQueue == Queue!Spec

\* "An update only writes the `next` pointer of a full node or a slot past the
\* last live item, never data the committed meta page points at" (freelist.h):
\* so any mixture of old and new words, in any order, leaves these lists as
\* they are.
LiveWordsKept ==
    run.on =>
        \A m \in metas \cup {latest} : \A x \in LiveWords(m.state, file) :
            run.pages[x[1]][x[2]] = file[x[1]][x[2]]
=============================================================================
