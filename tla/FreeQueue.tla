------------------------------ MODULE FreeQueue ------------------------------
(***************************************************************************)
(* The free list of src/storage/freelist.cpp as its clients see it: a FIFO *)
(* queue of freed pages, each with the version that freed it, that keeps   *)
(* its items in pages of the same file and recycles those pages itself.    *)
(*                                                                         *)
(* FreeList.tla models the list node by node and shows that it implements  *)
(* these operators; KV.tla builds the store on them.                       *)
(*                                                                         *)
(* A space is what one write transaction sees of the file's page space:    *)
(*   items    the free pages, oldest first, each [ptr, ver]                *)
(*   nodes    the pages holding the list, from head_page to tail_page      *)
(*   head     slot of the first item in its node (head_seq % CAP)          *)
(*   tail     slot the next item goes to (tail_seq % CAP)                  *)
(*   top      the next page number to append (flushed_ + page_append_)     *)
(*   updates  the pages with a buffered write (keys of page_updates_)      *)
(***************************************************************************)
EXTENDS Integers, FiniteSets, SequencesExt

CONSTANT CAP    \* FREE_LIST_CAP, items per list node (255 in the code)

\* One slot per node is not enough: push_tail may append a second item, the
\* drained head, to the node it has just linked.
ASSUME CapAssumption == CAP \in Nat /\ CAP >= 2

Page == Nat \ {0}   \* page 0 is the meta page

Item == [ptr : Page, ver : Nat]

Space ==
    [items : Seq(Item), nodes : Seq(Page), head : 0 .. CAP - 1, tail : 0 .. CAP - 1,
     top : Nat, updates : SUBSET Page]

PtrSet(items) == {x.ptr : x \in ToSet(items)}

ItemSet(v) == ToSet(v.items)
Ptrs(v) == PtrSet(v.items)
Nodes(v) == ToSet(v.nodes)

\* Faulty: off by one at the end of a node.
NextSlot_past_end(idx) == IF idx = CAP THEN 0 ELSE idx + 1

NextSlot(idx) == IF idx + 1 = CAP THEN 0 ELSE idx + 1

\* Faulty: pop does not look at the item's version.
pop_any_version(v, min_reader) ==
    IF v.items = <<>>
    THEN [ptr |-> 0, drained_head |-> 0, space |-> v]
    ELSE [ptr |-> Head(v.items).ptr,
          drained_head |-> IF NextSlot(v.head) = 0 THEN Head(v.nodes) ELSE 0,
          space |-> [v EXCEPT
              !.items = Tail(v.items),
              !.head = NextSlot(v.head),
              !.nodes = IF NextSlot(v.head) = 0 THEN Tail(v.nodes) ELSE v.nodes]]

\* FreeList::pop. Nothing when the list is empty or its oldest item is still
\* visible; the head node is drained when its last slot is taken.
pop(v, min_reader) ==
    IF v.items = <<>> \/ ~(Head(v.items).ver < min_reader)
    THEN [ptr |-> 0, drained_head |-> 0, space |-> v]
    ELSE [ptr |-> Head(v.items).ptr,
          drained_head |-> IF NextSlot(v.head) = 0 THEN Head(v.nodes) ELSE 0,
          space |-> [v EXCEPT
              !.items = Tail(v.items),
              !.head = NextSlot(v.head),
              !.nodes = IF NextSlot(v.head) = 0 THEN Tail(v.nodes) ELSE v.nodes]]

\* FreeList::append_item, which buffers the tail node.
append_item(v, ptr, version) ==
    [v EXCEPT !.items = Append(v.items, [ptr |-> ptr, ver |-> version]),
              !.tail = NextSlot(v.tail),
              !.updates = v.updates \cup {Last(v.nodes)}]

\* KVTX::page_append: a zeroed page at the end of the file.
page_append(v) == [v EXCEPT !.top = v.top + 1, !.updates = v.updates \cup {v.top}]

\* The tail node is full: link the next one, taken from the list itself if it
\* has a reusable page, and put the head node this may drain back in the list.
link_tail(v, version, min_reader) ==
    LET popped == pop(v, min_reader)
        reused == popped.ptr # 0
        next == IF reused THEN popped.ptr ELSE v.top
        got == IF reused THEN popped.space ELSE page_append(v)
        linked == [got EXCEPT !.nodes = Append(got.nodes, next),
                              !.updates = got.updates \cup {Last(v.nodes)}]
    IN  IF popped.drained_head # 0
        THEN append_item(linked, popped.drained_head, version)
        ELSE linked

\* FreeList::push_tail
push_tail(v, ptr, version, min_reader) ==
    LET appended == append_item(v, ptr, version)
    IN  IF appended.tail # 0 THEN appended
        ELSE link_tail(appended, version, min_reader)

\* Faulty: the drained head is dropped.
pop_head_leaks(v, version, min_reader) ==
    [ptr |-> pop(v, min_reader).ptr, space |-> pop(v, min_reader).space]

\* FreeList::pop_head: a reusable page, or 0.
pop_head(v, version, min_reader) ==
    LET popped == pop(v, min_reader)
    IN  [ptr |-> popped.ptr,
         space |-> IF popped.drained_head # 0
                   THEN push_tail(popped.space, popped.drained_head, version, min_reader)
                   ELSE popped.space]

\* KVTX::page_new: a reusable page, else a new one at the end of the file.
page_new(v, version, min_reader) ==
    LET taken == pop_head(v, version, min_reader)
    IN  IF taken.ptr # 0
        THEN [ptr |-> taken.ptr,
              space |-> [taken.space EXCEPT !.updates = taken.space.updates \cup {taken.ptr}]]
        ELSE [ptr |-> v.top, space |-> page_append(v)]

-----------------------------------------------------------------------------
\* L items fill n nodes from slot h of the first to slot k of the last.
Fits(L, h, n, k) == L + h = (n - 1) * CAP + k

\* The items fill the slots between head and tail, one after the other.
Filled(v) ==
    /\ v.nodes # <<>>
    /\ v.top # 0
    /\ Fits(Len(v.items), v.head, Len(v.nodes), v.tail)

Distinct(items) == \A i, j \in DOMAIN items : items[i].ptr = items[j].ptr => i = j

\* The items are in version order, and none was freed after version.
Ordered(items, version) ==
    /\ \A i, j \in DOMAIN items : i <= j => items[i].ver <= items[j].ver
    /\ \A i \in DOMAIN items : items[i].ver <= version

\* No page is listed twice or is both a node and an item.
Unshared(v) ==
    /\ Nodes(v) \cap Ptrs(v) = {}
    /\ Distinct(v.items)
    /\ IsInjective(v.nodes)

\* tree, space: every page of the file is in the tree, holds free list items,
\* or is a free list item, exactly one of these and exactly once.
Partitioned(tree, space) ==
    /\ tree \cap Nodes(space) = {}
    /\ tree \cap Ptrs(space) = {}
    /\ Unshared(space)
    /\ tree \cup Nodes(space) \cup Ptrs(space) = 1 .. space.top - 1
=============================================================================
