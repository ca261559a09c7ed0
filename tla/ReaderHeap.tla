----------------------------- MODULE ReaderHeap -----------------------------
(***************************************************************************)
(* The heap of open readers of src/storage/reader_heap.cpp, as KV uses it  *)
(* under mu_: begin_read pushes a reader of the latest version, end_read   *)
(* removes a reader from wherever it is, begin asks for the oldest.        *)
(*                                                                         *)
(* KV.tla takes the oldest of the open readers' versions; this module      *)
(* shows that min() is it. Slots are numbered from 1 here, from 0 in the   *)
(* code: slot i has children 2i and 2i + 1.                                *)
(***************************************************************************)
EXTENDS Integers, Sequences, TLC

CONSTANTS
    Readers,
    MaxVersion  \* bound: the last version

VARIABLES
    items,      \* items_: the readers, in heap order
    version,    \* KVReader::version of each reader
    heap_index, \* KVReader::heap_index of each reader, -1 when it is not open
    latest      \* KV::version_

vars == <<items, version, heap_index, latest>>

\* A heap as the operations see it.
Heap(ver) == [items |-> items, index |-> heap_index, version |-> ver]

less(h, i, j) == h.version[h.items[i]] < h.version[h.items[j]]

\* Faulty: the indexes stay with the slots.
swap_items_only(h, i, j) ==
    [h EXCEPT !.items = [h.items EXCEPT ![i] = h.items[j], ![j] = h.items[i]]]

swap(h, i, j) ==
    [h EXCEPT !.items = [h.items EXCEPT ![i] = h.items[j], ![j] = h.items[i]],
              !.index = [h.index EXCEPT ![h.items[i]] = j, ![h.items[j]] = i]]

\* The loops of up and down go from slot to slot: p is [h, at].
up_pass(p) ==
    LET parent == p.at \div 2
    IN  IF p.at = 1 \/ ~less(p.h, p.at, parent) THEN p
        ELSE [h |-> swap(p.h, parent, p.at), at |-> parent]

\* The slot gets smaller with each pass, so j passes are enough.
up(h, j) ==
    LET pass[k \in 0 .. j] == IF k = 0 THEN [h |-> h, at |-> j] ELSE up_pass(pass[k - 1])
    IN  pass[j].h

\* The older child of slot i.
kid(h, i) ==
    IF 2 * i + 1 <= Len(h.items) /\ less(h, 2 * i + 1, 2 * i) THEN 2 * i + 1 ELSE 2 * i

down_pass(p) ==
    IF 2 * p.at > Len(p.h.items) \/ ~less(p.h, kid(p.h, p.at), p.at) THEN p
    ELSE [h |-> swap(p.h, p.at, kid(p.h, p.at)), at |-> kid(p.h, p.at)]

\* The heap, and the slot where the reader ended.
down(h, i) ==
    LET pass[k \in 0 .. Len(h.items)] ==
            IF k = 0 THEN [h |-> h, at |-> i] ELSE down_pass(pass[k - 1])
    IN  pass[Len(h.items)]

push(h, r) ==
    LET n == Len(h.items) + 1
    IN  up([h EXCEPT !.items = Append(h.items, r), !.index[r] = n], n)

\* Faulty: the last reader only sifts down.
remove_never_up(h, i) ==
    LET n == Len(h.items)
        swapped == swap(h, i, n)
        reader == swapped.items[n]
        rest == [swapped EXCEPT !.items = SubSeq(swapped.items, 1, n - 1)]
    IN  [down(rest, i).h EXCEPT !.index[reader] = -1]

\* The last reader fills the slot, then sifts down or, if it did not move, up.
remove(h, i) ==
    LET n == Len(h.items)
        swapped == swap(h, i, n)
        reader == swapped.items[n]
        rest == [swapped EXCEPT !.items = SubSeq(swapped.items, 1, n - 1)]
        sifted == down(rest, i)
        filled == IF i = n THEN rest
                  ELSE IF sifted.at > i THEN sifted.h ELSE up(sifted.h, i)
    IN  [filled EXCEPT !.index[reader] = -1]

Set(h) == items' = h.items /\ heap_index' = h.index

-----------------------------------------------------------------------------
Init ==
    /\ items = <<>>
    /\ version = [r \in Readers |-> 0]
    /\ heap_index = [r \in Readers |-> -1]
    /\ latest = 0

\* KV::begin_read
begin_read(r) ==
    /\ heap_index[r] = -1
    /\ version' = [version EXCEPT ![r] = latest]
    /\ Set(push(Heap(version'), r))
    /\ UNCHANGED latest

\* KV::end_read
end_read(r) ==
    /\ heap_index[r] # -1
    /\ version' = [version EXCEPT ![r] = 0]    \* not read until r is open again
    /\ Set(remove(Heap(version), heap_index[r]))
    /\ UNCHANGED latest

\* KV::commit publishes a version.
publish ==
    /\ latest < MaxVersion
    /\ latest' = latest + 1
    /\ UNCHANGED <<items, version, heap_index>>

Next == publish \/ \E r \in Readers : begin_read(r) \/ end_read(r)

Spec == Init /\ [][Next]_vars
-----------------------------------------------------------------------------
\* Reader handles are interchangeable.
ReaderSymmetry == Permutations(Readers)

Open == {r \in Readers : heap_index[r] # -1}

\* The heap holds each open reader once, in the slot its heap_index names: the
\* slot that end_read removes.
IndexesMatch ==
    /\ {items[i] : i \in DOMAIN items} = Open
    /\ \A i \in DOMAIN items : heap_index[items[i]] = i

\* min() is an oldest reader, however readers came and went.
MinIsOldest == items # <<>> => \A r \in Open : version[items[1]] <= version[r]

\* The inductive invariant behind both (ReaderHeapProofs): no reader is older
\* than the one in its parent slot.
HeapOrder == \A i \in 2 .. Len(items) : version[items[i \div 2]] <= version[items[i]]

HeapInv ==
    /\ items \in Seq(Readers)
    /\ version \in [Readers -> Nat]
    /\ heap_index \in [Readers -> Int]
    /\ latest \in Nat
    /\ IndexesMatch
    /\ HeapOrder
=============================================================================
