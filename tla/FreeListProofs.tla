--------------------------- MODULE FreeListProofs ---------------------------
(***************************************************************************)
(* The list in the pages of the file implements the queue of FreeQueueSpec *)
(* and never changes a word that a meta page points at.                    *)
(***************************************************************************)
EXTENDS FreeList, SequenceTheorems, LeastNumber

FP == INSTANCE FreeQueueProofs

-----------------------------------------------------------------------------
(* Types *)

State == [head_page : Nat, head_seq : Nat, tail_page : Nat, tail_seq : Nat]

Word == Nat \cup [ptr : Nat, ver : Nat]

Files == [Pages -> [Words -> Word]]

Update ==
    [on : BOOLEAN, used : SUBSET Nat, state : State, top : Nat, updates : SUBSET Nat,
     pages : Files, version : Nat, min_reader : Nat]

\* The state s of a meta page describes the queue v.
Points(s, v) ==
    /\ s \in State
    /\ s.head_page = v.nodes[1] /\ s.tail_page = FP!Last(v.nodes)
    /\ seq_to_idx(s.head_seq) = v.head /\ seq_to_idx(s.tail_seq) = v.tail
    /\ s.tail_seq = s.head_seq + Len(v.items)

\* The list that s describes in the pages f is the queue v. A tail node that
\* is full may not be linked yet.
Represents(s, f, v) ==
    /\ v \in FP!Space /\ v.nodes # <<>> /\ FP!Nodes(v) \subseteq Pages
    /\ Points(s, v)
    /\ FP!Holds(f, v)

\* The update u is at the queue v.
Sim(u, v) ==
    /\ u \in Update /\ u.top = v.top /\ u.updates = v.updates
    /\ Represents(u.state, u.pages, v)

\* What the list's operations leave alone.
Rest(u, t) ==
    t.on = u.on /\ t.used = u.used /\ t.version = u.version /\ t.min_reader = u.min_reader

-----------------------------------------------------------------------------
(* The operations of the list, one by one *)

\* Words: slots and the next pointer.
LEMMA WordTypes ==
    /\ Words = 0 .. CAP /\ NextWord = CAP /\ CAP \in Words
    /\ \A k \in 0 .. CAP - 1 : k \in Words /\ k # CAP
    /\ ZeroPage \in [Words -> Word] /\ TreePage \in [Words -> Word]
<1>1. Words = 0 .. CAP /\ NextWord = CAP /\ CAP \in Words /\ \A k \in 0 .. CAP - 1 : k \in Words /\ k # CAP
    BY CapAssumption DEF Words, NextWord
<1>2. 0 \in Word /\ 1 \in Word /\ [ptr |-> 0, ver |-> 0] \in Word /\ [ptr |-> 1, ver |-> 0] \in Word
    BY DEF Word
<1> QED  BY <1>1, <1>2 DEF ZeroPage, TreePage, Node

\* A store into a buffered page (KVTX::page_use).
LEMMA StoreFields ==
    ASSUME NEW u \in Update, NEW p \in Pages, NEW w \in Words, NEW x \in Word
    PROVE  LET t == store(u, p, w, x)
           IN  /\ t \in Update /\ Rest(u, t) /\ t.state = u.state /\ t.top = u.top
               /\ t.updates = u.updates \cup {p} /\ FP!Wrote(u.pages, p, w, x, t.pages)
<1> DEFINE t == store(u, p, w, x)
           g == [u.pages EXCEPT ![p][w] = x]
<1>1. u.pages \in Files /\ u.updates \in SUBSET Nat /\ p \in Nat
    BY BoundsAssumption DEF Update, Pages
<1>2. /\ g \in Files /\ DOMAIN g = DOMAIN u.pages /\ DOMAIN g = Pages /\ g[p][w] = x
      /\ \A q \in Pages, z \in Words : q # p \/ z # w => g[q][z] = u.pages[q][z]
    <2>1. DOMAIN u.pages = Pages /\ \A q \in Pages : u.pages[q] \in [Words -> Word]
        BY <1>1 DEF Files
    <2> DEFINE page == [u.pages[p] EXCEPT ![w] = x]
    <2>2. /\ page \in [Words -> Word] /\ page[w] = x
          /\ \A z \in Words : z # w => page[z] = u.pages[p][z]
        BY <2>1
    <2>3. g = [u.pages EXCEPT ![p] = page]
        OBVIOUS
    <2> HIDE DEF page
    <2>4. /\ g \in Files /\ DOMAIN g = Pages /\ g[p] = page
          /\ \A q \in Pages : q # p => g[q] = u.pages[q]
        BY <1>1, <2>2, <2>3 DEF Files
    <2> QED  BY <2>1, <2>2, <2>4
<1>3. t = [u EXCEPT !.pages = g, !.updates = u.updates \cup {p}]
    BY DEF store, Update
<1> HIDE DEF g
<1>4. /\ t \in Update /\ t.pages = g /\ t.updates = u.updates \cup {p} /\ t.state = u.state
      /\ t.top = u.top /\ Rest(u, t)
    <2> DEFINE U == u.updates \cup {p}
    <2>1. U \in SUBSET Nat /\ g \in Files /\ t = [u EXCEPT !.pages = g, !.updates = U]
        BY <1>1, <1>2, <1>3
    <2> HIDE DEF t, U
    <2>2. t \in Update
        BY <2>1 DEF Update
    <2>3. t.pages = g /\ t.updates = U /\ t.state = u.state /\ t.top = u.top /\ Rest(u, t)
        BY <2>1 DEF Update, Rest
    <2> QED  BY <2>2, <2>3 DEF U
<1>5. FP!Wrote(u.pages, p, w, x, g)
    BY <1>2 DEF FP!Wrote, Words
<1> QED  BY <1>4, <1>5, Zenon

\* t is u with another state of the list.
Restated(u, t, hp, hs, tp, ts) ==
    /\ t \in Update /\ Rest(u, t) /\ t.pages = u.pages /\ t.top = u.top /\ t.updates = u.updates
    /\ t.state \in State
    /\ t.state.head_page = hp /\ t.state.head_seq = hs
    /\ t.state.tail_page = tp /\ t.state.tail_seq = ts

\* A new state.
LEMMA StateFields ==
    ASSUME NEW u \in Update, NEW s \in State, NEW t, t = [u EXCEPT !.state = s]
    PROVE  Restated(u, t, s.head_page, s.head_seq, s.tail_page, s.tail_seq)
<1>1. t \in Update
    BY DEF Update
<1>2. t.pages = u.pages /\ t.updates = u.updates /\ t.state = s /\ t.top = u.top /\ Rest(u, t)
    BY DEF Update, Rest
<1> QED  BY <1>1, <1>2 DEF Restated

\* Advancing the head (FreeList::pop).
LEMMA HeadFields ==
    ASSUME NEW u \in Update, NEW hs \in Nat, NEW hp \in Nat, NEW t,
           t = [u EXCEPT !.state.head_seq = hs, !.state.head_page = hp]
    PROVE  Restated(u, t, hp, hs, u.state.tail_page, u.state.tail_seq)
<1> DEFINE s == [u.state EXCEPT !.head_seq = hs, !.head_page = hp]
<1>1. u.state \in State
    BY DEF Update
<1>2. /\ s \in State /\ s.head_seq = hs /\ s.head_page = hp
      /\ s.tail_page = u.state.tail_page /\ s.tail_seq = u.state.tail_seq
    BY <1>1 DEF State
<1>3. t = [u EXCEPT !.state = s]
    BY DEF Update
<1> HIDE DEF s
<1>4. Restated(u, t, s.head_page, s.head_seq, s.tail_page, s.tail_seq)
    BY <1>2, <1>3, StateFields
<1> QED  BY <1>2, <1>4

\* Advancing the tail (FreeList::append_item).
LEMMA TailSeqFields ==
    ASSUME NEW u \in Update, NEW ts \in Nat, NEW t, t = [u EXCEPT !.state.tail_seq = ts]
    PROVE  Restated(u, t, u.state.head_page, u.state.head_seq, u.state.tail_page, ts)
<1> DEFINE s == [u.state EXCEPT !.tail_seq = ts]
<1>1. u.state \in State
    BY DEF Update
<1>2. /\ s \in State /\ s.tail_seq = ts /\ s.head_page = u.state.head_page
      /\ s.tail_page = u.state.tail_page /\ s.head_seq = u.state.head_seq
    BY <1>1 DEF State
<1>3. t = [u EXCEPT !.state = s]
    BY DEF Update
<1> HIDE DEF s
<1>4. Restated(u, t, s.head_page, s.head_seq, s.tail_page, s.tail_seq)
    BY <1>2, <1>3, StateFields
<1> QED  BY <1>2, <1>4

\* Another tail node (FreeList::push_tail).
LEMMA TailPageFields ==
    ASSUME NEW u \in Update, NEW tp \in Nat, NEW t, t = [u EXCEPT !.state.tail_page = tp]
    PROVE  Restated(u, t, u.state.head_page, u.state.head_seq, tp, u.state.tail_seq)
<1> DEFINE s == [u.state EXCEPT !.tail_page = tp]
<1>1. u.state \in State
    BY DEF Update
<1>2. /\ s \in State /\ s.tail_page = tp /\ s.head_page = u.state.head_page
      /\ s.tail_seq = u.state.tail_seq /\ s.head_seq = u.state.head_seq
    BY <1>1 DEF State
<1>3. t = [u EXCEPT !.state = s]
    BY DEF Update
<1> HIDE DEF s
<1>4. Restated(u, t, s.head_page, s.head_seq, s.tail_page, s.tail_seq)
    BY <1>2, <1>3, StateFields
<1> QED  BY <1>2, <1>4

\* The parts of an update and of the queue it is at.
LEMMA SimParts ==
    ASSUME NEW u, NEW v, Sim(u, v)
    PROVE  /\ u \in Update /\ u.state \in State /\ u.pages \in Files /\ DOMAIN u.pages = Pages
           /\ u.version \in Nat /\ u.min_reader \in Nat /\ u.top = v.top /\ u.updates = v.updates
           /\ v \in FP!Space /\ v.nodes # <<>> /\ FP!Nodes(v) \subseteq Pages /\ Pages \subseteq Nat
           /\ Points(u.state, v) /\ FP!Holds(u.pages, v)
BY BoundsAssumption DEF Sim, Represents, Update, Files, Pages

\* The queue's first item and first link are where pop looks for them.
LEMMA PopReads ==
    ASSUME NEW u, NEW v, Sim(u, v)
    PROVE  LET s == u.state
               node == u.pages[s.head_page]
           IN  /\ s.head_seq = s.tail_seq <=> v.items = <<>>
               /\ v.items # <<>> => node[seq_to_idx(s.head_seq)] = Head(v.items)
               /\ seq_to_idx(s.head_seq + 1) = FP!NextSlot(v.head)
               /\ Len(v.nodes) >= 2 => node[NextWord] = Tail(v.nodes)[1]
<1> DEFINE s == u.state
<1>1. /\ v \in FP!Space /\ v.nodes # <<>> /\ s \in State /\ Points(s, v) /\ FP!Holds(u.pages, v)
    BY SimParts
<1>2. /\ v.items \in Seq(FP!Item) /\ v.nodes \in Seq(FP!Page)
      /\ Len(v.items) \in Nat /\ Len(v.nodes) \in Nat
    BY <1>1, CapAssumption, FP!SpaceParts
<1>3. /\ s.head_page = v.nodes[1] /\ seq_to_idx(s.head_seq) = v.head
      /\ s.tail_seq = s.head_seq + Len(v.items) /\ s.head_seq \in Nat
    BY <1>1 DEF Points, State
<1>4. s.head_seq = s.tail_seq <=> v.items = <<>>
    <2>1. s.head_seq = s.tail_seq <=> Len(v.items) = 0
        BY <1>2, <1>3
    <2> QED  BY <1>2, <2>1, EmptySeq
<1>5. v.items # <<>> => u.pages[s.head_page][seq_to_idx(s.head_seq)] = Head(v.items)
    BY <1>1, <1>3, CapAssumption, FP!FirstHeld
<1>6. seq_to_idx(s.head_seq + 1) = FP!NextSlot(v.head)
    BY <1>3, CapAssumption, FP!ModNext DEF seq_to_idx
<1>7. Len(v.nodes) >= 2 => u.pages[s.head_page][NextWord] = Tail(v.nodes)[1]
    <2>1. SUFFICES ASSUME Len(v.nodes) >= 2
                   PROVE  u.pages[s.head_page][NextWord] = Tail(v.nodes)[1]
        OBVIOUS
    <2>2. 1 \in 1 .. Len(v.nodes) - 1 /\ Len(Tail(v.nodes)) = Len(v.nodes) - 1
        BY <1>1, <1>2, <2>1, HeadTailProperties
    <2>3. Tail(v.nodes)[1] = v.nodes[1 + 1]
        BY <1>1, <1>2, <2>2, HeadTailProperties
    <2>4. u.pages[v.nodes[1]][CAP] = v.nodes[1 + 1]
        BY <1>1, <2>2 DEF FP!Holds, FP!Links
    <2> QED  BY <1>3, <2>3, <2>4 DEF NextWord
<1> QED  BY <1>4, <1>5, <1>6, <1>7

\* r is what pop returns, of an update at v.
PopDone(u, v, r) ==
    LET a == FP!pop(v, u.min_reader)
    IN  /\ r.ptr = a.ptr /\ r.drained_head = a.drained_head
        /\ Sim(r.u, a.space) /\ Rest(u, r.u) /\ r.u.pages = u.pages

\* FreeList::pop is the queue's pop.
LEMMA PopSim ==
    ASSUME NEW u, NEW v, Sim(u, v), NEW k \in 0 .. CAP, FP!Slots(v, k),
           k = CAP => v.items[Len(v.items)].ver >= u.min_reader
    PROVE  PopDone(u, v, pop(u))
<1> DEFINE s == u.state
           m == u.min_reader
           a == FP!pop(v, m)
           node == u.pages[s.head_page]
           item == node[seq_to_idx(s.head_seq)]
           last == seq_to_idx(s.head_seq + 1) = 0
           hp == IF last THEN node[NextWord] ELSE s.head_page
           t == [u EXCEPT !.state.head_seq = s.head_seq + 1, !.state.head_page = hp]
<1>1. /\ s.head_seq = s.tail_seq <=> v.items = <<>>
      /\ v.items # <<>> => item = Head(v.items)
      /\ last <=> FP!NextSlot(v.head) = 0
      /\ Len(v.nodes) >= 2 => node[NextWord] = Tail(v.nodes)[1]
    BY PopReads
<1>2. pop(u) = IF s.head_seq = s.tail_seq \/ ~(item.ver < m)
               THEN [ptr |-> 0, drained_head |-> 0, u |-> u]
               ELSE [ptr |-> item.ptr, drained_head |-> IF last THEN s.head_page ELSE 0, u |-> t]
    BY DEF pop
<1>3. /\ u \in Update /\ v \in FP!Space /\ v.nodes # <<>> /\ Points(s, v) /\ m \in Nat
      /\ FP!Holds(u.pages, v) /\ FP!Nodes(v) \subseteq Pages /\ Pages \subseteq Nat
      /\ u.top = v.top /\ u.updates = v.updates
    BY SimParts
<1>4. /\ s \in State /\ s.head_page = v.nodes[1] /\ s.tail_page = FP!Last(v.nodes)
      /\ seq_to_idx(s.tail_seq) = v.tail /\ seq_to_idx(s.head_seq) = v.head
      /\ s.tail_seq = s.head_seq + Len(v.items) /\ s.head_seq \in Nat
    BY <1>3 DEF Points, State
<1> HIDE DEF hp, t, item, node, last, m, s
<1>5. CASE v.items = <<>> \/ ~(Head(v.items).ver < m)
    <2>1. s.head_seq = s.tail_seq \/ ~(item.ver < m)
        BY <1>1, <1>5
    <2>2. pop(u) = [ptr |-> 0, drained_head |-> 0, u |-> u]
        BY <1>2, <2>1
    <2>3. a = [ptr |-> 0, drained_head |-> 0, space |-> v]
        BY <1>5 DEF FP!pop
    <2> QED  BY <2>2, <2>3 DEF PopDone, Rest, m
<1>6. CASE ~(v.items = <<>> \/ ~(Head(v.items).ver < m))
    <2>1. pop(u) = [ptr |-> item.ptr, drained_head |-> IF last THEN s.head_page ELSE 0, u |-> t]
        BY <1>1, <1>2, <1>6
    <2>2. /\ v.items \in Seq(FP!Item) /\ v.nodes \in Seq(FP!Page) /\ Len(v.items) \in Nat
          /\ Head(v.items) \in FP!Item /\ Len(Tail(v.items)) = Len(v.items) - 1 /\ Len(v.items) >= 1
        <3>1. v.items \in Seq(FP!Item) /\ v.nodes \in Seq(FP!Page)
            BY <1>3, CapAssumption, FP!SpaceParts
        <3> QED  BY <1>6, <3>1, CapAssumption, FP!TailSet
    <2>3. a.ptr = Head(v.items).ptr /\ a.ptr # 0
        BY <1>6, <2>2 DEF FP!pop, FP!Item, FP!Page
    <2>4. /\ a.space \in FP!Space /\ a.space.nodes # <<>>
          /\ a.space.items = Tail(v.items) /\ a.space.tail = v.tail /\ a.space.top = v.top
          /\ a.space.updates = v.updates /\ FP!Last(a.space.nodes) = FP!Last(v.nodes)
          /\ \/ a.drained_head = 0 /\ a.space.nodes = v.nodes
             \/ /\ a.drained_head = Head(v.nodes) /\ a.drained_head \in FP!Page
                /\ a.space.nodes = Tail(v.nodes) /\ Len(v.nodes) >= 2
        BY <1>3, <2>3, CapAssumption, FP!PopStep DEF m
    <2>5. /\ a.space.head = FP!NextSlot(v.head)
          /\ a.drained_head = IF FP!NextSlot(v.head) = 0 THEN Head(v.nodes) ELSE 0
        <3>1. /\ a.space = [v EXCEPT !.items = Tail(v.items), !.head = FP!NextSlot(v.head),
                     !.nodes = IF FP!NextSlot(v.head) = 0 THEN Tail(v.nodes) ELSE v.nodes]
              /\ a.drained_head = IF FP!NextSlot(v.head) = 0 THEN Head(v.nodes) ELSE 0
            BY <1>6 DEF FP!pop
        <3> QED  BY <1>3, <3>1 DEF FP!Space
    <2>6. FP!Holds(u.pages, a.space)
        BY <1>3, <2>3, CapAssumption, FP!PopHolds DEF m
    <2>7. Head(v.nodes) = v.nodes[1] /\ Head(v.nodes) # 0
        <3>1. Head(v.nodes) \in FP!Page /\ Head(v.nodes) = v.nodes[1]
            BY <1>3, <2>2, CapAssumption, FP!TailSet
        <3> QED  BY <3>1 DEF FP!Page
    <2> HIDE DEF a
    <2>8. a.drained_head = IF last THEN s.head_page ELSE 0
        BY <1>1, <1>4, <2>5, <2>7
    <2>9. hp = a.space.nodes[1]
        <3>1. CASE last
            BY <1>1, <2>4, <2>5, <2>7, <3>1 DEF hp
        <3>2. CASE ~last
            BY <1>1, <1>4, <2>4, <2>5, <2>7, <3>2 DEF hp
        <3> QED  BY <3>1, <3>2
    <2>10. FP!Nodes(a.space) \subseteq FP!Nodes(v)
        <3>1. FP!ToSet(Tail(v.nodes)) \subseteq FP!ToSet(v.nodes)
            BY <1>3, <2>2, CapAssumption, FP!TailSet
        <3> QED  BY <2>4, <3>1 DEF FP!Nodes
    <2>11. hp \in Nat
        <3>1. /\ a.space.nodes \in Seq(FP!Page) /\ Len(a.space.nodes) \in Nat \ {0}
            BY <2>4, CapAssumption, FP!SpaceParts
        <3>2. a.space.nodes[1] \in FP!Page
            BY <3>1, ElementOfSeq
        <3> QED  BY <2>9, <3>2 DEF FP!Page
    <2>12. Restated(u, t, hp, s.head_seq + 1, s.tail_page, s.tail_seq)
        <3>1. s.head_seq + 1 \in Nat
            BY <1>4
        <3>2. t = [u EXCEPT !.state.head_seq = s.head_seq + 1, !.state.head_page = hp]
            BY DEF t
        <3>3. Restated(u, t, hp, s.head_seq + 1, u.state.tail_page, u.state.tail_seq)
            BY <1>3, <2>11, <3>1, <3>2, HeadFields, Zenon
        <3> QED  BY <3>3, Zenon DEF s
    <2>13. /\ t \in Update /\ Rest(u, t) /\ t.pages = u.pages /\ t.top = v.top
           /\ t.updates = v.updates /\ t.state \in State
           /\ t.state.head_page = hp /\ t.state.head_seq = s.head_seq + 1
           /\ t.state.tail_page = s.tail_page /\ t.state.tail_seq = s.tail_seq
        BY <1>3, <2>12 DEF Restated
    <2>14. Points(t.state, a.space)
        <3>1. seq_to_idx(s.head_seq + 1) = FP!NextSlot(v.head)
            BY PopReads DEF s
        <3>2. s.tail_seq = (s.head_seq + 1) + Len(a.space.items)
            <4>1. Len(a.space.items) = Len(v.items) - 1
                BY <2>2, <2>4, Zenon
            <4>2. \A h, n \in Nat : h + n = (h + 1) + (n - 1)
                OBVIOUS
            <4> QED  BY <1>4, <2>2, <4>1, <4>2, Zenon
        <3> QED  BY <1>4, <2>4, <2>5, <2>9, <2>13, <3>1, <3>2 DEF Points
    <2>15. Sim(t, a.space)
        BY <1>3, <2>4, <2>6, <2>10, <2>13, <2>14 DEF Sim, Represents
    <2>16. /\ pop(u).ptr = a.ptr /\ pop(u).drained_head = a.drained_head /\ pop(u).u = t
        BY <1>1, <1>6, <2>1, <2>3, <2>8
    <2> QED  BY <2>13, <2>15, <2>16, Zenon DEF PopDone, a, m
<1> QED  BY <1>5, <1>6

\* From the update u at v, whose tail node has k items, to t at w, with l items.
Step(u, v, k, t, w, l) ==
    Sim(t, w) /\ Rest(u, t) /\ FP!Moves(u.pages, v, k, t.pages, w, l, u.min_reader)

\* One step after another.
LEMMA StepTrans ==
    ASSUME NEW u, NEW v, Sim(u, v), NEW b, NEW a, NEW t, NEW w, u.version >= u.min_reader,
           FP!Evolves(v, a, u.version, u.min_reader),
           NEW k \in 0 .. CAP, NEW l \in 0 .. CAP, NEW o \in 0 .. CAP,
           Step(u, v, k, b, a, l), Step(b, a, l, t, w, o)
    PROVE  Step(u, v, k, t, w, o)
<1> DEFINE m == u.min_reader
           version == u.version
<1>1. /\ v \in FP!Space /\ a \in FP!Space /\ a.nodes # <<>> /\ w \in FP!Space /\ w.nodes # <<>>
      /\ m \in Nat /\ version \in Nat /\ DOMAIN u.pages \subseteq Nat
    BY SimParts DEF Step
<1>2. /\ Sim(t, w) /\ Rest(u, t)
      /\ FP!Moves(u.pages, v, k, b.pages, a, l, m) /\ FP!Moves(b.pages, a, l, t.pages, w, o, m)
    BY DEF Step, Rest
<1>3. FP!Evolves(v, a, version, m) /\ version >= m
    OBVIOUS
<1> HIDE DEF m, version
<1>4. \A f, g, h : DOMAIN f \subseteq Nat /\ FP!Moves(f, v, k, g, a, l, m)
                      /\ FP!Moves(g, a, l, h, w, o, m) => FP!Moves(f, v, k, h, w, o, m)
    BY <1>1, <1>3, CapAssumption, FP!MovesTrans
<1>5. FP!Moves(u.pages, v, k, t.pages, w, o, m)
    BY <1>1, <1>2, <1>4
<1> QED  BY <1>2, <1>5 DEF Step, m

\* FreeList::append_item is the queue's append_item.
LEMMA AppendSim ==
    ASSUME NEW u, NEW v, Sim(u, v), FP!Filled(v), FP!IsInjective(v.nodes), NEW p \in FP!Page
    PROVE  /\ Step(u, v, v.tail, append_item(u, p), FP!append_item(v, p, u.version), v.tail + 1)
           /\ FP!Wrote(u.pages, FP!Last(v.nodes), v.tail, [ptr |-> p, ver |-> u.version],
                       append_item(u, p).pages)
<1> DEFINE s == u.state
           x == [ptr |-> p, ver |-> u.version]
           b == store(u, s.tail_page, seq_to_idx(s.tail_seq), x)
           t == append_item(u, p)
           a == FP!append_item(v, p, u.version)
<1>1. /\ u \in Update /\ s \in State /\ u.version \in Nat /\ v \in FP!Space /\ v.nodes # <<>>
      /\ FP!Nodes(v) \subseteq Pages /\ Points(s, v) /\ FP!Holds(u.pages, v)
      /\ u.top = v.top /\ u.updates = v.updates /\ DOMAIN u.pages = Pages
    BY SimParts
<1>2. /\ v.tail \in 0 .. CAP - 1 /\ v.items \in Seq(FP!Item) /\ Len(v.items) \in Nat
      /\ v.nodes \in Seq(FP!Page)
    BY <1>1, CapAssumption, FP!SpaceParts
<1>3. /\ s.head_page = v.nodes[1] /\ s.tail_page = FP!Last(v.nodes)
      /\ seq_to_idx(s.tail_seq) = v.tail /\ seq_to_idx(s.head_seq) = v.head
      /\ s.tail_seq = s.head_seq + Len(v.items) /\ s.head_seq \in Nat /\ s.tail_seq \in Nat
    BY <1>1 DEF Points, State
<1>4. FP!Last(v.nodes) \in Pages
    BY <1>1, <1>2, CapAssumption, FP!LastIn DEF FP!Nodes
<1>5. x \in Word /\ x \in FP!Item /\ v.tail \in Words
    BY <1>1, <1>2, WordTypes DEF Word, FP!Item, FP!Page
<1>6. t = [b EXCEPT !.state.tail_seq = s.tail_seq + 1]
    BY DEF append_item
<1>7. /\ FP!Appended(v, p, u.version, a)
    BY <1>1, CapAssumption, FP!AppendStep
<1>8. /\ a \in FP!Space /\ a.nodes = v.nodes /\ a.head = v.head /\ a.top = v.top
      /\ a.tail = FP!NextSlot(v.tail) /\ a.items = Append(v.items, x)
      /\ a.updates = v.updates \cup {FP!Last(v.nodes)}
    BY <1>7 DEF FP!Appended
<1> HIDE DEF x, t, a, s, b
<1>9. /\ b \in Update /\ Rest(u, b) /\ b.state = s /\ b.top = u.top
      /\ b.updates = u.updates \cup {FP!Last(v.nodes)}
      /\ FP!Wrote(u.pages, FP!Last(v.nodes), v.tail, x, b.pages)
    BY <1>1, <1>3, <1>4, <1>5, StoreFields DEF b, s
<1>10. Restated(b, t, s.head_page, s.head_seq, s.tail_page, s.tail_seq + 1)
    <2>1. s.tail_seq + 1 \in Nat
        BY <1>3
    <2>2. Restated(b, t, b.state.head_page, b.state.head_seq, b.state.tail_page, s.tail_seq + 1)
        BY <1>6, <1>9, <2>1, TailSeqFields, Zenon
    <2> QED  BY <1>9, <2>2, Zenon
<1>11. /\ t \in Update /\ Rest(u, t) /\ t.pages = b.pages /\ t.top = v.top /\ t.updates = a.updates
       /\ t.state \in State /\ t.state.head_page = s.head_page /\ t.state.head_seq = s.head_seq
       /\ t.state.tail_page = s.tail_page /\ t.state.tail_seq = s.tail_seq + 1
    BY <1>1, <1>8, <1>9, <1>10 DEF Restated, Rest
<1>12. Points(t.state, a)
    <2>1. seq_to_idx(s.tail_seq + 1) = a.tail
        BY <1>3, <1>8, CapAssumption, FP!ModNext DEF seq_to_idx
    <2>2. Len(a.items) = Len(v.items) + 1
        BY <1>2, <1>5, <1>8, AppendProperties
    <2>3. s.tail_seq + 1 = s.head_seq + Len(a.items)
        BY <1>2, <1>3, <2>2
    <2> QED  BY <1>3, <1>8, <1>11, <2>1, <2>3 DEF Points
<1>13. FP!Holds(t.pages, a)
    BY <1>1, <1>9, <1>11, CapAssumption, FP!AppendHolds DEF x, a
<1>14. Sim(t, a)
    BY <1>1, <1>8, <1>11, <1>12, <1>13 DEF Sim, Represents, FP!Nodes
<1>15. FP!Moves(u.pages, v, v.tail, t.pages, a, v.tail + 1, u.min_reader)
    <2>1. v.tail <= v.tail /\ v.tail <= v.tail + 1
        BY <1>2, CapAssumption
    <2>2. FP!Ends(v, v.tail, a, v.tail + 1, u.min_reader)
        BY <1>8, <2>1 DEF FP!Ends
    <2> QED  BY <1>9, <1>11, <2>1, <2>2, CapAssumption, FP!MovesWrote
<1> QED  BY <1>9, <1>11, <1>14, <1>15 DEF Step, t, a, x

\* Writing over a page that is no node, at or below the end of the file.
LEMMA OverwriteSim ==
    ASSUME NEW u, NEW v, Sim(u, v), FP!IsInjective(v.nodes), NEW k \in 0 .. CAP, FP!Slots(v, k),
           NEW p \in Pages, p \notin FP!Nodes(v), NEW page \in [Words -> Word], NEW o \in Nat,
           NEW U, U = u.updates \cup {p}, NEW t, NEW a,
           t = [u EXCEPT !.pages[p] = page, !.updates = U, !.top = o],
           a = [v EXCEPT !.top = o, !.updates = U]
    PROVE  Sim(t, a) /\ Rest(u, t) /\ FP!Replaced(u.pages, p, t.pages)
<1> DEFINE g == [u.pages EXCEPT ![p] = page]
<1>1. /\ u \in Update /\ v \in FP!Space /\ v.nodes # <<>> /\ u.pages \in Files
      /\ FP!Nodes(v) \subseteq Pages /\ Points(u.state, v) /\ FP!Holds(u.pages, v)
      /\ u.top = v.top /\ u.updates = v.updates /\ DOMAIN u.pages = Pages /\ Pages \subseteq Nat
    BY SimParts
<1>2. v.updates \in SUBSET FP!Page /\ p \in FP!Page /\ u.updates \in SUBSET Nat
    BY <1>1 DEF FP!Space, FP!Page, Pages, Update
<1>3. g \in Files /\ FP!Replaced(u.pages, p, g)
    BY <1>1 DEF Files, FP!Replaced
<1>4. t = [u EXCEPT !.pages = g, !.updates = U, !.top = o]
    BY <1>1 DEF Update
<1>5. U \in SUBSET Nat /\ U \in SUBSET FP!Page
    BY <1>1, <1>2
<1> HIDE DEF g
<1>6. t \in Update
    BY <1>1, <1>3, <1>4, <1>5 DEF Update
<1>7. t.pages = g /\ t.updates = U /\ t.top = o /\ t.state = u.state /\ Rest(u, t)
    BY <1>1, <1>4 DEF Update, Rest
<1>8. a \in FP!Space
    BY <1>1, <1>5 DEF FP!Space
<1>9. /\ a.items = v.items /\ a.nodes = v.nodes /\ a.head = v.head /\ a.tail = v.tail
      /\ a.top = o /\ a.updates = U
    BY <1>1 DEF FP!Space
<1>10. FP!Holds(g, v)
    BY <1>1, <1>3, CapAssumption, FP!ReplaceHolds
<1>11. FP!Holds(g, a)
    BY <1>9, <1>10 DEF FP!Holds, FP!Stored
<1>12. Points(t.state, a)
    BY <1>1, <1>7, <1>9, Zenon DEF Points
<1>13. a.nodes # <<>> /\ FP!Nodes(a) \subseteq Pages
    BY <1>1, <1>9 DEF FP!Nodes
<1>14. Sim(t, a)
    BY <1>6, <1>7, <1>8, <1>9, <1>11, <1>12, <1>13 DEF Sim, Represents
<1> QED  BY <1>3, <1>7, <1>14

\* KVTX::page_append is the queue's page_append; it overwrites the new page.
LEMMA PageAppendSim ==
    ASSUME NEW u, NEW v, Sim(u, v), FP!IsInjective(v.nodes), NEW k \in 0 .. CAP, FP!Slots(v, k),
           v.top \in Pages, v.top \notin FP!Nodes(v)
    PROVE  LET t == page_append(u)
           IN  /\ Sim(t, FP!page_append(v)) /\ Rest(u, t)
               /\ FP!Replaced(u.pages, v.top, t.pages)
<1> DEFINE U == u.updates \cup {v.top}
           o == v.top + 1
           t == page_append(u)
           a == FP!page_append(v)
<1>1. u.top = v.top /\ u.updates = v.updates /\ v.top \in Nat
    BY SimParts DEF FP!Space
<1>2. t = [u EXCEPT !.pages[v.top] = ZeroPage, !.updates = U, !.top = o]
    BY <1>1 DEF page_append
<1>3. a = [v EXCEPT !.top = o, !.updates = U]
    BY <1>1 DEF FP!page_append
<1>4. o \in Nat /\ ZeroPage \in [Words -> Word] /\ U = u.updates \cup {v.top}
    BY <1>1, WordTypes
<1> HIDE DEF U, o, t, a
<1>5. Sim(t, a) /\ Rest(u, t) /\ FP!Replaced(u.pages, v.top, t.pages)
    BY <1>2, <1>3, <1>4, OverwriteSim
<1> QED  BY <1>5 DEF t, a

\* The update u after the store of link_tail into the full tail node.
LinkedTo(u, n) ==
    [store(u, u.state.tail_page, NextWord, n) EXCEPT !.state.tail_page = n]

\* Linking a node in the pages is linking it in the queue.
LEMMA LinkSim ==
    ASSUME NEW u, NEW v, Sim(u, v), FP!IsInjective(v.nodes), v.top # 0, v.tail = 0,
           FP!Slots(v, CAP), NEW n \in Pages,
           NEW w, FP!Linked(v, n, v.updates \cup {FP!Last(v.nodes)}, w)
    PROVE  LET t == LinkedTo(u, n)
           IN  Sim(t, w) /\ Rest(u, t) /\ FP!Wrote(u.pages, FP!Last(v.nodes), CAP, n, t.pages)
<1> DEFINE s == u.state
           b == store(u, s.tail_page, NextWord, n)
           t == LinkedTo(u, n)
<1>1. /\ u \in Update /\ s \in State /\ v \in FP!Space /\ v.nodes # <<>>
      /\ FP!Nodes(v) \subseteq Pages /\ Points(s, v) /\ FP!Holds(u.pages, v)
      /\ u.top = v.top /\ u.updates = v.updates /\ DOMAIN u.pages = Pages /\ Pages \subseteq Nat
    BY SimParts
<1>2. /\ v.nodes \in Seq(FP!Page) /\ Len(v.nodes) \in Nat \ {0}
    BY <1>1, CapAssumption, FP!SpaceParts
<1>3. /\ s.head_page = v.nodes[1] /\ s.tail_page = FP!Last(v.nodes)
      /\ seq_to_idx(s.tail_seq) = v.tail /\ seq_to_idx(s.head_seq) = v.head
      /\ s.tail_seq = s.head_seq + Len(v.items)
    BY <1>1 DEF Points, State
<1>4. FP!Last(v.nodes) \in Pages
    BY <1>1, <1>2, CapAssumption, FP!LastIn DEF FP!Nodes
<1>5. n \in Word /\ NextWord \in Words /\ n \in Nat /\ n \in FP!Page
    BY <1>1, WordTypes DEF Word, FP!Page, Pages
<1>6. t = [b EXCEPT !.state.tail_page = n]
    BY DEF LinkedTo
<1>7. /\ w \in FP!Space /\ w.items = v.items /\ w.nodes = Append(v.nodes, n)
      /\ w.updates = v.updates \cup {FP!Last(v.nodes)}
      /\ w.head = v.head /\ w.tail = 0 /\ w.top = v.top
    BY DEF FP!Linked
<1>8. /\ w.nodes # <<>> /\ FP!Last(w.nodes) = n /\ FP!Nodes(w) = FP!Nodes(v) \cup {n}
    BY <1>2, <1>5, <1>7, CapAssumption, FP!AppendSet DEF FP!Nodes
<1>9. w.nodes[1] = v.nodes[1]
    <2>1. 1 \in 1 .. Len(v.nodes)
        BY <1>2
    <2> QED  BY <1>2, <1>5, <1>7, <2>1, AppendProperties
<1> HIDE DEF s, b, t
<1>10. /\ b \in Update /\ Rest(u, b) /\ b.state = s /\ b.top = u.top
       /\ b.updates = u.updates \cup {FP!Last(v.nodes)}
       /\ FP!Wrote(u.pages, FP!Last(v.nodes), CAP, n, b.pages)
    BY <1>1, <1>3, <1>4, <1>5, StoreFields, WordTypes DEF b, s
<1>11. Restated(b, t, s.head_page, s.head_seq, n, s.tail_seq)
    <2>1. Restated(b, t, b.state.head_page, b.state.head_seq, n, b.state.tail_seq)
        BY <1>5, <1>6, <1>10, TailPageFields, Zenon
    <2> QED  BY <1>10, <2>1, Zenon
<1>12. /\ t \in Update /\ Rest(u, t) /\ t.pages = b.pages /\ t.top = w.top /\ t.updates = w.updates
       /\ t.state \in State /\ t.state.head_page = s.head_page /\ t.state.head_seq = s.head_seq
       /\ t.state.tail_page = n /\ t.state.tail_seq = s.tail_seq
    BY <1>1, <1>7, <1>10, <1>11 DEF Restated, Rest
<1>13. Points(t.state, w)
    BY <1>3, <1>7, <1>8, <1>9, <1>12, Zenon DEF Points
<1>14. FP!Holds(t.pages, w)
    BY <1>1, <1>5, <1>10, <1>12, CapAssumption, FP!LinkHolds
<1>15. Sim(t, w)
    BY <1>1, <1>7, <1>8, <1>12, <1>13, <1>14 DEF Sim, Represents
<1> QED  BY <1>10, <1>12, <1>15 DEF t

\* The pages an update may take are pages of the file.
LEMMA OwnedPages ==
    ASSUME NEW v \in FP!Space, FP!Below(v), v.top <= MaxPage
    PROVE  \A q \in FP!Owned(v) : q \in Nat /\ q # 0 => q \in Pages
BY BoundsAssumption DEF FP!Below, FP!Space, Pages

\* FreeList::push_tail's second half is the queue's link_tail.
LEMMA LinkTailSim ==
    ASSUME NEW u, NEW v, Sim(u, v), FP!FullTail(v, u.min_reader), FP!Unshared(v), FP!Below(v),
           v.top <= MaxPage, u.version >= u.min_reader
    PROVE  LET w == FP!link_tail(v, u.version, u.min_reader)
           IN  Step(u, v, CAP, link_tail(u), w, w.tail)
<1> DEFINE m == u.min_reader
           q == FP!pop(v, m)
           popped == pop(u)
           next == IF popped.ptr # 0 THEN popped.ptr ELSE u.top
           got == IF popped.ptr # 0 THEN popped.u ELSE page_append(u)
           lu == LinkedTo(got, next)
           L == FP!Last(v.nodes)
           w == FP!link_tail(v, u.version, m)
           t == link_tail(u)
<1>1. /\ u \in Update /\ v \in FP!Space /\ v.nodes # <<>> /\ m \in Nat /\ u.version \in Nat
      /\ FP!Nodes(v) \subseteq Pages /\ u.top = v.top /\ DOMAIN u.pages = Pages /\ Pages \subseteq Nat
    BY SimParts
<1>2. /\ v.top # 0 /\ v.tail = 0 /\ FP!Slots(v, CAP) /\ v.items[Len(v.items)].ver >= m
      /\ CAP \in 0 .. CAP /\ FP!IsInjective(v.nodes)
    BY CapAssumption DEF FP!FullTail, FP!Unshared
<1>3. /\ v.items \in Seq(FP!Item) /\ v.nodes \in Seq(FP!Page) /\ v.top \in Nat
      /\ v.updates \in SUBSET FP!Page
    BY <1>1, CapAssumption, FP!SpaceParts
<1>4. /\ v.top \in FP!Page /\ v.top \in Pages /\ v.top \notin FP!Nodes(v)
      /\ FP!Taken(v.top, v, m)
    <2>1. v.top \in Pages /\ v.top >= v.top /\ ~(v.top < v.top)
        BY <1>2, <1>3, BoundsAssumption DEF Pages
    <2> QED  BY <1>2, <1>3, <2>1 DEF FP!Page, FP!Below, FP!Owned, FP!Taken
<1>5. L \in FP!Page /\ L \in FP!Nodes(v)
    BY <1>1, <1>3, CapAssumption, FP!LastIn DEF FP!Nodes
<1>6. PopDone(u, v, popped)
    BY <1>2, PopSim
<1>7. /\ popped.ptr = q.ptr /\ popped.drained_head = q.drained_head
      /\ Sim(popped.u, q.space) /\ Rest(u, popped.u) /\ popped.u.pages = u.pages
    BY <1>6 DEF PopDone
<1>8. t = IF q.drained_head # 0 THEN append_item(lu, q.drained_head) ELSE lu
    BY <1>7 DEF link_tail, LinkedTo
<1> HIDE DEF m, q, popped, L, w, t
<1>9. CASE q.ptr = 0
    <2> DEFINE a == FP!page_append(v)
    <2>1. q.drained_head = 0 /\ q.space = v
        BY <1>1, <1>9, CapAssumption, FP!PopNone DEF q
    <2>2. next = v.top /\ got = page_append(u) /\ t = lu
        BY <1>1, <1>7, <1>8, <1>9, <2>1
    <2> HIDE DEF next, got
    <2>3. Sim(got, a) /\ Rest(u, got) /\ FP!Replaced(u.pages, v.top, got.pages)
        BY <1>2, <1>4, <2>2, PageAppendSim
    <2>4. /\ a.items = v.items /\ a.nodes = v.nodes /\ a.head = v.head /\ a.tail = v.tail
          /\ a.top = v.top + 1 /\ a.updates = v.updates \cup {v.top}
        BY <1>1 DEF FP!page_append, FP!Space
    <2>5. w = [a EXCEPT !.nodes = Append(a.nodes, v.top), !.updates = a.updates \cup {L}]
        BY <1>9, <2>1 DEF FP!link_tail, w, q, m, L
    <2> HIDE DEF a
    <2>6. /\ a \in FP!Space /\ a.nodes # <<>> /\ a.top # 0 /\ a.tail = 0 /\ FP!Slots(a, CAP)
          /\ FP!IsInjective(a.nodes) /\ FP!Last(a.nodes) = L
        BY <1>1, <1>2, <1>3, <2>3, <2>4, SimParts DEF FP!Slots, L
    <2>7. a.updates \cup {L} \in SUBSET FP!Page
        BY <1>3, <1>4, <1>5, <2>4
    <2>8. FP!Linked(a, v.top, a.updates \cup {L}, w)
        BY <1>4, <2>5, <2>6, <2>7, CapAssumption, FP!LinkNode
    <2>9. Sim(t, w) /\ Rest(got, t) /\ FP!Wrote(got.pages, L, CAP, v.top, t.pages)
        BY <1>4, <2>2, <2>3, <2>6, <2>8, LinkSim
    <2>10. FP!Last(w.nodes) = v.top /\ w.tail = 0
        <3>1. w.nodes = Append(v.nodes, v.top) /\ w.tail = 0
            BY <2>4, <2>8 DEF FP!Linked
        <3> QED  BY <1>3, <1>4, <3>1, CapAssumption, FP!AppendSet
    <2>11. FP!Ends(v, CAP, v, CAP, m) /\ FP!Ends(v, CAP, w, w.tail, m)
        BY <1>4, <2>10, CapAssumption DEF FP!Ends
    <2>12. FP!Moves(u.pages, v, CAP, got.pages, v, CAP, m)
        BY <1>4, <2>3, <2>11, CapAssumption, FP!MovesReplaced
    <2>13. FP!Moves(got.pages, v, CAP, t.pages, w, w.tail, m)
        <3>1. CAP <= CAP
            BY CapAssumption
        <3> QED  BY <2>9, <2>11, <3>1, CapAssumption, FP!MovesWrote DEF L
    <2>14. FP!Moves(u.pages, v, CAP, t.pages, w, w.tail, m)
        BY <2>12, <2>13, CapAssumption, FP!MovesTwice
    <2> QED  BY <2>3, <2>9, <2>14 DEF Step, Rest, t, w, m
<1>10. CASE q.ptr # 0
    <2> DEFINE x == Head(v.items)
               a == q.space
               d == q.drained_head
               lw == [a EXCEPT !.nodes = Append(a.nodes, x.ptr), !.updates = a.updates \cup {L}]
    <2>1. /\ v.items # <<>> /\ x.ver < m /\ q.ptr = x.ptr
          /\ a \in FP!Space /\ a.nodes # <<>> /\ FP!Slots(a, CAP) /\ a.items = Tail(v.items)
          /\ a.tail = v.tail /\ a.top = v.top /\ a.updates = v.updates
          /\ FP!Last(a.nodes) = L
          /\ \/ d = 0 /\ a.nodes = v.nodes
             \/ /\ d = Head(v.nodes) /\ d \in FP!Page
                /\ a.nodes = Tail(v.nodes) /\ Len(v.nodes) >= 2
        BY <1>1, <1>2, <1>10, CapAssumption, FP!PopStep DEF q, L
    <2>2. x \in FP!Item /\ x \in FP!ToSet(v.items)
        BY <1>3, <2>1, CapAssumption, FP!TailSet
    <2>3. x.ptr \in FP!Page /\ FP!Taken(x.ptr, v, m) /\ x.ptr \in FP!Owned(v)
        BY <2>1, <2>2 DEF FP!Taken, FP!ItemSet, FP!Item, FP!Owned, FP!Ptrs, FP!PtrSet
    <2>4. x.ptr \in Pages
        BY <1>1, <2>3, OwnedPages DEF FP!Page
    <2>5. next = x.ptr /\ got = popped.u
        BY <1>7, <1>10, <2>1
    <2>6. w = IF d # 0 THEN FP!append_item(lw, d, u.version) ELSE lw
        BY <1>10, <2>1 DEF FP!link_tail, w, q, m, L
    <2>7. a.updates \cup {L} \in SUBSET FP!Page /\ a.top # 0 /\ a.tail = 0
        BY <1>2, <1>3, <1>5, <2>1
    <2>8. /\ FP!Unshared(a) /\ x.ptr \notin FP!Owned(a)
        <3>1. \/ FP!GivesUp(v, a, x.ptr, {})
              \/ FP!GivesUp(v, a, x.ptr, {Head(v.nodes)})
            BY <1>1, <2>1, CapAssumption, FP!PopKeeps
        <3> QED  BY <3>1 DEF FP!GivesUp
    <2> HIDE DEF next, got, a, d, x
    <2>9. FP!Linked(a, x.ptr, a.updates \cup {L}, lw)
        BY <2>1, <2>3, <2>7, CapAssumption, FP!LinkNode
    <2>10. FP!Linked(a, x.ptr, a.updates \cup {FP!Last(a.nodes)}, lw)
        BY <2>1, <2>9
    <2>11. Sim(lu, lw) /\ Rest(got, lu) /\ FP!Wrote(got.pages, FP!Last(a.nodes), CAP, x.ptr, lu.pages)
        <3>1. Sim(got, a) /\ FP!IsInjective(a.nodes)
            BY <1>7, <2>5, <2>8 DEF a, FP!Unshared
        <3> QED  BY <2>1, <2>4, <2>5, <2>7, <2>10, <3>1, LinkSim
    <2>12. Rest(u, lu) /\ FP!Wrote(u.pages, L, CAP, x.ptr, lu.pages) /\ got.pages = u.pages
        BY <1>7, <2>1, <2>5, <2>11 DEF Rest
    <2>13. /\ lw \in FP!Space /\ FP!Filled(lw) /\ lw.tail = 0 /\ lw.items = a.items
           /\ lw.nodes = Append(a.nodes, x.ptr)
        BY <2>9 DEF FP!Linked
    <2>14. FP!Last(lw.nodes) = x.ptr
        <3>1. a.nodes \in Seq(FP!Page)
            BY <2>1, CapAssumption, FP!SpaceParts
        <3> QED  BY <2>3, <2>13, <3>1, CapAssumption, FP!AppendSet
    <2>15. CAP <= CAP /\ FP!Ends(v, CAP, v, CAP, m)
        BY CapAssumption DEF FP!Ends
    <2> HIDE DEF lw, lu
    <2>16. CASE d = 0
        <3>1. t = lu /\ w = lw
            BY <1>8, <2>6, <2>16 DEF d
        <3>2. FP!Ends(v, CAP, w, w.tail, m)
            BY <2>3, <2>14, <3>1 DEF FP!Ends
        <3>3. FP!Moves(u.pages, v, CAP, t.pages, w, w.tail, m)
            BY <2>12, <2>15, <3>1, <3>2, CapAssumption, FP!MovesWrote DEF L
        <3> QED  BY <2>11, <2>12, <3>1, <3>3 DEF Step, t, w, m
    <2>17. CASE d # 0
        <3>1. d \in FP!Page
            BY <2>1, <2>17
        <3>2. t = append_item(lu, d) /\ w = FP!append_item(lw, d, u.version) /\ lu.version = u.version
            BY <1>8, <2>6, <2>12, <2>17 DEF d, Rest
        <3>3. FP!IsInjective(lw.nodes)
            <4>1. FP!TakesOver(a, lw, x.ptr)
                BY <2>1, <2>3, <2>8, <2>13, CapAssumption, FP!NodeKeeps
            <4> QED  BY <4>1 DEF FP!TakesOver, FP!Unshared
        <3>4. /\ Step(lu, lw, lw.tail, t, w, lw.tail + 1)
              /\ FP!Wrote(lu.pages, FP!Last(lw.nodes), lw.tail, [ptr |-> d, ver |-> u.version], t.pages)
            BY <2>11, <2>13, <3>1, <3>2, <3>3, AppendSim
        <3>5. Sim(t, w) /\ Rest(u, t)
            BY <2>12, <3>4 DEF Step, Rest
        <3>6. FP!Last(w.nodes) = x.ptr
            <4>1. FP!Appended(lw, d, u.version, w)
                BY <1>1, <2>13, <3>1, <3>2, CapAssumption, FP!AppendStep
            <4> QED  BY <2>14, <4>1 DEF FP!Appended
        <3>7. FP!Replaced(lu.pages, x.ptr, t.pages)
            BY <2>14, <3>4 DEF FP!Wrote, FP!Replaced
        <3>8. FP!Ends(v, CAP, w, w.tail, m)
            BY <2>3, <3>6 DEF FP!Ends
        <3>9. FP!Moves(u.pages, v, CAP, lu.pages, v, CAP, m)
            BY <2>12, <2>15, CapAssumption, FP!MovesWrote DEF L
        <3>10. FP!Moves(lu.pages, v, CAP, t.pages, w, w.tail, m)
            BY <2>3, <3>7, <3>8, CapAssumption, FP!MovesReplaced
        <3>11. FP!Moves(u.pages, v, CAP, t.pages, w, w.tail, m)
            BY <3>9, <3>10, CapAssumption, FP!MovesTwice
        <3> QED  BY <3>5, <3>11 DEF Step, t, w, m
    <2> QED  BY <2>16, <2>17
<1> QED  BY <1>9, <1>10

\* What an operation needs of the update u, at v.
Ready(u, v) ==
    /\ Sim(u, v) /\ FP!Filled(v) /\ FP!Unshared(v) /\ FP!Below(v)
    /\ v.top <= MaxPage /\ u.version >= u.min_reader

\* FreeList::push_tail is the queue's push_tail.
LEMMA PushSim ==
    ASSUME NEW u, NEW v, Ready(u, v), NEW p \in FP!Page, p \notin FP!Owned(v), p < v.top
    PROVE  LET w == FP!push_tail(v, p, u.version, u.min_reader)
           IN  Step(u, v, v.tail, push_tail(u, p), w, w.tail)
<1> DEFINE m == u.min_reader
           a == FP!append_item(v, p, u.version)
           b == append_item(u, p)
           w == FP!push_tail(v, p, u.version, m)
           t == push_tail(u, p)
           x == [ptr |-> p, ver |-> u.version]
<1>1. /\ Sim(u, v) /\ FP!Filled(v) /\ FP!Unshared(v) /\ FP!Below(v) /\ v.top <= MaxPage
      /\ u.version >= m /\ FP!IsInjective(v.nodes)
    BY DEF Ready, FP!Unshared
<1>2. /\ v \in FP!Space /\ m \in Nat /\ u.version \in Nat /\ DOMAIN u.pages = Pages /\ Pages \subseteq Nat
      /\ v.tail \in 0 .. CAP - 1
    <2>1. v \in FP!Space /\ m \in Nat /\ u.version \in Nat /\ DOMAIN u.pages = Pages /\ Pages \subseteq Nat
        BY <1>1, SimParts
    <2> QED  BY <2>1, CapAssumption, FP!SpaceParts
<1>3. Step(u, v, v.tail, b, a, v.tail + 1)
    BY <1>1, AppendSim
<1>4. Sim(b, a) /\ Rest(u, b) /\ FP!Moves(u.pages, v, v.tail, b.pages, a, v.tail + 1, m)
    BY <1>3 DEF Step
<1>5. seq_to_idx(b.state.tail_seq) = a.tail
    BY <1>4, SimParts DEF Points
<1>6. t = IF a.tail # 0 THEN b ELSE link_tail(b)
    BY <1>5 DEF push_tail
<1>7. w = IF a.tail # 0 THEN a ELSE FP!link_tail(a, u.version, m)
    BY DEF FP!push_tail
<1>8. a \in FP!Space /\ (a.tail = 0 => FP!FullTail(a, m)) /\ FP!Evolves(v, a, u.version, m)
    BY <1>1, <1>2, CapAssumption, FP!AppendFills, FP!AppendEvolves
<1>9. /\ a.tail = FP!NextSlot(v.tail) /\ a.top = v.top /\ a.nodes = v.nodes /\ a.nodes # <<>>
      /\ a.items = Append(v.items, x)
    <2>1. FP!Appended(v, p, u.version, a)
        BY <1>1, <1>2, CapAssumption, FP!AppendStep
    <2> QED  BY <1>1, <2>1 DEF FP!Appended, FP!Filled
<1> HIDE DEF m, a, b, w, t, x
<1>10. CASE a.tail # 0
    <2>1. a.tail = v.tail + 1
        BY <1>2, <1>9, <1>10, CapAssumption DEF FP!NextSlot
    <2> QED  BY <1>3, <1>6, <1>7, <1>10, <2>1 DEF t, w, m
<1>11. CASE a.tail = 0
    <2>1. v.tail + 1 = CAP
        BY <1>2, <1>9, <1>11, CapAssumption DEF FP!NextSlot
    <2>2. FP!TakesOver(v, a, x.ptr) /\ x.ptr = p
        <3>1. x \in FP!Item /\ x.ptr = p
            BY <1>2 DEF FP!Item, x
        <3> QED  BY <1>1, <1>2, <1>9, <3>1, CapAssumption, FP!AppendKeeps
    <2>3. FP!Unshared(a) /\ FP!Below(a)
        BY <1>1, <1>9, <2>2 DEF FP!TakesOver, FP!Below
    <2>4. b.version = u.version /\ b.min_reader = m /\ a.top <= MaxPage
        BY <1>1, <1>4, <1>9 DEF Rest, m
    <2>5. Step(b, a, CAP, t, w, w.tail)
        BY <1>1, <1>4, <1>6, <1>7, <1>8, <1>11, <2>3, <2>4, LinkTailSim
    <2>6. Sim(t, w) /\ Rest(b, t) /\ FP!Moves(b.pages, a, CAP, t.pages, w, w.tail, m)
        BY <2>4, <2>5 DEF Step
    <2>7. w \in FP!Space /\ w.nodes # <<>> /\ w.tail \in 0 .. CAP /\ v.tail \in 0 .. CAP /\ CAP \in 0 .. CAP
        <3>1. w \in FP!Space /\ w.nodes # <<>>
            BY <2>6, SimParts
        <3>2. w.tail \in 0 .. CAP - 1
            BY <3>1, CapAssumption, FP!SpaceParts
        <3> QED  BY <1>2, <3>1, <3>2, CapAssumption
    <2>8. FP!Evolves(v, a, u.version, u.min_reader) /\ u.version >= u.min_reader
        BY <1>1, <1>8 DEF m
    <2>9. Step(u, v, v.tail, b, a, CAP)
        BY <1>3, <2>1 DEF a, b
    <2> QED  BY <1>1, <2>5, <2>7, <2>8, <2>9, StepTrans DEF t, w, m
<1> QED  BY <1>10, <1>11

\* FreeList::pop_head is the queue's pop_head.
LEMMA PopHeadSim ==
    ASSUME NEW u, NEW v, Ready(u, v)
    PROVE  LET r == pop_head(u)
               e == FP!pop_head(v, u.version, u.min_reader)
           IN  r.ptr = e.ptr /\ Step(u, v, v.tail, r.u, e.space, e.space.tail)
<1> DEFINE m == u.min_reader
           q == FP!pop(v, m)
           popped == pop(u)
           d == q.drained_head
           r == pop_head(u)
           e == FP!pop_head(v, u.version, m)
<1>1. /\ Sim(u, v) /\ FP!Filled(v) /\ FP!Unshared(v) /\ FP!Below(v) /\ v.top <= MaxPage
      /\ u.version >= m
    BY DEF Ready
<1>2. /\ v \in FP!Space /\ v.nodes # <<>> /\ m \in Nat /\ u.version \in Nat
      /\ DOMAIN u.pages = Pages /\ Pages \subseteq Nat
    BY <1>1, SimParts
<1>3. /\ v.tail \in 0 .. CAP - 1 /\ v.tail \in 0 .. CAP /\ v.tail # CAP /\ FP!Slots(v, v.tail)
      /\ v.tail <= v.tail /\ v.nodes \in Seq(FP!Page) /\ v.top \in Nat
    <2>1. v.tail \in 0 .. CAP - 1 /\ v.nodes \in Seq(FP!Page) /\ v.top \in Nat
        BY <1>2, CapAssumption, FP!SpaceParts
    <2>2. FP!Slots(v, v.tail)
        BY <1>1, Zenon DEF FP!Filled, FP!Slots
    <2> QED  BY <2>1, <2>2, CapAssumption
<1>4. PopDone(u, v, popped)
    BY <1>1, <1>3, PopSim
<1>5. /\ popped.ptr = q.ptr /\ popped.drained_head = d
      /\ Sim(popped.u, q.space) /\ Rest(u, popped.u) /\ popped.u.pages = u.pages
    BY <1>4 DEF PopDone
<1>6. /\ r.ptr = q.ptr /\ r.u = IF d # 0 THEN push_tail(popped.u, d) ELSE popped.u
    BY <1>5 DEF pop_head
<1>7. /\ e.ptr = q.ptr
      /\ e.space = IF d # 0 THEN FP!push_tail(q.space, d, u.version, m) ELSE q.space
    BY DEF FP!pop_head
<1>8. CASE q.ptr = 0
    <2>1. d = 0 /\ q.space = v
        BY <1>2, <1>8, CapAssumption, FP!PopNone
    <2> HIDE DEF m, q, popped, d, r, e
    <2>2. FP!Moves(u.pages, v, v.tail, r.u.pages, v, v.tail, m)
        <3>1. FP!Ends(v, v.tail, v, v.tail, m)
            BY <1>3 DEF FP!Ends
        <3>2. r.u.pages = u.pages
            BY <1>5, <1>6, <2>1
        <3> QED  BY <3>1, <3>2, CapAssumption, FP!MovesNothing
    <2> QED  BY <1>5, <1>6, <1>7, <2>1, <2>2 DEF Step, m, r, e
<1>9. CASE q.ptr # 0
    <2> DEFINE a == q.space
    <2>1. /\ v.items # <<>> /\ a \in FP!Space /\ a.nodes # <<>> /\ a.items = Tail(v.items)
          /\ a.tail = v.tail /\ a.top = v.top /\ FP!Last(a.nodes) = FP!Last(v.nodes)
          /\ \/ d = 0 /\ a.nodes = v.nodes
             \/ /\ d = Head(v.nodes) /\ d \in FP!Page
                /\ a.nodes = Tail(v.nodes) /\ Len(v.nodes) >= 2
        BY <1>2, <1>3, <1>9, CapAssumption, FP!PopStep
    <2>2. FP!Filled(a) /\ FP!Evolves(v, a, u.version, m)
        BY <1>1, <1>2, <1>9, CapAssumption, FP!PopEvolves
    <2>3. \/ d = 0 /\ FP!GivesUp(v, a, Head(v.items).ptr, {})
          \/ d = Head(v.nodes) /\ FP!GivesUp(v, a, Head(v.items).ptr, {Head(v.nodes)})
        BY <1>1, <1>2, <2>1, CapAssumption, FP!PopKeeps
    <2> HIDE DEF m, q, popped, d, r, e, a
    <2>4. FP!Unshared(a) /\ FP!Below(a)
        BY <1>1, <2>1, <2>3 DEF FP!GivesUp, FP!Below
    <2>5. FP!Moves(u.pages, v, v.tail, popped.u.pages, a, v.tail, m)
        <3>1. FP!Ends(v, v.tail, a, v.tail, m)
            BY <1>3, <2>1 DEF FP!Ends
        <3> QED  BY <1>5, <3>1, CapAssumption, FP!MovesNothing
    <2>6. CASE d = 0
        <3>1. r.u = popped.u /\ e.space = a
            BY <1>6, <1>7, <2>6 DEF a
        <3> QED  BY <1>5, <1>6, <1>7, <2>1, <2>5, <3>1 DEF Step, m, r, e, a
    <2>7. CASE d # 0
        <3>1. r.u = push_tail(popped.u, d) /\ e.space = FP!push_tail(a, d, u.version, m)
            BY <1>6, <1>7, <2>7 DEF a
        <3>2. d \in FP!Page /\ d \in FP!Owned(v) /\ d \notin FP!Owned(a)
            <4>1. d = Head(v.nodes) /\ d \in FP!Page /\ FP!GivesUp(v, a, Head(v.items).ptr, {d})
                BY <2>1, <2>3, <2>7
            <4> QED  BY <4>1 DEF FP!GivesUp
        <3>3. d < a.top
            BY <1>1, <2>1, <3>2 DEF FP!Below
        <3>4. popped.u.version = u.version /\ popped.u.min_reader = m
            BY <1>5 DEF Rest, m
        <3>5. Ready(popped.u, a)
            BY <1>1, <1>5, <2>1, <2>2, <2>4, <3>4 DEF Ready, a
        <3>6. Step(popped.u, a, a.tail, r.u, e.space, e.space.tail)
            BY <3>1, <3>2, <3>3, <3>4, <3>5, PushSim
        <3>7. /\ Sim(r.u, e.space) /\ Rest(popped.u, r.u)
              /\ FP!Moves(popped.u.pages, a, v.tail, r.u.pages, e.space, e.space.tail, m)
            BY <2>1, <3>4, <3>6 DEF Step
        <3>8. e.space \in FP!Space /\ e.space.nodes # <<>> /\ e.space.tail \in 0 .. CAP
            <4>1. e.space \in FP!Space /\ e.space.nodes # <<>>
                BY <3>7, SimParts
            <4>2. e.space.tail \in 0 .. CAP - 1
                BY <4>1, CapAssumption, FP!SpaceParts
            <4> QED  BY <4>1, <4>2, CapAssumption
        <3>9. Step(u, v, v.tail, popped.u, a, v.tail)
            BY <1>5, <2>5 DEF Step, m, a
        <3>10. FP!Evolves(v, a, u.version, u.min_reader) /\ u.version >= u.min_reader
            BY <1>1, <2>2 DEF m
        <3>11. Step(popped.u, a, v.tail, r.u, e.space, e.space.tail)
            BY <2>1, <3>6
        <3>12. Step(u, v, v.tail, r.u, e.space, e.space.tail)
            BY <1>1, <1>3, <3>8, <3>9, <3>10, <3>11, StepTrans
        <3> QED  BY <1>6, <1>7, <3>12 DEF m, r, e
    <2> QED  BY <2>6, <2>7
<1> QED  BY <1>8, <1>9

\* KVTX::page_new is the queue's page_new.
LEMMA PageNewSim ==
    ASSUME NEW u, NEW v, Ready(u, v)
    PROVE  LET r == page_new(u)
               e == FP!page_new(v, u.version, u.min_reader)
           IN  r.ptr = e.ptr /\ Step(u, v, v.tail, r.u, e.space, e.space.tail)
<1> DEFINE m == u.min_reader
           got == pop_head(u)
           b == got.u
           h == FP!pop_head(v, u.version, m)
           a == h.space
           ptr == IF got.ptr # 0 THEN got.ptr ELSE u.top
           o == IF got.ptr # 0 THEN b.top ELSE u.top + 1
           U == b.updates \cup {ptr}
           r == page_new(u)
           e == FP!page_new(v, u.version, m)
           t == r.u
           w == e.space
<1>1. /\ Sim(u, v) /\ FP!Filled(v) /\ FP!Unshared(v) /\ FP!Below(v) /\ v.top <= MaxPage
      /\ u.version >= m
    BY DEF Ready
<1>2. /\ v \in FP!Space /\ m \in Nat /\ u.version \in Nat /\ u.top = v.top /\ u.updates = v.updates
    BY <1>1, SimParts
<1>3. got.ptr = h.ptr /\ Step(u, v, v.tail, b, a, a.tail)
    BY PopHeadSim
<1>4. Sim(b, a) /\ Rest(u, b) /\ FP!Moves(u.pages, v, v.tail, b.pages, a, a.tail, m)
    BY <1>3 DEF Step
<1>5. a \in FP!Space /\ a.top \in Nat /\ b.top = a.top /\ b.updates = a.updates
    BY <1>4, SimParts DEF FP!Space
<1>6. r.ptr = ptr /\ t = [b EXCEPT !.pages[ptr] = TreePage, !.updates = U, !.top = o]
    BY DEF page_new
<1>7. e.ptr \in FP!Page /\ FP!Taken(e.ptr, v, m) /\ FP!Filled(w) /\ w \in FP!Space
    BY <1>1, <1>2, CapAssumption, FP!PageNewStep
<1>8. e.ptr \notin FP!Owned(w) /\ FP!Unshared(w)
    BY <1>1, <1>2, CapAssumption, FP!PageNewKeeps
<1>9. e.ptr = ptr /\ w = [a EXCEPT !.top = o, !.updates = U] /\ o \in Nat
    <2>1. CASE h.ptr = 0
        <3>1. e = [ptr |-> v.top, space |-> FP!page_append(v)]
            BY <2>1 DEF FP!page_new
        <3>2. a = v
            <4> DEFINE q == FP!pop(v, m)
            <4>1. h.ptr = q.ptr /\ a = IF q.drained_head # 0
                                       THEN FP!push_tail(q.space, q.drained_head, u.version, m)
                                       ELSE q.space
                BY DEF FP!pop_head
            <4>2. q.drained_head = 0 /\ q.space = v
                BY <1>2, <2>1, <4>1, CapAssumption, FP!PopNone
            <4> QED  BY <4>1, <4>2
        <3>3. ptr = v.top /\ o = v.top + 1 /\ U = v.updates \cup {v.top}
            BY <1>2, <1>3, <1>5, <2>1, <3>2
        <3>4. e.ptr = v.top /\ w = [v EXCEPT !.top = v.top + 1, !.updates = v.updates \cup {v.top}]
            BY <3>1 DEF FP!page_append
        <3>5. o \in Nat
            BY <1>5, <3>2, <3>3
        <3> HIDE DEF h, e, a, ptr, o, U, w
        <3> QED  BY <3>2, <3>3, <3>4, <3>5, Zenon
    <2>2. CASE h.ptr # 0
        <3>1. /\ e.ptr = h.ptr /\ w = [a EXCEPT !.updates = a.updates \cup {h.ptr}]
            BY <2>2 DEF FP!page_new
        <3>2. ptr = h.ptr /\ o = a.top /\ U = a.updates \cup {h.ptr}
            BY <1>3, <1>5, <2>2
        <3> HIDE DEF h, e, a, ptr, o, U
        <3>3. [a EXCEPT !.updates = U] = [a EXCEPT !.top = a.top, !.updates = U]
            BY <1>5 DEF FP!Space
        <3> QED  BY <1>5, <3>1, <3>2, <3>3
    <2> QED  BY <2>1, <2>2
<1> HIDE DEF m, got, h, ptr, o, r, e
<1>10. /\ w.items = a.items /\ w.nodes = a.nodes /\ w.head = a.head /\ w.tail = a.tail
    BY <1>5, <1>9 DEF FP!Space
<1>11. /\ FP!IsInjective(a.nodes) /\ FP!Slots(a, a.tail) /\ a.tail \in 0 .. CAP
       /\ ptr \notin FP!Nodes(a) /\ FP!Last(w.nodes) = FP!Last(a.nodes)
    <2>1. a.tail \in 0 .. CAP - 1
        BY <1>5, CapAssumption, FP!SpaceParts
    <2>2. FP!IsInjective(a.nodes) /\ ptr \notin FP!Nodes(a)
        BY <1>8, <1>9, <1>10 DEF FP!Unshared, FP!Owned, FP!Nodes
    <2>3. FP!Slots(a, a.tail)
        BY <1>7, <1>10, Zenon DEF FP!Filled, FP!Slots
    <2> QED  BY <1>10, <2>1, <2>2, <2>3, CapAssumption
<1>12. ptr \in Pages
    <2>1. ptr \in Nat /\ ptr # 0 /\ v.top \in Nat
        BY <1>2, <1>7, <1>9 DEF FP!Page, FP!Space
    <2>2. CASE got.ptr = 0
        BY <1>1, <1>2, <2>1, <2>2, BoundsAssumption DEF ptr, Pages
    <2>3. CASE got.ptr # 0
        <3> DEFINE q == FP!pop(v, m)
        <3>1. ptr = q.ptr /\ q.ptr # 0
            BY <1>3, <2>3 DEF ptr, FP!pop_head, h
        <3>2. v.items # <<>> /\ q.ptr = Head(v.items).ptr
            BY <3>1 DEF FP!pop
        <3>3. Head(v.items) \in FP!ToSet(v.items)
            BY <1>2, <3>2, CapAssumption, FP!TailSet DEF FP!Space
        <3>4. q.ptr \in FP!Owned(v)
            BY <3>2, <3>3 DEF FP!Owned, FP!Ptrs, FP!PtrSet
        <3> QED  BY <1>1, <1>2, <2>1, <3>1, <3>4, OwnedPages
    <2> QED  BY <2>2, <2>3
<1>13. TreePage \in [Words -> Word] /\ U = b.updates \cup {ptr}
    BY WordTypes
<1> HIDE DEF a, b, U, t, w
<1>14. Sim(t, w) /\ Rest(b, t) /\ FP!Replaced(b.pages, ptr, t.pages)
    BY <1>4, <1>6, <1>9, <1>11, <1>12, <1>13, OverwriteSim
<1>15. FP!Moves(u.pages, v, v.tail, t.pages, w, w.tail, m)
    <2>1. v.tail <= v.tail
        BY <1>2, CapAssumption, FP!SpaceParts
    <2>2. FP!Moves(u.pages, v, v.tail, b.pages, v, v.tail, m)
        BY <1>4, <2>1 DEF FP!Moves, FP!Ends
    <2>3. FP!Ends(v, v.tail, w, w.tail, m)
        BY <1>4, <1>10, <1>11 DEF FP!Moves, FP!Ends
    <2>4. FP!Moves(b.pages, v, v.tail, t.pages, w, w.tail, m)
        BY <1>7, <1>9, <1>14, <2>3, CapAssumption, FP!MovesReplaced
    <2> QED  BY <2>2, <2>4, CapAssumption, FP!MovesTwice
<1>16. Rest(u, t)
    BY <1>4, <1>14 DEF Rest
<1> QED  BY <1>6, <1>9, <1>14, <1>15, <1>16 DEF Step, r, e, m, t, w

-----------------------------------------------------------------------------
(* Reading the list back *)

\* The c pages that the links lead to.
Chain(s, f, c) ==
    CHOOSE g : g = [i \in 1 .. c |-> IF i = 1 THEN s.head_page ELSE f[g[i - 1]][NextWord]]

\* Walk, with its parts named.
LEMMA WalkParts ==
    ASSUME NEW s, NEW f
    PROVE  LET first == s.head_seq - seq_to_idx(s.head_seq)
               count == (s.tail_seq - first) \div CAP + 1
               page == Chain(s, f, count)
           IN  /\ Walk(s, f).nodes = [i \in 1 .. count |-> page[i]]
               /\ Walk(s, f).items =
                     [i \in 1 .. s.tail_seq - s.head_seq |->
                        LET seq == s.head_seq + i - 1
                        IN  f[page[(seq - first) \div CAP + 1]][seq_to_idx(seq)]]
BY DEF Walk, Chain

\* The links lead from node to node.
LEMMA ChainNodes ==
    ASSUME NEW s, NEW f, NEW v \in FP!Space, v.nodes # <<>>, s.head_page = v.nodes[1],
           FP!Links(f, v.nodes)
    PROVE  \A i \in 1 .. Len(v.nodes) : Chain(s, f, Len(v.nodes))[i] = v.nodes[i]
<1> DEFINE n == Len(v.nodes)
           c == Chain(s, f, n)
           Body(g) == [i \in 1 .. n |-> IF i = 1 THEN s.head_page ELSE f[g[i - 1]][NextWord]]
           T == {i \in 0 .. n : i # 0 /\ c[i] # v.nodes[i]}
<1>1. v.nodes \in Seq(FP!Page) /\ n \in Nat \ {0}
    BY CapAssumption, FP!SpaceParts
<1>2. v.nodes = [i \in 1 .. n |-> v.nodes[i]]
    BY <1>1
<1>3. \A i \in 1 .. n : i # 1 => f[v.nodes[i - 1]][NextWord] = v.nodes[i]
    <2>1. SUFFICES ASSUME NEW i \in 1 .. n, i # 1  PROVE f[v.nodes[i - 1]][NextWord] = v.nodes[i]
        OBVIOUS
    <2>2. i - 1 \in 1 .. n - 1 /\ (i - 1) + 1 = i
        BY <1>1, <2>1
    <2>3. f[v.nodes[i - 1]][CAP] = v.nodes[(i - 1) + 1]
        BY <2>2 DEF FP!Links
    <2> QED  BY <2>2, <2>3 DEF NextWord
<1> HIDE DEF n
<1>4. v.nodes = Body(v.nodes)
    BY <1>2, <1>3
<1>5. c = Body(c)
    BY <1>4 DEF Chain
<1> HIDE DEF c
<1>6. ASSUME T # {}  PROVE FALSE
    <2>1. T \in SUBSET (0 .. n) /\ 0 \notin T
        OBVIOUS
    <2> HIDE DEF T
    <2>2. PICK i \in T : i \in 1 .. n /\ i - 1 \in 0 .. n /\ i - 1 \notin T
        BY <1>1, <1>6, <2>1, FirstFailure
    <2>3. c[i] = IF i = 1 THEN s.head_page ELSE f[c[i - 1]][NextWord]
        BY <1>5, <2>2
    <2>4. CASE i = 1
        BY <2>2, <2>3, <2>4 DEF T
    <2>5. CASE i # 1
        <3>1. c[i - 1] = v.nodes[i - 1]
            BY <2>2, <2>5 DEF T
        <3>2. c[i] = v.nodes[i]
            BY <1>3, <2>2, <2>3, <2>5, <3>1
        <3> QED  BY <2>2, <3>2 DEF T
    <2> QED  BY <2>4, <2>5
<1>7. \A i \in 1 .. n : c[i] = v.nodes[i]
    BY <1>1, <1>6
<1> QED  BY <1>7 DEF n, c

\* The node and the slot of a sequence number.
LEMMA SeqSlots ==
    ASSUME NEW s, NEW v \in FP!Space, FP!Filled(v), Points(s, v)
    PROVE  LET first == s.head_seq - seq_to_idx(s.head_seq)
           IN  /\ (s.tail_seq - first) \div CAP + 1 = Len(v.nodes)
               /\ \A i \in 1 .. Len(v.items) :
                     LET seq == s.head_seq + i - 1
                         j == (seq - first) \div CAP + 1
                     IN  /\ j \in 1 .. Len(v.nodes) /\ seq_to_idx(seq) \in 0 .. CAP - 1
                         /\ FP!Fits(i - 1, v.head, j, seq_to_idx(seq))
<1> DEFINE first == s.head_seq - seq_to_idx(s.head_seq)
           A == s.head_seq \div CAP
           L == Len(v.items)
           n == Len(v.nodes)
           h == v.head
           H == s.head_seq
<1>1. /\ h \in 0 .. CAP - 1 /\ v.tail \in 0 .. CAP - 1 /\ L \in Nat /\ n \in Nat \ {0}
      /\ FP!Fits(L, h, n, v.tail)
    BY CapAssumption, FP!SpaceParts DEF FP!Filled
<1>2. s.head_seq \in Nat /\ s.head_seq % CAP = h /\ s.tail_seq = s.head_seq + L
    BY DEF Points, State, seq_to_idx
<1>3. A \in Nat /\ s.head_seq = A * CAP + h /\ first = s.head_seq - h
    BY <1>2, CapAssumption, FP!DivMod DEF seq_to_idx
<1>4. A * CAP \in Nat
    BY <1>3, CapAssumption
<1> HIDE DEF first, A, L, n, h, H
<1>5. (s.tail_seq - first) \div CAP + 1 = n
    <2>1. s.tail_seq - first = (n - 1) * CAP + v.tail
        <3>1. L + h = (n - 1) * CAP + v.tail
            BY <1>1 DEF FP!Fits
        <3>2. s.tail_seq - first = L + h
            BY <1>1, <1>2, <1>3, <1>4, CapAssumption
        <3> QED  BY <3>1, <3>2
    <2>2. n - 1 \in Nat
        BY <1>1
    <2>3. ((n - 1) * CAP + v.tail) \div CAP = n - 1
        BY <1>1, <2>2, CapAssumption, FP!UniqueDiv
    <2> QED  BY <1>1, <2>1, <2>3
<1>6. ASSUME NEW i \in 1 .. L
      PROVE  LET seq == s.head_seq + i - 1
                 j == (seq - first) \div CAP + 1
             IN  /\ j \in 1 .. n /\ seq_to_idx(seq) \in 0 .. CAP - 1
                 /\ FP!Fits(i - 1, h, j, seq_to_idx(seq))
    <2> DEFINE seq == s.head_seq + i - 1
               z == (i - 1) + h
               q == z \div CAP
               w == z % CAP
    <2>1. z \in Nat /\ seq - first = z /\ seq = A * CAP + z
        BY <1>1, <1>2, <1>3, <1>4, CapAssumption
    <2>2. w \in 0 .. CAP - 1 /\ q \in Nat /\ z = q * CAP + w
        BY <2>1, CapAssumption, FP!DivMod
    <2>3. v.tail \in 0 .. CAP
        BY <1>1, CapAssumption
    <2>4. q + 1 \in 1 .. n /\ FP!Fits(i - 1, h, q + 1, w)
        BY <1>1, <2>3, CapAssumption, FP!SlotOf
    <2> HIDE DEF q, w, z, seq
    <2>5. seq_to_idx(seq) = w
        <3>1. seq = (A + q) * CAP + w /\ A + q \in Nat
            BY <1>3, <2>1, <2>2, CapAssumption
        <3> QED  BY <2>2, <3>1, CapAssumption, FP!UniqueDiv DEF seq_to_idx
    <2>6. (seq - first) \div CAP + 1 = q + 1
        BY <2>1 DEF q
    <2> QED  BY <2>2, <2>4, <2>5, <2>6 DEF seq
<1> QED  BY <1>5, <1>6 DEF first, n, L, h

\* Pages that hold a queue are read as that queue.
LEMMA WalkQueue ==
    ASSUME NEW s, NEW f, NEW v \in FP!Space, FP!Filled(v), Points(s, v), FP!Holds(f, v)
    PROVE  Walk(s, f).nodes = v.nodes /\ Walk(s, f).items = v.items
<1> DEFINE first == s.head_seq - seq_to_idx(s.head_seq)
           n == Len(v.nodes)
           L == Len(v.items)
           page == Chain(s, f, n)
           Seqs(i) == s.head_seq + i - 1
           Nth(i) == (Seqs(i) - first) \div CAP + 1
<1>1. /\ (s.tail_seq - first) \div CAP + 1 = n
      /\ \A i \in 1 .. L : /\ Nth(i) \in 1 .. n /\ seq_to_idx(Seqs(i)) \in 0 .. CAP - 1
                           /\ FP!Fits(i - 1, v.head, Nth(i), seq_to_idx(Seqs(i)))
    BY SeqSlots
<1>2. /\ v.nodes \in Seq(FP!Page) /\ v.items \in Seq(FP!Item) /\ v.nodes # <<>>
      /\ L \in Nat /\ n \in Nat
    BY CapAssumption, FP!SpaceParts DEF FP!Filled
<1>3. s.tail_seq - s.head_seq = L /\ s.head_page = v.nodes[1]
    BY <1>2 DEF Points, State
<1>4. \A i \in 1 .. n : page[i] = v.nodes[i]
    BY <1>2, <1>3, ChainNodes DEF FP!Holds
<1>5. /\ Walk(s, f).nodes = [i \in 1 .. n |-> page[i]]
      /\ Walk(s, f).items = [i \in 1 .. L |-> f[page[Nth(i)]][seq_to_idx(Seqs(i))]]
    <2>1. /\ Walk(s, f).nodes =
                [i \in 1 .. (s.tail_seq - first) \div CAP + 1 |->
                    Chain(s, f, (s.tail_seq - first) \div CAP + 1)[i]]
          /\ Walk(s, f).items =
                [i \in 1 .. s.tail_seq - s.head_seq |->
                    f[Chain(s, f, (s.tail_seq - first) \div CAP + 1)[Nth(i)]][seq_to_idx(Seqs(i))]]
        BY WalkParts
    <2> QED  BY <1>1, <1>3, <2>1
<1> HIDE DEF page, n, L, Seqs, Nth, first
<1>6. ASSUME NEW i \in 1 .. L  PROVE f[page[Nth(i)]][seq_to_idx(Seqs(i))] = v.items[i]
    <2>1. f[v.nodes[Nth(i)]][seq_to_idx(Seqs(i))] = v.items[i]
        BY <1>1 DEF FP!Holds, FP!Stored, n, L
    <2> QED  BY <1>1, <1>4, <2>1
<1>7. v.nodes = [i \in 1 .. n |-> v.nodes[i]] /\ v.items = [i \in 1 .. L |-> v.items[i]]
    BY <1>2 DEF n, L
<1> QED  BY <1>4, <1>5, <1>6, <1>7

\* So is the space it is part of.
LEMMA SpaceIs ==
    ASSUME NEW c, NEW f, NEW U, NEW v \in FP!Space, FP!Filled(v), Points(c.state, v),
           FP!Holds(f, v), c.top = v.top, U = v.updates
    PROVE  SpaceOf(c, f, U) = v
<1>1. Walk(c.state, f).nodes = v.nodes /\ Walk(c.state, f).items = v.items
    BY WalkQueue
<1>2. seq_to_idx(c.state.head_seq) = v.head /\ seq_to_idx(c.state.tail_seq) = v.tail
    BY DEF Points
<1>3. SpaceOf(c, f, U) = [items |-> v.items, nodes |-> v.nodes, head |-> v.head, tail |-> v.tail,
                          top |-> v.top, updates |-> v.updates]
    BY <1>1, <1>2 DEF SpaceOf
<1> QED  BY <1>3 DEF FP!Space

\* LiveWords are the queue's live words.
LEMMA WordsLive ==
    ASSUME NEW s, NEW f, NEW v \in FP!Space, FP!Filled(v), Points(s, v), FP!Holds(f, v),
           NEW x \in LiveWords(s, f)
    PROVE  FP!LiveWord(v, x[1], x[2])
<1> DEFINE first == s.head_seq - seq_to_idx(s.head_seq)
           n == Len(v.nodes)
           L == Len(v.items)
<1>1. Walk(s, f).nodes = v.nodes
    BY WalkQueue
<1>2. \/ \E i \in 1 .. n - 1 : x = <<v.nodes[i], NextWord>>
      \/ \E seq \in s.head_seq .. s.tail_seq - 1 :
            x = <<v.nodes[(seq - first) \div CAP + 1], seq_to_idx(seq)>>
    BY <1>1 DEF LiveWords
<1>3. L \in Nat /\ s.head_seq \in Nat /\ s.tail_seq = s.head_seq + L
    BY CapAssumption, FP!SpaceParts DEF Points, State
<1>4. CASE \E i \in 1 .. n - 1 : x = <<v.nodes[i], NextWord>>
    BY <1>4 DEF FP!LiveWord, NextWord
<1>5. CASE \E seq \in s.head_seq .. s.tail_seq - 1 :
            x = <<v.nodes[(seq - first) \div CAP + 1], seq_to_idx(seq)>>
    <2>1. PICK seq \in s.head_seq .. s.tail_seq - 1 :
            x = <<v.nodes[(seq - first) \div CAP + 1], seq_to_idx(seq)>>
        BY <1>5
    <2> DEFINE i == (seq - s.head_seq) + 1
               j == (seq - first) \div CAP + 1
    <2>2. i \in 1 .. L /\ s.head_seq + i - 1 = seq
        BY <1>3
    <2>3. /\ j \in 1 .. n /\ seq_to_idx(seq) \in 0 .. CAP - 1
          /\ FP!Fits(i - 1, v.head, j, seq_to_idx(seq))
        <3>1. \A k \in 1 .. L :
                 LET z == s.head_seq + k - 1
                     m == (z - first) \div CAP + 1
                 IN  /\ m \in 1 .. n /\ seq_to_idx(z) \in 0 .. CAP - 1
                     /\ FP!Fits(k - 1, v.head, m, seq_to_idx(z))
            BY SeqSlots
        <3> HIDE DEF i, first, n, L
        <3> QED  BY <2>2, <3>1
    <2>4. x[1] = v.nodes[j] /\ x[2] = seq_to_idx(seq)
        BY <2>1
    <2> HIDE DEF i, j
    <2> QED  BY <2>2, <2>3, <2>4, Zenon DEF FP!LiveWord
<1> QED  BY <1>2, <1>4, <1>5

-----------------------------------------------------------------------------
(* The invariant *)

\* A committed version: version_, free_, flushed_ and the pages in use.
Versions == [version : Nat, state : State, top : Nat, used : SUBSET Nat]

\* The queues of a version and of an update.
List(c, f) == SpaceOf(c, f, {})
RunList(u) == SpaceOf(u, u.pages, u.updates)

\* The pages f hold the list v of c: it is well formed, and with the pages in
\* use it accounts for every page.
Sound(c, f, v) ==
    /\ v \in FP!Space /\ FP!Filled(v) /\ FP!Partitioned(c.used, v)
    /\ c.top = v.top /\ v.top <= MaxPage
    /\ Points(c.state, v) /\ FP!Holds(f, v)

\* Whoever goes on from v leaves the list s of a version alone.
Safe(v, s, version) ==
    FP!Guarded(v, s, version) /\ FP!Inside(s, v.top) /\ FP!TailKept(v, v.tail, s)

\* A version m that a crash may bring back, when l is the latest.
MetaOK(m, l, f) ==
    /\ Sound(m, f, List(m, f))
    /\ m.version <= l.version
    /\ Safe(List(l, f), List(m, f), m.version)

\* The running update u, against such a version.
RunOK(u, m, f) ==
    /\ u.min_reader <= m.version
    /\ Safe(RunList(u), List(m, f), m.version)
    /\ FP!SameWords(List(m, f), f, u.pages)

MetasInv ==
    /\ latest \in metas /\ metas \subseteq Versions
    /\ \A m \in metas : MetaOK(m, latest, file)

RunInv ==
    /\ ~run.on => run = NoRun
    /\ run.on => /\ Sound(run, run.pages, RunList(run))
                 /\ run.version = latest.version
                 /\ \A m \in metas : RunOK(run, m, file)

Inv == file \in Files /\ run \in Update /\ MetasInv /\ RunInv

-----------------------------------------------------------------------------
(* The initial state *)

EmptyList ==
    [items |-> <<>>, nodes |-> <<1>>, head |-> 0, tail |-> 0, top |-> 2, updates |-> {}]

\* Whatever the pages hold, the first state is an empty list.
LEMMA EmptySound ==
    ASSUME NEW c, c.state = EmptyState, c.top = 2, c.used = {}, NEW f
    PROVE  Sound(c, f, EmptyList) /\ List(c, f) = EmptyList
<1> DEFINE v == EmptyList
<1>1. /\ v.items = <<>> /\ v.nodes = <<1>> /\ v.head = 0 /\ v.tail = 0 /\ v.top = 2 /\ v.updates = {}
    BY DEF EmptyList
<1>2. Len(<<>>) = 0 /\ Len(<<1>>) = 1 /\ <<1>>[1] = 1
    OBVIOUS
<1>3. v \in FP!Space
    <2>1. <<>> \in Seq(FP!Item) /\ <<1>> \in Seq(FP!Page) /\ 0 \in 0 .. CAP - 1
        BY CapAssumption DEF FP!Page
    <2> QED  BY <2>1 DEF EmptyList, FP!Space
<1> HIDE DEF v
<1>4. FP!Filled(v)
    <2>1. FP!Fits(0, 0, 1, 0)
        BY CapAssumption DEF FP!Fits
    <2> QED  BY <1>1, <1>2, <2>1 DEF FP!Filled
<1>5. FP!Partitioned({}, v)
    <2>1. FP!Nodes(v) = {1} /\ FP!Ptrs(v) = {}
        BY <1>1 DEF FP!Nodes, FP!Ptrs, FP!PtrSet, FP!ToSet
    <2>2. FP!Distinct(v.items) /\ FP!IsInjective(v.nodes)
        BY <1>1 DEF FP!Distinct, FP!IsInjective
    <2>3. 1 .. v.top - 1 = {1}
        BY <1>1
    <2> QED  BY <2>1, <2>2, <2>3 DEF FP!Partitioned, FP!Unshared
<1>6. seq_to_idx(0) = 0
    BY CapAssumption DEF seq_to_idx
<1>7. FP!Last(v.nodes) = 1
    BY <1>1, <1>2 DEF FP!Last
<1>8. Points(c.state, v)
    BY <1>1, <1>2, <1>6, <1>7 DEF Points, EmptyState, State
<1>9. FP!Holds(f, v)
    BY <1>1, <1>2 DEF FP!Holds, FP!Links, FP!Stored
<1>10. Sound(c, f, v)
    BY <1>1, <1>3, <1>4, <1>5, <1>8, <1>9, BoundsAssumption DEF Sound
<1>11. List(c, f) = v
    BY <1>1, <1>3, <1>4, <1>8, <1>9, SpaceIs DEF List
<1> QED  BY <1>10, <1>11 DEF v

\* A list against itself.
LEMMA SelfOK ==
    ASSUME NEW m, NEW f, m.version \in Nat, Sound(m, f, List(m, f))
    PROVE  MetaOK(m, m, f)
<1>1. Safe(List(m, f), List(m, f), m.version)
    BY CapAssumption, FP!SelfGuarded DEF Sound, Safe
<1> QED  BY <1>1 DEF MetaOK

\* No update runs.
LEMMA NoRunTypes == NoRun \in Update /\ ~NoRun.on /\ RunList(NoRun) = EmptyList
<1>1. EmptyState \in State /\ [p \in Pages |-> ZeroPage] \in Files
    BY WordTypes DEF EmptyState, State, Files
<1>2. NoRun \in Update /\ ~NoRun.on
    BY <1>1 DEF NoRun, Update
<1>3. /\ NoRun.state = EmptyState /\ NoRun.top = 2 /\ NoRun.used = {} /\ NoRun.updates = {}
    BY DEF NoRun
<1>4. List(NoRun, NoRun.pages) = EmptyList
    BY <1>3, EmptySound
<1> QED  BY <1>2, <1>3, <1>4 DEF List, RunList

\* An empty store.
LEMMA InvInit == Init => Inv
<1> SUFFICES ASSUME Init  PROVE Inv
    OBVIOUS
<1>1. /\ latest = [version |-> 0, state |-> EmptyState, top |-> 2, used |-> {}]
      /\ metas = {latest} /\ run = NoRun /\ file = [p \in Pages |-> ZeroPage]
    BY DEF Init
<1>2. latest \in Versions /\ file \in Files
    BY <1>1, WordTypes DEF Versions, EmptyState, State, Files
<1>3. Sound(latest, file, List(latest, file))
    BY <1>1, EmptySound
<1>4. MetaOK(latest, latest, file)
    BY <1>2, <1>3, SelfOK DEF Versions
<1>5. MetasInv
    BY <1>1, <1>2, <1>4 DEF MetasInv
<1> QED  BY <1>1, <1>2, <1>5, NoRunTypes DEF Inv, RunInv

-----------------------------------------------------------------------------
(* The steps *)

\* What a list in the pages offers to the operations.
LEMMA SoundParts ==
    ASSUME NEW c, NEW f, NEW v, Sound(c, f, v)
    PROVE  /\ v \in FP!Space /\ FP!Filled(v) /\ v.nodes # <<>> /\ FP!Nodes(v) \subseteq Pages
           /\ FP!Unshared(v) /\ FP!IsInjective(v.nodes) /\ FP!Below(v)
           /\ v.top \in Nat /\ 1 <= v.top /\ v.top <= MaxPage /\ v.tail \in 0 .. CAP
           /\ FP!Partitioned(c.used, v)
           /\ \A p \in c.used : p \in FP!Page /\ p \notin FP!Owned(v) /\ p < v.top
<1>1. /\ v \in FP!Space /\ FP!Filled(v) /\ FP!Partitioned(c.used, v) /\ v.top <= MaxPage
    BY DEF Sound
<1>2. v.top \in Nat /\ v.tail \in 0 .. CAP /\ v.nodes # <<>> /\ 1 <= v.top
    BY <1>1, CapAssumption, FP!SpaceParts DEF FP!Filled
<1>3. /\ FP!Unshared(v) /\ FP!Below(v) /\ FP!IsInjective(v.nodes)
      /\ \A p \in c.used : p \notin FP!Owned(v) /\ p < v.top
    BY <1>1, <1>2, CapAssumption, FP!PartitionedBelow DEF FP!Unshared
<1>4. c.used \cup FP!Nodes(v) \cup FP!Ptrs(v) = 1 .. v.top - 1
    BY <1>1 DEF FP!Partitioned
<1>5. 1 .. v.top - 1 \subseteq Pages /\ 1 .. v.top - 1 \subseteq FP!Page
    BY <1>1, <1>2, BoundsAssumption DEF Pages, FP!Page
<1> QED  BY <1>1, <1>2, <1>3, <1>4, <1>5

\* The space of an update or of a version has its top and its updates.
LEMMA SpaceFields ==
    ASSUME NEW c, NEW f, NEW U
    PROVE  SpaceOf(c, f, U).top = c.top /\ SpaceOf(c, f, U).updates = U
BY DEF SpaceOf

\* A running update can go on.
LEMMA RunReady ==
    ASSUME Inv, run.on
    PROVE  /\ Ready(run, RunList(run)) /\ Sound(run, run.pages, RunList(run))
           /\ run.version = latest.version /\ latest.version \in Nat
<1> DEFINE v == RunList(run)
<1>1. /\ run \in Update /\ Sound(run, run.pages, v) /\ run.version = latest.version
      /\ latest \in metas /\ latest \in Versions /\ RunOK(run, latest, file)
    BY DEF Inv, RunInv, MetasInv
<1>2. /\ v.top = run.top /\ v.updates = run.updates
    BY SpaceFields DEF RunList
<1>3. latest.version \in Nat /\ run.version >= run.min_reader
    BY <1>1 DEF Versions, Update, RunOK
<1> HIDE DEF v
<1>4. Sim(run, v)
    BY <1>1, <1>2, SoundParts DEF Sim, Represents, Sound
<1> QED  BY <1>1, <1>3, <1>4, SoundParts DEF Ready, v

\* A list survives writes that keep its words.
LEMMA KeptList ==
    ASSUME NEW m, NEW f, NEW g, Sound(m, f, List(m, f)), FP!SameWords(List(m, f), f, g)
    PROVE  List(m, g) = List(m, f) /\ Sound(m, g, List(m, g))
<1> DEFINE v == List(m, f)
<1>1. v.updates = {}
    BY SpaceFields DEF List
<1>2. FP!Holds(f, v)
    BY DEF Sound
<1>3. FP!SameWords(v, f, g)
    OBVIOUS
<1> HIDE DEF v
<1>4. FP!Holds(g, v)
    BY <1>2, <1>3, CapAssumption, FP!HoldsSame
<1>5. Sound(m, f, v)
    BY DEF v
<1>6. Sound(m, g, v)
    BY <1>4, <1>5 DEF Sound
<1>7. List(m, g) = v
    BY <1>1, <1>6, SpaceIs DEF Sound, List
<1> QED  BY <1>6, <1>7 DEF v

\* What an operation of the running update keeps of a version's list.
LEMMA StepKeeps ==
    ASSUME NEW u, NEW v, Sim(u, v), NEW t, NEW w, Step(u, v, v.tail, t, w, w.tail),
           NEW m, NEW f, NEW s, Sound(m, f, s), NEW version \in Nat, NEW now \in Nat,
           version <= now, u.min_reader <= version, Safe(v, s, version),
           FP!SameWords(s, f, u.pages), FP!Evolves(v, w, now, u.min_reader)
    PROVE  Safe(w, s, version) /\ FP!SameWords(s, f, t.pages)
<1>1. /\ v \in FP!Space /\ DOMAIN u.pages = Pages /\ Pages \subseteq Nat /\ u.min_reader \in Nat
    BY SimParts
<1>2. /\ w \in FP!Space /\ w.nodes # <<>> 
      /\ FP!Moves(u.pages, v, v.tail, t.pages, w, w.tail, u.min_reader)
    BY SimParts DEF Step
<1>3. /\ s \in FP!Space /\ FP!Filled(s) /\ FP!IsInjective(s.nodes) /\ FP!Nodes(s) \subseteq Pages
    BY SoundParts
<1>4. /\ v.tail \in 0 .. CAP /\ w.tail \in 0 .. CAP /\ v.top \in Nat /\ w.top \in Nat
    BY <1>1, <1>2, CapAssumption, FP!SpaceParts
<1>5. FP!Guarded(v, s, version) /\ FP!Inside(s, v.top) /\ FP!TailKept(v, v.tail, s)
    BY DEF Safe
<1>6. FP!SameWords(s, u.pages, t.pages) /\ FP!TailKept(w, w.tail, s)
    BY <1>1, <1>2, <1>3, <1>4, <1>5, CapAssumption, FP!MovesKeep
<1>7. FP!Guarded(w, s, version)
    BY <1>5, CapAssumption, FP!EvolvesGuarded
<1>8. FP!Inside(s, w.top)
    <2>1. v.top <= w.top /\ FP!Nodes(s) \subseteq Nat
        BY <1>1, <1>3 DEF FP!Evolves
    <2> QED  BY <1>4, <1>5, <2>1 DEF FP!Inside
<1> QED  BY <1>6, <1>7, <1>8 DEF Safe, FP!SameWords

\* An operation of the running update that leaves it at the queue w.
LEMMA UpdateStep ==
    ASSUME Inv, run.on, UNCHANGED <<latest, metas, file>>, NEW t, NEW w, NEW used \in SUBSET Nat,
           Step(run, RunList(run), RunList(run).tail, t, w, w.tail), FP!Filled(w),
           FP!Evolves(RunList(run), w, run.version, run.min_reader), FP!Partitioned(used, w),
           w.top <= MaxPage, run' = [t EXCEPT !.used = used]
    PROVE  Inv' /\ RunList(run)' = w
<1> DEFINE v == RunList(run)
<1>1. /\ Ready(run, v) /\ run.version = latest.version /\ latest.version \in Nat /\ Sim(run, v)
    BY RunReady DEF Ready
<1>2. Sim(t, w) /\ Rest(run, t) /\ t \in Update
    BY SimParts DEF Step
<1>3. /\ run' \in Update /\ run'.used = used /\ run'.state = t.state /\ run'.pages = t.pages
      /\ run'.top = t.top /\ run'.updates = t.updates /\ run'.on = t.on
      /\ run'.version = t.version /\ run'.min_reader = t.min_reader
    BY <1>2 DEF Update
<1>4. run'.on /\ run'.version = latest'.version /\ run'.min_reader = run.min_reader
    BY <1>1, <1>2, <1>3 DEF Rest
<1>5. Sound(run', run'.pages, w)
    BY <1>2, <1>3, SimParts DEF Sound
<1>6. RunList(run') = w
    <2>1. /\ w \in FP!Space /\ Points(run'.state, w) /\ FP!Holds(run'.pages, w)
          /\ run'.top = w.top /\ run'.updates = w.updates
        BY <1>2, <1>3, SimParts
    <2>2. SpaceOf(run', run'.pages, run'.updates) = w
        BY <2>1, SpaceIs
    <2> QED  BY <2>2 DEF RunList
<1>7. ASSUME NEW m \in metas  PROVE RunOK(run', m, file)
    <2>1. /\ RunOK(run, m, file) /\ MetaOK(m, latest, file) /\ m \in Versions
        BY DEF Inv, RunInv, MetasInv
    <2>2. /\ run.min_reader <= m.version /\ Safe(v, List(m, file), m.version)
          /\ FP!SameWords(List(m, file), file, run.pages)
          /\ Sound(m, file, List(m, file)) /\ m.version <= run.version /\ m.version \in Nat
        BY <1>1, <2>1 DEF RunOK, MetaOK, Versions
    <2>3. run.version \in Nat
        BY <1>1
    <2> HIDE DEF v
    <2>4. Step(run, v, v.tail, t, w, w.tail) /\ FP!Evolves(v, w, run.version, run.min_reader)
        BY DEF v
    <2>5. Safe(w, List(m, file), m.version) /\ FP!SameWords(List(m, file), file, t.pages)
        BY <1>1, <2>2, <2>3, <2>4, StepKeeps
    <2> QED  BY <1>3, <1>4, <1>6, <2>2, <2>5 DEF RunOK
<1>8. RunInv'
    BY <1>4, <1>5, <1>6, <1>7 DEF RunInv
<1>9. MetasInv' /\ file' \in Files
    BY DEF Inv, MetasInv
<1> QED  BY <1>3, <1>6, <1>8, <1>9 DEF Inv

\* KVTX::page_new: the queue's page_new.
LEMMA PageNewInv ==
    ASSUME Inv, PageNew
    PROVE  LET e == FP!page_new(RunList(run), run.version, run.min_reader)
           IN  /\ Inv' /\ RunList(run)' = e.space /\ page_new(run).ptr = e.ptr
               /\ e.space.top <= MaxPage
               /\ run'.on /\ run'.min_reader = run.min_reader /\ run'.used = run.used \cup {e.ptr}
<1> DEFINE v == RunList(run)
           r == page_new(run)
           e == FP!page_new(v, run.version, run.min_reader)
           used == run.used \cup {e.ptr}
<1>1. /\ run.on /\ r.u.top <= MaxPage /\ run' = [r.u EXCEPT !.used = run.used \cup {r.ptr}]
      /\ UNCHANGED <<latest, metas, file>>
    BY DEF PageNew
<1>2. /\ Ready(run, v) /\ Sound(run, run.pages, v) /\ run.version = latest.version
      /\ latest.version \in Nat
    BY <1>1, RunReady
<1>3. /\ run \in Update /\ run.used \in SUBSET Nat /\ run.min_reader \in Nat
      /\ run.version >= run.min_reader /\ run.version \in Nat
    BY <1>2 DEF Inv, Update, Ready
<1>4. r.ptr = e.ptr /\ Step(run, v, v.tail, r.u, e.space, e.space.tail)
    BY <1>2, PageNewSim
<1> HIDE DEF v
<1>5. /\ v \in FP!Space /\ FP!Filled(v) /\ FP!Unshared(v) /\ FP!Below(v) /\ v.top \in Nat
      /\ 1 <= v.top /\ FP!Partitioned(run.used, v)
    BY <1>2, SoundParts
<1>6. /\ e.space \in FP!Space /\ FP!Filled(e.space) /\ e.ptr \in FP!Page
      /\ FP!Evolves(v, e.space, run.version, run.min_reader)
    BY <1>3, <1>5, CapAssumption, FP!PageNewStep
<1>7. /\ FP!Unshared(e.space) /\ e.ptr \notin FP!Owned(e.space)
      /\ FP!Owned(e.space) \cup {e.ptr} = FP!Owned(v) \cup (v.top .. e.space.top - 1)
    BY <1>3, <1>5, CapAssumption, FP!PageNewKeeps
<1>8. v.top <= e.space.top /\ e.space.top \in Nat
    BY <1>6, CapAssumption, FP!SpaceParts DEF FP!Evolves
<1> HIDE DEF r, e
<1>9. FP!Partitioned(used, e.space)
    BY <1>5, <1>7, <1>8, CapAssumption, FP!NewPartitioned
<1>10. e.space.top = r.u.top
    BY <1>4 DEF Step, Sim
<1>11. used \in SUBSET Nat
    BY <1>3, <1>6 DEF FP!Page
<1>12. run' = [r.u EXCEPT !.used = used] /\ e.space.top <= MaxPage
    BY <1>1, <1>4, <1>10
<1> HIDE DEF used
<1>13. Inv' /\ RunList(run)' = e.space
    BY <1>1, <1>4, <1>6, <1>9, <1>11, <1>12, UpdateStep DEF v
<1>14. r.u \in Update /\ Rest(run, r.u)
    BY <1>4, SimParts DEF Step
<1>15. run'.on = r.u.on /\ run'.min_reader = r.u.min_reader /\ run'.used = used
    BY <1>12, <1>14 DEF Update
<1>16. run'.on /\ run'.min_reader = run.min_reader
    BY <1>1, <1>14, <1>15 DEF Rest
<1> QED  BY <1>4, <1>12, <1>13, <1>15, <1>16 DEF e, r, v, used

\* KVTX::page_del: the queue's push_tail.
LEMMA PageDelInv ==
    ASSUME Inv, NEW p, PageDel(p)
    PROVE  LET w == FP!push_tail(RunList(run), p, run.version, run.min_reader)
           IN  /\ Inv' /\ RunList(run)' = w /\ w.top <= MaxPage
               /\ run'.on /\ run'.min_reader = run.min_reader /\ run'.used = run.used \ {p}
<1> DEFINE v == RunList(run)
           t == push_tail(run, p)
           w == FP!push_tail(v, p, run.version, run.min_reader)
           used == run.used \ {p}
<1>1. /\ run.on /\ p \in run.used /\ run' = [t EXCEPT !.used = used] /\ run'.top <= MaxPage
      /\ UNCHANGED <<latest, metas, file>>
    BY DEF PageDel
<1>2. /\ Ready(run, v) /\ Sound(run, run.pages, v) /\ run.version = latest.version
      /\ latest.version \in Nat
    BY <1>1, RunReady
<1>3. /\ run \in Update /\ used \in SUBSET Nat /\ run.min_reader \in Nat
      /\ run.version >= run.min_reader /\ run.version \in Nat
    BY <1>2 DEF Inv, Update, Ready
<1> HIDE DEF v
<1>4. /\ v \in FP!Space /\ FP!Filled(v) /\ FP!Unshared(v) /\ FP!Below(v) /\ v.top \in Nat
      /\ 1 <= v.top /\ FP!Partitioned(run.used, v)
      /\ p \in FP!Page /\ p \notin FP!Owned(v) /\ p < v.top
    BY <1>1, <1>2, SoundParts
<1>5. Step(run, v, v.tail, t, w, w.tail)
    BY <1>2, <1>4, PushSim
<1>6. /\ w \in FP!Space /\ FP!Filled(w) /\ FP!Evolves(v, w, run.version, run.min_reader)
    BY <1>3, <1>4, CapAssumption, FP!PushStep
<1>7. /\ FP!Unshared(w)
      /\ FP!Owned(w) = (FP!Owned(v) \cup {p}) \cup (v.top .. w.top - 1)
    BY <1>3, <1>4, CapAssumption, FP!PushKeeps
<1>8. v.top <= w.top /\ w.top \in Nat
    BY <1>6, CapAssumption, FP!SpaceParts DEF FP!Evolves
<1> HIDE DEF t, w
<1>9. FP!Partitioned(used, w)
    BY <1>1, <1>4, <1>7, <1>8, CapAssumption, FP!DelPartitioned
<1> HIDE DEF used
<1>10. t \in Update /\ Rest(run, t) /\ t.top = w.top
    BY <1>5, SimParts DEF Step
<1>11. /\ run'.on = t.on /\ run'.min_reader = t.min_reader /\ run'.used = used
       /\ run'.top = w.top
    BY <1>1, <1>10 DEF Update
<1>12. run'.on /\ run'.min_reader = run.min_reader /\ w.top <= MaxPage
    BY <1>1, <1>10, <1>11 DEF Rest
<1>13. Inv' /\ RunList(run)' = w
    BY <1>1, <1>3, <1>5, <1>6, <1>9, <1>12, UpdateStep DEF v
<1> QED  BY <1>11, <1>12, <1>13 DEF v, w, used

\* KV::begin: the update starts at the latest list.
LEMMA BeginInv ==
    ASSUME Inv, begin
    PROVE  Inv' /\ RunList(run)' = List(latest, file)
<1> DEFINE v == List(latest, file)
<1>1. PICK min_reader \in 0 .. latest.version :
          /\ \A m \in metas : min_reader <= m.version
          /\ run' = [on |-> TRUE, used |-> latest.used, state |-> latest.state,
                     top |-> latest.top, updates |-> {}, pages |-> file,
                     version |-> latest.version, min_reader |-> min_reader]
    BY DEF begin
<1>2. UNCHANGED <<latest, metas, file>>
    BY DEF begin
<1>3. /\ file \in Files /\ latest \in metas /\ metas \subseteq Versions
      /\ \A m \in metas : MetaOK(m, latest, file)
    BY DEF Inv, MetasInv
<1>4. /\ run'.on /\ run'.used = latest.used /\ run'.state = latest.state
      /\ run'.top = latest.top /\ run'.updates = {} /\ run'.pages = file
      /\ run'.version = latest.version /\ run'.min_reader = min_reader
    BY <1>1
<1>5. run' \in Update
    BY <1>1, <1>3 DEF Update, Versions
<1>6. RunList(run') = v
    BY <1>4 DEF RunList, List, SpaceOf
<1>7. Sound(run', run'.pages, v)
    BY <1>3, <1>4 DEF MetaOK, Sound
<1>8. ASSUME NEW m \in metas  PROVE RunOK(run', m, file)
    <2>1. Safe(v, List(m, file), m.version) /\ min_reader <= m.version
        BY <1>1, <1>3 DEF MetaOK
    <2>2. FP!SameWords(List(m, file), file, file)
        BY DEF FP!SameWords
    <2> QED  BY <1>4, <1>6, <2>1, <2>2 DEF RunOK
<1>9. RunInv'
    BY <1>2, <1>4, <1>6, <1>7, <1>8 DEF RunInv
<1>10. MetasInv' /\ file' \in Files
    BY <1>2, <1>3 DEF MetasInv
<1> QED  BY <1>5, <1>6, <1>9, <1>10 DEF Inv

\* The lists of the versions, once a running update wrote its pages or none.
LEMMA WrittenLists ==
    ASSUME Inv, run.on, NEW g, g \in {file, run.pages}
    PROVE  \A m \in metas : List(m, g) = List(m, file) /\ Sound(m, g, List(m, g))
<1> SUFFICES ASSUME NEW m \in metas
             PROVE  List(m, g) = List(m, file) /\ Sound(m, g, List(m, g))
    OBVIOUS
<1>1. Sound(m, file, List(m, file)) /\ FP!SameWords(List(m, file), file, run.pages)
    BY DEF Inv, MetasInv, RunInv, MetaOK, RunOK
<1>2. FP!SameWords(List(m, file), file, g)
    BY <1>1 DEF FP!SameWords
<1> QED  BY <1>1, <1>2, KeptList

\* FreeList::revert, a failed phase 1 or a crash in it.
LEMMA DropInv ==
    ASSUME Inv, drop
    PROVE  Inv' /\ \A m \in metas : List(m, file') = List(m, file)
<1>1. run.on /\ file' \in {file, run.pages} /\ run' = NoRun /\ UNCHANGED <<latest, metas>>
    BY DEF drop
<1>2. /\ latest \in metas /\ metas \subseteq Versions /\ \A m \in metas : MetaOK(m, latest, file)
      /\ file' \in Files
    BY <1>1 DEF Inv, MetasInv, Update
<1>3. \A m \in metas : List(m, file') = List(m, file) /\ Sound(m, file', List(m, file'))
    BY <1>1, WrittenLists
<1>4. \A m \in metas : MetaOK(m, latest, file')
    BY <1>2, <1>3 DEF MetaOK
<1>5. MetasInv' /\ RunInv'
    BY <1>1, <1>2, <1>4, NoRunTypes DEF MetasInv, RunInv
<1> QED  BY <1>1, <1>2, <1>3, <1>5, NoRunTypes DEF Inv

\* KV::commit: the running update's list is the new version's.
LEMMA CommitInv ==
    ASSUME Inv, commit
    PROVE  /\ Inv' /\ List(latest', file') = [RunList(run) EXCEPT !.updates = {}]
           /\ \A m \in metas : List(m, file') = List(m, file)
<1> DEFINE v == RunList(run)
           z == [v EXCEPT !.updates = {}]
<1>1. /\ run.on /\ file' = run.pages /\ run' = NoRun
      /\ latest' = [version |-> latest.version + 1, state |-> run.state, top |-> run.top,
                    used |-> run.used]
      /\ metas' = {latest'} \/ metas' = metas \cup {latest'}
    BY DEF commit
<1>2. /\ latest \in metas /\ metas \subseteq Versions /\ latest.version \in Nat /\ run \in Update
      /\ \A m \in metas : MetaOK(m, latest, file) /\ RunOK(run, m, file)
    BY <1>1 DEF Inv, MetasInv, RunInv, Versions
<1>3. \A m \in metas : List(m, file') = List(m, file) /\ Sound(m, file', List(m, file'))
    BY <1>1, WrittenLists
<1>4. Sound(run, run.pages, v)
    BY <1>1, RunReady
<1>5. /\ latest'.version = latest.version + 1 /\ latest'.state = run.state
      /\ latest'.top = run.top /\ latest'.used = run.used /\ latest' \in Versions
      /\ file' \in Files
    BY <1>1, <1>2 DEF Versions, Update
<1>6. v \in FP!Space
    BY <1>4, SoundParts
<1> HIDE DEF v
<1>7. /\ z \in FP!Space /\ z.items = v.items /\ z.nodes = v.nodes /\ z.head = v.head
      /\ z.tail = v.tail /\ z.top = v.top /\ z.updates = {}
    BY <1>6 DEF FP!Space
<1> HIDE DEF z
<1>8. FP!Nodes(z) = FP!Nodes(v) /\ FP!Ptrs(z) = FP!Ptrs(v) /\ FP!ItemSet(z) = FP!ItemSet(v)
    BY <1>7 DEF FP!Nodes, FP!Ptrs, FP!ItemSet
<1>9. Sound(latest', file', z)
    <2>1. FP!Filled(z) /\ FP!Partitioned(latest'.used, z)
        BY <1>4, <1>5, <1>7, <1>8, Zenon DEF Sound, FP!Filled, FP!Partitioned, FP!Unshared
    <2>2. Points(run.state, v) /\ FP!Holds(run.pages, v)
        BY <1>4 DEF Sound
    <2>3. Points(latest'.state, z)
        BY <1>5, <1>7, <2>2 DEF Points
    <2>4. FP!Holds(run.pages, z)
        <3>1. FP!Links(run.pages, v.nodes) /\ FP!Stored(run.pages, v)
            BY <2>2 DEF FP!Holds
        <3>2. FP!Links(run.pages, z.nodes)
            BY <1>7, <3>1
        <3>3. FP!Stored(run.pages, z)
            BY <1>7, <3>1 DEF FP!Stored
        <3> QED  BY <3>2, <3>3 DEF FP!Holds
    <2>5. FP!Holds(file', z)
        BY <1>1, <2>4
    <2> QED  BY <1>4, <1>5, <1>7, <2>1, <2>3, <2>5 DEF Sound
<1>10. List(latest', file') = z
    BY <1>7, <1>9, SpaceIs DEF Sound, List
<1>11. MetaOK(latest', latest', file')
    BY <1>5, <1>9, <1>10, SelfOK DEF Versions
<1>12. ASSUME NEW m \in metas  PROVE MetaOK(m, latest', file')
    <2>1. Safe(v, List(m, file'), m.version) /\ m.version <= latest.version /\ m.version \in Nat
        BY <1>2, <1>3 DEF RunOK, MetaOK, Versions, v
    <2>2. Safe(z, List(m, file'), m.version)
        BY <1>7, <1>8, <2>1, Zenon DEF Safe, FP!Guarded, FP!Inside, FP!TailKept
    <2>3. m.version <= latest'.version
        BY <1>2, <1>5, <2>1
    <2> QED  BY <1>3, <1>10, <2>2, <2>3 DEF MetaOK
<1>13. MetasInv'
    BY <1>1, <1>2, <1>5, <1>11, <1>12 DEF MetasInv
<1>14. RunInv' /\ run' \in Update
    BY <1>1, NoRunTypes DEF RunInv
<1> QED  BY <1>3, <1>5, <1>10, <1>13, <1>14 DEF Inv, v, z

\* The file is opened at a version that its meta page may hold.
LEMMA CrashInv == ASSUME Inv, crash  PROVE Inv'
<1>1. ~run.on /\ latest' \in metas /\ metas' = {latest'} /\ UNCHANGED <<run, file>>
    BY DEF crash
<1>2. /\ latest' \in Versions /\ Sound(latest', file, List(latest', file))
    BY <1>1 DEF Inv, MetasInv, MetaOK
<1>3. MetaOK(latest', latest', file)
    BY <1>2, SelfOK DEF Versions
<1>4. MetasInv'
    BY <1>1, <1>2, <1>3 DEF MetasInv
<1> QED  BY <1>1, <1>4 DEF Inv, RunInv

\* Every step.
LEMMA InvNext == Inv /\ [Next]_vars => Inv'
<1> SUFFICES ASSUME Inv, [Next]_vars  PROVE Inv'
    OBVIOUS
<1>1. CASE begin
    BY <1>1, BeginInv
<1>2. CASE PageNew
    BY <1>2, PageNewInv
<1>3. ASSUME NEW p \in run.used, PageDel(p)  PROVE Inv'
    BY <1>3, PageDelInv
<1>4. CASE commit
    BY <1>4, CommitInv
<1>5. CASE drop
    BY <1>5, DropInv
<1>6. CASE crash
    BY <1>6, CrashInv
<1>7. CASE UNCHANGED vars
    BY <1>7 DEF vars, Inv, MetasInv, RunInv
<1> QED  BY <1>1, <1>2, <1>3, <1>4, <1>5, <1>6, <1>7 DEF Next

-----------------------------------------------------------------------------
(* The theorems *)

\* Whatever the pages hold, and whichever updates failed or were interrupted,
\* the lists of the versions that the file's meta page may hold and of the
\* running update are well formed and account for every page.
THEOREM ListsSound == Spec => []Inv
BY InvInit, InvNext, PTL DEF Spec

\* An update never changes a word that a committed meta page points at: the
\* comment of FreeList in freelist.h.
THEOREM ListWordsKept == Spec => []LiveWordsKept
<1>1. Inv => LiveWordsKept
    <2> SUFFICES ASSUME Inv, run.on, NEW m \in metas \cup {latest}, NEW x \in LiveWords(m.state, file)
                 PROVE  run.pages[x[1]][x[2]] = file[x[1]][x[2]]
        BY DEF LiveWordsKept
    <2> DEFINE v == List(m, file)
    <2>1. Sound(m, file, v) /\ FP!SameWords(v, file, run.pages)
        BY DEF Inv, MetasInv, RunInv, MetaOK, RunOK
    <2> HIDE DEF v
    <2>2. FP!LiveWord(v, x[1], x[2])
        BY <2>1, WordsLive DEF Sound
    <2> QED  BY <2>1, <2>2 DEF FP!SameWords
<1> QED  BY <1>1, ListsSound, PTL

-----------------------------------------------------------------------------
(* The refinement *)

\* The operators of FreeQueueSpec are those of FreeQueue.
LEMMA SameOperators ==
    ASSUME NEW v, NEW p, NEW version, NEW m
    PROVE  /\ Queue!push_tail(v, p, version, m) = FP!push_tail(v, p, version, m)
           /\ Queue!page_new(v, version, m) = FP!page_new(v, version, m)
<1>1. \A i : Queue!NextSlot(i) = FP!NextSlot(i)
    BY DEF Queue!NextSlot, FP!NextSlot
<1>2. \A s : Queue!Last(s) = FP!Last(s)
    BY DEF Queue!Last, FP!Last
<1>3. \A w : Queue!pop(w, m) = FP!pop(w, m)
    BY <1>1 DEF Queue!pop, FP!pop
<1>4. \A w, q : Queue!append_item(w, q, version) = FP!append_item(w, q, version)
    BY <1>1, <1>2 DEF Queue!append_item, FP!append_item
<1>5. \A w : Queue!page_append(w) = FP!page_append(w)
    BY DEF Queue!page_append, FP!page_append
<1>6. \A w : Queue!link_tail(w, version, m) = FP!link_tail(w, version, m)
    <2> DEFINE Linked(w, popped, appended, last) ==
                  LET got == IF popped.ptr # 0 THEN popped.space ELSE appended
                  IN  [got EXCEPT !.nodes = Append(got.nodes, IF popped.ptr # 0 THEN popped.ptr
                                                              ELSE w.top),
                                  !.updates = got.updates \cup {last}]
    <2> SUFFICES ASSUME NEW w  PROVE Queue!link_tail(w, version, m) = FP!link_tail(w, version, m)
        OBVIOUS
    <2>1. Queue!link_tail(w, version, m) =
             LET popped == Queue!pop(w, m)
                 linked == Linked(w, popped, Queue!page_append(w), Queue!Last(w.nodes))
             IN  IF popped.drained_head # 0
                 THEN Queue!append_item(linked, popped.drained_head, version) ELSE linked
        BY Zenon DEF Queue!link_tail
    <2>2. FP!link_tail(w, version, m) =
             LET popped == FP!pop(w, m)
                 linked == Linked(w, popped, FP!page_append(w), FP!Last(w.nodes))
             IN  IF popped.drained_head # 0
                 THEN FP!append_item(linked, popped.drained_head, version) ELSE linked
        BY Zenon DEF FP!link_tail
    <2> HIDE DEF Linked
    <2> QED  BY <1>2, <1>3, <1>4, <1>5, <2>1, <2>2
<1>7. \A w, q : Queue!push_tail(w, q, version, m) = FP!push_tail(w, q, version, m)
    BY <1>4, <1>6 DEF Queue!push_tail, FP!push_tail
<1>8. \A w : Queue!pop_head(w, version, m) = FP!pop_head(w, version, m)
    BY <1>3, <1>7 DEF Queue!pop_head, FP!pop_head
<1>9. Queue!page_new(v, version, m) = FP!page_new(v, version, m)
    BY <1>5, <1>8 DEF Queue!page_new, FP!page_new
<1> QED  BY <1>7, <1>9

\* The queue's update.
QueueRun(u) ==
    [on |-> u.on, min_reader |-> u.min_reader, used |-> u.used, space |-> RunList(u)]

\* No update runs.
LEMMA QueueNoRun == QueueRun(NoRun) = Queue!NoRun
<1>1. NoRun.on = FALSE /\ NoRun.min_reader = 0 /\ NoRun.used = {} /\ RunList(NoRun) = EmptyList
    BY NoRunTypes DEF NoRun
<1> QED  BY <1>1 DEF QueueRun, Queue!NoRun, Queue!Empty, EmptyList

\* An empty store is an empty queue.
LEMMA QueueInit == Init => Queue!Init
<1> SUFFICES ASSUME Init  PROVE Queue!Init
    OBVIOUS
<1>1. /\ latest = [version |-> 0, state |-> EmptyState, top |-> 2, used |-> {}]
      /\ metas = {latest} /\ run = NoRun
    BY DEF Init
<1>2. List(latest, file) = EmptyList
    BY <1>1, EmptySound
<1>3. Version(latest) = [version |-> 0, space |-> Queue!Empty, used |-> {}]
    BY <1>1, <1>2 DEF Version, List, EmptyList, Queue!Empty
<1>4. {Version(m) : m \in metas} = {Version(latest)}
    BY <1>1
<1>5. QueueRun(run) = Queue!NoRun
    BY <1>1, QueueNoRun
<1> QED  BY <1>3, <1>4, <1>5 DEF Queue!Init, QueueRun, RunList

\* The mapped versions, field by field.
LEMMA VersionIs ==
    ASSUME NEW c
    PROVE  /\ Version(c) = [version |-> c.version, used |-> c.used, space |-> List(c, file)]
           /\ Version(c).version = c.version /\ Version(c).used = c.used
           /\ Version(c).space = List(c, file)
BY DEF Version, List

\* Nothing happens to the versions while an update runs.
LEMMA VersionsStay ==
    ASSUME UNCHANGED <<latest, metas, file>>
    PROVE  UNCHANGED <<Version(latest), {Version(m) : m \in metas}>>
BY DEF Version

\* KV::begin
LEMMA QueueBegin == ASSUME Inv, begin  PROVE Queue!Begin
<1>1. PICK min_reader \in 0 .. latest.version :
          /\ \A m \in metas : min_reader <= m.version
          /\ run' = [on |-> TRUE, used |-> latest.used, state |-> latest.state,
                     top |-> latest.top, updates |-> {}, pages |-> file,
                     version |-> latest.version, min_reader |-> min_reader]
    BY DEF begin
<1>2. ~run.on /\ latest.version < MaxVersion /\ UNCHANGED <<latest, metas, file>>
    BY DEF begin
<1>3. RunList(run)' = Version(latest).space
    BY BeginInv, VersionIs
<1>4. QueueRun(run)' = [on |-> TRUE, min_reader |-> min_reader, space |-> Version(latest).space,
                        used |-> Version(latest).used]
    BY <1>1, <1>3, VersionIs DEF QueueRun
<1>5. \A m \in {Version(x) : x \in metas} : min_reader <= m.version
    BY <1>1, VersionIs
<1>6. min_reader \in 0 .. Version(latest).version /\ Version(latest).version < MaxVersion
    BY <1>2, VersionIs
<1> QED  BY <1>2, <1>4, <1>5, <1>6, VersionsStay DEF Queue!Begin, QueueRun, RunList

\* The queue's update after an operation.
LEMMA QueueUpdated ==
    ASSUME NEW u, NEW t, t.on = u.on, t.min_reader = u.min_reader
    PROVE  QueueRun(t) = [QueueRun(u) EXCEPT !.space = RunList(t), !.used = t.used]
<1> DEFINE r == [QueueRun(u) EXCEPT !.space = RunList(t)]
<1>1. r = [on |-> u.on, min_reader |-> u.min_reader, used |-> u.used, space |-> RunList(t)]
    BY DEF QueueRun
<1> HIDE DEF r
<1>2. [r EXCEPT !.used = t.used] =
         [on |-> u.on, min_reader |-> u.min_reader, used |-> t.used, space |-> RunList(t)]
    BY <1>1
<1>3. QueueRun(t) =
         [on |-> u.on, min_reader |-> u.min_reader, used |-> t.used, space |-> RunList(t)]
    BY DEF QueueRun
<1> QED  BY <1>2, <1>3 DEF r

\* KVTX::page_new
LEMMA QueuePageNew == ASSUME Inv, PageNew  PROVE Queue!PageNew
<1> DEFINE v == RunList(run)
           e == Queue!page_new(v, Version(latest).version, run.min_reader)
<1>1. run.on /\ UNCHANGED <<latest, metas, file>>
    BY DEF PageNew
<1>2. run.version = Version(latest).version
    BY <1>1, RunReady, VersionIs
<1>3. e = FP!page_new(v, run.version, run.min_reader)
    BY <1>2, SameOperators
<1> HIDE DEF v, e
<1>4. /\ RunList(run)' = e.space /\ e.space.top <= MaxPage
      /\ run'.on /\ run'.min_reader = run.min_reader /\ run'.used = run.used \cup {e.ptr}
    BY <1>3, PageNewInv DEF v
<1>5. run.on = TRUE /\ run'.on = TRUE
    BY <1>1, <1>4, PageNewInv DEF Inv, Update
<1>6. QueueRun(run)' = [QueueRun(run) EXCEPT !.space = e.space, !.used = run.used \cup {e.ptr}]
    <2>1. QueueRun(run') = [QueueRun(run) EXCEPT !.space = RunList(run'), !.used = run'.used]
        BY <1>4, <1>5, QueueUpdated
    <2> QED  BY <1>4, <2>1
<1>7. /\ QueueRun(run).on = run.on /\ QueueRun(run).space = v /\ QueueRun(run).used = run.used
      /\ QueueRun(run).min_reader = run.min_reader
    BY DEF QueueRun, v
<1> QED  BY <1>1, <1>4, <1>6, <1>7, VersionsStay DEF Queue!PageNew, QueueRun, RunList, e, v

\* KVTX::page_del
LEMMA QueuePageDel == ASSUME Inv, NEW p, PageDel(p)  PROVE Queue!PageDel(p)
<1> DEFINE v == RunList(run)
           w == Queue!push_tail(v, p, Version(latest).version, run.min_reader)
<1>1. run.on /\ p \in run.used /\ UNCHANGED <<latest, metas, file>>
    BY DEF PageDel
<1>2. run.version = Version(latest).version
    BY <1>1, RunReady, VersionIs
<1>3. w = FP!push_tail(v, p, run.version, run.min_reader)
    BY <1>2, SameOperators
<1> HIDE DEF v, w
<1>4. /\ RunList(run)' = w /\ w.top <= MaxPage
      /\ run'.on /\ run'.min_reader = run.min_reader /\ run'.used = run.used \ {p}
    BY <1>3, PageDelInv DEF v
<1>5. run.on = TRUE /\ run'.on = TRUE
    BY <1>1, <1>4, PageDelInv DEF Inv, Update
<1>6. QueueRun(run)' = [QueueRun(run) EXCEPT !.space = w, !.used = run.used \ {p}]
    <2>1. QueueRun(run') = [QueueRun(run) EXCEPT !.space = RunList(run'), !.used = run'.used]
        BY <1>4, <1>5, QueueUpdated
    <2> QED  BY <1>4, <2>1
<1>7. /\ QueueRun(run).on = run.on /\ QueueRun(run).space = v /\ QueueRun(run).used = run.used
      /\ QueueRun(run).min_reader = run.min_reader
    BY DEF QueueRun, v
<1> QED  BY <1>1, <1>2, <1>4, <1>6, <1>7, VersionsStay DEF Queue!PageDel, QueueRun, RunList, w, v

\* The mapped versions of files with the same lists.
LEMMA SameVersions ==
    ASSUME NEW m, List(m, file') = List(m, file)
    PROVE  Version(m)' = Version(m)
BY DEF Version, List

\* KV::commit
LEMMA QueueCommit == ASSUME Inv, commit  PROVE Queue!Commit
<1> DEFINE L == [version |-> Version(latest).version + 1, used |-> run.used,
                 space |-> [RunList(run) EXCEPT !.updates = {}]]
           M == {Version(m) : m \in metas}
<1>1. /\ run.on /\ run' = NoRun /\ latest'.version = latest.version + 1 /\ latest'.used = run.used
      /\ metas' = {latest'} \/ metas' = metas \cup {latest'}
    BY DEF commit
<1>2. /\ List(latest', file') = [RunList(run) EXCEPT !.updates = {}]
      /\ \A m \in metas : List(m, file') = List(m, file)
    BY CommitInv
<1>3. Version(latest)' = L
    BY <1>1, <1>2, VersionIs DEF Version, List
<1>4. M' = {Version(m)' : m \in metas'}
    OBVIOUS
<1>5. \A m \in metas : Version(m)' = Version(m)
    BY <1>2, SameVersions
<1>6. M' = {L} \/ M' = M \cup {L}
    BY <1>1, <1>3, <1>4, <1>5
<1>7. QueueRun(run)' = Queue!NoRun
    BY <1>1, QueueNoRun
<1> QED  BY <1>1, <1>3, <1>6, <1>7 DEF Queue!Commit, QueueRun, RunList

\* A failed update, its pages written or not, leaves nothing behind.
LEMMA QueueDrop == ASSUME Inv, drop  PROVE Queue!Drop
<1> DEFINE M == {Version(m) : m \in metas}
<1>1. run.on /\ run' = NoRun /\ UNCHANGED <<latest, metas>> /\ latest \in metas
    BY DEF drop, Inv, MetasInv
<1>2. \A m \in metas : Version(m)' = Version(m)
    BY DropInv, SameVersions
<1>3. Version(latest)' = Version(latest)
    <2>1. Version(latest)' = [version |-> latest.version, used |-> latest.used,
                              space |-> List(latest, file')]
        BY <1>1 DEF Version, List
    <2>2. List(latest, file') = List(latest, file)
        BY <1>1, DropInv
    <2> QED  BY <2>1, <2>2, VersionIs
<1>4. M' = {Version(m)' : m \in metas'}
    OBVIOUS
<1>5. M' = M
    BY <1>1, <1>2, <1>4
<1>6. QueueRun(run)' = Queue!NoRun
    BY <1>1, QueueNoRun
<1> QED  BY <1>1, <1>3, <1>5, <1>6 DEF Queue!Drop, QueueRun, RunList

\* The machine stops and the file is opened again.
LEMMA QueueCrash == ASSUME Inv, crash  PROVE Queue!Crash
<1> DEFINE M == {Version(m) : m \in metas}
<1>1. ~run.on /\ latest' \in metas /\ metas' = {latest'} /\ UNCHANGED <<run, file>>
    BY DEF crash
<1>2. Version(latest)' = Version(latest')
    BY <1>1 DEF Version
<1>3. \A m : Version(m)' = Version(m)
    BY <1>1 DEF Version
<1>4. M' = {Version(m)' : m \in metas'}
    OBVIOUS
<1>5. Version(latest)' \in M /\ M' = {Version(latest)'}
    BY <1>1, <1>2, <1>3, <1>4
<1>6. QueueRun(run)' = QueueRun(run)
    BY <1>1
<1> QED  BY <1>1, <1>5, <1>6 DEF Queue!Crash, QueueRun, RunList

\* Every step of the list is a step of the queue or none.
LEMMA QueueNext == Inv /\ [Next]_vars => [Queue!Next]_(Queue!vars)
<1> SUFFICES ASSUME Inv, [Next]_vars  PROVE [Queue!Next]_(Queue!vars)
    OBVIOUS
<1>1. CASE begin
    BY <1>1, QueueBegin DEF Queue!Next
<1>2. CASE PageNew
    BY <1>2, QueuePageNew DEF Queue!Next
<1>3. ASSUME NEW p \in run.used, PageDel(p)  PROVE Queue!Next
    BY <1>3, QueuePageDel DEF Queue!Next
<1>4. CASE commit
    BY <1>4, QueueCommit DEF Queue!Next
<1>5. CASE drop
    BY <1>5, QueueDrop DEF Queue!Next
<1>6. CASE crash
    BY <1>6, QueueCrash DEF Queue!Next
<1>7. CASE UNCHANGED vars
    BY <1>7 DEF vars, Queue!vars, Version, SpaceOf
<1> QED  BY <1>1, <1>2, <1>3, <1>4, <1>5, <1>6, <1>7 DEF Next

\* The list in the pages implements the queue: neither updating the pages in
\* place nor what failed updates left in them shows in what pop_head, page_new
\* and push_tail do, for the running update and for every version that a crash
\* may bring back.
THEOREM ListImplementsQueue == Spec => ImplementsQueue
BY QueueInit, QueueNext, ListsSound, PTL DEF Spec, ImplementsQueue, Queue!Spec
=============================================================================
