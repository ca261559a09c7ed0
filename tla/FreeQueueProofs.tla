--------------------------- MODULE FreeQueueProofs ---------------------------
(***************************************************************************)
(* What the operations of FreeQueue preserve: the shape of the list, the   *)
(* ownership of its pages, and how far an operation may reach (Evolves).   *)
(***************************************************************************)
EXTENDS FreeQueue, SequenceTheorems, TLAPS

-----------------------------------------------------------------------------
(* Sequences *)

\* Removing the first element of a sequence (FreeList::pop).
LEMMA TailSet ==
    ASSUME NEW S, NEW s \in Seq(S), s # <<>>
    PROVE  /\ Len(s) \in Nat /\ Len(s) >= 1
           /\ Head(s) = s[1] /\ Head(s) \in S /\ Head(s) \in ToSet(s)
           /\ Tail(s) \in Seq(S) /\ Len(Tail(s)) = Len(s) - 1
           /\ ToSet(Tail(s)) \subseteq ToSet(s)
           /\ ToSet(s) = ToSet(Tail(s)) \cup {Head(s)}
           /\ Len(s) >= 2 => Tail(s) # <<>> /\ Last(Tail(s)) = Last(s)
<1>1. Len(s) \in Nat /\ DOMAIN s = 1 .. Len(s) /\ Len(s) # 0
    BY LenProperties, EmptySeq
<1>2. /\ Head(s) \in S /\ Head(s) = s[1] /\ Tail(s) \in Seq(S)
      /\ Len(Tail(s)) = Len(s) - 1
      /\ \A i \in 1 .. Len(Tail(s)) : Tail(s)[i] = s[i + 1]
    BY HeadTailProperties
<1>3. DOMAIN Tail(s) = 1 .. Len(s) - 1
    BY <1>2, LenProperties
<1>4. Head(s) \in ToSet(s)
    BY <1>1, <1>2 DEF ToSet
<1>5. ToSet(Tail(s)) \subseteq ToSet(s)
    BY <1>1, <1>2, <1>3 DEF ToSet
<1>6. ASSUME NEW i \in 1 .. Len(s), i # 1  PROVE  s[i] \in ToSet(Tail(s))
    <2>1. i - 1 \in 1 .. Len(s) - 1 /\ (i - 1) + 1 = i
        BY <1>1, <1>6
    <2>2. Tail(s)[i - 1] = s[i]
        BY <1>2, <2>1
    <2> QED  BY <1>3, <2>1, <2>2 DEF ToSet
<1>7. ToSet(s) = ToSet(Tail(s)) \cup {Head(s)}
    BY <1>1, <1>2, <1>4, <1>5, <1>6 DEF ToSet
<1>8. Len(s) >= 2 => Tail(s) # <<>> /\ Last(Tail(s)) = Last(s)
    <2>1. SUFFICES ASSUME Len(s) >= 2  PROVE Tail(s) # <<>> /\ Last(Tail(s)) = Last(s)
        OBVIOUS
    <2>2. Len(s) - 1 \in 1 .. Len(Tail(s)) /\ (Len(s) - 1) + 1 = Len(s)
        BY <1>1, <1>2, <2>1
    <2>3. Tail(s)[Len(s) - 1] = s[Len(s)]
        BY <1>2, <2>2
    <2>4. Tail(s) # <<>>
        <3>1. \A n \in Nat : n >= 2 => n - 1 # 0
            OBVIOUS
        <3>2. Len(Tail(s)) # 0
            BY <1>1, <1>2, <2>1, <3>1, Zenon
        <3> QED  BY <3>2, EmptySeq, Zenon
    <2> QED  BY <1>2, <2>3, <2>4 DEF Last
<1> QED  BY <1>1, <1>2, <1>4, <1>5, <1>7, <1>8

\* Adding an element at the end (FreeList::append_item, linking a node).
LEMMA AppendSet ==
    ASSUME NEW S, NEW s \in Seq(S), NEW e \in S
    PROVE  /\ Append(s, e) \in Seq(S) /\ Append(s, e) # <<>>
           /\ Len(s) \in Nat /\ Len(Append(s, e)) = Len(s) + 1
           /\ ToSet(Append(s, e)) = ToSet(s) \cup {e}
           /\ Last(Append(s, e)) = e
<1>1. /\ Len(s) \in Nat /\ DOMAIN s = 1 .. Len(s)
      /\ Append(s, e) \in Seq(S) /\ Append(s, e) # <<>>
      /\ Len(Append(s, e)) = Len(s) + 1
      /\ \A i \in 1 .. Len(s) : Append(s, e)[i] = s[i]
      /\ Append(s, e)[Len(s) + 1] = e
    BY LenProperties, AppendProperties
<1>2. DOMAIN Append(s, e) = 1 .. Len(s) + 1
    BY <1>1, LenProperties
<1>3. ToSet(Append(s, e)) \subseteq ToSet(s) \cup {e}
    <2>1. ASSUME NEW i \in 1 .. Len(s) + 1  PROVE Append(s, e)[i] \in ToSet(s) \cup {e}
        <3>1. i \in 1 .. Len(s) \/ i = Len(s) + 1
            BY <1>1
        <3> QED  BY <1>1, <3>1 DEF ToSet
    <2> QED  BY <1>2, <2>1 DEF ToSet
<1>4. e \in ToSet(Append(s, e))
    BY <1>1, <1>2 DEF ToSet
<1>5. ToSet(s) \subseteq ToSet(Append(s, e))
    <2>1. ASSUME NEW i \in 1 .. Len(s)  PROVE s[i] \in ToSet(Append(s, e))
        BY <1>1, <1>2, <2>1 DEF ToSet
    <2> QED  BY <1>1, <2>1 DEF ToSet
<1> QED  BY <1>1, <1>3, <1>4, <1>5 DEF Last

\* A sequence that is not empty has its last element.
LEMMA LastIn ==
    ASSUME NEW S, NEW s \in Seq(S), s # <<>>
    PROVE  Last(s) \in S /\ Last(s) \in ToSet(s)
<1>1. Len(s) \in Nat /\ DOMAIN s = 1 .. Len(s) /\ Len(s) # 0
    BY LenProperties, EmptySeq
<1> QED  BY <1>1, ElementOfSeq DEF Last, ToSet

-----------------------------------------------------------------------------
(* The shape of the list *)

\* The list's slots when its tail node has k items: Filled(v) is
\* Slots(v, v.tail), and a full tail node not linked yet has k = CAP.
Slots(v, k) == Fits(Len(v.items), v.head, Len(v.nodes), k)

\* The slot after a slot is a slot (seq_to_idx).
LEMMA NextSlotType == \A i \in 0 .. CAP - 1 : NextSlot(i) \in 0 .. CAP - 1
BY CapAssumption DEF NextSlot

\* The arithmetic of taking the first item: L items, n nodes, head slot h.
LEMMA PopArith ==
    ASSUME NEW L \in Nat, NEW n \in Nat, NEW h \in 0 .. CAP - 1, NEW k \in 0 .. CAP,
           L >= 1, n >= 1, Fits(L, h, n, k)
    PROVE  /\ h + 1 # CAP => Fits(L - 1, h + 1, n, k)
           /\ h + 1 = CAP => Fits(L - 1, 0, n - 1, k)
           /\ h + 1 = CAP => n >= 2 \/ (k = CAP /\ L = 1)
<1>1. (n - 1) * CAP = ((n - 1) - 1) * CAP + CAP
    BY CapAssumption
<1>2. n >= 2 \/ (n - 1) * CAP = 0
    <2>1. n = 1 => (n - 1) * CAP = 0
        BY CapAssumption
    <2> QED  BY <2>1
<1>3. (n - 1) * CAP \in Int /\ ((n - 1) - 1) * CAP \in Int
    BY CapAssumption
<1> QED  BY <1>1, <1>2, <1>3, CapAssumption DEF Fits

\* A pop that takes an item takes the first one, which is old enough, and
\* never drains the tail node: a full tail node's last item is not reusable.
LEMMA PopStep ==
    ASSUME NEW v \in Space, v.nodes # <<>>, NEW k \in 0 .. CAP, Slots(v, k),
           NEW m \in Nat, k = CAP => v.items[Len(v.items)].ver >= m,
           pop(v, m).ptr # 0
    PROVE  LET w == pop(v, m).space
               d == pop(v, m).drained_head
           IN  /\ v.items # <<>> /\ Head(v.items).ver < m
               /\ pop(v, m).ptr = Head(v.items).ptr
               /\ w \in Space /\ w.nodes # <<>> /\ Slots(w, k)
               /\ w.items = Tail(v.items)
               /\ w.tail = v.tail /\ w.top = v.top /\ w.updates = v.updates
               /\ Last(w.nodes) = Last(v.nodes)
               /\ \/ d = 0 /\ w.nodes = v.nodes
                  \/ /\ d = Head(v.nodes) /\ d \in Page
                     /\ w.nodes = Tail(v.nodes) /\ Len(v.nodes) >= 2
<1> DEFINE w == pop(v, m).space
           d == pop(v, m).drained_head
<1> USE CapAssumption
<1>1. v.items # <<>> /\ Head(v.items).ver < m
    BY DEF pop
<1>2. /\ pop(v, m).ptr = Head(v.items).ptr
      /\ d = IF NextSlot(v.head) = 0 THEN Head(v.nodes) ELSE 0
      /\ w = [v EXCEPT
                !.items = Tail(v.items), !.head = NextSlot(v.head),
                !.nodes = IF NextSlot(v.head) = 0 THEN Tail(v.nodes) ELSE v.nodes]
    BY <1>1 DEF pop
<1>3. /\ v.items \in Seq(Item) /\ v.nodes \in Seq(Page) /\ v.head \in 0 .. CAP - 1
      /\ v.tail \in 0 .. CAP - 1 /\ v.top \in Nat /\ v.updates \in SUBSET Page
    BY DEF Space
<1>4. /\ Len(v.items) \in Nat /\ Len(v.items) >= 1 /\ Head(v.items) = v.items[1]
      /\ Tail(v.items) \in Seq(Item) /\ Len(Tail(v.items)) = Len(v.items) - 1
    BY <1>1, <1>3, TailSet
<1>5. /\ Len(v.nodes) \in Nat /\ Len(v.nodes) >= 1 /\ Head(v.nodes) \in Page
      /\ Tail(v.nodes) \in Seq(Page) /\ Len(Tail(v.nodes)) = Len(v.nodes) - 1
      /\ Len(v.nodes) >= 2 => Tail(v.nodes) # <<>> /\ Last(Tail(v.nodes)) = Last(v.nodes)
    BY <1>3, TailSet
<1>6. NextSlot(v.head) \in 0 .. CAP - 1
    BY <1>3, NextSlotType
<1>7. /\ w.items = Tail(v.items) /\ w.head = NextSlot(v.head)
      /\ w.nodes = IF NextSlot(v.head) = 0 THEN Tail(v.nodes) ELSE v.nodes
      /\ w.tail = v.tail /\ w.top = v.top /\ w.updates = v.updates
    BY <1>2 DEF Space
<1>8. w \in Space
    BY <1>2, <1>3, <1>4, <1>5, <1>6 DEF Space
<1>9. /\ v.head + 1 # CAP => Fits(Len(v.items) - 1, v.head + 1, Len(v.nodes), k)
      /\ v.head + 1 = CAP => Fits(Len(v.items) - 1, 0, Len(v.nodes) - 1, k)
      /\ v.head + 1 = CAP => Len(v.nodes) >= 2 \/ (k = CAP /\ Len(v.items) = 1)
    BY <1>3, <1>4, <1>5, PopArith, Zenon DEF Slots
<1>10. CASE v.head + 1 # CAP
    <2>1. NextSlot(v.head) = v.head + 1 /\ NextSlot(v.head) # 0
        BY <1>3, <1>10 DEF NextSlot
    <2>2. w.nodes = v.nodes /\ d = 0 /\ w.head = v.head + 1
        BY <1>2, <1>7, <2>1
    <2>3. Slots(w, k)
        BY <1>4, <1>7, <1>9, <1>10, <2>2, Zenon DEF Slots
    <2> QED  BY <1>1, <1>2, <1>7, <1>8, <2>2, <2>3
<1>11. CASE v.head + 1 = CAP
    <2>1. NextSlot(v.head) = 0
        BY <1>11 DEF NextSlot
    <2>2. w.head = 0 /\ d = Head(v.nodes) /\ w.nodes = Tail(v.nodes)
        BY <1>2, <1>7, <2>1
    <2>3. ~(k = CAP /\ Len(v.items) = 1)
        <3>1. SUFFICES ASSUME k = CAP, Len(v.items) = 1  PROVE FALSE
            OBVIOUS
        <3>2. Head(v.items).ver >= m
            BY <1>4, <3>1
        <3>3. Head(v.items) \in Item
            BY <1>1, <1>3, TailSet
        <3>4. Head(v.items).ver \in Nat
            BY <3>3 DEF Item
        <3> QED  BY <1>1, <3>2, <3>4
    <2>4. Len(v.nodes) >= 2
        BY <1>9, <1>11, <2>3
    <2>5. Slots(w, k)
        BY <1>4, <1>5, <1>7, <1>9, <1>11, <2>2, Zenon DEF Slots
    <2> QED  BY <1>1, <1>2, <1>5, <1>7, <1>8, <2>2, <2>4, <2>5
<1> QED  BY <1>10, <1>11

\* A pop that takes nothing leaves the list alone.
LEMMA PopNone ==
    ASSUME NEW v \in Space, NEW m \in Nat, pop(v, m).ptr = 0
    PROVE  pop(v, m).drained_head = 0 /\ pop(v, m).space = v
<1>1. CASE v.items = <<>> \/ ~(Head(v.items).ver < m)
    BY <1>1 DEF pop
<1>2. CASE ~(v.items = <<>> \/ ~(Head(v.items).ver < m))
    <2>1. Head(v.items) \in Item
        BY <1>2, TailSet DEF Space
    <2>2. Head(v.items).ptr # 0
        BY <2>1 DEF Item, Page
    <2> QED  BY <1>2, <2>2 DEF pop
<1> QED  BY <1>1, <1>2

\* The arithmetic of adding an item: L items, n nodes, tail slot k.
LEMMA PushArith ==
    ASSUME NEW L \in Nat, NEW n \in Nat, NEW h \in 0 .. CAP - 1, NEW k \in 0 .. CAP - 1,
           Fits(L, h, n, k)
    PROVE  Fits(L + 1, h, n, k + 1)
<1>1. (n - 1) * CAP \in Int
    BY CapAssumption
<1> QED  BY <1>1, CapAssumption DEF Fits

\* w is v with the item (p, version) at its end.
Appended(v, p, version, w) ==
    /\ w \in Space /\ w.nodes = v.nodes /\ w.head = v.head /\ w.top = v.top
    /\ w.tail = NextSlot(v.tail) /\ Slots(w, v.tail + 1)
    /\ w.items = Append(v.items, [ptr |-> p, ver |-> version])
    /\ w.updates = v.updates \cup {Last(v.nodes)}
    /\ w.items[Len(w.items)].ver = version

\* append_item into a tail node with room for it.
LEMMA AppendStep ==
    ASSUME NEW v \in Space, Filled(v), NEW p \in Page, NEW version \in Nat
    PROVE  Appended(v, p, version, append_item(v, p, version))
<1> DEFINE w == append_item(v, p, version)
           x == [ptr |-> p, ver |-> version]
<1> USE CapAssumption
<1>1. /\ v.items \in Seq(Item) /\ v.nodes \in Seq(Page) /\ v.head \in 0 .. CAP - 1
      /\ v.tail \in 0 .. CAP - 1 /\ v.top \in Nat /\ v.updates \in SUBSET Page
    BY DEF Space
<1>2. x \in Item
    BY DEF Item
<1>3. /\ Append(v.items, x) \in Seq(Item) /\ Len(v.items) \in Nat
      /\ Len(Append(v.items, x)) = Len(v.items) + 1
      /\ Append(v.items, x)[Len(v.items) + 1] = x
    BY <1>1, <1>2, AppendSet, AppendProperties
<1>4. Last(v.nodes) \in Page
    BY <1>1, LastIn DEF Filled
<1>5. NextSlot(v.tail) \in 0 .. CAP - 1
    BY <1>1, NextSlotType
<1>6. /\ w.items = Append(v.items, x) /\ w.nodes = v.nodes /\ w.head = v.head
      /\ w.tail = NextSlot(v.tail) /\ w.top = v.top
      /\ w.updates = v.updates \cup {Last(v.nodes)}
    BY DEF append_item, Space
<1>7. w \in Space
    BY <1>1, <1>3, <1>4, <1>5 DEF append_item, Space
<1>8. Slots(w, v.tail + 1)
    <2>1. Len(v.nodes) \in Nat
        BY <1>1, LenProperties
    <2>2. Fits(Len(v.items) + 1, v.head, Len(v.nodes), v.tail + 1)
        BY <1>1, <1>3, <2>1, PushArith, Zenon DEF Filled
    <2> QED  BY <1>3, <1>6, <2>2, Zenon DEF Slots
<1> QED  BY <1>3, <1>6, <1>7, <1>8 DEF Appended

\* The arithmetic of linking a node after a full tail node.
LEMMA LinkArith ==
    ASSUME NEW L \in Nat, NEW n \in Nat, NEW h \in 0 .. CAP - 1, Fits(L, h, n, CAP)
    PROVE  Fits(L, h, n + 1, 0)
<1>1. ((n + 1) - 1) * CAP = (n - 1) * CAP + CAP
    BY CapAssumption
<1>2. (n - 1) * CAP \in Int
    BY CapAssumption
<1> QED  BY <1>1, <1>2, CapAssumption DEF Fits

\* A space whose tail node is full and not linked yet, its last item freed by
\* the running update.
FullTail(v, m) ==
    /\ v.nodes # <<>> /\ v.top # 0 /\ v.tail = 0
    /\ Slots(v, CAP)
    /\ v.items[Len(v.items)].ver >= m

\* w is v with the node n linked at its end and the writes U.
Linked(v, n, U, w) ==
    /\ w \in Space /\ Filled(w)
    /\ w.items = v.items /\ w.nodes = Append(v.nodes, n) /\ w.updates = U
    /\ w.head = v.head /\ w.tail = 0 /\ w.top = v.top

\* Linking a node to a list whose tail node is full.
LEMMA LinkNode ==
    ASSUME NEW v \in Space, v.nodes # <<>>, v.top # 0, v.tail = 0, Slots(v, CAP),
           NEW n \in Page, NEW U \in SUBSET Page, NEW z,
           z = [v EXCEPT !.nodes = Append(v.nodes, n), !.updates = U]
    PROVE  Linked(v, n, U, z)
<1> DEFINE w == [v EXCEPT !.nodes = Append(v.nodes, n), !.updates = U]
<1>1. /\ v.items \in Seq(Item) /\ v.nodes \in Seq(Page) /\ v.head \in 0 .. CAP - 1
      /\ v.tail \in 0 .. CAP - 1 /\ v.top \in Nat /\ v.updates \in SUBSET Page
    BY DEF Space
<1>2. /\ Append(v.nodes, n) \in Seq(Page) /\ Append(v.nodes, n) # <<>>
      /\ Len(v.nodes) \in Nat /\ Len(Append(v.nodes, n)) = Len(v.nodes) + 1
    BY <1>1, AppendSet
<1>3. /\ w.items = v.items /\ w.nodes = Append(v.nodes, n) /\ w.updates = U
      /\ w.head = v.head /\ w.tail = 0 /\ w.top = v.top
    BY DEF Space
<1>4. w \in Space
    BY <1>1, <1>2 DEF Space
<1>5. Fits(Len(v.items), v.head, Len(v.nodes) + 1, 0)
    <2>1. Len(v.items) \in Nat
        BY <1>1, LenProperties
    <2> QED  BY <1>1, <1>2, <2>1, LinkArith, Zenon DEF Slots
<1>6. Filled(w)
    BY <1>2, <1>3, <1>5, Zenon DEF Filled
<1> QED  BY <1>3, <1>4, <1>6 DEF Linked

\* The three ways link_tail goes: append a page; reuse one; reuse one and put
\* the node it drained back in the list.
LinkPost(v, version, m, w) ==
    LET x == Head(v.items)
        L == Last(v.nodes)
    IN  /\ w \in Space /\ Filled(w)
        /\ \/ /\ w.items = v.items /\ w.nodes = Append(v.nodes, v.top)
              /\ w.top = v.top + 1 /\ w.updates = v.updates \cup {v.top, L}
           \/ /\ v.items # <<>> /\ x.ver < m
              /\ w.items = Tail(v.items) /\ w.nodes = Append(v.nodes, x.ptr)
              /\ w.top = v.top /\ w.updates = v.updates \cup {L}
           \/ /\ v.items # <<>> /\ x.ver < m /\ Len(v.nodes) >= 2
              /\ w.items = Append(Tail(v.items), [ptr |-> Head(v.nodes), ver |-> version])
              /\ w.nodes = Append(Tail(v.nodes), x.ptr)
              /\ w.top = v.top /\ w.updates = v.updates \cup {L, x.ptr}

\* link_tail goes one of these ways.
LEMMA LinkStep ==
    ASSUME NEW v \in Space, NEW m \in Nat, FullTail(v, m), NEW version \in Nat
    PROVE  LinkPost(v, version, m, link_tail(v, version, m))
<1> DEFINE w == link_tail(v, version, m)
           x == Head(v.items)
           L == Last(v.nodes)
           popped == pop(v, m)
<1> USE CapAssumption
<1>1. /\ v.items \in Seq(Item) /\ v.nodes \in Seq(Page) /\ v.head \in 0 .. CAP - 1
      /\ v.tail \in 0 .. CAP - 1 /\ v.top \in Nat /\ v.updates \in SUBSET Page
    BY DEF Space
<1>2. /\ v.nodes # <<>> /\ v.top # 0 /\ v.tail = 0 /\ Slots(v, CAP)
      /\ v.items[Len(v.items)].ver >= m
    BY DEF FullTail
<1>3. L \in Page
    BY <1>1, <1>2, LastIn
<1>4. CASE popped.ptr = 0
    <2> DEFINE got == page_append(v)
    <2>1. popped.drained_head = 0
        BY <1>4, PopNone
    <2>2. w = [got EXCEPT !.nodes = Append(got.nodes, v.top), !.updates = got.updates \cup {L}]
        BY <1>4, <2>1 DEF link_tail
    <2>3. /\ got.items = v.items /\ got.nodes = v.nodes /\ got.head = v.head
          /\ got.tail = v.tail /\ got.top = v.top + 1 /\ got.updates = v.updates \cup {v.top}
        BY DEF page_append, Space
    <2>4. v.top \in Page
        BY <1>1, <1>2 DEF Page
    <2>5. got \in Space
        <3>1. v.top + 1 \in Nat /\ v.updates \cup {v.top} \in SUBSET Page
            BY <1>1, <2>4
        <3> QED  BY <1>1, <3>1 DEF page_append, Space
    <2>6. got.top # 0
        BY <1>1, <2>3
    <2>7. Slots(got, CAP)
        BY <1>2, <2>3 DEF Slots
    <2>8. got.updates \cup {L} \in SUBSET Page
        BY <1>1, <1>3, <2>3, <2>4
    <2> HIDE DEF got
    <2>9. /\ w \in Space /\ Filled(w) /\ w.items = got.items
          /\ w.nodes = Append(got.nodes, v.top)
          /\ w.updates = got.updates \cup {L} /\ w.top = got.top
        <3>1. got.nodes # <<>> /\ got.tail = 0
            BY <1>2, <2>3
        <3>2. Linked(got, v.top, got.updates \cup {L}, w)
            BY <2>2, <2>4, <2>5, <2>6, <2>7, <2>8, <3>1, LinkNode, Zenon
        <3> QED  BY <3>2 DEF Linked
    <2>10. w.updates = v.updates \cup {v.top, L}
        BY <2>3, <2>9
    <2> QED  BY <2>3, <2>9, <2>10 DEF LinkPost
<1>5. CASE popped.ptr # 0
    <2> DEFINE got == popped.space
               d == popped.drained_head
               linked == [got EXCEPT !.nodes = Append(got.nodes, x.ptr),
                                     !.updates = got.updates \cup {L}]
    <2>1. CAP \in 0 .. CAP
        OBVIOUS
    <2>2. /\ v.items # <<>> /\ x.ver < m /\ popped.ptr = x.ptr
          /\ got \in Space /\ got.nodes # <<>> /\ Slots(got, CAP)
          /\ got.items = Tail(v.items)
          /\ got.tail = v.tail /\ got.top = v.top /\ got.updates = v.updates
          /\ \/ d = 0 /\ got.nodes = v.nodes
             \/ /\ d = Head(v.nodes) /\ d \in Page
                /\ got.nodes = Tail(v.nodes) /\ Len(v.nodes) >= 2
        BY <1>2, <1>5, <2>1, PopStep
    <2>3. x \in Item
        BY <1>1, <2>2, TailSet
    <2>4. x.ptr \in Page
        BY <2>3 DEF Item
    <2>5. w = IF d # 0 THEN append_item(linked, d, version) ELSE linked
        BY <1>5, <2>2 DEF link_tail
    <2>6. got.updates \cup {L} \in SUBSET Page
        BY <1>1, <1>3, <2>2
    <2>10. got.top # 0 /\ got.tail = 0
        BY <1>2, <2>2
    <2> HIDE DEF popped, got
    <2>7. /\ linked \in Space /\ Filled(linked) /\ linked.items = got.items
          /\ linked.nodes = Append(got.nodes, x.ptr)
          /\ linked.updates = got.updates \cup {L}
          /\ linked.tail = 0 /\ linked.top = got.top
        <3>1. Linked(got, x.ptr, got.updates \cup {L}, linked)
            BY <2>2, <2>4, <2>6, <2>10, LinkNode, Zenon
        <3> QED  BY <3>1 DEF Linked
    <2>8. CASE d = 0
        BY <2>2, <2>5, <2>7, <2>8 DEF Page, LinkPost
    <2>9. CASE d # 0
        <3>1. /\ d = Head(v.nodes) /\ d \in Page
              /\ got.nodes = Tail(v.nodes) /\ Len(v.nodes) >= 2
            BY <2>2, <2>9
        <3>2. Last(linked.nodes) = x.ptr
            <4>1. got.nodes \in Seq(Page)
                BY <2>2 DEF Space
            <4> QED  BY <2>4, <2>7, <4>1, AppendSet
        <3> HIDE DEF linked
        <3>3. /\ w \in Space /\ w.nodes = linked.nodes /\ w.top = linked.top
              /\ w.tail = NextSlot(linked.tail) /\ Slots(w, linked.tail + 1)
              /\ w.items = Append(linked.items, [ptr |-> d, ver |-> version])
              /\ w.updates = linked.updates \cup {Last(linked.nodes)}
            <4>1. w = append_item(linked, d, version)
                BY <2>5, <2>9
            <4>2. Appended(linked, d, version, w)
                BY <2>7, <3>1, <4>1, AppendStep, Zenon
            <4> QED  BY <4>2 DEF Appended
        <3>4. w.tail = 1 /\ 0 + 1 = 1
            BY <2>7, <3>3 DEF NextSlot
        <3>5. Slots(w, 1)
            BY <2>7, <3>3, <3>4, Zenon
        <3>6. Filled(w)
            BY <2>7, <3>3, <3>4, <3>5, Zenon DEF Filled, Slots
        <3>7. w.updates = v.updates \cup {L, x.ptr}
            BY <2>2, <2>7, <3>2, <3>3
        <3> QED  BY <2>2, <2>7, <3>1, <3>3, <3>6, <3>7 DEF LinkPost
    <2> QED  BY <2>8, <2>9
<1> QED  BY <1>4, <1>5

-----------------------------------------------------------------------------
(* How far an operation reaches *)

\* Page p is appended to the file, or taken from the list once reusable.
Taken(p, v, m) == p >= v.top \/ \E x \in ItemSet(v) : x.ptr = p /\ x.ver < m

\* From v to w, an update frees pages at its own version only, and writes only
\* pages it takes and the list's tail node.
Evolves(v, w, version, m) ==
    /\ v.top <= w.top
    /\ \A x \in ItemSet(w) : x \in ItemSet(v) \/ x.ver = version
    /\ Last(w.nodes) = Last(v.nodes) \/ Taken(Last(w.nodes), v, m)
    /\ \A p \in w.updates : p \in v.updates \/ p = Last(v.nodes) \/ Taken(p, v, m)

\* A page taken after a step is one that could be taken before it.
LEMMA TakenBack ==
    ASSUME NEW v \in Space, NEW u \in Space, NEW m \in Nat, NEW version \in Nat,
           version >= m, Evolves(v, u, version, m), NEW p \in Nat, Taken(p, u, m)
    PROVE  Taken(p, v, m)
<1>1. v.top \in Nat /\ u.top \in Nat
    BY DEF Space
<1>2. CASE p >= u.top
    <2>1. v.top <= u.top
        BY DEF Evolves
    <2> QED  BY <1>1, <1>2, <2>1 DEF Taken
<1>3. CASE \E x \in ItemSet(u) : x.ptr = p /\ x.ver < m
    <2>1. PICK x \in ItemSet(u) : x.ptr = p /\ x.ver < m
        BY <1>3
    <2>2. x.ver # version
        BY <2>1
    <2>3. x \in ItemSet(v)
        BY <2>2 DEF Evolves
    <2> QED  BY <2>1, <2>3 DEF Taken
<1> QED  BY <1>2, <1>3 DEF Taken

\* Steps of one update compose.
LEMMA EvolvesTrans ==
    ASSUME NEW v \in Space, NEW u \in Space, NEW w \in Space, NEW m \in Nat,
           NEW version \in Nat, version >= m, w.nodes # <<>>,
           Evolves(v, u, version, m), Evolves(u, w, version, m)
    PROVE  Evolves(v, w, version, m)
<1>1. v.top <= w.top
    <2>1. v.top \in Nat /\ u.top \in Nat /\ w.top \in Nat
        BY DEF Space
    <2> QED  BY <2>1 DEF Evolves
<1>2. \A x \in ItemSet(w) : x \in ItemSet(v) \/ x.ver = version
    BY DEF Evolves
<1>3. ASSUME NEW p \in Nat, Taken(p, u, m)  PROVE Taken(p, v, m)
    BY <1>3, TakenBack
<1>4. Last(w.nodes) \in Nat
    BY LastIn DEF Space, Page
<1>5. Last(w.nodes) = Last(v.nodes) \/ Taken(Last(w.nodes), v, m)
    BY <1>3, <1>4 DEF Evolves
<1>6. ASSUME NEW p \in w.updates
      PROVE  p \in v.updates \/ p = Last(v.nodes) \/ Taken(p, v, m)
    <2>1. p \in Nat
        BY DEF Space, Page
    <2>2. p \in u.updates \/ p = Last(u.nodes) \/ Taken(p, u, m)
        BY DEF Evolves
    <2> QED  BY <1>3, <2>1, <2>2 DEF Evolves
<1> QED  BY <1>1, <1>2, <1>5, <1>6 DEF Evolves

\* A pop that takes an item.
LEMMA PopEvolves ==
    ASSUME NEW v \in Space, Filled(v), NEW m \in Nat, NEW version \in Nat,
           pop(v, m).ptr # 0
    PROVE  /\ pop(v, m).space \in Space /\ Filled(pop(v, m).space)
           /\ Evolves(v, pop(v, m).space, version, m)
           /\ pop(v, m).ptr \in Page /\ Taken(pop(v, m).ptr, v, m)
           /\ pop(v, m).drained_head \in Nat
<1> DEFINE w == pop(v, m).space
           x == Head(v.items)
<1>1. /\ v.items \in Seq(Item) /\ v.nodes \in Seq(Page) /\ v.tail \in 0 .. CAP - 1
      /\ v.top \in Nat /\ v.nodes # <<>> /\ v.top # 0 /\ Slots(v, v.tail)
    BY DEF Space, Filled, Slots
<1>2. v.tail \in 0 .. CAP /\ v.tail # CAP
    BY <1>1, CapAssumption
<1>3. /\ v.items # <<>> /\ x.ver < m /\ pop(v, m).ptr = x.ptr
      /\ w \in Space /\ w.nodes # <<>> /\ Slots(w, v.tail)
      /\ w.items = Tail(v.items)
      /\ w.tail = v.tail /\ w.top = v.top /\ w.updates = v.updates
      /\ Last(w.nodes) = Last(v.nodes)
      /\ pop(v, m).drained_head = 0 \/ pop(v, m).drained_head \in Page
    BY <1>1, <1>2, PopStep
<1>4. x \in Item /\ x \in ToSet(v.items) /\ ToSet(Tail(v.items)) \subseteq ToSet(v.items)
    BY <1>1, <1>3, TailSet
<1>5. x.ptr \in Page /\ Taken(x.ptr, v, m)
    BY <1>3, <1>4 DEF Taken, ItemSet, Item
<1>6. Filled(w)
    BY <1>1, <1>3, Zenon DEF Filled, Slots
<1> HIDE DEF w
<1>7. Evolves(v, w, version, m)
    BY <1>1, <1>3, <1>4 DEF Evolves, ItemSet
<1>8. pop(v, m).drained_head \in Nat
    BY <1>3 DEF Page
<1> QED  BY <1>3, <1>5, <1>6, <1>7, <1>8 DEF w

\* Appending an item writes the tail node.
LEMMA AppendEvolves ==
    ASSUME NEW v \in Space, Filled(v), NEW p \in Page, NEW version \in Nat, NEW m \in Nat
    PROVE  Evolves(v, append_item(v, p, version), version, m)
<1> DEFINE w == append_item(v, p, version)
           x == [ptr |-> p, ver |-> version]
<1>1. v.items \in Seq(Item) /\ v.top \in Nat /\ x \in Item
    BY DEF Space, Item
<1>2. Appended(v, p, version, w)
    BY AppendStep
<1>3. /\ w.nodes = v.nodes /\ w.top = v.top /\ w.items = Append(v.items, x)
      /\ w.updates = v.updates \cup {Last(v.nodes)}
    BY <1>2 DEF Appended
<1>4. ToSet(w.items) = ToSet(v.items) \cup {x}
    BY <1>1, <1>3, AppendSet
<1> HIDE DEF w
<1>5. \A y \in ItemSet(w) : y \in ItemSet(v) \/ y.ver = version
    BY <1>4 DEF ItemSet
<1>6. v.top <= w.top
    BY <1>1, <1>3
<1> QED  BY <1>3, <1>5, <1>6 DEF Evolves, w

\* Linking a node.
LEMMA LinkEvolves ==
    ASSUME NEW v \in Space, NEW m \in Nat, FullTail(v, m), NEW version \in Nat,
           NEW w, LinkPost(v, version, m, w)
    PROVE  Evolves(v, w, version, m)
<1> DEFINE x == Head(v.items)
           L == Last(v.nodes)
<1>1. /\ v.items \in Seq(Item) /\ v.nodes \in Seq(Page) /\ v.top \in Nat /\ v.top \in Page
      /\ v.nodes # <<>>
    BY DEF Space, FullTail, Page
<1>2. CASE /\ w.items = v.items /\ w.nodes = Append(v.nodes, v.top)
           /\ w.top = v.top + 1 /\ w.updates = v.updates \cup {v.top, L}
    <2>1. Last(w.nodes) = v.top
        BY <1>1, <1>2, AppendSet
    <2>2. v.top >= v.top /\ v.top <= w.top
        BY <1>1, <1>2
    <2>3. Taken(v.top, v, m)
        BY <2>2 DEF Taken
    <2> QED  BY <1>2, <2>1, <2>2, <2>3 DEF Evolves, ItemSet
<1>3. ASSUME v.items # <<>>, x.ver < m
      PROVE  /\ x \in Item /\ x.ptr \in Page /\ Taken(x.ptr, v, m)
             /\ Tail(v.items) \in Seq(Item) /\ ToSet(Tail(v.items)) \subseteq ToSet(v.items)
    <2>1. /\ x \in Item /\ x \in ToSet(v.items)
          /\ Tail(v.items) \in Seq(Item) /\ ToSet(Tail(v.items)) \subseteq ToSet(v.items)
        BY <1>1, <1>3, TailSet
    <2> QED  BY <1>3, <2>1 DEF Taken, ItemSet, Item
<1>4. CASE /\ v.items # <<>> /\ x.ver < m
           /\ w.items = Tail(v.items) /\ w.nodes = Append(v.nodes, x.ptr)
           /\ w.top = v.top /\ w.updates = v.updates \cup {L}
    <2>1. Last(w.nodes) = x.ptr
        BY <1>1, <1>3, <1>4, AppendSet
    <2>2. v.top <= w.top
        BY <1>1, <1>4
    <2> QED  BY <1>3, <1>4, <2>1, <2>2 DEF Evolves, ItemSet
<1>5. CASE /\ v.items # <<>> /\ x.ver < m /\ Len(v.nodes) >= 2
           /\ w.items = Append(Tail(v.items), [ptr |-> Head(v.nodes), ver |-> version])
           /\ w.nodes = Append(Tail(v.nodes), x.ptr)
           /\ w.top = v.top /\ w.updates = v.updates \cup {L, x.ptr}
    <2> DEFINE y == [ptr |-> Head(v.nodes), ver |-> version]
    <2>1. Head(v.nodes) \in Page /\ Tail(v.nodes) \in Seq(Page)
        BY <1>1, TailSet
    <2>2. y \in Item
        BY <2>1 DEF Item
    <2>7. /\ x.ptr \in Page /\ w.nodes = Append(Tail(v.nodes), x.ptr)
          /\ Tail(v.items) \in Seq(Item) /\ w.items = Append(Tail(v.items), y)
        BY <1>3, <1>5
    <2>8. y.ver = version
        OBVIOUS
    <2> HIDE DEF x, y
    <2>9. \A s \in Seq(Page), e \in Page : Last(Append(s, e)) = e
        BY AppendSet
    <2>10. \A s \in Seq(Item), e \in Item : ToSet(Append(s, e)) = ToSet(s) \cup {e}
        BY AppendSet
    <2>3. Last(w.nodes) = x.ptr
        BY <2>1, <2>7, <2>9, Zenon
    <2>4. ToSet(w.items) = ToSet(Tail(v.items)) \cup {y}
        BY <2>2, <2>7, <2>10, Zenon
    <2>5. \A z \in ItemSet(w) : z \in ItemSet(v) \/ z.ver = version
        BY <1>3, <1>5, <2>4, <2>8 DEF ItemSet
    <2>6. v.top <= w.top
        BY <1>1, <1>5
    <2> QED  BY <1>3, <1>5, <2>3, <2>5, <2>6 DEF Evolves
<1> QED  BY <1>2, <1>4, <1>5 DEF LinkPost

\* Appending an item fills the tail node, or leaves it room.
LEMMA AppendFills ==
    ASSUME NEW v \in Space, Filled(v), NEW p \in Page, NEW version \in Nat, NEW m \in Nat,
           version >= m
    PROVE  LET a == append_item(v, p, version)
           IN  /\ a \in Space
               /\ a.tail # 0 => Filled(a)
               /\ a.tail = 0 => FullTail(a, m)
<1> DEFINE a == append_item(v, p, version)
<1>1. Appended(v, p, version, a)
    BY AppendStep
<1>2. /\ a \in Space /\ a.nodes = v.nodes /\ a.top = v.top /\ a.tail = NextSlot(v.tail)
      /\ Slots(a, v.tail + 1) /\ a.items[Len(a.items)].ver = version
    BY <1>1 DEF Appended
<1>3. v.tail \in 0 .. CAP - 1 /\ v.nodes # <<>> /\ v.top # 0
    BY DEF Space, Filled
<1>4. \A t \in 0 .. CAP - 1 : NextSlot(t) # 0 => NextSlot(t) = t + 1
    BY CapAssumption DEF NextSlot
<1>5. \A t \in 0 .. CAP - 1 : NextSlot(t) = 0 => t + 1 = CAP
    BY CapAssumption DEF NextSlot
<1> HIDE DEF a
<1>6. a.tail # 0 => Filled(a)
    BY <1>2, <1>3, <1>4, Zenon DEF Filled, Slots
<1>7. a.tail = 0 => FullTail(a, m)
    BY <1>2, <1>3, <1>5, Zenon DEF FullTail
<1> QED  BY <1>2, <1>6, <1>7 DEF a

\* FreeList::push_tail keeps the list's shape and reaches no further than
\* Evolves allows.
LEMMA PushStep ==
    ASSUME NEW v \in Space, Filled(v), NEW p \in Page, NEW version \in Nat, NEW m \in Nat,
           version >= m
    PROVE  LET w == push_tail(v, p, version, m)
           IN  w \in Space /\ Filled(w) /\ Evolves(v, w, version, m)
<1> DEFINE w == push_tail(v, p, version, m)
           a == append_item(v, p, version)
<1>1. a \in Space /\ (a.tail # 0 => Filled(a)) /\ (a.tail = 0 => FullTail(a, m))
    BY AppendFills
<1>2. Evolves(v, a, version, m)
    BY AppendEvolves
<1>3. w = IF a.tail # 0 THEN a ELSE link_tail(a, version, m)
    BY DEF push_tail
<1> HIDE DEF a, w
<1>4. CASE a.tail # 0
    BY <1>1, <1>2, <1>3, <1>4 DEF w
<1>5. CASE a.tail = 0
    <2>1. LinkPost(a, version, m, w)
        BY <1>1, <1>3, <1>5, LinkStep
    <2>2. w \in Space /\ Filled(w)
        BY <2>1 DEF LinkPost
    <2>3. Evolves(a, w, version, m)
        BY <1>1, <1>5, <2>1, LinkEvolves
    <2>4. w.nodes # <<>>
        BY <2>2 DEF Filled
    <2> QED  BY <1>1, <1>2, <2>2, <2>3, <2>4, EvolvesTrans DEF w
<1> QED  BY <1>4, <1>5

\* So does pop_head, and a page it hands out is one it may take.
LEMMA PopHeadStep ==
    ASSUME NEW v \in Space, Filled(v), NEW version \in Nat, NEW m \in Nat, version >= m,
           pop_head(v, version, m).ptr # 0
    PROVE  LET r == pop_head(v, version, m)
           IN  /\ r.space \in Space /\ Filled(r.space) /\ Evolves(v, r.space, version, m)
               /\ r.ptr \in Page /\ Taken(r.ptr, v, m)
<1> DEFINE r == pop_head(v, version, m)
           popped == pop(v, m)
           d == popped.drained_head
<1>1. /\ r.ptr = popped.ptr
      /\ r.space = IF d # 0 THEN push_tail(popped.space, d, version, m) ELSE popped.space
    BY DEF pop_head
<1>2. /\ popped.space \in Space /\ Filled(popped.space)
      /\ Evolves(v, popped.space, version, m)
      /\ popped.ptr \in Page /\ Taken(popped.ptr, v, m) /\ d \in Nat
    BY <1>1, PopEvolves
<1> HIDE DEF r, popped
<1>3. CASE d = 0
    BY <1>1, <1>2, <1>3 DEF r
<1>4. CASE d # 0
    <2>1. d \in Page /\ r.space = push_tail(popped.space, d, version, m)
        BY <1>1, <1>2, <1>4 DEF Page
    <2>2. r.space \in Space /\ Filled(r.space) /\ Evolves(popped.space, r.space, version, m)
        BY <1>2, <2>1, PushStep
    <2>3. r.space.nodes # <<>>
        BY <2>2 DEF Filled
    <2> QED  BY <1>1, <1>2, <2>2, <2>3, EvolvesTrans DEF r
<1> QED  BY <1>3, <1>4

\* And KVTX::page_new.
LEMMA PageNewStep ==
    ASSUME NEW v \in Space, Filled(v), NEW version \in Nat, NEW m \in Nat, version >= m
    PROVE  LET r == page_new(v, version, m)
           IN  /\ r.space \in Space /\ Filled(r.space) /\ Evolves(v, r.space, version, m)
               /\ r.ptr \in Page /\ Taken(r.ptr, v, m)
<1> DEFINE r == page_new(v, version, m)
           t == pop_head(v, version, m)
<1>1. /\ v.items \in Seq(Item) /\ v.nodes \in Seq(Page) /\ v.head \in 0 .. CAP - 1
      /\ v.tail \in 0 .. CAP - 1 /\ v.top \in Nat /\ v.updates \in SUBSET Page
      /\ v.top \in Page
    BY DEF Space, Filled, Page
<1>2. CASE t.ptr # 0
    <2>1. /\ t.space \in Space /\ Filled(t.space) /\ Evolves(v, t.space, version, m)
          /\ t.ptr \in Page /\ Taken(t.ptr, v, m)
        BY <1>2, PopHeadStep
    <2>2. /\ r.ptr = t.ptr
          /\ r.space = [t.space EXCEPT !.updates = t.space.updates \cup {t.ptr}]
        BY <1>2 DEF page_new
    <2> HIDE DEF r, t
    <2>3. /\ r.space \in Space /\ r.space.items = t.space.items
          /\ r.space.nodes = t.space.nodes /\ r.space.top = t.space.top
          /\ r.space.head = t.space.head /\ r.space.tail = t.space.tail
          /\ r.space.updates = t.space.updates \cup {t.ptr}
        BY <2>1, <2>2 DEF Space
    <2>4. Filled(r.space)
        BY <2>1, <2>3 DEF Filled
    <2>5. Evolves(v, r.space, version, m)
        BY <2>1, <2>3 DEF Evolves, ItemSet
    <2> QED  BY <2>1, <2>2, <2>3, <2>4, <2>5 DEF r
<1>3. CASE t.ptr = 0
    <2>1. r.ptr = v.top /\ r.space = page_append(v)
        BY <1>3 DEF page_new
    <2> HIDE DEF r, t
    <2>2. v.top + 1 \in Nat /\ v.top + 1 # 0 /\ v.top <= v.top + 1 /\ v.top >= v.top
        BY <1>1
    <2>3. v.updates \cup {v.top} \in SUBSET Page
        BY <1>1
    <2>4. /\ r.space \in Space /\ r.space.items = v.items /\ r.space.nodes = v.nodes
          /\ r.space.head = v.head /\ r.space.tail = v.tail /\ r.space.top = v.top + 1
          /\ r.space.updates = v.updates \cup {v.top}
        BY <1>1, <2>1, <2>2, <2>3 DEF Space, page_append
    <2>5. Filled(r.space)
        BY <2>2, <2>4 DEF Filled
    <2>6. Taken(v.top, v, m)
        BY <2>2 DEF Taken
    <2>7. Evolves(v, r.space, version, m)
        BY <2>2, <2>4, <2>6 DEF Evolves, ItemSet
    <2> QED  BY <1>1, <2>1, <2>4, <2>5, <2>6, <2>7 DEF r
<1> QED  BY <1>2, <1>3

-----------------------------------------------------------------------------
(* Who owns a page *)

\* The pages of the free list: its nodes and its items.
Owned(v) == Nodes(v) \cup Ptrs(v)

Below(v) == \A q \in Owned(v) : q < v.top

\* Taking the first item out of the items.
LEMMA PtrTail ==
    ASSUME NEW s \in Seq(Item), s # <<>>, Distinct(s)
    PROVE  /\ Distinct(Tail(s)) /\ Head(s).ptr \in PtrSet(s)
           /\ PtrSet(Tail(s)) = PtrSet(s) \ {Head(s).ptr}
<1>1. /\ Len(s) \in Nat /\ Head(s) = s[1] /\ Head(s) \in ToSet(s) /\ Tail(s) \in Seq(Item)
      /\ Len(Tail(s)) = Len(s) - 1 /\ ToSet(s) = ToSet(Tail(s)) \cup {Head(s)}
    BY TailSet
<1>2. DOMAIN s = 1 .. Len(s) /\ DOMAIN Tail(s) = 1 .. Len(s) - 1
    BY <1>1, LenProperties
<1>3. \A i \in 1 .. Len(s) - 1 : Tail(s)[i] = s[i + 1]
    BY <1>1, HeadTailProperties
<1>4. \A n \in Nat : \A i \in 1 .. n - 1 : i + 1 \in 1 .. n /\ i + 1 # 1
    OBVIOUS
<1>5. \A i \in DOMAIN Tail(s) : i + 1 \in DOMAIN s /\ i + 1 # 1 /\ Tail(s)[i] = s[i + 1]
    BY <1>1, <1>2, <1>3, <1>4
<1>6. 1 \in DOMAIN s
    <2>1. Len(s) # 0
        BY EmptySeq
    <2> QED  BY <1>1, <1>2, <2>1
<1>7. Distinct(Tail(s))
    <2>1. SUFFICES ASSUME NEW i \in DOMAIN Tail(s), NEW j \in DOMAIN Tail(s),
                          Tail(s)[i].ptr = Tail(s)[j].ptr
                   PROVE  i = j
        BY DEF Distinct
    <2>2. i + 1 = j + 1
        BY <1>5, <2>1 DEF Distinct
    <2>3. i \in Nat /\ j \in Nat
        BY <1>1, <1>2
    <2> QED  BY <2>2, <2>3
<1>8. Head(s).ptr \notin PtrSet(Tail(s))
    <2>1. SUFFICES ASSUME NEW i \in DOMAIN Tail(s), Tail(s)[i].ptr = s[1].ptr  PROVE FALSE
        BY <1>1 DEF PtrSet, ToSet
    <2> QED  BY <1>5, <1>6, <2>1 DEF Distinct
<1>9. PtrSet(s) = PtrSet(Tail(s)) \cup {Head(s).ptr}
    BY <1>1 DEF PtrSet
<1> QED  BY <1>7, <1>8, <1>9

\* Adding an item at the end.
LEMMA PtrAppend ==
    ASSUME NEW s \in Seq(Item), NEW y \in Item
    PROVE  /\ PtrSet(Append(s, y)) = PtrSet(s) \cup {y.ptr}
           /\ Distinct(s) /\ y.ptr \notin PtrSet(s) => Distinct(Append(s, y))
<1>1. Append(s, y) \in Seq(Item) /\ Len(s) \in Nat /\ ToSet(Append(s, y)) = ToSet(s) \cup {y}
    BY AppendSet
<1>2. /\ DOMAIN s = 1 .. Len(s) /\ DOMAIN Append(s, y) = 1 .. Len(s) + 1
      /\ \A i \in 1 .. Len(s) : Append(s, y)[i] = s[i]
      /\ Append(s, y)[Len(s) + 1] = y
    BY <1>1, LenProperties, AppendProperties
<1>3. \A i \in DOMAIN Append(s, y) :
          \/ i \in DOMAIN s /\ Append(s, y)[i] = s[i]
          \/ i = Len(s) + 1 /\ Append(s, y)[i] = y
    <2>1. \A n \in Nat : \A i \in 1 .. n + 1 : i \in 1 .. n \/ i = n + 1
        OBVIOUS
    <2> QED  BY <1>1, <1>2, <2>1
<1>4. \A i \in DOMAIN s : s[i].ptr \in PtrSet(s)
    BY DEF PtrSet, ToSet
<1>5. PtrSet(Append(s, y)) = PtrSet(s) \cup {y.ptr}
    BY <1>1 DEF PtrSet
<1>6. ASSUME Distinct(s), y.ptr \notin PtrSet(s)  PROVE Distinct(Append(s, y))
    BY <1>3, <1>4, <1>6 DEF Distinct
<1> QED  BY <1>5, <1>6

\* The same for the nodes.
LEMMA NodeTail ==
    ASSUME NEW s \in Seq(Page), s # <<>>, IsInjective(s)
    PROVE  /\ IsInjective(Tail(s)) /\ Head(s) \in ToSet(s)
           /\ ToSet(Tail(s)) = ToSet(s) \ {Head(s)}
<1>1. /\ Len(s) \in Nat /\ Head(s) = s[1] /\ Head(s) \in ToSet(s) /\ Tail(s) \in Seq(Page)
      /\ Len(Tail(s)) = Len(s) - 1 /\ ToSet(s) = ToSet(Tail(s)) \cup {Head(s)}
    BY TailSet
<1>2. DOMAIN s = 1 .. Len(s) /\ DOMAIN Tail(s) = 1 .. Len(s) - 1
    BY <1>1, LenProperties
<1>3. \A i \in 1 .. Len(s) - 1 : Tail(s)[i] = s[i + 1]
    BY <1>1, HeadTailProperties
<1>4. \A n \in Nat : \A i \in 1 .. n - 1 : i + 1 \in 1 .. n /\ i + 1 # 1
    OBVIOUS
<1>5. \A i \in DOMAIN Tail(s) : i + 1 \in DOMAIN s /\ i + 1 # 1 /\ Tail(s)[i] = s[i + 1]
    BY <1>1, <1>2, <1>3, <1>4
<1>6. 1 \in DOMAIN s
    <2>1. Len(s) # 0
        BY EmptySeq
    <2> QED  BY <1>1, <1>2, <2>1
<1>7. IsInjective(Tail(s))
    <2>1. SUFFICES ASSUME NEW i \in DOMAIN Tail(s), NEW j \in DOMAIN Tail(s),
                          Tail(s)[i] = Tail(s)[j]
                   PROVE  i = j
        BY DEF IsInjective
    <2>2. i + 1 = j + 1
        BY <1>5, <2>1 DEF IsInjective
    <2>3. i \in Nat /\ j \in Nat
        BY <1>1, <1>2
    <2> QED  BY <2>2, <2>3
<1>8. Head(s) \notin ToSet(Tail(s))
    <2>1. SUFFICES ASSUME NEW i \in DOMAIN Tail(s), Tail(s)[i] = s[1]  PROVE FALSE
        BY <1>1 DEF ToSet
    <2> QED  BY <1>5, <1>6, <2>1 DEF IsInjective
<1> QED  BY <1>1, <1>7, <1>8

\* And adding a node at the end (push_tail links it).
LEMMA NodeAppend ==
    ASSUME NEW s \in Seq(Page), NEW n \in Page
    PROVE  /\ ToSet(Append(s, n)) = ToSet(s) \cup {n}
           /\ IsInjective(s) /\ n \notin ToSet(s) => IsInjective(Append(s, n))
<1>1. Append(s, n) \in Seq(Page) /\ Len(s) \in Nat /\ ToSet(Append(s, n)) = ToSet(s) \cup {n}
    BY AppendSet
<1>2. /\ DOMAIN s = 1 .. Len(s) /\ DOMAIN Append(s, n) = 1 .. Len(s) + 1
      /\ \A i \in 1 .. Len(s) : Append(s, n)[i] = s[i]
      /\ Append(s, n)[Len(s) + 1] = n
    BY <1>1, LenProperties, AppendProperties
<1>3. \A i \in DOMAIN Append(s, n) :
          \/ i \in DOMAIN s /\ Append(s, n)[i] = s[i]
          \/ i = Len(s) + 1 /\ Append(s, n)[i] = n
    <2>1. \A k \in Nat : \A i \in 1 .. k + 1 : i \in 1 .. k \/ i = k + 1
        OBVIOUS
    <2> QED  BY <1>1, <1>2, <2>1
<1>4. \A i \in DOMAIN s : s[i] \in ToSet(s)
    BY DEF ToSet
<1>5. ASSUME IsInjective(s), n \notin ToSet(s)  PROVE IsInjective(Append(s, n))
    BY <1>3, <1>4, <1>5 DEF IsInjective
<1> QED  BY <1>1, <1>5

\* From v to w the list gives up page p and the pages d.
GivesUp(v, w, p, d) ==
    /\ Unshared(w)
    /\ Owned(v) = Owned(w) \cup {p} \cup d
    /\ p \notin Owned(w) /\ d \cap Owned(w) = {} /\ p \notin d

\* From v to w the list takes page p over.
TakesOver(v, w, p) == Unshared(w) /\ Owned(w) = Owned(v) \cup {p}

\* pop gives up the item it takes and the node it drains.
LEMMA PopKeeps ==
    ASSUME NEW v \in Space, NEW w \in Space, Unshared(v), v.items # <<>>, v.nodes # <<>>,
           w.items = Tail(v.items), NEW d,
           \/ d = {} /\ w.nodes = v.nodes
           \/ d = {Head(v.nodes)} /\ w.nodes = Tail(v.nodes)
    PROVE  GivesUp(v, w, Head(v.items).ptr, d)
<1> DEFINE p == Head(v.items).ptr
<1>1. v.items \in Seq(Item) /\ v.nodes \in Seq(Page)
    BY DEF Space
<1>2. /\ Nodes(v) \cap Ptrs(v) = {} /\ Distinct(v.items) /\ IsInjective(v.nodes)
    BY DEF Unshared
<1>3. Distinct(w.items) /\ p \in Ptrs(v) /\ Ptrs(w) = Ptrs(v) \ {p}
    BY <1>1, <1>2, PtrTail DEF Ptrs
<1>4. /\ IsInjective(w.nodes) /\ d \subseteq Nodes(v) /\ Nodes(w) = Nodes(v) \ d
    BY <1>1, <1>2, NodeTail DEF Nodes
<1> QED  BY <1>2, <1>3, <1>4 DEF Unshared, Owned, GivesUp

\* append_item takes over the page it lists.
LEMMA AppendKeeps ==
    ASSUME NEW v \in Space, NEW w, Unshared(v), NEW y \in Item, y.ptr \notin Owned(v),
           w.items = Append(v.items, y), w.nodes = v.nodes
    PROVE  TakesOver(v, w, y.ptr)
<1>1. v.items \in Seq(Item)
    BY DEF Space
<1>2. Nodes(w) = Nodes(v)
    BY DEF Nodes
<1>3. Ptrs(w) = Ptrs(v) \cup {y.ptr} /\ Distinct(w.items)
    BY <1>1, PtrAppend DEF Ptrs, Unshared, Owned
<1> QED  BY <1>2, <1>3 DEF Unshared, Owned, TakesOver

\* Linking a node takes over the node's page.
LEMMA NodeKeeps ==
    ASSUME NEW v \in Space, NEW w, Unshared(v), NEW n \in Page, n \notin Owned(v),
           w.items = v.items, w.nodes = Append(v.nodes, n)
    PROVE  TakesOver(v, w, n)
<1>1. v.nodes \in Seq(Page)
    BY DEF Space
<1>2. Ptrs(w) = Ptrs(v)
    BY DEF Ptrs
<1>3. Nodes(w) = Nodes(v) \cup {n} /\ IsInjective(w.nodes)
    BY <1>1, NodeAppend DEF Nodes, Unshared, Owned
<1> QED  BY <1>2, <1>3 DEF Unshared, Owned, TakesOver

\* The pages between two tops: none, or the one that page_append added.
LEMMA Ranges == \A n \in Nat : n .. n - 1 = {} /\ n .. (n + 1) - 1 = {n}
OBVIOUS

\* link_tail moves pages around inside the list and appends at most one.
LEMMA LinkKeeps ==
    ASSUME NEW v \in Space, NEW m \in Nat, FullTail(v, m), NEW version \in Nat,
           NEW w, LinkPost(v, version, m, w), Unshared(v), Below(v)
    PROVE  Unshared(w) /\ Owned(w) = Owned(v) \cup (v.top .. w.top - 1)
<1> DEFINE x == Head(v.items)
           h == Head(v.nodes)
<1>1. /\ v.items \in Seq(Item) /\ v.nodes \in Seq(Page) /\ v.head \in 0 .. CAP - 1
      /\ v.tail \in 0 .. CAP - 1 /\ v.top \in Nat /\ v.updates \in SUBSET Page
      /\ v.top \in Page /\ v.nodes # <<>>
    BY DEF Space, FullTail, Page
<1>2. CASE /\ w.items = v.items /\ w.nodes = Append(v.nodes, v.top) /\ w.top = v.top + 1
    <2>1. v.top \notin Owned(v)
        <3>1. ~(v.top < v.top)
            BY <1>1
        <3> QED  BY <3>1 DEF Below
    <2>2. v.top .. w.top - 1 = {v.top}
        BY <1>1, <1>2, Ranges
    <2>3. TakesOver(v, w, v.top)
        BY <1>1, <1>2, <2>1, NodeKeeps, Zenon
    <2> QED  BY <2>2, <2>3 DEF TakesOver
<1>3. ASSUME v.items # <<>>
      PROVE  x \in Item /\ x.ptr \in Page /\ Tail(v.items) \in Seq(Item)
    <2>1. x \in Item /\ Tail(v.items) \in Seq(Item)
        BY <1>1, <1>3, TailSet
    <2> QED  BY <2>1 DEF Item
<1>4. CASE /\ v.items # <<>> /\ w.items = Tail(v.items)
           /\ w.nodes = Append(v.nodes, x.ptr) /\ w.top = v.top
    <2> DEFINE u == [v EXCEPT !.items = Tail(v.items)]
    <2>1. u \in Space /\ u.items = Tail(v.items) /\ u.nodes = v.nodes
        BY <1>1, <1>3, <1>4 DEF Space
    <2> HIDE DEF u
    <2>2. GivesUp(v, u, x.ptr, {})
        BY <1>1, <1>4, <2>1, PopKeeps, Zenon
    <2>3. TakesOver(u, w, x.ptr)
        <3>1. Unshared(u) /\ x.ptr \notin Owned(u) /\ x.ptr \in Page
            BY <1>3, <1>4, <2>2 DEF GivesUp
        <3>2. w.items = u.items /\ w.nodes = Append(u.nodes, x.ptr)
            BY <1>4, <2>1
        <3> QED  BY <2>1, <3>1, <3>2, NodeKeeps, Zenon
    <2>4. v.top .. w.top - 1 = {}
        BY <1>1, <1>4, Ranges
    <2> QED  BY <2>2, <2>3, <2>4 DEF GivesUp, TakesOver
<1>5. CASE /\ v.items # <<>>
           /\ w.items = Append(Tail(v.items), [ptr |-> h, ver |-> version])
           /\ w.nodes = Append(Tail(v.nodes), x.ptr) /\ w.top = v.top
    <2> DEFINE u == [v EXCEPT !.items = Tail(v.items), !.nodes = Tail(v.nodes)]
               t == [u EXCEPT !.nodes = Append(u.nodes, x.ptr)]
               y == [ptr |-> h, ver |-> version]
    <2>1. h \in Page /\ Tail(v.nodes) \in Seq(Page)
        BY <1>1, TailSet
    <2>2. u \in Space /\ u.items = Tail(v.items) /\ u.nodes = Tail(v.nodes)
        BY <1>1, <1>3, <1>5, <2>1 DEF Space
    <2>3. Append(Tail(v.nodes), x.ptr) \in Seq(Page)
        BY <1>3, <1>5, <2>1, AppendSet
    <2>4. t \in Space /\ t.items = Tail(v.items) /\ t.nodes = Append(u.nodes, x.ptr)
        BY <1>1, <1>3, <1>5, <2>2, <2>3 DEF Space
    <2>5. y \in Item /\ y.ptr = h
        BY <2>1 DEF Item
    <2>6. w.items = Append(t.items, y) /\ w.nodes = t.nodes
        BY <1>5, <2>2, <2>4
    <2>10. x.ptr \in Page /\ t.items = u.items
        BY <1>3, <1>5, <2>2, <2>4
    <2> HIDE DEF u, t, y
    <2>7. GivesUp(v, u, x.ptr, {h})
        BY <1>1, <1>5, <2>2, PopKeeps, Zenon
    <2>8. TakesOver(u, t, x.ptr)
        <3>1. Unshared(u) /\ x.ptr \notin Owned(u)
            BY <2>7 DEF GivesUp
        <3> QED  BY <2>2, <2>4, <2>10, <3>1, NodeKeeps, Zenon
    <2>9. TakesOver(t, w, h)
        <3>1. Unshared(t) /\ h \notin Owned(t)
            BY <2>7, <2>8 DEF GivesUp, TakesOver
        <3>2. y.ptr \notin Owned(t)
            BY <2>5, <3>1
        <3>3. TakesOver(t, w, y.ptr)
            BY <2>4, <2>5, <2>6, <3>1, <3>2, AppendKeeps, Zenon
        <3> QED  BY <2>5, <3>3
    <2>11. v.top .. w.top - 1 = {}
        BY <1>1, <1>5, Ranges
    <2> QED  BY <2>7, <2>8, <2>9, <2>11 DEF GivesUp, TakesOver
<1> QED  BY <1>2, <1>4, <1>5 DEF LinkPost

\* push_tail: the list owns p, and whatever page it appended, from now on.
LEMMA PushKeeps ==
    ASSUME NEW v \in Space, Filled(v), NEW p \in Page, NEW version \in Nat, NEW m \in Nat,
           version >= m, Unshared(v), Below(v), p \notin Owned(v), p < v.top
    PROVE  LET w == push_tail(v, p, version, m)
           IN  Unshared(w) /\ Owned(w) = (Owned(v) \cup {p}) \cup (v.top .. w.top - 1)
<1> DEFINE w == push_tail(v, p, version, m)
           a == append_item(v, p, version)
           y == [ptr |-> p, ver |-> version]
<1>1. a \in Space /\ (a.tail = 0 => FullTail(a, m))
    BY AppendFills
<1>2. Appended(v, p, version, a)
    BY AppendStep
<1>3. a.nodes = v.nodes /\ a.items = Append(v.items, y) /\ a.top = v.top
    BY <1>2 DEF Appended
<1>4. y \in Item /\ y.ptr = p
    BY DEF Item
<1>5. w = IF a.tail # 0 THEN a ELSE link_tail(a, version, m)
    BY DEF push_tail
<1> HIDE DEF a, w, y
<1>6. Unshared(a) /\ Owned(a) = Owned(v) \cup {p}
    <2>1. y.ptr \notin Owned(v)
        BY <1>4
    <2>2. TakesOver(v, a, y.ptr)
        BY <1>3, <1>4, <2>1, AppendKeeps, Zenon
    <2> QED  BY <1>4, <2>2 DEF TakesOver
<1>7. v.top \in Nat
    BY DEF Space
<1>8. CASE a.tail # 0
    <2>1. v.top .. w.top - 1 = {}
        BY <1>3, <1>5, <1>7, <1>8, Ranges
    <2> QED  BY <1>5, <1>6, <1>8, <2>1 DEF w
<1>9. CASE a.tail = 0
    <2>1. LinkPost(a, version, m, w)
        BY <1>1, <1>5, <1>9, LinkStep
    <2>2. Below(a)
        BY <1>3, <1>6 DEF Below
    <2>3. Unshared(w) /\ Owned(w) = Owned(a) \cup (a.top .. w.top - 1)
        BY <1>1, <1>6, <1>9, <2>1, <2>2, LinkKeeps
    <2> QED  BY <1>3, <1>6, <2>3 DEF w
<1> QED  BY <1>8, <1>9

\* page_new: the page handed out leaves the list, and nothing else does.
LEMMA PageNewKeeps ==
    ASSUME NEW v \in Space, Filled(v), NEW version \in Nat, NEW m \in Nat, version >= m,
           Unshared(v), Below(v)
    PROVE  LET r == page_new(v, version, m)
           IN  /\ Unshared(r.space) /\ r.ptr \notin Owned(r.space)
               /\ Owned(r.space) \cup {r.ptr} = Owned(v) \cup (v.top .. r.space.top - 1)
<1> DEFINE r == page_new(v, version, m)
           popped == pop(v, m)
           u == popped.space
           h == popped.drained_head
           t == pop_head(v, version, m)
<1>1. /\ v.items \in Seq(Item) /\ v.nodes \in Seq(Page) /\ v.tail \in 0 .. CAP - 1
      /\ v.top \in Nat /\ v.nodes # <<>> /\ Slots(v, v.tail)
    BY DEF Space, Filled, Slots
<1>2. v.tail \in 0 .. CAP /\ v.tail # CAP
    BY <1>1, CapAssumption
<1>3. /\ t.ptr = popped.ptr
      /\ t.space = IF h # 0 THEN push_tail(u, h, version, m) ELSE u
    BY DEF pop_head
<1>4. CASE t.ptr = 0
    <2>1. r.ptr = v.top /\ r.space = page_append(v)
        BY <1>4 DEF page_new
    <2>2. /\ r.space.items = v.items /\ r.space.nodes = v.nodes /\ r.space.top = v.top + 1
        BY <2>1 DEF page_append, Space
    <2> HIDE DEF r
    <2>3. Unshared(r.space) /\ Owned(r.space) = Owned(v)
        BY <2>2 DEF Unshared, Owned, Nodes, Ptrs
    <2>4. v.top \notin Owned(v)
        <3>1. ~(v.top < v.top)
            BY <1>1
        <3> QED  BY <3>1 DEF Below
    <2>5. v.top .. r.space.top - 1 = {v.top}
        BY <1>1, <2>2, Ranges
    <2> QED  BY <2>1, <2>3, <2>4, <2>5 DEF r
<1>5. CASE t.ptr # 0
    <2>1. r.ptr = t.ptr /\ r.space = [t.space EXCEPT !.updates = t.space.updates \cup {t.ptr}]
        BY <1>5 DEF page_new
    <2>2. t.space \in Space /\ popped.ptr # 0
        BY <1>3, <1>5, PopHeadStep
    <2>3. /\ v.items # <<>> /\ popped.ptr = Head(v.items).ptr
          /\ u \in Space /\ u.items = Tail(v.items) /\ u.top = v.top
          /\ \/ h = 0 /\ u.nodes = v.nodes
             \/ h = Head(v.nodes) /\ h \in Page /\ u.nodes = Tail(v.nodes)
        BY <1>1, <1>2, <2>2, PopStep
    <2>4. Filled(u)
        BY <2>2, PopEvolves
    <2>5. /\ r.space.items = t.space.items /\ r.space.nodes = t.space.nodes
          /\ r.space.top = t.space.top
        BY <2>1, <2>2 DEF Space
    <2> HIDE DEF r, t, popped, u, h
    <2>6. Owned(r.space) = Owned(t.space) /\ (Unshared(t.space) => Unshared(r.space))
        BY <2>5 DEF Unshared, Owned, Nodes, Ptrs
    <2>7. CASE h = 0
        <3>1. u.nodes = v.nodes
            BY <2>3, <2>7 DEF Page
        <3>4. GivesUp(v, u, Head(v.items).ptr, {})
            BY <1>1, <2>3, <3>1, PopKeeps, Zenon
        <3>2. /\ Unshared(u) /\ Owned(v) = Owned(u) \cup {Head(v.items).ptr}
              /\ Head(v.items).ptr \notin Owned(u)
            BY <3>4 DEF GivesUp
        <3>3. t.space = u /\ v.top .. r.space.top - 1 = {}
            BY <1>1, <1>3, <2>3, <2>5, <2>7, Ranges
        <3> QED  BY <1>3, <2>1, <2>3, <2>6, <3>2, <3>3 DEF r
    <2>8. CASE h # 0
        <3>1. h = Head(v.nodes) /\ h \in Page /\ u.nodes = Tail(v.nodes)
            BY <2>3, <2>8
        <3>8. GivesUp(v, u, Head(v.items).ptr, {Head(v.nodes)})
            BY <1>1, <2>3, <3>1, PopKeeps, Zenon
        <3>2. /\ Unshared(u) /\ Owned(v) = Owned(u) \cup {Head(v.items).ptr} \cup {Head(v.nodes)}
              /\ Head(v.items).ptr \notin Owned(u) /\ {Head(v.nodes)} \cap Owned(u) = {}
              /\ Head(v.items).ptr \notin {Head(v.nodes)}
            BY <3>8 DEF GivesUp
        <3>3. /\ Below(u) /\ h \notin Owned(u) /\ h < u.top
            BY <2>3, <3>1, <3>2 DEF Below
        <3>4. t.space = push_tail(u, h, version, m)
            BY <1>3, <2>8
        <3>5. /\ Unshared(t.space)
              /\ Owned(t.space) = (Owned(u) \cup {h}) \cup (u.top .. t.space.top - 1)
            BY <2>3, <2>4, <3>1, <3>2, <3>3, <3>4, PushKeeps
        <3>6. Head(v.items).ptr < v.top /\ Head(v.items).ptr \in Nat
            <4>1. Head(v.items) \in Item
                BY <1>1, <2>3, TailSet
            <4> QED  BY <3>2, <4>1 DEF Below, Item, Page
        <3>7. Head(v.items).ptr \notin u.top .. t.space.top - 1
            BY <1>1, <2>3, <3>6
        <3> QED  BY <1>3, <2>1, <2>3, <2>5, <2>6, <3>1, <3>2, <3>5, <3>7 DEF r
    <2> QED  BY <2>7, <2>8
<1> QED  BY <1>4, <1>5

-----------------------------------------------------------------------------
(* The order of the items, and the pages that are buffered *)

\* Taking the oldest item leaves the others in order.
LEMMA OrderTail ==
    ASSUME NEW s \in Seq(Item), s # <<>>, NEW version, Ordered(s, version)
    PROVE  Ordered(Tail(s), version)
<1>1. Len(s) \in Nat /\ Tail(s) \in Seq(Item) /\ Len(Tail(s)) = Len(s) - 1
    BY TailSet
<1>2. DOMAIN s = 1 .. Len(s) /\ DOMAIN Tail(s) = 1 .. Len(s) - 1
    BY <1>1, LenProperties
<1>3. \A i \in 1 .. Len(s) - 1 : Tail(s)[i] = s[i + 1]
    BY <1>1, HeadTailProperties
<1>4. \A n \in Nat : \A i, j \in 1 .. n - 1 :
          i + 1 \in 1 .. n /\ (i <= j => i + 1 <= j + 1)
    OBVIOUS
<1>5. \A i, j \in DOMAIN Tail(s) :
          /\ i + 1 \in DOMAIN s /\ Tail(s)[i] = s[i + 1]
          /\ i <= j => i + 1 <= j + 1
    BY <1>1, <1>2, <1>3, <1>4
<1> QED  BY <1>5 DEF Ordered

\* An item freed now goes last.
LEMMA OrderAppend ==
    ASSUME NEW s \in Seq(Item), NEW y \in Item, NEW version \in Nat, y.ver = version,
           Ordered(s, version)
    PROVE  Ordered(Append(s, y), version)
<1>1. Append(s, y) \in Seq(Item) /\ Len(s) \in Nat
    BY AppendSet
<1>2. /\ DOMAIN s = 1 .. Len(s) /\ DOMAIN Append(s, y) = 1 .. Len(s) + 1
      /\ \A i \in 1 .. Len(s) : Append(s, y)[i] = s[i]
      /\ Append(s, y)[Len(s) + 1] = y
    BY <1>1, LenProperties, AppendProperties
<1>3. \A n \in Nat : \A i \in 1 .. n + 1 : (i \in 1 .. n \/ i = n + 1) /\ i <= n + 1
    OBVIOUS
<1>4. \A i \in DOMAIN Append(s, y) :
          \/ i \in DOMAIN s /\ Append(s, y)[i] = s[i]
          \/ i = Len(s) + 1 /\ Append(s, y)[i] = y
    BY <1>1, <1>2, <1>3
<1>5. \A i \in DOMAIN Append(s, y) : Append(s, y)[i].ver <= version
    BY <1>4 DEF Ordered
<1>6. \A i \in DOMAIN s : ~(Len(s) + 1 <= i)
    BY <1>1, <1>2
<1>7. \A i, j \in DOMAIN Append(s, y) : i <= j => Append(s, y)[i].ver <= Append(s, y)[j].ver
    BY <1>4, <1>5, <1>6 DEF Ordered
<1> QED  BY <1>5, <1>7 DEF Ordered

\* What an update does to its list in version: the order of the items stays,
\* a buffered page stays buffered, and a page that is appended to the file is.
Grows(v, w, version) ==
    /\ Ordered(v.items, version) => Ordered(w.items, version)
    /\ v.updates \subseteq w.updates
    /\ v.top <= w.top /\ v.top .. w.top - 1 \subseteq w.updates

\* One update after the other.
LEMMA GrowsTrans ==
    ASSUME NEW v \in Space, NEW u \in Space, NEW w \in Space, NEW version,
           Grows(v, u, version), Grows(u, w, version)
    PROVE  Grows(v, w, version)
<1>1. v.top \in Nat /\ u.top \in Nat /\ w.top \in Nat
    BY DEF Space
<1>2. v.top <= u.top /\ u.top <= w.top
    BY DEF Grows
<1>3. v.top .. w.top - 1 \subseteq (v.top .. u.top - 1) \cup (u.top .. w.top - 1) /\ v.top <= w.top
    BY <1>1, <1>2
<1> QED  BY <1>3 DEF Grows

\* Nothing appended to the file.
LEMMA GrowsInPlace ==
    ASSUME NEW v \in Space, NEW w, NEW version, w.top = v.top, v.updates \subseteq w.updates,
           Ordered(v.items, version) => Ordered(w.items, version)
    PROVE  Grows(v, w, version)
<1>1. v.top .. w.top - 1 = {} /\ v.top <= w.top
    BY Ranges DEF Space
<1> QED  BY <1>1 DEF Grows

\* FreeList::push_tail
LEMMA PushGrows ==
    ASSUME NEW v \in Space, Filled(v), NEW p \in Page, NEW version \in Nat, NEW m \in Nat,
           version >= m
    PROVE  Grows(v, push_tail(v, p, version, m), version)
<1> DEFINE w == push_tail(v, p, version, m)
           a == append_item(v, p, version)
<1>1. a \in Space /\ (a.tail = 0 => FullTail(a, m)) /\ Appended(v, p, version, a)
    BY AppendFills, AppendStep
<1>2. w = IF a.tail # 0 THEN a ELSE link_tail(a, version, m)
    BY DEF push_tail
<1> HIDE DEF a, w
<1>3. Grows(v, a, version)
    <2>1. v.items \in Seq(Item) /\ [ptr |-> p, ver |-> version] \in Item
        BY DEF Space, Item
    <2>2. Ordered(v.items, version) => Ordered(a.items, version)
        BY <1>1, <2>1, OrderAppend DEF Appended
    <2> QED  BY <1>1, <2>2, GrowsInPlace DEF Appended
<1>4. ASSUME a.tail = 0  PROVE Grows(a, w, version) /\ w \in Space
    <2> DEFINE x == Head(a.items)
               y == [ptr |-> Head(a.nodes), ver |-> version]
    <2>1. LinkPost(a, version, m, w)
        BY <1>1, <1>2, <1>4, LinkStep
    <2>2. a.items \in Seq(Item) /\ a.nodes \in Seq(Page) /\ a.nodes # <<>> /\ a.top \in Nat
        BY <1>1, <1>4 DEF Space, FullTail
    <2>3. w \in Space
        BY <2>1 DEF LinkPost
    <2>4. CASE w.items = a.items /\ w.top = a.top + 1 /\ w.updates = a.updates \cup {a.top, Last(a.nodes)}
        <3>1. a.top .. w.top - 1 = {a.top} /\ a.top <= w.top
            BY <2>2, <2>4, Ranges
        <3> QED  BY <2>3, <2>4, <3>1 DEF Grows
    <2>5. ASSUME a.items # <<>>
          PROVE  /\ Tail(a.items) \in Seq(Item)
                 /\ Ordered(a.items, version) => Ordered(Tail(a.items), version)
        BY <2>2, <2>5, TailSet, OrderTail
    <2>6. CASE /\ a.items # <<>> /\ w.items = Tail(a.items)
               /\ w.top = a.top /\ w.updates = a.updates \cup {Last(a.nodes)}
        BY <1>1, <2>3, <2>5, <2>6, GrowsInPlace
    <2>7. CASE /\ a.items # <<>> /\ w.items = Append(Tail(a.items), y)
               /\ w.top = a.top /\ w.updates = a.updates \cup {Last(a.nodes), x.ptr}
        <3>1. y \in Item /\ y.ver = version
            BY <2>2, TailSet DEF Item
        <3>2. Ordered(a.items, version) => Ordered(w.items, version)
            BY <2>5, <2>7, <3>1, OrderAppend
        <3> QED  BY <1>1, <2>3, <2>7, <3>2, GrowsInPlace
    <2> QED  BY <2>1, <2>4, <2>6, <2>7, Zenon DEF LinkPost
<1>5. Grows(v, w, version)
    BY <1>1, <1>2, <1>3, <1>4, GrowsTrans
<1> QED  BY <1>5 DEF w

\* KVTX::page_new, which buffers the page it hands out.
LEMMA PageNewGrows ==
    ASSUME NEW v \in Space, Filled(v), NEW version \in Nat, NEW m \in Nat, version >= m
    PROVE  LET r == page_new(v, version, m)
           IN  Grows(v, r.space, version) /\ r.ptr \in r.space.updates
<1> DEFINE r == page_new(v, version, m)
           popped == pop(v, m)
           u == popped.space
           h == popped.drained_head
           t == pop_head(v, version, m)
<1>1. /\ v.items \in Seq(Item) /\ v.nodes \in Seq(Page) /\ v.tail \in 0 .. CAP - 1
      /\ v.top \in Nat /\ v.nodes # <<>> /\ Slots(v, v.tail)
    BY DEF Space, Filled, Slots
<1>2. v.tail \in 0 .. CAP /\ v.tail # CAP
    BY <1>1, CapAssumption
<1>3. /\ t.ptr = popped.ptr
      /\ t.space = IF h # 0 THEN push_tail(u, h, version, m) ELSE u
    BY DEF pop_head
<1>4. CASE t.ptr = 0
    <2>1. r.ptr = v.top /\ r.space = page_append(v)
        BY <1>4 DEF page_new
    <2>2. /\ r.space.items = v.items /\ r.space.top = v.top + 1
          /\ r.space.updates = v.updates \cup {v.top}
        BY <2>1 DEF page_append, Space
    <2> HIDE DEF r
    <2>3. v.top .. r.space.top - 1 = {v.top} /\ v.top <= r.space.top
        BY <1>1, <2>2, Ranges
    <2> QED  BY <2>1, <2>2, <2>3 DEF Grows, r
<1>5. CASE t.ptr # 0
    <2>1. r.ptr = t.ptr /\ r.space = [t.space EXCEPT !.updates = t.space.updates \cup {t.ptr}]
        BY <1>5 DEF page_new
    <2>2. t.space \in Space /\ popped.ptr # 0
        BY <1>3, <1>5, PopHeadStep
    <2>3. /\ v.items # <<>> /\ u \in Space /\ u.items = Tail(v.items) /\ u.top = v.top
          /\ u.updates = v.updates
          /\ \/ h = 0 /\ u.nodes = v.nodes
             \/ h = Head(v.nodes) /\ h \in Page /\ u.nodes = Tail(v.nodes)
        BY <1>1, <1>2, <2>2, PopStep
    <2>4. Filled(u)
        BY <2>2, PopEvolves
    <2> HIDE DEF r, t, popped, u, h
    <2>5. Grows(v, u, version)
        BY <1>1, <2>3, OrderTail, GrowsInPlace
    <2>6. Grows(v, t.space, version)
        <3>1. CASE h = 0
            BY <1>3, <2>5, <3>1
        <3>2. CASE h # 0
            <4>1. h \in Page
                BY <2>3, <3>2
            <4>2. Grows(u, t.space, version)
                BY <1>3, <2>3, <2>4, <3>2, <4>1, PushGrows
            <4> QED  BY <2>2, <2>3, <2>5, <4>2, GrowsTrans
        <3> QED  BY <3>1, <3>2
    <2>7. /\ r.space.items = t.space.items /\ r.space.top = t.space.top
          /\ r.space.updates = t.space.updates \cup {t.ptr}
        BY <2>1, <2>2 DEF Space
    <2> QED  BY <2>1, <2>6, <2>7 DEF Grows, r
<1> QED  BY <1>4, <1>5

-----------------------------------------------------------------------------
(* The pages of a file: a tree and a free list *)

\* page_new hands a page of the list, or a new one, to the tree.
LEMMA NewPartitioned ==
    ASSUME NEW tree, NEW v, NEW w, NEW p, v.top \in Nat, w.top \in Nat,
           1 <= v.top, v.top <= w.top, Partitioned(tree, v), Unshared(w), p \notin Owned(w),
           Owned(w) \cup {p} = Owned(v) \cup (v.top .. w.top - 1)
    PROVE  Partitioned(tree \cup {p}, w)
<1>1. tree \cup Owned(v) = 1 .. v.top - 1 /\ tree \cap Owned(v) = {}
    BY DEF Partitioned, Owned
<1>2. /\ (1 .. v.top - 1) \cup (v.top .. w.top - 1) = 1 .. w.top - 1
      /\ (1 .. v.top - 1) \cap (v.top .. w.top - 1) = {}
    OBVIOUS
<1>3. tree \cap (v.top .. w.top - 1) = {}
    BY <1>1, <1>2
<1>4. (tree \cup {p}) \cup Owned(w) = 1 .. w.top - 1
    BY <1>1, <1>2
<1>5. (tree \cup {p}) \cap Owned(w) = {}
    BY <1>1, <1>3
<1> QED  BY <1>4, <1>5 DEF Partitioned, Owned

\* page_del hands a page of the tree to the list.
LEMMA DelPartitioned ==
    ASSUME NEW tree, NEW v, NEW w, NEW p \in tree, v.top \in Nat, w.top \in Nat,
           1 <= v.top, v.top <= w.top, Partitioned(tree, v), Unshared(w),
           Owned(w) = (Owned(v) \cup {p}) \cup (v.top .. w.top - 1)
    PROVE  Partitioned(tree \ {p}, w)
<1>1. tree \cup Owned(v) = 1 .. v.top - 1 /\ tree \cap Owned(v) = {}
    BY DEF Partitioned, Owned
<1>2. /\ (1 .. v.top - 1) \cup (v.top .. w.top - 1) = 1 .. w.top - 1
      /\ (1 .. v.top - 1) \cap (v.top .. w.top - 1) = {}
    OBVIOUS
<1>3. tree \cap (v.top .. w.top - 1) = {}
    BY <1>1, <1>2
<1>4. (tree \ {p}) \cup Owned(w) = 1 .. w.top - 1
    BY <1>1, <1>2
<1>5. (tree \ {p}) \cap Owned(w) = {}
    BY <1>1, <1>3
<1> QED  BY <1>4, <1>5 DEF Partitioned, Owned

\* What a partition says of its free list alone.
LEMMA PartitionedBelow ==
    ASSUME NEW tree, NEW v, v.top \in Nat, Partitioned(tree, v)
    PROVE  /\ Unshared(v) /\ Below(v)
           /\ \A p \in tree : p \notin Owned(v) /\ p < v.top
<1>1. \A p \in 1 .. v.top - 1 : p < v.top
    OBVIOUS
<1> QED  BY <1>1 DEF Partitioned, Below, Owned

-----------------------------------------------------------------------------
(* The list in the words of its pages. A page has CAP slots, words           *)
(* 0 .. CAP - 1, and a next pointer, word CAP. These lemmas say when pages f *)
(* hold the queue v, that the writes of each operation leave them holding    *)
(* its result, and which words an operation may write. FreeListProofs        *)
(* applies them to the code's operations.                                    *)

-----------------------------------------------------------------------------
(* Slots: sequence numbers modulo CAP *)

\* Dividing a number by CAP (seq_to_idx).
LEMMA DivMod ==
    \A n \in Nat : n % CAP \in 0 .. CAP - 1 /\ n \div CAP \in Nat /\ n = (n \div CAP) * CAP + (n % CAP)
BY CapAssumption

\* A number determines its slot and its node.
LEMMA UniqueDiv ==
    \A a \in Nat : \A c \in 0 .. CAP - 1 : (a * CAP + c) % CAP = c /\ (a * CAP + c) \div CAP = a
BY CapAssumption

\* The slot after a slot is seq_to_idx of the next number.
LEMMA ModNext == \A n \in Nat : (n + 1) % CAP = NextSlot(n % CAP)
<1> SUFFICES ASSUME NEW n \in Nat  PROVE (n + 1) % CAP = NextSlot(n % CAP)
    OBVIOUS
<1> DEFINE a == n \div CAP
           c == n % CAP
<1>1. c \in 0 .. CAP - 1 /\ a \in Nat /\ n = a * CAP + c
    BY DivMod
<1> HIDE DEF a, c
<1>2. CASE c + 1 = CAP
    <2>1. n + 1 = (a + 1) * CAP + 0
        BY <1>1, <1>2, CapAssumption
    <2>2. a + 1 \in Nat /\ 0 \in 0 .. CAP - 1
        BY <1>1, CapAssumption
    <2>3. (n + 1) % CAP = 0
        BY <2>1, <2>2, UniqueDiv
    <2> QED  BY <1>2, <2>3 DEF NextSlot, c
<1>3. CASE c + 1 # CAP
    <2>1. n + 1 = a * CAP + (c + 1) /\ c + 1 \in 0 .. CAP - 1
        BY <1>1, <1>3, CapAssumption
    <2>2. (n + 1) % CAP = c + 1
        BY <1>1, <2>1, UniqueDiv
    <2> QED  BY <1>3, <2>2 DEF NextSlot, c
<1> QED  BY <1>2, <1>3

\* The i-th of L items is in one slot of one of the n nodes.
LEMMA SlotOf ==
    ASSUME NEW L \in Nat, NEW n \in Nat, NEW h \in 0 .. CAP - 1, NEW k \in 0 .. CAP,
           Fits(L, h, n, k), NEW i \in 1 .. L
    PROVE  LET j == (((i - 1) + h) \div CAP) + 1
               w == ((i - 1) + h) % CAP
           IN  j \in 1 .. n /\ w \in 0 .. CAP - 1 /\ Fits(i - 1, h, j, w)
<1> DEFINE q == ((i - 1) + h) \div CAP
           w == ((i - 1) + h) % CAP
<1>1. (i - 1) + h \in Nat
    BY CapAssumption
<1>2. w \in 0 .. CAP - 1 /\ q \in Nat /\ (i - 1) + h = q * CAP + w
    BY <1>1, DivMod
<1> HIDE DEF q, w
<1>3. Fits(i - 1, h, q + 1, w)
    BY <1>2, CapAssumption DEF Fits
<1>4. q * CAP < (n - 1) * CAP + CAP
    <2>1. L + h = (n - 1) * CAP + k
        BY DEF Fits
    <2>2. q * CAP \in Int /\ (n - 1) * CAP \in Int
        BY <1>2, CapAssumption
    <2> QED  BY <1>2, <2>1, <2>2, CapAssumption
<1>5. q < n
    <2>1. SUFFICES ASSUME q >= n  PROVE FALSE
        BY <1>2
    <2>2. q * CAP >= n * CAP /\ n * CAP = (n - 1) * CAP + CAP
        BY <1>2, <2>1, CapAssumption
    <2>3. q * CAP \in Int /\ n * CAP \in Int
        BY <1>2, CapAssumption
    <2> QED  BY <1>4, <2>2, <2>3
<1>6. q + 1 \in 1 .. n
    BY <1>2, <1>5
<1> QED  BY <1>2, <1>3, <1>6 DEF q, w

\* Two items in one slot of one node are the same item; an item has one slot.
LEMMA FitsUnique ==
    /\ \A L \in Nat, h \in 0 .. CAP - 1 : \A i, j \in Nat \ {0} : \A c, d \in 0 .. CAP - 1 :
          Fits(L, h, i, c) /\ Fits(L, h, j, d) => i = j /\ c = d
    /\ \A L, M \in Nat, h \in 0 .. CAP - 1 : \A n \in Nat \ {0} : \A c, d \in 0 .. CAP :
          Fits(L, h, n, c) /\ Fits(M, h, n, d) /\ L < M => c < d
<1>1. \A L \in Nat, h \in 0 .. CAP - 1 : \A i, j \in Nat \ {0} : \A c, d \in 0 .. CAP - 1 :
          Fits(L, h, i, c) /\ Fits(L, h, j, d) => i = j /\ c = d
    <2>1. \A a, b \in Nat : \A c, d \in 0 .. CAP - 1 : a * CAP + c = b * CAP + d => a = b /\ c = d
        BY CapAssumption
    <2>2. SUFFICES ASSUME NEW L \in Nat, NEW h \in 0 .. CAP - 1, NEW i \in Nat \ {0},
                          NEW j \in Nat \ {0}, NEW c \in 0 .. CAP - 1, NEW d \in 0 .. CAP - 1,
                          Fits(L, h, i, c), Fits(L, h, j, d)
                   PROVE  i = j /\ c = d
        BY Zenon
    <2>3. (i - 1) * CAP + c = (j - 1) * CAP + d
        BY <2>2 DEF Fits
    <2>4. i - 1 \in Nat /\ j - 1 \in Nat
        OBVIOUS
    <2>5. i - 1 = j - 1 /\ c = d
        BY <2>1, <2>3, <2>4
    <2> QED  BY <2>5
<1>2. \A L, M \in Nat, h \in 0 .. CAP - 1 : \A n \in Nat \ {0} : \A c, d \in 0 .. CAP :
          Fits(L, h, n, c) /\ Fits(M, h, n, d) /\ L < M => c < d
    <2>1. \A n \in Nat : (n - 1) * CAP \in Int
        BY CapAssumption
    <2> QED  BY <2>1, CapAssumption DEF Fits
<1> QED  BY <1>1, <1>2, Zenon

\* The slots after an item is taken from slot h of the first node.
LEMMA FitsShift ==
    ASSUME NEW i \in Nat, NEW h \in 0 .. CAP - 1, NEW j \in Nat, NEW k \in 0 .. CAP - 1
    PROVE  /\ Fits(i, h + 1, j, k) => Fits(i + 1, h, j, k)
           /\ h + 1 = CAP /\ Fits(i, 0, j, k) => Fits(i + 1, h, j + 1, k)
<1>1. (j - 1) * CAP \in Int /\ ((j + 1) - 1) * CAP = (j - 1) * CAP + CAP
    BY CapAssumption
<1> QED  BY <1>1, CapAssumption DEF Fits

-----------------------------------------------------------------------------
(* Pages that hold a queue *)

\* Each node points at the next one.
Links(f, nodes) == \A i \in 1 .. Len(nodes) - 1 : f[nodes[i]][CAP] = nodes[i + 1]

\* Each item is in its slot.
Stored(f, v) ==
    \A i \in 1 .. Len(v.items), j \in 1 .. Len(v.nodes), k \in 0 .. CAP - 1 :
        Fits(i - 1, v.head, j, k) => f[v.nodes[j]][k] = v.items[i]

Holds(f, v) == Links(f, v.nodes) /\ Stored(f, v)

\* Word w of page p is a link or an item of v.
LiveWord(v, p, w) ==
    \/ w = CAP /\ \E i \in 1 .. Len(v.nodes) - 1 : p = v.nodes[i]
    \/ /\ w \in 0 .. CAP - 1
       /\ \E i \in 1 .. Len(v.items), j \in 1 .. Len(v.nodes) :
             p = v.nodes[j] /\ Fits(i - 1, v.head, j, w)

\* f and g agree on the words of v.
SameWords(v, f, g) == \A p, w : LiveWord(v, p, w) => g[p][w] = f[p][w]

\* Pages with the same live words hold the same queue.
LEMMA HoldsSame ==
    ASSUME NEW f, NEW g, NEW v, Holds(f, v), SameWords(v, f, g)
    PROVE  Holds(g, v)
<1>1. Links(g, v.nodes)
    <2>1. SUFFICES ASSUME NEW i \in 1 .. Len(v.nodes) - 1
                   PROVE  g[v.nodes[i]][CAP] = v.nodes[i + 1]
        BY DEF Links
    <2>2. LiveWord(v, v.nodes[i], CAP)
        BY DEF LiveWord
    <2>3. f[v.nodes[i]][CAP] = v.nodes[i + 1]
        BY DEF Holds, Links
    <2> QED  BY <2>2, <2>3 DEF SameWords
<1>2. Stored(g, v)
    <2>1. SUFFICES ASSUME NEW i \in 1 .. Len(v.items), NEW j \in 1 .. Len(v.nodes),
                          NEW k \in 0 .. CAP - 1, Fits(i - 1, v.head, j, k)
                   PROVE  g[v.nodes[j]][k] = v.items[i]
        BY DEF Stored
    <2>2. LiveWord(v, v.nodes[j], k)
        BY <2>1, Zenon DEF LiveWord
    <2>3. f[v.nodes[j]][k] = v.items[i]
        BY <2>1 DEF Holds, Stored
    <2> QED  BY <2>2, <2>3 DEF SameWords
<1> QED  BY <1>1, <1>2 DEF Holds

\* The parts of a space that the lemmas below speak of.
LEMMA SpaceParts ==
    ASSUME NEW v \in Space
    PROVE  /\ v.items \in Seq(Item) /\ v.nodes \in Seq(Page)
           /\ v.head \in 0 .. CAP - 1 /\ v.tail \in 0 .. CAP - 1
           /\ v.top \in Nat /\ v.updates \in SUBSET Page
           /\ Len(v.items) \in Nat /\ Len(v.nodes) \in Nat
           /\ DOMAIN v.items = 1 .. Len(v.items) /\ DOMAIN v.nodes = 1 .. Len(v.nodes)
           /\ v.nodes # <<>> => Len(v.nodes) \in Nat \ {0} /\ Last(v.nodes) = v.nodes[Len(v.nodes)]
<1>1. v.items \in Seq(Item) /\ v.nodes \in Seq(Page) /\ v.head \in 0 .. CAP - 1
      /\ v.tail \in 0 .. CAP - 1 /\ v.top \in Nat /\ v.updates \in SUBSET Page
    BY DEF Space
<1>2. /\ Len(v.items) \in Nat /\ Len(v.nodes) \in Nat
      /\ DOMAIN v.items = 1 .. Len(v.items) /\ DOMAIN v.nodes = 1 .. Len(v.nodes)
    BY <1>1, LenProperties
<1>3. v.nodes # <<>> => Len(v.nodes) # 0
    BY <1>1, EmptySeq
<1> QED  BY <1>1, <1>2, <1>3 DEF Last

\* In the tail node, which holds k items, only the slots before k are live.
LEMMA LiveBefore ==
    ASSUME NEW v \in Space, v.nodes # <<>>, IsInjective(v.nodes), NEW k \in 0 .. CAP, Slots(v, k),
           NEW p, NEW w, LiveWord(v, p, w)
    PROVE  /\ p \in Nodes(v) /\ w \in 0 .. CAP
           /\ p = Last(v.nodes) => w < k
<1> DEFINE n == Len(v.nodes)
<1>1. /\ v.head \in 0 .. CAP - 1 /\ Len(v.items) \in Nat /\ n \in Nat \ {0}
      /\ DOMAIN v.nodes = 1 .. n /\ Last(v.nodes) = v.nodes[n]
    BY SpaceParts
<1>2. \A i, j \in 1 .. n : v.nodes[i] = v.nodes[j] => i = j
    BY <1>1 DEF IsInjective
<1>3. \A i \in 1 .. n : v.nodes[i] \in Nodes(v)
    BY <1>1 DEF Nodes, ToSet
<1>4. Fits(Len(v.items), v.head, n, k)
    BY DEF Slots
<1> HIDE DEF n
<1>5. CASE w = CAP /\ \E i \in 1 .. n - 1 : p = v.nodes[i]
    <2>1. PICK i \in 1 .. n - 1 : p = v.nodes[i]
        BY <1>5
    <2>2. i \in 1 .. n /\ i # n /\ n \in 1 .. n
        BY <1>1
    <2>3. p # v.nodes[n]
        BY <1>2, <2>1, <2>2
    <2> QED  BY <1>1, <1>3, <1>5, <2>1, <2>2, <2>3, CapAssumption
<1>6. CASE /\ w \in 0 .. CAP - 1
           /\ \E i \in 1 .. Len(v.items), j \in 1 .. n :
                 p = v.nodes[j] /\ Fits(i - 1, v.head, j, w)
    <2>1. PICK i \in 1 .. Len(v.items), j \in 1 .. n :
                 p = v.nodes[j] /\ Fits(i - 1, v.head, j, w)
        BY <1>6
    <2>2. ASSUME p = v.nodes[n]  PROVE w < k
        <3>1. j = n
            <4>1. n \in 1 .. n
                BY <1>1
            <4> QED  BY <1>2, <2>1, <2>2, <4>1, Zenon
        <3>2. i - 1 \in Nat /\ i - 1 < Len(v.items) /\ w \in 0 .. CAP
            BY <1>1, <1>6, CapAssumption
        <3>3. Fits(i - 1, v.head, n, w)
            BY <2>1, <3>1
        <3> QED  BY <1>1, <1>4, <3>2, <3>3, FitsUnique, Zenon
    <2> QED  BY <1>1, <1>3, <1>6, <2>1, <2>2, CapAssumption
<1> QED  BY <1>5, <1>6 DEF LiveWord, n

-----------------------------------------------------------------------------
(* What each operation leaves in the pages *)

\* The first item of the list is in slot head of its first node.
LEMMA FirstHeld ==
    ASSUME NEW f, NEW v \in Space, v.nodes # <<>>, v.items # <<>>, Holds(f, v)
    PROVE  f[v.nodes[1]][v.head] = Head(v.items)
<1>1. /\ Len(v.items) \in Nat /\ Len(v.items) >= 1 /\ Head(v.items) = v.items[1]
      /\ v.head \in 0 .. CAP - 1 /\ Len(v.nodes) \in Nat \ {0}
    BY SpaceParts, TailSet
<1>2. Fits(1 - 1, v.head, 1, v.head)
    BY <1>1, CapAssumption DEF Fits
<1>3. 1 \in 1 .. Len(v.items) /\ 1 \in 1 .. Len(v.nodes)
    BY <1>1
<1> QED  BY <1>1, <1>2, <1>3, Zenon DEF Holds, Stored

\* Taking the first item writes nothing, and the pages hold what is left.
LEMMA PopHolds ==
    ASSUME NEW f, NEW v \in Space, v.nodes # <<>>, NEW k \in 0 .. CAP, Slots(v, k),
           NEW m \in Nat, k = CAP => v.items[Len(v.items)].ver >= m,
           pop(v, m).ptr # 0, Holds(f, v)
    PROVE  Holds(f, pop(v, m).space)
<1> DEFINE w == pop(v, m).space
           L == Len(v.items)
           n == Len(v.nodes)
<1>1. /\ v.items # <<>> /\ w \in Space /\ w.nodes # <<>> /\ w.items = Tail(v.items)
      /\ w.nodes = v.nodes \/ (w.nodes = Tail(v.nodes) /\ Len(v.nodes) >= 2)
    BY PopStep
<1>2. /\ w.head = NextSlot(v.head)
      /\ w.nodes = IF NextSlot(v.head) = 0 THEN Tail(v.nodes) ELSE v.nodes
    <2>1. w = [v EXCEPT !.items = Tail(v.items), !.head = NextSlot(v.head),
                        !.nodes = IF NextSlot(v.head) = 0 THEN Tail(v.nodes) ELSE v.nodes]
        BY <1>1 DEF pop
    <2> QED  BY <2>1 DEF Space
<1>3. /\ v.head \in 0 .. CAP - 1 /\ L \in Nat /\ n \in Nat \ {0}
      /\ v.items \in Seq(Item) /\ v.nodes \in Seq(Page)
    BY SpaceParts
<1>4. /\ Len(w.items) = L - 1 /\ \A i \in 1 .. L - 1 : w.items[i] = v.items[i + 1]
    <2>1. Len(Tail(v.items)) = L - 1 /\ \A i \in 1 .. Len(Tail(v.items)) : Tail(v.items)[i] = v.items[i + 1]
        BY <1>1, <1>3, HeadTailProperties
    <2> QED  BY <1>1, <2>1, Zenon
<1>5. Len(Tail(v.nodes)) = n - 1 /\ \A i \in 1 .. n - 1 : Tail(v.nodes)[i] = v.nodes[i + 1]
    <2>1. Len(Tail(v.nodes)) = n - 1 /\ \A i \in 1 .. Len(Tail(v.nodes)) : Tail(v.nodes)[i] = v.nodes[i + 1]
        BY <1>3, HeadTailProperties
    <2> QED  BY <2>1, Zenon
<1> HIDE DEF w, L, n
<1>6. CASE NextSlot(v.head) # 0
    <2>1. w.nodes = v.nodes /\ w.head = v.head + 1
        BY <1>2, <1>3, <1>6 DEF NextSlot
    <2>2. Links(f, w.nodes)
        BY <2>1, Zenon DEF Holds
    <2>3. Stored(f, w)
        <3>1. SUFFICES ASSUME NEW i \in 1 .. L - 1, NEW j \in 1 .. n, NEW c \in 0 .. CAP - 1,
                              Fits(i - 1, v.head + 1, j, c)
                       PROVE  f[v.nodes[j]][c] = v.items[i + 1]
            BY <1>4, <2>1 DEF Stored, n
        <3>2. i - 1 \in Nat /\ j \in Nat /\ (i - 1) + 1 = (i + 1) - 1 /\ i + 1 \in 1 .. L
            BY <1>3
        <3>3. Fits((i + 1) - 1, v.head, j, c)
            BY <1>3, <3>1, <3>2, FitsShift
        <3> QED  BY <3>2, <3>3 DEF Holds, Stored, L, n
    <2> QED  BY <2>2, <2>3 DEF Holds, w
<1>7. CASE NextSlot(v.head) = 0
    <2>1. w.nodes = Tail(v.nodes) /\ w.head = 0 /\ v.head + 1 = CAP
        BY <1>2, <1>3, <1>7 DEF NextSlot
    <2>2. Len(w.nodes) = n - 1 /\ \A i \in 1 .. n - 1 : w.nodes[i] = v.nodes[i + 1]
        BY <1>5, <2>1
    <2>3. Links(f, w.nodes)
        <3>1. SUFFICES ASSUME NEW i \in 1 .. (n - 1) - 1  PROVE f[w.nodes[i]][CAP] = w.nodes[i + 1]
            BY <2>2 DEF Links
        <3>2. i \in 1 .. n - 1 /\ i + 1 \in 1 .. n - 1
            BY <1>3
        <3>3. w.nodes[i] = v.nodes[i + 1] /\ w.nodes[i + 1] = v.nodes[(i + 1) + 1]
            BY <2>2, <3>2
        <3>4. f[v.nodes[i + 1]][CAP] = v.nodes[(i + 1) + 1]
            BY <3>2 DEF Holds, Links, n
        <3> QED  BY <3>3, <3>4
    <2>4. Stored(f, w)
        <3>1. SUFFICES ASSUME NEW i \in 1 .. L - 1, NEW j \in 1 .. n - 1, NEW c \in 0 .. CAP - 1,
                              Fits(i - 1, 0, j, c)
                       PROVE  f[v.nodes[j + 1]][c] = v.items[i + 1]
            BY <1>4, <2>1, <2>2 DEF Stored
        <3>2. i - 1 \in Nat /\ j \in Nat /\ (i - 1) + 1 = (i + 1) - 1 /\ i + 1 \in 1 .. L /\ j + 1 \in 1 .. n
            BY <1>3
        <3>3. Fits((i + 1) - 1, v.head, j + 1, c)
            BY <1>3, <2>1, <3>1, <3>2, FitsShift
        <3> QED  BY <3>2, <3>3 DEF Holds, Stored, L, n
    <2> QED  BY <2>3, <2>4 DEF Holds, w
<1> QED  BY <1>6, <1>7

\* g is f with x in word w of page p.
Wrote(f, p, w, x, g) ==
    /\ DOMAIN g = DOMAIN f /\ g[p][w] = x
    /\ \A q \in DOMAIN f, z \in 0 .. CAP : q # p \/ z # w => g[q][z] = f[q][z]

\* g is f with any words in page p.
Replaced(f, p, g) ==
    /\ DOMAIN g = DOMAIN f
    /\ \A q \in DOMAIN f \ {p}, z \in 0 .. CAP : g[q][z] = f[q][z]

\* Writing over a page that is no node.
LEMMA ReplaceHolds ==
    ASSUME NEW f, NEW g, NEW v \in Space, v.nodes # <<>>, IsInjective(v.nodes), NEW k \in 0 .. CAP,
           Slots(v, k), Nodes(v) \subseteq DOMAIN f, NEW p, p \notin Nodes(v), Replaced(f, p, g),
           Holds(f, v)
    PROVE  Holds(g, v)
<1>1. ASSUME NEW q, NEW w, LiveWord(v, q, w)  PROVE g[q][w] = f[q][w]
    <2>1. q \in Nodes(v) /\ w \in 0 .. CAP
        BY <1>1, LiveBefore
    <2> QED  BY <2>1 DEF Replaced
<1> QED  BY <1>1, HoldsSame DEF SameWords

\* append_item's store, into the slot after the last item.
LEMMA AppendHolds ==
    ASSUME NEW f, NEW g, NEW v \in Space, Filled(v), IsInjective(v.nodes), NEW p \in Page,
           NEW version \in Nat, Nodes(v) \subseteq DOMAIN f,
           Wrote(f, Last(v.nodes), v.tail, [ptr |-> p, ver |-> version], g), Holds(f, v)
    PROVE  Holds(g, append_item(v, p, version))
<1> DEFINE x == [ptr |-> p, ver |-> version]
           a == append_item(v, p, version)
           L == Len(v.items)
           n == Len(v.nodes)
<1>1. Appended(v, p, version, a)
    BY AppendStep
<1>2. a.nodes = v.nodes /\ a.head = v.head /\ a.items = Append(v.items, x)
    BY <1>1 DEF Appended
<1>3. /\ v.head \in 0 .. CAP - 1 /\ v.tail \in 0 .. CAP - 1 /\ L \in Nat /\ n \in Nat \ {0}
      /\ v.items \in Seq(Item) /\ Last(v.nodes) = v.nodes[n] /\ v.nodes # <<>>
      /\ Fits(L, v.head, n, v.tail) /\ DOMAIN v.nodes = 1 .. n
    BY SpaceParts DEF Filled
<1>4. Len(a.items) = L + 1 /\ a.items[L + 1] = x /\ \A i \in 1 .. L : a.items[i] = v.items[i]
    <2>1. x \in Item
        BY DEF Item
    <2> QED  BY <1>2, <1>3, <2>1, AppendProperties
<1>5. \A i \in 1 .. n : v.nodes[i] \in DOMAIN f
    BY <1>3 DEF Nodes, ToSet
<1> HIDE DEF a, L, n
<1>6. SameWords(v, f, g)
    <2>1. SUFFICES ASSUME NEW q, NEW w, LiveWord(v, q, w)  PROVE g[q][w] = f[q][w]
        BY DEF SameWords
    <2>2. v.tail \in 0 .. CAP /\ Slots(v, v.tail)
        BY <1>3, CapAssumption DEF Slots, L, n
    <2>3. q \in Nodes(v) /\ w \in 0 .. CAP /\ (q = Last(v.nodes) => w < v.tail)
        BY <1>3, <2>1, <2>2, LiveBefore
    <2>4. q \in DOMAIN f /\ (q # Last(v.nodes) \/ w # v.tail)
        BY <1>3, <2>3
    <2> QED  BY <2>3, <2>4 DEF Wrote
<1>7. Holds(g, v)
    BY <1>6, HoldsSame
<1>8. Links(g, a.nodes)
    BY <1>2, <1>7, Zenon DEF Holds
<1>9. Stored(g, a)
    <2>1. SUFFICES ASSUME NEW i \in 1 .. L + 1, NEW j \in 1 .. n, NEW c \in 0 .. CAP - 1,
                          Fits(i - 1, v.head, j, c)
                   PROVE  g[v.nodes[j]][c] = a.items[i]
        BY <1>2, <1>4 DEF Stored, n
    <2>2. CASE i \in 1 .. L
        <3>1. g[v.nodes[j]][c] = v.items[i]
            BY <1>7, <2>1, <2>2, Zenon DEF Holds, Stored, L, n
        <3> QED  BY <1>4, <2>2, <3>1
    <2>3. CASE i = L + 1
        <3>1. Fits(L, v.head, j, c) /\ j \in Nat \ {0}
            <4>1. i - 1 = L
                BY <1>3, <2>3
            <4> QED  BY <1>3, <2>1, <4>1
        <3>2. j = n /\ c = v.tail
            BY <1>3, <3>1, FitsUnique, Zenon
        <3>3. g[Last(v.nodes)][v.tail] = x
            BY DEF Wrote
        <3> QED  BY <1>3, <1>4, <2>3, <3>2, <3>3
    <2> QED  BY <1>3, <2>2, <2>3
<1> QED  BY <1>8, <1>9 DEF Holds, a

\* The store into the next pointer of a full tail node.
LEMMA LinkHolds ==
    ASSUME NEW f, NEW g, NEW v \in Space, v.nodes # <<>>, IsInjective(v.nodes), Slots(v, CAP),
           NEW n \in Page, NEW U, NEW w, Linked(v, n, U, w), Nodes(v) \subseteq DOMAIN f,
           Wrote(f, Last(v.nodes), CAP, n, g), Holds(f, v)
    PROVE  Holds(g, w)
<1> DEFINE L == Len(v.items)
           N == Len(v.nodes)
<1>1. /\ v.head \in 0 .. CAP - 1 /\ L \in Nat /\ N \in Nat \ {0}
      /\ v.nodes \in Seq(Page) /\ Last(v.nodes) = v.nodes[N] /\ DOMAIN v.nodes = 1 .. N
      /\ Fits(L, v.head, N, CAP)
    BY SpaceParts DEF Slots
<1>2. w.items = v.items /\ w.nodes = Append(v.nodes, n) /\ w.head = v.head
    BY DEF Linked
<1>3. Len(w.nodes) = N + 1 /\ w.nodes[N + 1] = n /\ \A i \in 1 .. N : w.nodes[i] = v.nodes[i]
    BY <1>1, <1>2, AppendProperties
<1>4. \A i \in 1 .. N : v.nodes[i] \in DOMAIN f
    BY <1>1 DEF Nodes, ToSet
<1>5. \A i, j \in 1 .. N : v.nodes[i] = v.nodes[j] => i = j
    BY <1>1 DEF IsInjective
<1> HIDE DEF L, N
<1>6. Links(g, w.nodes)
    <2>1. SUFFICES ASSUME NEW i \in 1 .. N  PROVE g[w.nodes[i]][CAP] = w.nodes[i + 1]
        BY <1>1, <1>3 DEF Links
    <2>2. CASE i = N
        BY <1>1, <1>3, <2>2 DEF Wrote
    <2>3. CASE i # N
        <3>1. i \in 1 .. N - 1 /\ i + 1 \in 1 .. N /\ N \in 1 .. N
            BY <1>1, <2>3
        <3>2. f[v.nodes[i]][CAP] = v.nodes[i + 1]
            BY <3>1 DEF Holds, Links, N
        <3>3. v.nodes[i] # Last(v.nodes)
            BY <1>1, <1>5, <2>3, <3>1
        <3>4. v.nodes[i] \in DOMAIN f /\ CAP \in 0 .. CAP
            BY <1>4, CapAssumption
        <3>5. g[v.nodes[i]][CAP] = f[v.nodes[i]][CAP]
            BY <3>3, <3>4 DEF Wrote
        <3> QED  BY <1>3, <3>1, <3>2, <3>5
    <2> QED  BY <2>2, <2>3
<1>7. Stored(g, w)
    <2>1. SUFFICES ASSUME NEW i \in 1 .. L, NEW j \in 1 .. N + 1, NEW c \in 0 .. CAP - 1,
                          Fits(i - 1, v.head, j, c)
                   PROVE  g[w.nodes[j]][c] = v.items[i]
        BY <1>2, <1>3 DEF Stored, L
    <2>2. CASE j \in 1 .. N
        <3>1. f[v.nodes[j]][c] = v.items[i]
            BY <2>1, <2>2, Zenon DEF Holds, Stored, L, N
        <3>2. v.nodes[j] \in DOMAIN f /\ c \in 0 .. CAP /\ c # CAP
            BY <1>4, <2>2, CapAssumption
        <3>3. g[v.nodes[j]][c] = f[v.nodes[j]][c]
            BY <3>2 DEF Wrote
        <3> QED  BY <1>3, <2>2, <3>1, <3>3
    <2>3. CASE j = N + 1
        <3>1. Fits(L, v.head, N + 1, 0)
            BY <1>1, LinkArith
        <3>2. i - 1 \in Nat /\ i - 1 < L /\ N + 1 \in Nat \ {0} /\ 0 \in 0 .. CAP /\ c \in 0 .. CAP
            BY <1>1, CapAssumption
        <3>3. Fits(i - 1, v.head, N + 1, c)
            BY <2>1, <2>3
        <3>4. c < 0
            BY <1>1, <3>1, <3>2, <3>3, FitsUnique, Zenon
        <3> QED  BY <3>4, CapAssumption
    <2> QED  BY <1>1, <2>2, <2>3
<1> QED  BY <1>6, <1>7 DEF Holds

-----------------------------------------------------------------------------
(* Which words an operation writes *)

\* From pages f to g, with the queue v whose tail node has k items: only pages
\* it takes, and the tail node's words from slot k on (its next pointer too).
Touches(f, g, v, k, m) ==
    /\ DOMAIN g = DOMAIN f
    /\ \A p \in DOMAIN f, z \in 0 .. CAP :
          g[p][z] = f[p][z] \/ Taken(p, v, m) \/ (p = Last(v.nodes) /\ k <= z)

\* The tail node of w, with l items, is the one of v or a page taken.
Ends(v, k, w, l, m) ==
    (Last(w.nodes) = Last(v.nodes) /\ k <= l) \/ Taken(Last(w.nodes), v, m)

Moves(f, v, k, g, w, l, m) == Touches(f, g, v, k, m) /\ Ends(v, k, w, l, m)

\* One operation after another.
LEMMA MovesTrans ==
    ASSUME NEW v \in Space, NEW u \in Space, NEW w \in Space, u.nodes # <<>>, w.nodes # <<>>,
           NEW m \in Nat, NEW version \in Nat, version >= m, Evolves(v, u, version, m),
           NEW k \in 0 .. CAP, NEW l \in 0 .. CAP, NEW o \in 0 .. CAP,
           NEW f, NEW g, NEW h, DOMAIN f \subseteq Nat,
           Moves(f, v, k, g, u, l, m), Moves(g, u, l, h, w, o, m)
    PROVE  Moves(f, v, k, h, w, o, m)
<1>1. \A p \in Nat : Taken(p, u, m) => Taken(p, v, m)
    BY TakenBack
<1>2. Last(u.nodes) \in Nat /\ Last(w.nodes) \in Nat
    BY LastIn DEF Space, Page
<1>3. (Last(u.nodes) = Last(v.nodes) /\ k <= l) \/ Taken(Last(u.nodes), v, m)
    BY DEF Moves, Ends
<1>4. (Last(w.nodes) = Last(u.nodes) /\ l <= o) \/ Taken(Last(w.nodes), u, m)
    BY DEF Moves, Ends
<1>5. Ends(v, k, w, o, m)
    <2>1. k <= l /\ l <= o => k <= o
        BY CapAssumption
    <2> QED  BY <1>1, <1>2, <1>3, <1>4, <2>1, Zenon DEF Ends
<1>6. DOMAIN g = DOMAIN f /\ DOMAIN h = DOMAIN f
    BY DEF Moves, Touches
<1>7. ASSUME NEW p \in DOMAIN f, NEW z \in 0 .. CAP
      PROVE  h[p][z] = f[p][z] \/ Taken(p, v, m) \/ (p = Last(v.nodes) /\ k <= z)
    <2>1. p \in Nat
        OBVIOUS
    <2>2. g[p][z] = f[p][z] \/ Taken(p, v, m) \/ (p = Last(v.nodes) /\ k <= z)
        BY DEF Moves, Touches
    <2>3. h[p][z] = g[p][z] \/ Taken(p, u, m) \/ (p = Last(u.nodes) /\ l <= z)
        BY <1>6 DEF Moves, Touches
    <2>4. k <= l /\ l <= z => k <= z
        BY CapAssumption
    <2> QED  BY <1>1, <1>3, <2>1, <2>2, <2>3, <2>4, Zenon
<1> QED  BY <1>5, <1>6, <1>7 DEF Moves, Touches

\* A step that writes nothing, one word of the tail node, or a taken page.
LEMMA MovesNothing ==
    ASSUME NEW f, NEW v, NEW k, NEW w, NEW l, NEW m, Ends(v, k, w, l, m)
    PROVE  Moves(f, v, k, f, w, l, m)
BY DEF Moves, Touches

LEMMA MovesWrote ==
    ASSUME NEW f, NEW g, NEW v, NEW k, NEW w, NEW l, NEW m, NEW z, NEW x, k <= z,
           Wrote(f, Last(v.nodes), z, x, g), Ends(v, k, w, l, m)
    PROVE  Moves(f, v, k, g, w, l, m)
<1>1. ASSUME NEW p \in DOMAIN f, NEW c \in 0 .. CAP
      PROVE  g[p][c] = f[p][c] \/ (p = Last(v.nodes) /\ k <= c)
    <2>1. p # Last(v.nodes) \/ c # z => g[p][c] = f[p][c]
        BY DEF Wrote
    <2> QED  BY <2>1
<1>2. DOMAIN g = DOMAIN f
    BY DEF Wrote
<1> QED  BY <1>1, <1>2 DEF Moves, Touches

LEMMA MovesReplaced ==
    ASSUME NEW f, NEW g, NEW v, NEW k, NEW w, NEW l, NEW m, NEW p, Taken(p, v, m),
           Replaced(f, p, g), Ends(v, k, w, l, m)
    PROVE  Moves(f, v, k, g, w, l, m)
<1>1. ASSUME NEW q \in DOMAIN f, NEW c \in 0 .. CAP
      PROVE  g[q][c] = f[q][c] \/ Taken(q, v, m)
    BY DEF Replaced
<1>2. DOMAIN g = DOMAIN f
    BY DEF Replaced
<1> QED  BY <1>1, <1>2 DEF Moves, Touches

\* Two writes of one operation.
LEMMA MovesTwice ==
    ASSUME NEW f, NEW g, NEW h, NEW v, NEW k, NEW w, NEW l, NEW m,
           Moves(f, v, k, g, v, k, m), Moves(g, v, k, h, w, l, m)
    PROVE  Moves(f, v, k, h, w, l, m)
<1>1. DOMAIN g = DOMAIN f /\ DOMAIN h = DOMAIN f
    BY DEF Moves, Touches
<1>2. ASSUME NEW p \in DOMAIN f, NEW z \in 0 .. CAP
      PROVE  h[p][z] = f[p][z] \/ Taken(p, v, m) \/ (p = Last(v.nodes) /\ k <= z)
    <2>1. g[p][z] = f[p][z] \/ Taken(p, v, m) \/ (p = Last(v.nodes) /\ k <= z)
        BY DEF Moves, Touches
    <2>2. h[p][z] = g[p][z] \/ Taken(p, v, m) \/ (p = Last(v.nodes) /\ k <= z)
        BY <1>1 DEF Moves, Touches
    <2> QED  BY <2>1, <2>2
<1> QED  BY <1>1, <1>2 DEF Moves, Touches

-----------------------------------------------------------------------------
(* The lists that a meta page may still point at *)

\* A node of the list s of a version is free only since that version or later.
Guarded(v, s, version) == \A x \in ItemSet(v) : x.ptr \in Nodes(s) => version <= x.ver

Inside(s, top) == \A p \in Nodes(s) : p < top

\* The tail node of v, with k items, is no node of s, or its tail node with all
\* the items that s has there.
TailKept(v, k, s) ==
    Last(v.nodes) \in Nodes(s) => Last(v.nodes) = Last(s.nodes) /\ s.tail <= k

\* A page that may be taken is no node of a list that is still in use.
LEMMA TakenClear ==
    ASSUME NEW v \in Space, NEW s, NEW version \in Nat, NEW m \in Nat, m <= version,
           Guarded(v, s, version), Inside(s, v.top), NEW p \in Nat, Taken(p, v, m)
    PROVE  p \notin Nodes(s)
<1>1. v.top \in Nat /\ \A x \in ItemSet(v) : x.ver \in Nat
    <2>1. \A x \in ItemSet(v) : x \in Item
        BY DEF ItemSet, ToSet, Space
    <2> QED  BY <2>1 DEF Item, Space
<1>2. p >= v.top => p \notin Nodes(s)
    BY <1>1 DEF Inside
<1>3. \A x \in ItemSet(v) : x.ptr = p /\ x.ver < m => p \notin Nodes(s)
    BY <1>1 DEF Guarded
<1> QED  BY <1>2, <1>3 DEF Taken

\* An operation changes no word of such a list.
LEMMA MovesKeep ==
    ASSUME NEW v \in Space, NEW w \in Space, w.nodes # <<>>, NEW s \in Space, Filled(s),
           IsInjective(s.nodes), NEW version \in Nat, NEW m \in Nat, m <= version,
           Guarded(v, s, version), Inside(s, v.top), NEW k \in 0 .. CAP, NEW l \in 0 .. CAP,
           TailKept(v, k, s), NEW f, NEW g, Nodes(s) \subseteq DOMAIN f, DOMAIN f \subseteq Nat,
           Moves(f, v, k, g, w, l, m)
    PROVE  SameWords(s, f, g) /\ TailKept(w, l, s)
<1>1. \A p \in Nat : Taken(p, v, m) => p \notin Nodes(s)
    BY TakenClear
<1>2. s.nodes # <<>> /\ s.tail \in 0 .. CAP /\ Slots(s, s.tail)
    <2>1. s.tail \in 0 .. CAP
        BY SpaceParts, CapAssumption
    <2> QED  BY <2>1, Zenon DEF Filled, Slots
<1>3. SameWords(s, f, g)
    <2>1. SUFFICES ASSUME NEW p, NEW z, LiveWord(s, p, z)  PROVE g[p][z] = f[p][z]
        BY DEF SameWords
    <2>2. p \in Nodes(s) /\ z \in 0 .. CAP /\ (p = Last(s.nodes) => z < s.tail)
        BY <1>2, <2>1, LiveBefore
    <2>3. p \in DOMAIN f /\ p \in Nat /\ ~Taken(p, v, m)
        BY <1>1, <2>2
    <2>4. ~(p = Last(v.nodes) /\ k <= z)
        <3>1. SUFFICES ASSUME p = Last(v.nodes), k <= z  PROVE FALSE
            OBVIOUS
        <3>2. p = Last(s.nodes) /\ s.tail <= k
            BY <2>2, <3>1 DEF TailKept
        <3>3. z < s.tail
            BY <2>2, <3>2
        <3> QED  BY <1>2, <2>2, <3>1, <3>2, <3>3, CapAssumption
    <2> QED  BY <2>2, <2>3, <2>4 DEF Moves, Touches
<1>4. TailKept(w, l, s)
    <2>1. SUFFICES ASSUME Last(w.nodes) \in Nodes(s)
                   PROVE  Last(w.nodes) = Last(s.nodes) /\ s.tail <= l
        BY DEF TailKept
    <2>2. Last(w.nodes) \in Nat
        BY LastIn DEF Space, Page
    <2>3. Last(w.nodes) = Last(v.nodes) /\ k <= l
        BY <1>1, <2>1, <2>2 DEF Moves, Ends
    <2>4. Last(v.nodes) = Last(s.nodes) /\ s.tail <= k
        BY <2>1, <2>3 DEF TailKept
    <2>5. s.tail <= l
        BY <1>2, <2>3, <2>4, CapAssumption
    <2> QED  BY <2>3, <2>4, <2>5
<1> QED  BY <1>3, <1>4

\* What an update frees, it frees at the latest version.
LEMMA EvolvesGuarded ==
    ASSUME NEW v, NEW w, NEW s, NEW version \in Nat, NEW now \in Nat, version <= now, NEW m,
           Guarded(v, s, version), Evolves(v, w, now, m)
    PROVE  Guarded(w, s, version)
BY DEF Guarded, Evolves

\* A list against itself.
LEMMA SelfGuarded ==
    ASSUME NEW v \in Space, NEW tree, Partitioned(tree, v), NEW version
    PROVE  Guarded(v, v, version) /\ Inside(v, v.top) /\ TailKept(v, v.tail, v)
<1>1. v.top \in Nat /\ v.tail \in 0 .. CAP - 1
    BY DEF Space
<1>2. Unshared(v) /\ Below(v)
    BY <1>1, PartitionedBelow
<1>3. Guarded(v, v, version)
    <2>1. \A x \in ItemSet(v) : x.ptr \in Ptrs(v)
        BY DEF ItemSet, Ptrs, PtrSet
    <2> QED  BY <1>2, <2>1 DEF Guarded, Unshared
<1>4. Inside(v, v.top)
    BY <1>2 DEF Inside, Below, Owned
<1>5. TailKept(v, v.tail, v)
    BY <1>1, CapAssumption DEF TailKept
<1> QED  BY <1>3, <1>4, <1>5
=============================================================================
