-------------------------- MODULE ReaderHeapProofs --------------------------
(***************************************************************************)
(* Proofs about ReaderHeap for every number of readers and of versions:    *)
(* up and down restore the order of the heap, and min() is an oldest       *)
(* reader.                                                                 *)
(***************************************************************************)
EXTENDS ReaderHeap, LeastNumber, SequenceTheorems

-----------------------------------------------------------------------------
(* Slots and keys: a[i] is the version of the reader in slot i. *)

LEMMA Slots ==
    /\ \A i \in Nat : i >= 2 => i \div 2 \in Nat /\ 1 <= i \div 2 /\ i \div 2 < i
    /\ \A i \in Nat : (2 * i) \div 2 = i /\ (2 * i + 1) \div 2 = i
    /\ \A i, c \in Nat : c \div 2 = i => c = 2 * i \/ c = 2 * i + 1
OBVIOUS

InOrder(a, n) == \A i \in 2 .. n : a[i \div 2] <= a[i]

\* The order but for slot j, which may be older than its parent.
UpInv(a, n, j) ==
    /\ \A i \in 2 .. n : i # j => a[i \div 2] <= a[i]
    /\ j > 1 => \A i \in 2 .. n : i \div 2 = j => a[j \div 2] <= a[i]

\* The order but for slot j, which may be younger than its children; slot
\* start may also be older than its parent.
DownInv(a, n, j, start) ==
    /\ \A i \in 2 .. n : i \div 2 # j /\ (i # j \/ j # start) => a[i \div 2] <= a[i]
    /\ j > 1 => \A i \in 2 .. n : i \div 2 = j => a[j \div 2] <= a[i]

\* b is a with slots i and j swapped.
Swapped(a, b, n, i, j) ==
    /\ b[i] = a[j] /\ b[j] = a[i]
    /\ \A k \in 1 .. n : k # i /\ k # j => b[k] = a[k]

\* A pass of up moves the slot that is out of order to its parent.
LEMMA UpMoves ==
    ASSUME NEW n \in Nat, NEW a, NEW b, \A k \in 1 .. n : a[k] \in Nat,
           NEW j \in 2 .. n, UpInv(a, n, j), a[j] < a[j \div 2], Swapped(a, b, n, j \div 2, j)
    PROVE  UpInv(b, n, j \div 2)
<1> DEFINE p == j \div 2
<1>1. p \in 1 .. n /\ p # j /\ p < j
    BY Slots
<1>2. ASSUME NEW i \in 2 .. n, i # p  PROVE b[i \div 2] <= b[i]
    <2>1. i \div 2 \in 1 .. n
        BY Slots
    <2>2. CASE i = j
        BY <1>1, <2>2 DEF Swapped
    <2>3. CASE i # j /\ i \div 2 = j
        BY <1>1, <1>2, <2>3 DEF Swapped, UpInv
    <2>4. CASE i # j /\ i \div 2 = p
        <3>1. a[p] <= a[i] /\ b[i] = a[i] /\ b[p] = a[j]
            BY <1>1, <1>2, <2>4 DEF Swapped, UpInv
        <3> QED  BY <1>1, <2>4, <3>1
    <2>5. CASE i # j /\ i \div 2 # j /\ i \div 2 # p
        BY <1>1, <1>2, <2>1, <2>5 DEF Swapped, UpInv
    <2> QED  BY <2>2, <2>3, <2>4, <2>5
<1>3. ASSUME p > 1, NEW i \in 2 .. n, i \div 2 = p  PROVE b[p \div 2] <= b[i]
    <2>1. p \div 2 \in 1 .. n /\ p \div 2 < p /\ p \in 2 .. n
        BY <1>1, <1>3, Slots
    <2>2. b[p \div 2] = a[p \div 2] /\ a[p \div 2] <= a[p]
        BY <1>1, <2>1 DEF Swapped, UpInv
    <2>3. i # p
        BY <1>1, <1>3, Slots
    <2>4. CASE i = j
        BY <2>2, <2>4 DEF Swapped
    <2>5. CASE i # j
        <3>1. a[p] <= a[i] /\ b[i] = a[i]
            BY <1>3, <2>3, <2>5 DEF Swapped, UpInv
        <3> QED  BY <1>1, <2>1, <2>2, <3>1
    <2> QED  BY <2>4, <2>5
<1> QED  BY <1>2, <1>3 DEF UpInv

\* A pass of down moves it to the older child, c.
LEMMA DownMoves ==
    ASSUME NEW n \in Nat, NEW a, NEW b, \A k \in 1 .. n : a[k] \in Nat,
           NEW j \in 1 .. n, NEW start \in 1 .. n, start <= j, DownInv(a, n, j, start),
           NEW c \in 2 .. n, c \div 2 = j, a[c] < a[j],
           \A i \in 2 .. n : i \div 2 = j => a[c] <= a[i],
           Swapped(a, b, n, j, c)
    PROVE  DownInv(b, n, c, start)
<1>1. j < c /\ c # start
    BY Slots
<1>2. ASSUME NEW i \in 2 .. n, i \div 2 # c  PROVE b[i \div 2] <= b[i]
    <2>1. i \div 2 \in 1 .. n /\ i \div 2 # i
        BY Slots
    <2>2. CASE i = c
        BY <1>1, <2>2 DEF Swapped
    <2>3. CASE i # c /\ i \div 2 = j
        BY <1>1, <2>1, <2>3 DEF Swapped
    <2>4. CASE i = j
        <3>1. i \div 2 # j /\ j > 1
            BY <2>1, <2>4
        <3>2. a[j \div 2] <= a[c]
            BY <3>1 DEF DownInv
        <3>3. b[j \div 2] = a[j \div 2] /\ b[j] = a[c]
            BY <1>2, <2>1, <2>4 DEF Swapped
        <3> QED  BY <2>4, <3>2, <3>3
    <2>5. CASE i # c /\ i # j /\ i \div 2 # j
        <3>1. a[i \div 2] <= a[i]
            BY <2>5 DEF DownInv
        <3>2. b[i \div 2] = a[i \div 2] /\ b[i] = a[i]
            BY <1>2, <2>1, <2>5 DEF Swapped
        <3> QED  BY <3>1, <3>2
    <2> QED  BY <2>2, <2>3, <2>4, <2>5
<1>3. ASSUME NEW i \in 2 .. n, i \div 2 = c  PROVE b[c \div 2] <= b[i]
    <2>1. i # c /\ i # j /\ i \div 2 # j
        BY <1>1, <1>3, Slots
    <2>2. a[c] <= a[i] /\ b[i] = a[i] /\ b[j] = a[c]
        BY <1>3, <2>1 DEF Swapped, DownInv
    <2> QED  BY <2>2
<1> QED  BY <1>2, <1>3 DEF DownInv

\* The first slot of a heap in order holds the least key.
LEMMA RootIsLeast ==
    ASSUME NEW n \in Nat, NEW a, \A k \in 1 .. n : a[k] \in Nat, InOrder(a, n)
    PROVE  \A i \in 1 .. n : a[1] <= a[i]
<1> DEFINE T == {i \in 1 .. n : ~(a[1] <= a[i])}
<1> SUFFICES ASSUME T # {}  PROVE FALSE
    OBVIOUS
<1>1. T \in SUBSET Nat
    OBVIOUS
<1>2. PICK i \in T : \A m \in T : i <= m
    BY <1>1, Least
<1>3. i \in 2 .. n
    BY <1>2
<1>4. i \div 2 \in 1 .. n /\ i \div 2 < i
    BY <1>3, Slots
<1>5. i \div 2 \notin T
    BY <1>2, <1>4
<1>6. a[1] <= a[i \div 2] /\ a[i \div 2] <= a[i]
    BY <1>3, <1>4, <1>5 DEF InOrder
<1>7. a[1] \in Nat /\ a[i] \in Nat /\ a[i \div 2] \in Nat
    BY <1>3, <1>4
<1> QED  BY <1>2, <1>6, <1>7

-----------------------------------------------------------------------------
(* Heaps *)

\* A heap that holds the readers of S, each in the slot its index names.
IsHeap(h, S) ==
    /\ h = [items |-> h.items, index |-> h.index, version |-> h.version]
    /\ h.items \in Seq(Readers)
    /\ h.index \in [Readers -> Int]
    /\ h.version \in [Readers -> Nat]
    /\ \A i \in 1 .. Len(h.items) : h.items[i] \in S /\ h.index[h.items[i]] = i
    /\ \A r \in S : r \in Readers /\ h.index[r] \in 1 .. Len(h.items) /\ h.items[h.index[r]] = r

Keys(h) == [i \in 1 .. Len(h.items) |-> h.version[h.items[i]]]

\* g is h with the readers of S in other slots.
Moved(g, h, S) ==
    /\ IsHeap(g, S)
    /\ Len(g.items) = Len(h.items)
    /\ g.version = h.version
    /\ \A r \in Readers : r \notin S => g.index[r] = h.index[r]

LEMMA HeapKeys ==
    ASSUME NEW h, NEW S, IsHeap(h, S)
    PROVE  /\ Len(h.items) \in Nat
           /\ \A i \in 1 .. Len(h.items) : h.items[i] \in Readers
           /\ \A i \in 1 .. Len(h.items) : Keys(h)[i] \in Nat
           /\ \A i, j \in 1 .. Len(h.items) : less(h, i, j) <=> Keys(h)[i] < Keys(h)[j]
<1>1. Len(h.items) \in Nat /\ \A i \in 1 .. Len(h.items) : h.items[i] \in Readers
    BY LenProperties, ElementOfSeq DEF IsHeap
<1>2. \A i \in 1 .. Len(h.items) : Keys(h)[i] = h.version[h.items[i]]
    BY DEF Keys
<1>3. \A r \in Readers : h.version[r] \in Nat
    BY DEF IsHeap
<1> QED  BY <1>1, <1>2, <1>3 DEF less

\* A heap with other items and indexes.
SetBoth(g, h, x, y) == g = [h EXCEPT !.items = x, !.index = y]

LEMMA BothSet ==
    ASSUME NEW h, h = [items |-> h.items, index |-> h.index, version |-> h.version],
           NEW x, NEW y, NEW g, SetBoth(g, h, x, y)
    PROVE  g = [items |-> x, index |-> y, version |-> h.version]
BY DEF SetBoth

\* swap exchanges two slots, indexes and all.
LEMMA SwapMoves ==
    ASSUME NEW h, NEW S, IsHeap(h, S), NEW i \in 1 .. Len(h.items), NEW j \in 1 .. Len(h.items)
    PROVE  LET g == swap(h, i, j)
           IN  /\ Moved(g, h, S)
               /\ Swapped(Keys(h), Keys(g), Len(h.items), i, j)
               /\ g.items = [h.items EXCEPT ![i] = h.items[j], ![j] = h.items[i]]
<1> DEFINE g == swap(h, i, j)
           n == Len(h.items)
           its == [h.items EXCEPT ![i] = h.items[j], ![j] = h.items[i]]
           ixs == [h.index EXCEPT ![h.items[i]] = j, ![h.items[j]] = i]
<1>1. /\ n \in Nat /\ h.items \in Seq(Readers) /\ h.index \in [Readers -> Int]
      /\ \A k \in 1 .. n : h.items[k] \in Readers
    BY HeapKeys DEF IsHeap
<1>2. g = [items |-> its, index |-> ixs, version |-> h.version]
    <2>1. SetBoth(g, h, its, ixs)
        BY DEF swap, SetBoth
    <2> HIDE DEF its, ixs, g
    <2> QED  BY <2>1, BothSet DEF IsHeap
<1>3. ixs \in [Readers -> Int]
    BY <1>1
<1>4. /\ its \in Seq(Readers) /\ Len(its) = n
      /\ \A k \in 1 .. n : its[k] = IF k = j THEN h.items[i] ELSE IF k = i THEN h.items[j] ELSE h.items[k]
    <2> DEFINE mid == [h.items EXCEPT ![i] = h.items[j]]
    <2>1. /\ mid \in Seq(Readers) /\ Len(mid) = n
          /\ \A k \in 1 .. n : mid[k] = IF k = i THEN h.items[j] ELSE h.items[k]
        BY <1>1, ExceptSeq
    <2>2. its = [mid EXCEPT ![j] = h.items[i]]
        OBVIOUS
    <2> HIDE DEF mid, its
    <2>3. /\ its \in Seq(Readers) /\ Len(its) = n
          /\ \A k \in 1 .. n : its[k] = IF k = j THEN h.items[i] ELSE mid[k]
        BY <1>1, <2>1, <2>2, ExceptSeq
    <2> QED  BY <2>1, <2>3
<1>5. \A k \in 1 .. n : its[k] = IF k = j THEN h.items[i] ELSE IF k = i THEN h.items[j] ELSE h.items[k]
    BY <1>4
<1>6. \A r \in Readers : ixs[r] = IF r = h.items[j] THEN i ELSE IF r = h.items[i] THEN j ELSE h.index[r]
    BY <1>1
<1>7. /\ \A k \in 1 .. n : h.items[k] \in S /\ h.items[k] \in Readers /\ h.index[h.items[k]] = k
      /\ \A r \in S : r \in Readers /\ h.index[r] \in 1 .. n /\ h.items[h.index[r]] = r
      /\ h.version \in [Readers -> Nat]
    BY <1>1 DEF IsHeap
<1> HIDE DEF its, ixs, g
<1>8. g.items = its /\ g.index = ixs /\ g.version = h.version
    BY <1>2
<1>9. \A k \in 1 .. n : its[k] \in S /\ ixs[its[k]] = k
    BY <1>5, <1>6, <1>7
<1>10. ASSUME NEW r \in S  PROVE ixs[r] \in 1 .. n /\ its[ixs[r]] = r
    <2>1. r \in Readers /\ h.index[r] \in 1 .. n /\ h.items[h.index[r]] = r
        BY <1>7
    <2>2. CASE r = h.items[j]
        <3>1. ixs[r] = i
            BY <1>6, <2>1, <2>2
        <3> QED  BY <1>5, <2>2, <3>1
    <2>3. CASE r # h.items[j] /\ r = h.items[i]
        <3>1. ixs[r] = j
            BY <1>6, <2>1, <2>3
        <3> QED  BY <1>5, <2>3, <3>1
    <2>4. CASE r # h.items[j] /\ r # h.items[i]
        <3>1. ixs[r] = h.index[r] /\ h.index[r] # i /\ h.index[r] # j
            BY <1>6, <2>1, <2>4
        <3> QED  BY <1>5, <2>1, <3>1
    <2> QED  BY <2>2, <2>3, <2>4
<1>11. IsHeap(g, S)
    BY <1>2, <1>3, <1>4, <1>7, <1>8, <1>9, <1>10 DEF IsHeap
<1>12. \A r \in Readers : r \notin S => ixs[r] = h.index[r]
    BY <1>6, <1>7
<1>13. Moved(g, h, S)
    BY <1>4, <1>8, <1>11, <1>12 DEF Moved
<1>14. \A k \in 1 .. n : Keys(h)[k] = h.version[h.items[k]] /\ Keys(g)[k] = h.version[its[k]]
    BY <1>4, <1>8 DEF Keys
<1>15. Swapped(Keys(h), Keys(g), n, i, j)
    BY <1>5, <1>14 DEF Swapped
<1> QED  BY <1>8, <1>13, <1>15 DEF g, its

-----------------------------------------------------------------------------
(* up and down *)

\* up's loop: f[k] is where k passes lead.
UpLoop(f, h, j, n) ==
    f = [k \in 0 .. n |-> IF k = 0 THEN [h |-> h, at |-> j] ELSE up_pass(f[k - 1])]

LEMMA UpLoops ==
    ASSUME NEW h, NEW j, j \in Nat
    PROVE  \E f : UpLoop(f, h, j, j) /\ up(h, j) = f[j].h
<1> DEFINE N == j
           first == [h |-> h, at |-> j]
           Loop(f, n) == f = [k \in 0 .. n |-> IF k = 0 THEN first ELSE up_pass(f[k - 1])]
           T == {n \in 0 .. N : ~ \E f : Loop(f, n)}
<1>1. \E f : Loop(f, N)
    <2> HIDE DEF first
    <2> SUFFICES ASSUME T # {}  PROVE FALSE
        <3>1. N \in 0 .. N
            OBVIOUS
        <3> QED  BY <3>1
    <2>1. 0 \notin T
        <3>1. Loop([k \in 0 .. 0 |-> first], 0)
            OBVIOUS
        <3> QED  BY <3>1
    <2>2. PICK n \in T : n \in 1 .. N /\ n - 1 \in 0 .. N /\ n - 1 \notin T
        BY <2>1, FirstFailure
    <2>3. PICK f : Loop(f, n - 1)
        BY <2>2
    <2> DEFINE g == [k \in 0 .. n |-> IF k = n THEN up_pass(f[n - 1]) ELSE f[k]]
    <2>4. ASSUME NEW k \in 0 .. n  PROVE g[k] = IF k = 0 THEN first ELSE up_pass(g[k - 1])
        <3>1. CASE k = n
            BY <2>2, <3>1
        <3>2. CASE k # n
            <4>1. k \in 0 .. n - 1 /\ k - 1 # n /\ g[k] = f[k]
                BY <2>2, <3>2
            <4>2. f[k] = IF k = 0 THEN first ELSE up_pass(f[k - 1])
                BY <2>3, <4>1
            <4>3. k # 0 => g[k - 1] = f[k - 1]
                BY <2>2, <4>1
            <4> QED  BY <4>1, <4>2, <4>3
        <3> QED  BY <3>1, <3>2
    <2>5. Loop(g, n)
        BY <2>4
    <2> QED  BY <2>2, <2>5
<1> DEFINE F == CHOOSE f : Loop(f, N)
<1>2. up(h, j) = F[j].h
    BY DEF up
<1>3. Loop(F, N)
    <2> HIDE DEF Loop
    <2> QED  BY <1>1
<1> HIDE DEF F
<1> QED  BY <1>2, <1>3 DEF UpLoop

\* down's loop.
DownLoop(f, h, i, n) ==
    f = [k \in 0 .. n |-> IF k = 0 THEN [h |-> h, at |-> i] ELSE down_pass(f[k - 1])]

LEMMA DownLoops ==
    ASSUME NEW h, NEW i, Len(h.items) \in Nat
    PROVE  \E f : DownLoop(f, h, i, Len(h.items)) /\ down(h, i) = f[Len(h.items)]
<1> DEFINE N == Len(h.items)
           first == [h |-> h, at |-> i]
           Loop(f, n) == f = [k \in 0 .. n |-> IF k = 0 THEN first ELSE down_pass(f[k - 1])]
           T == {n \in 0 .. N : ~ \E f : Loop(f, n)}
<1>1. \E f : Loop(f, N)
    <2> HIDE DEF first
    <2> SUFFICES ASSUME T # {}  PROVE FALSE
        <3>1. N \in 0 .. N
            OBVIOUS
        <3> QED  BY <3>1
    <2>1. 0 \notin T
        <3>1. Loop([k \in 0 .. 0 |-> first], 0)
            OBVIOUS
        <3> QED  BY <3>1
    <2>2. PICK n \in T : n \in 1 .. N /\ n - 1 \in 0 .. N /\ n - 1 \notin T
        BY <2>1, FirstFailure
    <2>3. PICK f : Loop(f, n - 1)
        BY <2>2
    <2> DEFINE g == [k \in 0 .. n |-> IF k = n THEN down_pass(f[n - 1]) ELSE f[k]]
    <2>4. ASSUME NEW k \in 0 .. n  PROVE g[k] = IF k = 0 THEN first ELSE down_pass(g[k - 1])
        <3>1. CASE k = n
            BY <2>2, <3>1
        <3>2. CASE k # n
            <4>1. k \in 0 .. n - 1 /\ k - 1 # n /\ g[k] = f[k]
                BY <2>2, <3>2
            <4>2. f[k] = IF k = 0 THEN first ELSE down_pass(f[k - 1])
                BY <2>3, <4>1
            <4>3. k # 0 => g[k - 1] = f[k - 1]
                BY <2>2, <4>1
            <4> QED  BY <4>1, <4>2, <4>3
        <3> QED  BY <3>1, <3>2
    <2>5. Loop(g, n)
        BY <2>4
    <2> QED  BY <2>2, <2>5
<1> DEFINE F == CHOOSE f : Loop(f, N)
<1>2. down(h, i) = F[Len(h.items)]
    BY DEF down
<1>3. Loop(F, N)
    <2> HIDE DEF Loop
    <2> QED  BY <1>1
<1> HIDE DEF F
<1> QED  BY <1>2, <1>3 DEF DownLoop

\* A pass of up that swaps.
LEMMA UpSwap ==
    ASSUME NEW h, NEW S, IsHeap(h, S), NEW j \in 2 .. Len(h.items), UpInv(Keys(h), Len(h.items), j),
           less(h, j, j \div 2)
    PROVE  LET g == swap(h, j \div 2, j)
           IN  Moved(g, h, S) /\ UpInv(Keys(g), Len(h.items), j \div 2)
<1> DEFINE n == Len(h.items)
           parent == j \div 2
           g == swap(h, parent, j)
<1>1. n \in Nat /\ j \in 1 .. n /\ parent \in 1 .. n
    BY HeapKeys, Slots
<1>2. Keys(h)[j] < Keys(h)[parent] /\ \A m \in 1 .. n : Keys(h)[m] \in Nat
    BY <1>1, HeapKeys
<1> HIDE DEF parent
<1>3. Moved(g, h, S) /\ Swapped(Keys(h), Keys(g), n, parent, j)
    BY <1>1, SwapMoves
<1> HIDE DEF g, n
<1>4. UpInv(Keys(g), n, parent)
    BY <1>1, <1>2, <1>3, UpMoves DEF parent, n
<1> QED  BY <1>3, <1>4 DEF g, n, parent

\* up restores the order when one slot may be older than its parent.
LEMMA UpRestores ==
    ASSUME NEW h, NEW S, IsHeap(h, S), NEW j \in 1 .. Len(h.items), UpInv(Keys(h), Len(h.items), j)
    PROVE  LET g == up(h, j)
           IN  Moved(g, h, S) /\ InOrder(Keys(g), Len(h.items))
<1> DEFINE n == Len(h.items)
           Stopped(p) == p.at = 1 \/ ~less(p.h, p.at, p.at \div 2)
           Good(p, k) == /\ Moved(p.h, h, S)
                         /\ p.at \in 1 .. j
                         /\ UpInv(Keys(p.h), n, p.at)
                         /\ Stopped(p) \/ p.at <= j - k
<1>1. n \in Nat /\ j \in Nat /\ j <= n
    BY HeapKeys
<1>2. PICK f : UpLoop(f, h, j, j) /\ up(h, j) = f[j].h
    BY <1>1, UpLoops
<1> DEFINE T == {k \in 0 .. j : ~Good(f[k], k)}
<1>3. T = {}
    <2> SUFFICES ASSUME T # {}  PROVE FALSE
        OBVIOUS
    <2>1. 0 \notin T
        <3>1. f[0] = [h |-> h, at |-> j]
            BY <1>1, <1>2 DEF UpLoop
        <3>2. f[0].h = h /\ f[0].at = j
            BY <3>1
        <3>3. Moved(h, h, S)
            BY DEF Moved
        <3>4. j <= j - 0 /\ j \in 1 .. j
            BY <1>1
        <3> QED  BY <3>2, <3>3, <3>4
    <2>2. PICK k \in T : k \in 1 .. j /\ k - 1 \in 0 .. j /\ k - 1 \notin T
        BY <1>1, <2>1, FirstFailure
    <2> DEFINE p == f[k - 1]
               q == up_pass(p)
    <2>3. Good(p, k - 1)
        <3> HIDE DEF Good
        <3> QED  BY <2>2
    <2>4. f[k] = q
        <3>1. k \in 0 .. j /\ k # 0
            BY <2>2
        <3> QED  BY <1>2, <3>1, Zenon DEF UpLoop
    <2>5. CASE Stopped(p)
        <3>1. q = p
            BY <2>5 DEF up_pass
        <3> HIDE DEF q, p
        <3>2. Good(q, k)
            BY <2>3, <2>5, <3>1
        <3> HIDE DEF Good
        <3> QED  BY <2>2, <2>4, <3>2
    <2>6. CASE ~Stopped(p)
        <3> DEFINE parent == p.at \div 2
                   g == swap(p.h, parent, p.at)
        <3>1. q = [h |-> g, at |-> parent]
            BY <2>6 DEF up_pass
        <3>2. q.h = g /\ q.at = parent
            BY <3>1
        <3> HIDE DEF q, p
        <3>3. /\ IsHeap(p.h, S) /\ Len(p.h.items) = n /\ p.at \in 2 .. n /\ p.at <= j - (k - 1)
              /\ parent \in 1 .. n /\ parent < p.at /\ p.h.version = h.version
            <4>1. p.at \in 2 .. n /\ p.at \in Nat /\ p.at >= 2
                BY <1>1, <2>3, <2>6
            <4>2. parent \in Nat /\ 1 <= parent /\ parent < p.at
                BY <4>1, Slots
            <4> QED  BY <1>1, <2>3, <2>6, <4>1, <4>2 DEF Moved
        <3>4. UpInv(Keys(p.h), n, p.at) /\ less(p.h, p.at, parent)
            BY <2>3, <2>6
        <3> HIDE DEF Good, Stopped, T
        <3>5. Moved(g, p.h, S) /\ UpInv(Keys(g), n, parent)
            BY <3>3, <3>4, UpSwap
        <3> HIDE DEF g
        <3> USE DEF Good, Stopped, T
        <3>6. UpInv(Keys(g), n, parent)
            BY <3>5
        <3>7. Moved(g, h, S)
            BY <2>3, <3>5 DEF Moved
        <3>8. parent \in 1 .. j /\ parent <= j - k
            BY <1>1, <2>2, <2>3, <3>3
        <3>9. Good(q, k)
            BY <3>2, <3>6, <3>7, <3>8
        <3> HIDE DEF Good
        <3> QED  BY <2>2, <2>4, <3>9
    <2> QED  BY <2>5, <2>6
<1>4. Good(f[j], j)
    <2>1. j \in 0 .. j
        BY <1>1
    <2> HIDE DEF Good
    <2> QED  BY <1>3, <2>1
<1> DEFINE p == f[j]
<1>5. Stopped(p) /\ Moved(p.h, h, S) /\ UpInv(Keys(p.h), n, p.at) /\ p.at \in 1 .. n
    BY <1>1, <1>4
<1> HIDE DEF p
<1>6. p.at # 1 => Keys(p.h)[p.at \div 2] <= Keys(p.h)[p.at]
    <2> SUFFICES ASSUME p.at # 1  PROVE Keys(p.h)[p.at \div 2] <= Keys(p.h)[p.at]
        OBVIOUS
    <2>1. p.at \div 2 \in 1 .. n
        <3>1. p.at \in Nat /\ p.at >= 2
            BY <1>1, <1>5
        <3> QED  BY <1>1, <1>5, <3>1, Slots
    <2>2. IsHeap(p.h, S) /\ Len(p.h.items) = n
        BY <1>5 DEF Moved
    <2>3. ~(Keys(p.h)[p.at] < Keys(p.h)[p.at \div 2])
        BY <1>5, <2>1, <2>2, HeapKeys
    <2>4. Keys(p.h)[p.at] \in Nat /\ Keys(p.h)[p.at \div 2] \in Nat
        BY <1>5, <2>1, <2>2, HeapKeys
    <2> QED  BY <2>3, <2>4
<1>7. InOrder(Keys(p.h), n)
    BY <1>1, <1>5, <1>6 DEF InOrder, UpInv
<1> QED  BY <1>2, <1>5, <1>7 DEF p

\* A pass of down that swaps.
LEMMA DownSwap ==
    ASSUME NEW h, NEW S, IsHeap(h, S), NEW i \in 1 .. Len(h.items), NEW start \in 1 .. Len(h.items),
           start <= i, DownInv(Keys(h), Len(h.items), i, start),
           2 * i <= Len(h.items), less(h, kid(h, i), i)
    PROVE  LET g == swap(h, i, kid(h, i))
           IN  /\ Moved(g, h, S)
               /\ DownInv(Keys(g), Len(h.items), kid(h, i), start)
               /\ kid(h, i) \in 1 .. Len(h.items) /\ kid(h, i) > i
<1> DEFINE n == Len(h.items)
           c == kid(h, i)
           g == swap(h, i, c)
<1>1. /\ n \in Nat /\ i \in Nat
      /\ \A m \in 1 .. n : Keys(h)[m] \in Nat
      /\ \A x, y \in 1 .. n : less(h, x, y) <=> Keys(h)[x] < Keys(h)[y]
    BY HeapKeys
<1>2. c \in 2 .. n /\ (c = 2 * i \/ c = 2 * i + 1)
    BY <1>1 DEF kid
<1>3. c \div 2 = i /\ c > i
    <2>1. i \in Nat /\ i >= 1
        BY <1>1
    <2>2. c = 2 * i \/ c = 2 * i + 1
        BY <1>2
    <2> HIDE DEF c
    <2> QED  BY <2>1, <2>2, Slots
<1>4. ASSUME NEW m \in 2 .. n, m \div 2 = i  PROVE Keys(h)[c] <= Keys(h)[m]
    <2>1. m = 2 * i \/ m = 2 * i + 1
        BY <1>1, <1>4, Slots
    <2>2. CASE 2 * i + 1 <= n
        <3>1. less(h, 2 * i + 1, 2 * i) <=> Keys(h)[2 * i + 1] < Keys(h)[2 * i]
            <4>1. 2 * i + 1 \in 1 .. n /\ 2 * i \in 1 .. n
                BY <1>1, <2>2
            <4> QED  BY <1>1, <4>1
        <3>2. Keys(h)[2 * i + 1] \in Nat /\ Keys(h)[2 * i] \in Nat
            BY <1>1, <2>2
        <3>3. c = IF less(h, 2 * i + 1, 2 * i) THEN 2 * i + 1 ELSE 2 * i
            BY <2>2 DEF kid
        <3> QED  BY <2>1, <3>1, <3>2, <3>3
    <2>3. CASE ~(2 * i + 1 <= n)
        <3>1. c = 2 * i /\ m = 2 * i
            BY <1>1, <2>1, <2>3 DEF kid
        <3> QED  BY <1>1, <1>2, <3>1
    <2> QED  BY <2>2, <2>3
<1> HIDE DEF c
<1>5. Keys(h)[c] < Keys(h)[i]
    BY <1>1, <1>2, HeapKeys DEF c
<1>6. Moved(g, h, S) /\ Swapped(Keys(h), Keys(g), n, i, c)
    <2>1. c \in 1 .. n
        BY <1>1, <1>2
    <2> QED  BY <2>1, SwapMoves
<1> HIDE DEF g, n
<1>7. DownInv(Keys(g), n, c, start)
    BY <1>1, <1>2, <1>3, <1>4, <1>5, <1>6, DownMoves DEF n
<1> QED  BY <1>1, <1>2, <1>3, <1>6, <1>7 DEF g, n, c

\* When down stops, its slot is not younger than its children.
LEMMA DownStopped ==
    ASSUME NEW h, NEW S, IsHeap(h, S), NEW i \in 1 .. Len(h.items),
           2 * i > Len(h.items) \/ ~less(h, kid(h, i), i)
    PROVE  \A m \in 2 .. Len(h.items) : m \div 2 = i => Keys(h)[i] <= Keys(h)[m]
<1> DEFINE n == Len(h.items)
<1> SUFFICES ASSUME NEW m \in 2 .. n, m \div 2 = i  PROVE Keys(h)[i] <= Keys(h)[m]
    OBVIOUS
<1>1. n \in Nat /\ i \in Nat /\ \A k \in 1 .. n : Keys(h)[k] \in Nat
    BY HeapKeys
<1>2. m = 2 * i \/ m = 2 * i + 1
    BY <1>1, Slots
<1>3. 2 * i <= n /\ 2 * i \in 1 .. n /\ ~less(h, kid(h, i), i)
    BY <1>1, <1>2
<1>4. CASE 2 * i + 1 <= n
    <2>1. /\ less(h, 2 * i + 1, 2 * i) <=> Keys(h)[2 * i + 1] < Keys(h)[2 * i]
          /\ less(h, 2 * i + 1, i) <=> Keys(h)[2 * i + 1] < Keys(h)[i]
          /\ less(h, 2 * i, i) <=> Keys(h)[2 * i] < Keys(h)[i]
        <3>1. 2 * i + 1 \in 1 .. n /\ 2 * i \in 1 .. n
            BY <1>1, <1>3, <1>4
        <3>2. \A x, y \in 1 .. n : less(h, x, y) <=> Keys(h)[x] < Keys(h)[y]
            BY HeapKeys
        <3> QED  BY <3>1, <3>2
    <2>2. Keys(h)[2 * i + 1] \in Nat /\ Keys(h)[2 * i] \in Nat /\ Keys(h)[i] \in Nat
        BY <1>1, <1>3, <1>4
    <2>3. kid(h, i) = IF less(h, 2 * i + 1, 2 * i) THEN 2 * i + 1 ELSE 2 * i
        BY <1>4 DEF kid
    <2> QED  BY <1>2, <1>3, <2>1, <2>2, <2>3
<1>5. CASE ~(2 * i + 1 <= n)
    <2>1. kid(h, i) = 2 * i /\ m = 2 * i
        BY <1>1, <1>2, <1>5 DEF kid
    <2>2. ~(Keys(h)[m] < Keys(h)[i])
        BY <1>1, <1>3, <2>1, HeapKeys
    <2>3. Keys(h)[m] \in Nat /\ Keys(h)[i] \in Nat
        BY <1>1
    <2> QED  BY <2>2, <2>3
<1> QED  BY <1>4, <1>5

\* down restores the order, or leaves its slot to up.
LEMMA DownRestores ==
    ASSUME NEW h, NEW S, IsHeap(h, S), NEW i \in 1 .. Len(h.items), DownInv(Keys(h), Len(h.items), i, i)
    PROVE  LET p == down(h, i)
           IN  /\ Moved(p.h, h, S)
               /\ p.at \in 1 .. Len(h.items)
               /\ p.at > i => InOrder(Keys(p.h), Len(h.items))
               /\ ~(p.at > i) => UpInv(Keys(p.h), Len(h.items), i)
<1> DEFINE n == Len(h.items)
           Stopped(p) == 2 * p.at > Len(p.h.items) \/ ~less(p.h, kid(p.h, p.at), p.at)
           Good(p, k) == /\ Moved(p.h, h, S)
                         /\ p.at \in i .. n
                         /\ DownInv(Keys(p.h), n, p.at, i)
                         /\ Stopped(p) \/ p.at >= i + k
<1>1. n \in Nat /\ i \in Nat /\ 1 <= i /\ i <= n
    BY HeapKeys
<1>2. PICK f : DownLoop(f, h, i, n) /\ down(h, i) = f[n]
    BY <1>1, DownLoops
<1> DEFINE T == {k \in 0 .. n : ~Good(f[k], k)}
<1>3. T = {}
    <2> SUFFICES ASSUME T # {}  PROVE FALSE
        OBVIOUS
    <2>1. 0 \notin T
        <3>1. f[0] = [h |-> h, at |-> i]
            BY <1>1, <1>2 DEF DownLoop
        <3>2. f[0].h = h /\ f[0].at = i
            BY <3>1
        <3>3. Moved(h, h, S)
            BY DEF Moved
        <3>4. i >= i + 0 /\ i \in i .. n
            BY <1>1
        <3> QED  BY <3>2, <3>3, <3>4
    <2>2. PICK k \in T : k \in 1 .. n /\ k - 1 \in 0 .. n /\ k - 1 \notin T
        BY <1>1, <2>1, FirstFailure
    <2> DEFINE p == f[k - 1]
               q == down_pass(p)
    <2>3. Good(p, k - 1)
        <3> HIDE DEF Good
        <3> QED  BY <2>2
    <2>4. f[k] = q
        <3>1. k \in 0 .. n /\ k # 0
            BY <2>2
        <3> QED  BY <1>2, <3>1, Zenon DEF DownLoop
    <2>5. CASE Stopped(p)
        <3>1. q = p
            BY <2>5 DEF down_pass
        <3> HIDE DEF q, p
        <3>2. Good(q, k)
            BY <2>3, <2>5, <3>1
        <3> HIDE DEF Good
        <3> QED  BY <2>2, <2>4, <3>2
    <2>6. CASE ~Stopped(p)
        <3> DEFINE c == kid(p.h, p.at)
                   g == swap(p.h, p.at, c)
        <3>1. q = [h |-> g, at |-> c]
            BY <2>6 DEF down_pass
        <3>2. q.h = g /\ q.at = c
            BY <3>1
        <3> HIDE DEF q, p
        <3>3. /\ IsHeap(p.h, S) /\ Len(p.h.items) = n /\ p.at \in 1 .. n /\ i <= p.at
              /\ p.at >= i + (k - 1) /\ 2 * p.at <= n /\ less(p.h, c, p.at)
              /\ DownInv(Keys(p.h), n, p.at, i)
            BY <1>1, <2>3, <2>6 DEF Moved
        <3> HIDE DEF Good, Stopped, T
        <3>4. Moved(g, p.h, S) /\ DownInv(Keys(g), n, c, i) /\ c \in 1 .. n /\ c > p.at
            BY <3>3, DownSwap
        <3> HIDE DEF g, c
        <3> USE DEF Good, Stopped, T
        <3>5. Moved(g, h, S)
            BY <2>3, <3>4 DEF Moved
        <3>6. c \in i .. n /\ c >= i + k
            BY <1>1, <2>2, <3>3, <3>4
        <3>7. Good(q, k)
            BY <3>2, <3>4, <3>5, <3>6
        <3> HIDE DEF Good
        <3> QED  BY <2>2, <2>4, <3>7
    <2> QED  BY <2>5, <2>6
<1>4. Good(f[n], n)
    <2>1. n \in 0 .. n
        BY <1>1
    <2> HIDE DEF Good
    <2> QED  BY <1>3, <2>1
<1> DEFINE p == f[n]
           a == Keys(p.h)
<1>5. Moved(p.h, h, S) /\ DownInv(a, n, p.at, i) /\ p.at \in 1 .. n /\ p.at >= i
    BY <1>1, <1>4
<1>6. IsHeap(p.h, S) /\ Len(p.h.items) = n
    BY <1>5 DEF Moved
<1>7. Stopped(p)
    BY <1>1, <1>4, <1>6
<1> HIDE DEF p
<1>8. \A m \in 2 .. n : m \div 2 = p.at => a[p.at] <= a[m]
    BY <1>5, <1>6, <1>7, DownStopped
<1> HIDE DEF a
<1>9. ASSUME p.at > i  PROVE InOrder(a, n)
    BY <1>8, <1>5, <1>9 DEF InOrder, DownInv
<1>10. ASSUME ~(p.at > i)  PROVE UpInv(a, n, i)
    <2>1. p.at = i
        BY <1>1, <1>5, <1>10
    <2> QED  BY <1>5, <1>8, <2>1 DEF UpInv, DownInv
<1> QED  BY <1>2, <1>5, <1>9, <1>10 DEF p, a

-----------------------------------------------------------------------------
(* push and remove *)

LEMMA PushRestores ==
    ASSUME NEW h, NEW S, IsHeap(h, S), InOrder(Keys(h), Len(h.items)), NEW r \in Readers, r \notin S
    PROVE  LET g == push(h, r)
           IN  /\ IsHeap(g, S \cup {r}) /\ g.version = h.version
               /\ InOrder(Keys(g), Len(g.items))
               /\ \A x \in Readers : x \notin S \cup {r} => g.index[x] = h.index[x]
<1> DEFINE n == Len(h.items) + 1
           its == Append(h.items, r)
           ixs == [h.index EXCEPT ![r] = n]
           h1 == [h EXCEPT !.items = its, !.index[r] = n]
           R == S \cup {r}
<1>1. /\ Len(h.items) \in Nat /\ h.items \in Seq(Readers) /\ h.index \in [Readers -> Int]
      /\ \A i \in 1 .. Len(h.items) : Keys(h)[i] \in Nat /\ Keys(h)[i] = h.version[h.items[i]]
    BY HeapKeys DEF IsHeap, Keys
<1>2. push(h, r) = up(h1, n)
    BY DEF push
<1>3. h1 = [items |-> its, index |-> ixs, version |-> h.version]
    <2>1. SetBoth(h1, h, its, ixs)
        BY DEF SetBoth
    <2> HIDE DEF h1, its, ixs
    <2> QED  BY <2>1, BothSet DEF IsHeap
<1> HIDE DEF h1
<1>4. /\ its \in Seq(Readers) /\ Len(its) = n
      /\ \A i \in 1 .. Len(h.items) : its[i] = h.items[i]
      /\ its[n] = r
    BY <1>1, AppendProperties
<1>5. ixs \in [Readers -> Int] /\ \A x \in Readers : ixs[x] = IF x = r THEN n ELSE h.index[x]
    BY <1>1
<1>6. /\ \A i \in 1 .. Len(h.items) : h.items[i] \in S /\ h.index[h.items[i]] = i
      /\ \A x \in S : x \in Readers /\ h.index[x] \in 1 .. Len(h.items) /\ h.items[h.index[x]] = x
      /\ h.version \in [Readers -> Nat]
    BY DEF IsHeap
<1> HIDE DEF its, ixs
<1>7. h1.items = its /\ h1.index = ixs /\ h1.version = h.version
    BY <1>3
<1>8. \A i \in 1 .. n : i = n \/ (i # n /\ i \in 1 .. Len(h.items))
    BY <1>1
<1>9. ASSUME NEW i \in 1 .. n  PROVE its[i] \in R /\ ixs[its[i]] = i
    <2>1. CASE i = n
        BY <1>4, <1>5, <2>1
    <2>2. CASE i # n
        <3>1. i \in 1 .. Len(h.items) /\ its[i] = h.items[i] /\ h.items[i] \in S /\ h.items[i] # r
            BY <1>4, <1>6, <1>8, <2>2
        <3> QED  BY <1>5, <1>6, <3>1
    <2> QED  BY <2>1, <2>2
<1>10. ASSUME NEW x \in R  PROVE x \in Readers /\ ixs[x] \in 1 .. n /\ its[ixs[x]] = x
    <2>1. CASE x = r
        BY <1>1, <1>4, <1>5, <2>1
    <2>2. CASE x # r
        <3>1. x \in S /\ x \in Readers /\ ixs[x] = h.index[x] /\ h.index[x] \in 1 .. Len(h.items)
            BY <1>5, <1>6, <2>2
        <3>2. ixs[x] \in 1 .. n
            BY <1>1, <3>1
        <3> QED  BY <1>4, <1>6, <3>1, <3>2
    <2> QED  BY <2>1, <2>2
<1>11. IsHeap(h1, R)
    BY <1>3, <1>4, <1>5, <1>6, <1>7, <1>9, <1>10 DEF IsHeap
<1>12. \A i \in 1 .. Len(h.items) : Keys(h1)[i] = Keys(h)[i]
    <2>1. \A i \in 1 .. Len(h.items) : i \in 1 .. n
        BY <1>1
    <2> QED  BY <1>1, <1>4, <1>7, <2>1 DEF Keys
<1>13. UpInv(Keys(h1), n, n)
    <2>1. ASSUME NEW i \in 2 .. n, i # n  PROVE Keys(h1)[i \div 2] <= Keys(h1)[i]
        <3>1. i \in 2 .. Len(h.items) /\ i \in 1 .. Len(h.items) /\ i \div 2 \in 1 .. Len(h.items)
            BY <1>1, <2>1, Slots
        <3> QED  BY <1>12, <3>1 DEF InOrder
    <2>2. \A i \in 2 .. n : i \div 2 # n
        BY <1>1, Slots
    <2> QED  BY <2>1, <2>2 DEF UpInv
<1>14. n \in 1 .. n
    BY <1>1
<1> DEFINE g == up(h1, n)
<1>15. Moved(g, h1, R) /\ InOrder(Keys(g), n)
    BY <1>4, <1>7, <1>11, <1>13, <1>14, UpRestores
<1> HIDE DEF g
<1>16. /\ IsHeap(g, R) /\ Len(g.items) = n /\ g.version = h.version
       /\ \A x \in Readers : x \notin R => g.index[x] = ixs[x]
    BY <1>4, <1>7, <1>15 DEF Moved
<1>17. \A x \in Readers : x \notin R => g.index[x] = h.index[x]
    BY <1>5, <1>16
<1> QED  BY <1>2, <1>15, <1>16, <1>17 DEF g

\* A heap with other items.
SetItems(g, h, x) == g = [h EXCEPT !.items = x]

LEMMA ItemsSet ==
    ASSUME NEW h, h = [items |-> h.items, index |-> h.index, version |-> h.version],
           NEW x, NEW g, SetItems(g, h, x)
    PROVE  g = [items |-> x, index |-> h.index, version |-> h.version]
BY DEF SetItems

\* g is h without its last slot, n, where the reader last was.
Dropped(g, h, n, last, its) ==
    /\ Len(h.items) = n /\ n >= 1 /\ h.items[n] = last
    /\ its = SubSeq(h.items, 1, n - 1)
    /\ SetItems(g, h, its)

SameKeys(g, h, m) == \A i \in 1 .. m : Keys(g)[i] = Keys(h)[i]

LEMMA DropLast ==
    ASSUME NEW h, NEW S, IsHeap(h, S), NEW g, NEW n, NEW last, NEW its, Dropped(g, h, n, last, its)
    PROVE  /\ IsHeap(g, S \ {last})
           /\ Len(g.items) = n - 1
           /\ g.version = h.version /\ g.index = h.index
           /\ SameKeys(g, h, n - 1)
<1>1. n \in Nat /\ n >= 1 /\ h.items \in Seq(Readers) /\ Len(h.items) = n /\ h.items[n] = last
    BY HeapKeys DEF IsHeap, Dropped
<1>2. g = [items |-> its, index |-> h.index, version |-> h.version]
    <2>1. SetItems(g, h, its)
        BY DEF Dropped
    <2> QED  BY <2>1, ItemsSet DEF IsHeap
<1>3. its \in Seq(Readers) /\ Len(its) = n - 1 /\ \A i \in 1 .. n - 1 : its[i] = h.items[i]
    <2>1. n - 1 \in Int /\ 1 \in Int /\ \A i \in 1 .. n - 1 : h.items[i] \in Readers
        BY <1>1, HeapKeys
    <2>2. /\ its \in Seq(Readers)
          /\ Len(its) = IF 1 <= n - 1 THEN n - 1 - 1 + 1 ELSE 0
          /\ \A i \in 1 .. n - 1 - 1 + 1 : its[i] = h.items[1 + i - 1]
        BY <2>1, SubSeqProperties DEF Dropped
    <2>3. \A i \in 1 .. n - 1 : i \in 1 .. n - 1 - 1 + 1 /\ 1 + i - 1 = i
        BY <1>1
    <2> QED  BY <1>1, <2>2, <2>3
<1>4. g.items = its /\ g.index = h.index /\ g.version = h.version
    BY <1>2
<1>5. /\ \A i \in 1 .. n : h.items[i] \in S /\ h.index[h.items[i]] = i
      /\ \A x \in S : x \in Readers /\ h.index[x] \in 1 .. n /\ h.items[h.index[x]] = x
      /\ h.version \in [Readers -> Nat] /\ h.index \in [Readers -> Int]
    BY <1>1 DEF IsHeap
<1>6. \A i \in 1 .. n - 1 : i \in 1 .. n /\ i # n
    BY <1>1
<1>7. n \in 1 .. n
    BY <1>1
<1>8. ASSUME NEW i \in 1 .. n - 1  PROVE its[i] \in S \ {last} /\ h.index[its[i]] = i
    <2>1. its[i] = h.items[i] /\ i \in 1 .. n /\ i # n
        BY <1>3, <1>6
    <2>2. h.items[i] \in S /\ h.index[h.items[i]] = i /\ h.index[last] = n
        BY <1>1, <1>5, <1>7, <2>1
    <2> QED  BY <2>1, <2>2
<1>9. ASSUME NEW x \in S \ {last}  PROVE h.index[x] \in 1 .. n - 1 /\ its[h.index[x]] = x
    <2>1. h.index[x] \in 1 .. n /\ h.items[h.index[x]] = x /\ h.index[x] # n
        BY <1>1, <1>5
    <2>2. h.index[x] \in 1 .. n - 1
        BY <1>1, <2>1
    <2> QED  BY <1>3, <2>1, <2>2
<1>10. IsHeap(g, S \ {last})
    BY <1>2, <1>3, <1>4, <1>5, <1>8, <1>9 DEF IsHeap
<1>11. \A i \in 1 .. n - 1 : Keys(g)[i] = Keys(h)[i]
    BY <1>1, <1>3, <1>4, <1>6 DEF Keys
<1> QED  BY <1>3, <1>4, <1>10, <1>11 DEF SameKeys

\* A removed reader's index.
Cleared(g, h, r) == g = [h EXCEPT !.index[r] = -1]

LEMMA ClearIndex ==
    ASSUME NEW h, NEW S, IsHeap(h, S), NEW r \in Readers, r \notin S, NEW g, Cleared(g, h, r)
    PROVE  /\ IsHeap(g, S) /\ g.items = h.items /\ g.version = h.version
           /\ \A x \in Readers : g.index[x] = IF x = r THEN -1 ELSE h.index[x]
<1> DEFINE ixs == [h.index EXCEPT ![r] = -1]
<1>1. h.index \in [Readers -> Int] /\ ixs \in [Readers -> Int]
      /\ \A x \in Readers : ixs[x] = IF x = r THEN -1 ELSE h.index[x]
    BY DEF IsHeap
<1>2. g = [items |-> h.items, index |-> ixs, version |-> h.version]
    <2> HIDE DEF ixs
    <2> QED  BY DEF Cleared, IsHeap, ixs
<1> HIDE DEF ixs
<1>3. g.items = h.items /\ g.index = ixs /\ g.version = h.version
    BY <1>2
<1>4. IsHeap(g, S)
    <2>1. /\ \A i \in 1 .. Len(h.items) : h.items[i] \in S /\ h.items[i] \in Readers /\ h.index[h.items[i]] = i
          /\ \A x \in S : x \in Readers /\ h.index[x] \in 1 .. Len(h.items) /\ h.items[h.index[x]] = x
          /\ h.version \in [Readers -> Nat] /\ h.items \in Seq(Readers)
        BY HeapKeys DEF IsHeap
    <2>2. \A x \in S : ixs[x] = h.index[x]
        BY <1>1, <2>1
    <2> QED  BY <1>1, <1>2, <1>3, <2>1, <2>2 DEF IsHeap
<1> QED  BY <1>1, <1>3, <1>4

\* With the last key in slot i, only slot i may be out of order.
LEMMA FilledKeys ==
    ASSUME NEW n \in Nat, NEW a, NEW b, \A k \in 1 .. n : a[k] \in Nat, InOrder(a, n),
           NEW i \in 1 .. n, \A k \in 1 .. n - 1 : k # i => b[k] = a[k]
    PROVE  /\ i = n => InOrder(b, n - 1)
           /\ i # n => DownInv(b, n - 1, i, i)
<1>1. ASSUME NEW m \in 2 .. n - 1, m # i, m \div 2 # i  PROVE b[m \div 2] <= b[m]
    <2>1. m \div 2 \in 1 .. n - 1 /\ m \in 1 .. n - 1 /\ m \in 2 .. n
        BY Slots
    <2>2. b[m \div 2] = a[m \div 2] /\ b[m] = a[m]
        BY <1>1, <2>1
    <2> QED  BY <2>1, <2>2 DEF InOrder
<1>2. ASSUME i # n, i > 1, NEW m \in 2 .. n - 1, m \div 2 = i  PROVE b[i \div 2] <= b[m]
    <2>1. /\ i \in 2 .. n /\ i \div 2 \in 1 .. n - 1 /\ i \div 2 # i
          /\ m \in 1 .. n - 1 /\ m \in 2 .. n /\ m # i
        BY <1>2, Slots
    <2>2. b[i \div 2] = a[i \div 2] /\ b[m] = a[m]
        BY <2>1
    <2>3. a[i \div 2] <= a[i] /\ a[m \div 2] <= a[m]
        BY <2>1 DEF InOrder
    <2>4. a[i \div 2] \in Nat /\ a[i] \in Nat /\ a[m] \in Nat
        BY <2>1
    <2> QED  BY <1>2, <2>2, <2>3, <2>4
<1>3. ASSUME i = n  PROVE InOrder(b, n - 1)
    <2>1. ASSUME NEW m \in 2 .. n - 1  PROVE b[m \div 2] <= b[m]
        <3>1. m # i /\ m \div 2 # i
            BY <1>3, Slots
        <3> QED  BY <1>1, <3>1
    <2> QED  BY <2>1 DEF InOrder
<1>4. ASSUME i # n  PROVE DownInv(b, n - 1, i, i)
    BY <1>1, <1>2, <1>4 DEF DownInv
<1> QED  BY <1>3, <1>4

\* g's indexes, as far as they do not follow from its slots.
Closed(g, h, S, r) ==
    \A x \in Readers : x \notin S \/ x = r => g.index[x] = IF x = r THEN -1 ELSE h.index[x]

\* remove takes out the reader of slot i and keeps the order.
LEMMA RemoveRestores ==
    ASSUME NEW h, NEW S, IsHeap(h, S), InOrder(Keys(h), Len(h.items)), NEW i \in 1 .. Len(h.items),
           NEW r, h.items[i] = r
    PROVE  LET g == remove(h, i)
           IN  /\ IsHeap(g, S \ {r}) /\ g.version = h.version
               /\ InOrder(Keys(g), Len(g.items))
               /\ Closed(g, h, S, r)
<1> DEFINE n == Len(h.items)
           R == S \ {r}
           swapped == swap(h, i, n)
           reader == swapped.items[n]
           its == SubSeq(swapped.items, 1, n - 1)
           rest == [swapped EXCEPT !.items = its]
           sifted == down(rest, i)
           filled == IF i = n THEN rest
                     ELSE IF sifted.at > i THEN sifted.h ELSE up(sifted.h, i)
           g == [filled EXCEPT !.index[reader] = -1]
<1>1. remove(h, i) = g
    BY DEF remove
<1>2. /\ n \in Nat /\ n \in 1 .. n /\ n >= 1 /\ r \in Readers
      /\ h.items \in Seq(Readers) /\ \A k \in 1 .. n : Keys(h)[k] \in Nat
    <2>1. n \in Nat /\ r \in Readers /\ \A k \in 1 .. n : Keys(h)[k] \in Nat
        BY HeapKeys
    <2>2. n \in 1 .. n /\ n >= 1
        BY <2>1
    <2>3. h.items \in Seq(Readers)
        BY DEF IsHeap
    <2> QED  BY <2>1, <2>2, <2>3
<1>3. /\ Moved(swapped, h, S) /\ Swapped(Keys(h), Keys(swapped), n, i, n)
      /\ swapped.items = [h.items EXCEPT ![i] = h.items[n], ![n] = h.items[i]]
    BY <1>2, SwapMoves
<1>4. SetItems(rest, swapped, its)
    <2> HIDE DEF its, swapped
    <2> QED  BY DEF SetItems
<1>5. Cleared(g, filled, reader)
    <2> HIDE DEF filled, reader
    <2> QED  BY DEF Cleared
<1> HIDE DEF g, filled, sifted, rest, its, swapped
<1>6. /\ IsHeap(swapped, S) /\ Len(swapped.items) = n /\ swapped.version = h.version
      /\ \A x \in Readers : x \notin S => swapped.index[x] = h.index[x]
    BY <1>3 DEF Moved
<1>7. reader = r
    <2>1. DOMAIN h.items = 1 .. n
        BY <1>2, LenProperties
    <2> QED  BY <1>2, <1>3, <2>1
<1> HIDE DEF reader
<1>8. /\ IsHeap(rest, R) /\ Len(rest.items) = n - 1
      /\ rest.version = swapped.version /\ rest.index = swapped.index
      /\ SameKeys(rest, swapped, n - 1)
    <2>1. swapped.items[n] = r
        BY <1>7 DEF reader
    <2>2. its = SubSeq(swapped.items, 1, n - 1)
        BY DEF its
    <2>3. Dropped(rest, swapped, n, r, its)
        BY <1>2, <1>4, <1>6, <2>1, <2>2 DEF Dropped
    <2> HIDE DEF n
    <2> QED  BY <1>6, <2>3, DropLast
<1>9. \A k \in 1 .. n - 1 : k # i => Keys(rest)[k] = Keys(h)[k]
    <2>1. \A k \in 1 .. n - 1 : k \in 1 .. n /\ k # n
        BY <1>2
    <2> QED  BY <1>3, <1>8, <2>1 DEF Swapped, SameKeys
<1>10. /\ i = n => InOrder(Keys(rest), n - 1)
       /\ i # n => DownInv(Keys(rest), n - 1, i, i)
    BY <1>2, <1>9, FilledKeys
<1>11. Moved(filled, rest, R) /\ InOrder(Keys(filled), n - 1)
    <2>1. CASE i = n
        <3>1. filled = rest
            BY <2>1 DEF filled
        <3>2. Moved(rest, rest, R)
            BY <1>8 DEF Moved
        <3> QED  BY <1>10, <2>1, <3>1, <3>2
    <2>2. CASE i # n
        <3>1. i \in 1 .. Len(rest.items) /\ DownInv(Keys(rest), Len(rest.items), i, i)
            BY <1>2, <1>8, <1>10, <2>2
        <3>2. /\ Moved(sifted.h, rest, R)
              /\ sifted.at > i => InOrder(Keys(sifted.h), Len(rest.items))
              /\ ~(sifted.at > i) => UpInv(Keys(sifted.h), Len(rest.items), i)
            BY <1>8, <3>1, DownRestores DEF sifted
        <3>3. IsHeap(sifted.h, R) /\ Len(sifted.h.items) = Len(rest.items)
            BY <3>2 DEF Moved
        <3>4. CASE sifted.at > i
            BY <1>8, <2>2, <3>2, <3>4 DEF filled
        <3>5. CASE ~(sifted.at > i)
            <4>1. filled = up(sifted.h, i)
                BY <2>2, <3>5 DEF filled
            <4>2. i \in 1 .. Len(sifted.h.items) /\ UpInv(Keys(sifted.h), Len(sifted.h.items), i)
                BY <3>1, <3>2, <3>3, <3>5
            <4>3. Moved(filled, sifted.h, R) /\ InOrder(Keys(filled), Len(sifted.h.items))
                BY <3>3, <4>1, <4>2, UpRestores
            <4>4. Moved(filled, rest, R)
                BY <3>2, <4>3 DEF Moved
            <4> QED  BY <1>8, <3>3, <4>3, <4>4
        <3> QED  BY <3>4, <3>5
    <2> QED  BY <2>1, <2>2
<1>12. /\ IsHeap(filled, R) /\ Len(filled.items) = n - 1 /\ filled.version = h.version
       /\ \A x \in Readers : x \notin R => filled.index[x] = swapped.index[x]
    BY <1>6, <1>8, <1>11 DEF Moved
<1>13. /\ IsHeap(g, R) /\ g.items = filled.items /\ g.version = filled.version
       /\ \A x \in Readers : g.index[x] = IF x = r THEN -1 ELSE filled.index[x]
    <2>1. r \notin R /\ Cleared(g, filled, r)
        BY <1>5, <1>7
    <2> QED  BY <1>2, <1>12, <2>1, ClearIndex
<1>14. Keys(g) = Keys(filled) /\ Len(g.items) = n - 1
    BY <1>12, <1>13 DEF Keys
<1>15. InOrder(Keys(g), Len(g.items))
    BY <1>11, <1>14
<1>16. ASSUME NEW x \in Readers, x \notin S \/ x = r
       PROVE  g.index[x] = IF x = r THEN -1 ELSE h.index[x]
    <2>1. CASE x = r
        BY <1>13, <2>1
    <2>2. CASE x # r
        <3>1. x \notin S /\ x \notin R
            BY <1>16, <2>2
        <3>2. filled.index[x] = swapped.index[x] /\ swapped.index[x] = h.index[x]
            BY <1>6, <1>12, <3>1
        <3> QED  BY <1>13, <2>2, <3>2
    <2> QED  BY <2>1, <2>2
<1>17. g.version = h.version
    BY <1>12, <1>13
<1> HIDE DEF R, n
<1> QED  BY <1>1, <1>13, <1>15, <1>16, <1>17 DEF R, Closed

-----------------------------------------------------------------------------
(* The invariant *)

\* HeapInv, of any items, indexes and versions.
Sound(its, ixs, ver) ==
    /\ its \in Seq(Readers)
    /\ ver \in [Readers -> Nat]
    /\ ixs \in [Readers -> Int]
    /\ {its[i] : i \in DOMAIN its} = {r \in Readers : ixs[r] # -1}
    /\ \A i \in DOMAIN its : ixs[its[i]] = i
    /\ \A i \in 2 .. Len(its) : ver[its[i \div 2]] <= ver[its[i]]

OrderedHeap(h, S) == IsHeap(h, S) /\ InOrder(Keys(h), Len(h.items))

AsHeap(its, ixs, ver) == [items |-> its, index |-> ixs, version |-> ver]

Indexed(ixs) == {r \in Readers : ixs[r] # -1}

LEMMA SoundHeap ==
    ASSUME NEW its, NEW ixs, NEW ver, Sound(its, ixs, ver)
    PROVE  OrderedHeap(AsHeap(its, ixs, ver), Indexed(ixs))
<1> DEFINE h == AsHeap(its, ixs, ver)
           S == Indexed(ixs)
           n == Len(its)
<1>1. h.items = its /\ h.index = ixs /\ h.version = ver
    BY DEF AsHeap
<1>2. h = [items |-> h.items, index |-> h.index, version |-> h.version]
    BY <1>1 DEF AsHeap
<1>3. n \in Nat /\ DOMAIN its = 1 .. n /\ \A i \in 1 .. n : its[i] \in Readers
    BY LenProperties, ElementOfSeq DEF Sound
<1>4. \A i \in 1 .. n : its[i] \in S /\ ixs[its[i]] = i
    BY <1>3 DEF Sound, Indexed
<1>5. ASSUME NEW r \in S  PROVE r \in Readers /\ ixs[r] \in 1 .. n /\ its[ixs[r]] = r
    <2>1. PICK i \in 1 .. n : its[i] = r
        BY <1>3, <1>5 DEF Sound, Indexed
    <2> QED  BY <1>4, <2>1 DEF Indexed
<1>6. IsHeap(h, S)
    <2> HIDE DEF h, S
    <2>1. its \in Seq(Readers) /\ ixs \in [Readers -> Int] /\ ver \in [Readers -> Nat]
        BY DEF Sound
    <2> QED  BY <1>1, <1>2, <1>4, <1>5, <2>1 DEF IsHeap
<1>7. InOrder(Keys(h), n)
    <2>1. \A i \in 1 .. n : Keys(h)[i] = ver[its[i]]
        BY <1>1 DEF Keys
    <2>2. \A i \in 2 .. n : i \div 2 \in 1 .. n /\ i \in 1 .. n
        BY <1>3, Slots
    <2>3. \A i \in 2 .. n : ver[its[i \div 2]] <= ver[its[i]]
        BY DEF Sound
    <2> QED  BY <2>1, <2>2, <2>3 DEF InOrder
<1> QED  BY <1>1, <1>6, <1>7 DEF OrderedHeap

LEMMA HeapSound ==
    ASSUME NEW its, NEW ixs, NEW ver, OrderedHeap(AsHeap(its, ixs, ver), Indexed(ixs))
    PROVE  Sound(its, ixs, ver)
<1> DEFINE h == AsHeap(its, ixs, ver)
           S == Indexed(ixs)
           n == Len(its)
<1>1. h.items = its /\ h.index = ixs /\ h.version = ver
    BY DEF AsHeap
<1>2. IsHeap(h, S) /\ InOrder(Keys(h), n)
    BY <1>1 DEF OrderedHeap
<1> HIDE DEF h
<1>3. /\ its \in Seq(Readers) /\ ixs \in [Readers -> Int] /\ ver \in [Readers -> Nat]
      /\ \A i \in 1 .. n : its[i] \in S /\ ixs[its[i]] = i
      /\ \A r \in S : ixs[r] \in 1 .. n /\ its[ixs[r]] = r
    BY <1>1, <1>2 DEF IsHeap
<1>4. n \in Nat /\ DOMAIN its = 1 .. n
    BY <1>3, LenProperties
<1>5. {its[i] : i \in DOMAIN its} = S
    <2>1. \A r \in S : \E i \in DOMAIN its : its[i] = r
        BY <1>3, <1>4
    <2> HIDE DEF S
    <2> QED  BY <1>3, <1>4, <2>1
<1>6. \A i \in 2 .. n : ver[its[i \div 2]] <= ver[its[i]]
    <2>1. \A i \in 1 .. n : Keys(h)[i] = ver[its[i]]
        BY <1>1 DEF Keys
    <2>2. \A i \in 2 .. n : i \div 2 \in 1 .. n /\ i \in 1 .. n
        BY <1>4, Slots
    <2> QED  BY <1>2, <2>1, <2>2 DEF InOrder
<1>7. \A i \in DOMAIN its : ixs[its[i]] = i
    BY <1>3, <1>4
<1> QED  BY <1>3, <1>5, <1>6, <1>7 DEF Sound, Indexed

\* A closed reader's version is not part of the order.
LEMMA OtherVersions ==
    ASSUME NEW h, NEW S, OrderedHeap(h, S), NEW ver \in [Readers -> Nat],
           \A x \in S : ver[x] = h.version[x]
    PROVE  OrderedHeap(AsHeap(h.items, h.index, ver), S)
<1> DEFINE g == AsHeap(h.items, h.index, ver)
           n == Len(h.items)
<1>1. g.items = h.items /\ g.index = h.index /\ g.version = ver
    BY DEF AsHeap
<1>2. g = [items |-> g.items, index |-> g.index, version |-> g.version]
    BY <1>1 DEF AsHeap
<1> HIDE DEF g
<1>3. IsHeap(h, S) /\ InOrder(Keys(h), n)
    BY DEF OrderedHeap
<1>4. IsHeap(g, S)
    BY <1>1, <1>2, <1>3 DEF IsHeap
<1>5. \A i \in 1 .. n : h.items[i] \in S
    BY <1>3 DEF IsHeap
<1>6. Keys(g) = Keys(h)
    BY <1>1, <1>5 DEF Keys
<1> QED  BY <1>1, <1>3, <1>4, <1>6 DEF OrderedHeap, g

LEMMA InvSound == HeapInv <=> Sound(items, heap_index, version) /\ latest \in Nat
BY DEF HeapInv, Sound, IndexesMatch, HeapOrder, Open

LEMMA BeginReadKeeps ==
    ASSUME HeapInv, NEW r \in Readers, begin_read(r)
    PROVE  Sound(items', heap_index', version')
<1> DEFINE h == AsHeap(items, heap_index, version)
           k == AsHeap(items, heap_index, version')
           S == Indexed(heap_index)
           g == push(k, r)
<1>1. OrderedHeap(h, S) /\ latest \in Nat /\ heap_index \in [Readers -> Int] /\ version \in [Readers -> Nat]
    BY InvSound, SoundHeap DEF Sound
<1>2. /\ heap_index[r] = -1
      /\ version' = [version EXCEPT ![r] = latest]
      /\ items' = g.items /\ heap_index' = g.index
    BY DEF begin_read, Set, Heap, AsHeap
<1>3. r \notin S
    BY <1>2 DEF Indexed
<1>4. h.items = items /\ h.index = heap_index /\ h.version = version
    BY DEF AsHeap
<1>5. version' \in [Readers -> Nat] /\ \A x \in S : version'[x] = h.version[x]
    BY <1>1, <1>2, <1>3, <1>4 DEF Indexed
<1>6. OrderedHeap(k, S)
    <2> HIDE DEF h, S
    <2>1. OrderedHeap(AsHeap(h.items, h.index, version'), S)
        BY <1>1, <1>5, OtherVersions
    <2> QED  BY <1>4, <2>1
<1>7. k.index = heap_index /\ k.version = version'
    BY DEF AsHeap
<1> HIDE DEF k
<1>8. /\ IsHeap(g, S \cup {r}) /\ g.version = k.version
      /\ InOrder(Keys(g), Len(g.items))
      /\ \A x \in Readers : x \notin S \cup {r} => g.index[x] = k.index[x]
    BY <1>3, <1>6, PushRestores DEF OrderedHeap
<1> HIDE DEF g, h
<1>9. g = AsHeap(items', heap_index', version')
    BY <1>2, <1>7, <1>8 DEF IsHeap, AsHeap
<1>10. Indexed(heap_index') = S \cup {r}
    <2>1. \A x \in S \cup {r} : x \in Readers /\ heap_index'[x] # -1
        <3>1. \A x \in S \cup {r} : x \in Readers /\ g.index[x] \in 1 .. Len(g.items)
            BY <1>8 DEF IsHeap
        <3>2. \A x : x \in 1 .. Len(g.items) => x # -1
            BY <1>8, HeapKeys
        <3> QED  BY <1>2, <3>1, <3>2
    <2>2. \A x \in Readers : x \notin S \cup {r} => heap_index'[x] = -1
        BY <1>2, <1>7, <1>8 DEF Indexed
    <2> HIDE DEF S
    <2> QED  BY <2>1, <2>2 DEF Indexed
<1>11. OrderedHeap(AsHeap(items', heap_index', version'), Indexed(heap_index'))
    BY <1>8, <1>9, <1>10 DEF OrderedHeap
<1> QED  BY <1>11, HeapSound

LEMMA EndReadKeeps ==
    ASSUME HeapInv, NEW r \in Readers, end_read(r)
    PROVE  Sound(items', heap_index', version')
<1> DEFINE h == AsHeap(items, heap_index, version)
           S == Indexed(heap_index)
           i == heap_index[r]
           g == remove(h, i)
           R == S \ {r}
<1>1. OrderedHeap(h, S) /\ version \in [Readers -> Nat]
    BY InvSound, SoundHeap DEF Sound
<1>2. /\ heap_index[r] # -1
      /\ version' = [version EXCEPT ![r] = 0]
      /\ items' = g.items /\ heap_index' = g.index
    BY DEF end_read, Set, Heap, AsHeap
<1>3. h.items = items /\ h.index = heap_index /\ h.version = version
    BY DEF AsHeap
<1>4. r \in S
    BY <1>2 DEF Indexed
<1> HIDE DEF h
<1>5. i \in 1 .. Len(h.items) /\ h.items[i] = r
    BY <1>1, <1>3, <1>4 DEF OrderedHeap, IsHeap
<1> HIDE DEF i
<1>6. /\ IsHeap(g, R) /\ g.version = h.version
      /\ InOrder(Keys(g), Len(g.items))
      /\ Closed(g, h, S, r)
    <2> HIDE DEF S
    <2> QED  BY <1>1, <1>5, RemoveRestores DEF OrderedHeap
<1> HIDE DEF g
<1>7. version' \in [Readers -> Nat] /\ \A x \in R : version'[x] = g.version[x]
    BY <1>1, <1>2, <1>3, <1>6 DEF Indexed
<1>8. OrderedHeap(AsHeap(items', heap_index', version'), R)
    <2> HIDE DEF R
    <2>1. OrderedHeap(AsHeap(g.items, g.index, version'), R)
        BY <1>6, <1>7, OtherVersions DEF OrderedHeap
    <2> QED  BY <1>2, <2>1
<1>9. Indexed(heap_index') = R
    <2>1. \A x \in R : x \in Readers /\ heap_index'[x] # -1
        <3>1. \A x \in R : x \in Readers /\ g.index[x] \in 1 .. Len(g.items)
            BY <1>6 DEF IsHeap
        <3>2. \A x : x \in 1 .. Len(g.items) => x # -1
            BY <1>6, HeapKeys
        <3> QED  BY <1>2, <3>1, <3>2
    <2>2. \A x \in Readers : x \notin R => heap_index'[x] = -1
        <3> TAKE x \in Readers
        <3>1. CASE x = r
            BY <1>2, <1>6, <3>1 DEF Closed
        <3>2. CASE x # r /\ x \notin S
            BY <1>2, <1>3, <1>6, <3>2 DEF Indexed, Closed
        <3> QED  BY <3>1, <3>2
    <2> HIDE DEF R
    <2> QED  BY <2>1, <2>2 DEF Indexed
<1> QED  BY <1>8, <1>9, HeapSound

\* Open readers and the heap agree, in order, after any begin_read, end_read
\* and commit.
THEOREM HeapSafe == Spec => []HeapInv
<1>1. Init => HeapInv
    <2> SUFFICES ASSUME Init  PROVE HeapInv
        OBVIOUS
    <2>1. items = << >> /\ latest = 0 /\ heap_index = [r \in Readers |-> -1] /\ version = [r \in Readers |-> 0]
        BY DEF Init
    <2>2. items \in Seq(Readers) /\ Len(items) = 0 /\ DOMAIN items = {}
        BY <2>1, EmptySeq
    <2>3. Open = {} /\ heap_index \in [Readers -> Int] /\ version \in [Readers -> Nat]
        BY <2>1 DEF Open
    <2>4. IndexesMatch /\ HeapOrder
        BY <2>2, <2>3 DEF IndexesMatch, HeapOrder
    <2> QED  BY <2>1, <2>2, <2>3, <2>4 DEF HeapInv
<1>2. HeapInv /\ [Next]_vars => HeapInv'
    <2> SUFFICES ASSUME HeapInv, [Next]_vars  PROVE Sound(items', heap_index', version') /\ latest' \in Nat
        BY DEF HeapInv, Sound, IndexesMatch, HeapOrder, Open
    <2>1. Sound(items, heap_index, version) /\ latest \in Nat
        BY InvSound
    <2>2. CASE publish
        BY <2>1, <2>2 DEF publish
    <2>3. ASSUME NEW r \in Readers, begin_read(r)
          PROVE  Sound(items', heap_index', version') /\ latest' \in Nat
        BY <2>1, <2>3, BeginReadKeeps DEF begin_read
    <2>4. ASSUME NEW r \in Readers, end_read(r)
          PROVE  Sound(items', heap_index', version') /\ latest' \in Nat
        BY <2>1, <2>4, EndReadKeeps DEF end_read
    <2>5. CASE UNCHANGED vars
        BY <2>1, <2>5 DEF vars
    <2> QED  BY <2>2, <2>3, <2>4, <2>5 DEF Next
<1> QED  BY <1>1, <1>2, PTL DEF Spec

\* However readers open and close, the heap of reader_heap.cpp holds each open
\* reader once, in the slot its heap_index names.
THEOREM SlotsFollowReaders == Spec => []IndexesMatch
<1>1. HeapInv => IndexesMatch
    BY DEF HeapInv
<1> QED  BY <1>1, HeapSafe, PTL

\* min() is an oldest open reader: the version below which KV::begin lets the
\* free list hand pages out again is never newer than a reader still needs.
THEOREM MinOldest == Spec => []MinIsOldest
<1>1. HeapInv => MinIsOldest
    <2> SUFFICES ASSUME HeapInv, items # << >>, NEW r \in Open  PROVE version[items[1]] <= version[r]
        BY DEF MinIsOldest
    <2> DEFINE h == AsHeap(items, heap_index, version)
               n == Len(items)
    <2>1. OrderedHeap(h, Open)
        BY InvSound, SoundHeap DEF Indexed, Open
    <2>2. h.items = items /\ h.index = heap_index /\ h.version = version
        BY DEF AsHeap
    <2> HIDE DEF h
    <2>3. /\ n \in Nat /\ InOrder(Keys(h), n) /\ \A i \in 1 .. n : Keys(h)[i] \in Nat
          /\ \A i \in 1 .. n : Keys(h)[i] = version[items[i]]
        BY <2>1, <2>2, HeapKeys DEF OrderedHeap, Keys
    <2>4. heap_index[r] \in 1 .. n /\ items[heap_index[r]] = r
        BY <2>1, <2>2 DEF OrderedHeap, IsHeap
    <2>5. \A i \in 1 .. n : Keys(h)[1] <= Keys(h)[i]
        BY <2>3, RootIsLeast
    <2>6. 1 \in 1 .. n
        BY <2>3, <2>4
    <2> QED  BY <2>3, <2>4, <2>5, <2>6
<1> QED  BY <1>1, HeapSafe, PTL
=============================================================================
