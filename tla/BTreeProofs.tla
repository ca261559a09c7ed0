---------------------------- MODULE BTreeProofs -----------------------------
(***************************************************************************)
(* Proofs about BTreeNode.tla and BTree.tla: node sizes through splits,    *)
(* merges and new links; lookup in a node, and the order of its keys; and  *)
(* the whole tree, which every call keeps well formed and equal to the map *)
(* that the calls made.                                                    *)
(***************************************************************************)
EXTENDS BTree, LeastNumber, SequenceTheorems

-----------------------------------------------------------------------------
(* Sizes *)

LEMMA PageFacts == PageSize \in Nat /\ Half \in Nat /\ Header + 2 * Half <= PageSize /\ 1 <= Half /\ Header = 1 /\ Overhead = 1
BY EntryAssumption DEF Half, Header, Overhead

\* Every entry takes a byte and at most half a page: the static_assert in btree.h.
LEMMA EntryHalf ==
    ASSUME NEW Child, NEW e \in EntryOf(Child)
    PROVE  EntrySize(e) \in 1 .. Half
<1>1. e.key \in Keys \cup {0} /\ e.val \in Vals \cup {0} /\ (e.key = 0 => e.val = 0)
    BY DEF EntryOf
<1>2. CASE e.key = 0
    BY <1>1, <1>2, PageFacts DEF EntrySize
<1>3. CASE e.key # 0
    <2> DEFINE k == e.key
               x == e.val
    <2>1. Keys \subseteq Nat \ {0} /\ KeySize \in [Keys -> Nat] /\ Vals \subseteq Nat /\ Vals # {}
        BY EntryAssumption
    <2>2. k \in Keys /\ x \in Vals \cup {0}
        BY <1>1, <1>3
    <2>3. EntrySize(e) = 1 + KeySize[k] + x
        BY <1>3, PageFacts DEF EntrySize
    <2> HIDE DEF k, x
    <2>4. KeySize[k] \in Nat /\ x \in Nat
        BY <2>1, <2>2
    <2>5. PICK v \in Vals : v \in Nat /\ x <= v
        <3>1. PICK w \in Vals : w \in Nat
            BY <2>1
        <3>2. CASE x \in Vals
            BY <2>4, <3>2
        <3>3. CASE x = 0
            BY <3>1, <3>3
        <3> QED  BY <2>2, <3>2, <3>3
    <2>6. Overhead + KeySize[k] + v <= Half
        BY <2>2, EntryAssumption
    <2> QED  BY <2>3, <2>4, <2>5, <2>6, PageFacts
<1> QED  BY <1>2, <1>3

LEMMA KeyNat ==
    ASSUME NEW Child, NEW e \in EntryOf(Child)
    PROVE  e.key \in Nat
<1> DEFINE x == e.key
<1>1. x \in Keys \cup {0}
    BY DEF EntryOf
<1> HIDE DEF x
<1>2. x \in Nat
    BY <1>1, EntryAssumption
<1> QED  BY <1>2 DEF x

\* The loop of nbytes.
SumLoop(f, kvs, n) == f = [i \in 0 .. n |-> IF i = 0 THEN Header ELSE f[i - 1] + EntrySize(kvs[i])]

LEMMA SumLoops ==
    ASSUME NEW node, NEW n \in Nat
    PROVE  \E f : SumLoop(f, node.kvs, n) /\ nbytes(node, n) = f[n]
<1> DEFINE kvs == node.kvs
           T == {m \in 0 .. n : ~ \E f : SumLoop(f, kvs, m)}
           pass(x, i) == x + EntrySize(kvs[i])
           Loop(f, m) == f = [i \in 0 .. m |-> IF i = 0 THEN Header ELSE pass(f[i - 1], i)]
<1>0. \A f, m : SumLoop(f, kvs, m) <=> Loop(f, m)
    BY DEF SumLoop
<1>1. \E f : SumLoop(f, kvs, n)
    <2> HIDE DEF pass
    <2> SUFFICES ASSUME T # {}  PROVE FALSE
        <3>1. n \in 0 .. n
            OBVIOUS
        <3> QED  BY <3>1
    <2>1. 0 \notin T
        <3>1. Loop([i \in 0 .. 0 |-> Header], 0)
            OBVIOUS
        <3> QED  BY <1>0, <3>1
    <2>2. PICK m \in T : m \in 1 .. n /\ m - 1 \in 0 .. n /\ m - 1 \notin T
        BY <2>1, FirstFailure
    <2>3. PICK f : Loop(f, m - 1)
        BY <1>0, <2>2
    <2> DEFINE g == [i \in 0 .. m |-> IF i = m THEN pass(f[m - 1], m) ELSE f[i]]
    <2>4. ASSUME NEW i \in 0 .. m  PROVE g[i] = IF i = 0 THEN Header ELSE pass(g[i - 1], i)
        <3>1. CASE i = m
            BY <2>2, <3>1
        <3>2. CASE i # m
            <4>1. i \in 0 .. m - 1 /\ i - 1 # m /\ g[i] = f[i]
                BY <2>2, <3>2
            <4>2. f[i] = IF i = 0 THEN Header ELSE pass(f[i - 1], i)
                BY <2>3, <4>1
            <4>3. i # 0 => g[i - 1] = f[i - 1]
                BY <2>2, <4>1
            <4> QED  BY <4>1, <4>2, <4>3
        <3> QED  BY <3>1, <3>2
    <2>5. Loop(g, m)
        BY <2>4
    <2> QED  BY <1>0, <2>2, <2>5
<1>2. nbytes(node, n) = (CHOOSE f : Loop(f, n))[n]
    BY DEF nbytes
<1>3. Loop(CHOOSE f : Loop(f, n), n)
    <2> HIDE DEF Loop
    <2> QED  BY <1>0, <1>1
<1> QED  BY <1>0, <1>2, <1>3

\* The size grows by each entry.
LEMMA SumNext ==
    ASSUME NEW Child, NEW node, node.kvs \in Seq(EntryOf(Child))
    PROVE  /\ nbytes(node, 0) = Header
           /\ \A i \in 1 .. Len(node.kvs) : nbytes(node, i) = nbytes(node, i - 1) + EntrySize(node.kvs[i])
           /\ \A i \in 1 .. Len(node.kvs) : EntrySize(node.kvs[i]) \in 1 .. Half
           /\ \A i \in 0 .. Len(node.kvs) : nbytes(node, i) \in Nat
<1> DEFINE kvs == node.kvs
           n == Len(kvs)
           pass(x, i) == x + EntrySize(kvs[i])
<1>1. ASSUME NEW m \in Nat, NEW f, SumLoop(f, kvs, m)
      PROVE  f[0] = Header /\ \A i \in 1 .. m : f[i] = pass(f[i - 1], i)
    BY <1>1 DEF SumLoop
<1>2. n \in Nat /\ \A i \in 1 .. n : EntrySize(kvs[i]) \in 1 .. Half
    <2>1. n \in Nat /\ \A i \in 1 .. n : kvs[i] \in EntryOf(Child)
        BY LenProperties, ElementOfSeq
    <2> QED  BY <2>1, EntryHalf
<1>3. nbytes(node, 0) = Header
    <2>1. PICK f : SumLoop(f, kvs, 0) /\ nbytes(node, 0) = f[0]
        BY SumLoops
    <2> QED  BY <1>1, <2>1
<1> HIDE DEF pass
<1>4. ASSUME NEW k \in 1 .. n  PROVE nbytes(node, k) = pass(nbytes(node, k - 1), k)
    <2>1. k \in Nat /\ k - 1 \in Nat
        BY <1>2
    <2>2. PICK f : SumLoop(f, kvs, k) /\ nbytes(node, k) = f[k]
        BY <2>1, SumLoops
    <2>3. PICK g : SumLoop(g, kvs, k - 1) /\ nbytes(node, k - 1) = g[k - 1]
        BY <2>1, SumLoops
    <2>4. f[0] = Header /\ \A i \in 1 .. k : f[i] = pass(f[i - 1], i)
        BY <1>1, <2>1, <2>2
    <2>5. g[0] = Header /\ \A i \in 1 .. k - 1 : g[i] = pass(g[i - 1], i)
        BY <1>1, <2>1, <2>3
    <2> DEFINE T == {i \in 0 .. k - 1 : f[i] # g[i]}
    <2>6. T = {}
        <3> SUFFICES ASSUME T # {}  PROVE FALSE
            OBVIOUS
        <3>1. 0 \notin T
            BY <2>4, <2>5
        <3>2. PICK i \in T : i \in 1 .. k - 1 /\ i - 1 \in 0 .. k - 1 /\ i - 1 \notin T
            BY <2>1, <3>1, FirstFailure
        <3>3. i \in 1 .. k /\ f[i - 1] = g[i - 1]
            BY <2>1, <3>2
        <3> QED  BY <2>4, <2>5, <3>2, <3>3
    <2>7. f[k - 1] = g[k - 1]
        BY <2>1, <2>6
    <2> QED  BY <2>1, <2>2, <2>3, <2>4, <2>7
<1>5. \A i \in 1 .. n : nbytes(node, i) = nbytes(node, i - 1) + EntrySize(kvs[i])
    BY <1>4 DEF pass
<1>6. \A i \in 0 .. n : nbytes(node, i) \in Nat
    <2> HIDE DEF kvs, n
    <2> DEFINE T == {i \in 0 .. n : nbytes(node, i) \notin Nat}
    <2> SUFFICES ASSUME T # {}  PROVE FALSE
        OBVIOUS
    <2>1. 0 \notin T
        BY <1>3, PageFacts
    <2>2. PICK i \in T : i \in 1 .. n /\ i - 1 \in 0 .. n /\ i - 1 \notin T
        BY <1>2, <2>1, FirstFailure
    <2>3. nbytes(node, i - 1) \in Nat /\ EntrySize(kvs[i]) \in 1 .. Half
        BY <1>2, <2>2
    <2> QED  BY <1>5, <2>2, <2>3, PageFacts
<1> QED  BY <1>2, <1>3, <1>5, <1>6

LEMMA SameStep ==
    ASSUME NEW x \in Nat, NEW y \in Nat, NEW c \in Nat, NEW d \in Nat, NEW s \in Nat, x - c = y - d
    PROVE  (x + s) - c = (y + s) - d
OBVIOUS

\* The m entries of a after p and of b after q have the same sizes.
SameSizes(Child, a, p, b, q, m) ==
    /\ a.kvs \in Seq(EntryOf(Child)) /\ b.kvs \in Seq(EntryOf(Child))
    /\ p \in Nat /\ q \in Nat /\ m \in Nat /\ p + m <= Len(a.kvs) /\ q + m <= Len(b.kvs)
    /\ \A i \in 1 .. m : EntrySize(a.kvs[p + i]) = EntrySize(b.kvs[q + i])

\* They take the same space.
LEMMA SameSums ==
    ASSUME NEW Child, NEW a, NEW p, NEW b, NEW q, NEW m, SameSizes(Child, a, p, b, q, m)
    PROVE  nbytes(a, p + m) - nbytes(a, p) = nbytes(b, q + m) - nbytes(b, q)
<1>0. /\ a.kvs \in Seq(EntryOf(Child)) /\ b.kvs \in Seq(EntryOf(Child))
      /\ p \in Nat /\ q \in Nat /\ m \in Nat /\ p + m <= Len(a.kvs) /\ q + m <= Len(b.kvs)
      /\ \A i \in 1 .. m : EntrySize(a.kvs[p + i]) = EntrySize(b.kvs[q + i])
    BY DEF SameSizes
<1> DEFINE sa(i) == nbytes(a, i)
           sb(i) == nbytes(b, i)
           la == Len(a.kvs)
           lb == Len(b.kvs)
           T == {i \in 0 .. m : sa(p + i) - sa(p) # sb(q + i) - sb(q)}
<1>1. /\ la \in Nat /\ \A i \in 0 .. la : sa(i) \in Nat
      /\ \A i \in 1 .. la : sa(i) = sa(i - 1) + EntrySize(a.kvs[i]) /\ EntrySize(a.kvs[i]) \in Nat
    <2>1. la \in Nat
        BY <1>0, LenProperties
    <2>2. /\ \A i \in 1 .. la : sa(i) = sa(i - 1) + EntrySize(a.kvs[i])
          /\ \A i \in 1 .. la : EntrySize(a.kvs[i]) \in 1 .. Half
          /\ \A i \in 0 .. la : sa(i) \in Nat
        BY <1>0, SumNext
    <2> HIDE DEF sa, la
    <2> QED  BY <2>1, <2>2, PageFacts
<1>2. /\ lb \in Nat /\ \A i \in 0 .. lb : sb(i) \in Nat
      /\ \A i \in 1 .. lb : sb(i) = sb(i - 1) + EntrySize(b.kvs[i]) /\ EntrySize(b.kvs[i]) \in Nat
    <2>1. lb \in Nat
        BY <1>0, LenProperties
    <2>2. /\ \A i \in 1 .. lb : sb(i) = sb(i - 1) + EntrySize(b.kvs[i])
          /\ \A i \in 1 .. lb : EntrySize(b.kvs[i]) \in 1 .. Half
          /\ \A i \in 0 .. lb : sb(i) \in Nat
        BY <1>0, SumNext
    <2> HIDE DEF sb, lb
    <2> QED  BY <2>1, <2>2, PageFacts
<1>3. p + m <= la /\ q + m <= lb
    BY <1>0
<1> HIDE DEF sa, sb, la, lb
<1>4. T = {}
    <2> SUFFICES ASSUME T # {}  PROVE FALSE
        OBVIOUS
    <2>1. 0 \notin T
        <3>1. p \in 0 .. la /\ q \in 0 .. lb /\ p + 0 = p /\ q + 0 = q
            BY <1>0, <1>1, <1>2, <1>3
        <3>2. sa(p) \in Nat /\ sb(q) \in Nat
            BY <1>1, <1>2, <3>1
        <3>3. sa(p + 0) = sa(p) /\ sb(q + 0) = sb(q)
            BY <3>1
        <3>4. sa(p + 0) - sa(p) = 0 /\ sb(q + 0) - sb(q) = 0
            BY <3>2, <3>3
        <3> QED  BY <3>4
    <2>2. PICK i \in T : i \in 1 .. m /\ i - 1 \in 0 .. m /\ i - 1 \notin T
        BY <1>0, <2>1, FirstFailure
    <2>3. /\ p + i \in 1 .. la /\ q + i \in 1 .. lb /\ (p + i) - 1 = p + (i - 1) /\ (q + i) - 1 = q + (i - 1)
          /\ p + (i - 1) \in 0 .. la /\ q + (i - 1) \in 0 .. lb /\ p \in 0 .. la /\ q \in 0 .. lb
        BY <1>0, <1>1, <1>2, <1>3, <2>2
    <2>4. sa(p + i) = sa(p + (i - 1)) + EntrySize(a.kvs[p + i]) /\ sb(q + i) = sb(q + (i - 1)) + EntrySize(b.kvs[q + i])
        BY <1>1, <1>2, <2>3
    <2>5. EntrySize(a.kvs[p + i]) = EntrySize(b.kvs[q + i])
        BY <1>0, <2>2
    <2>6. sa(p + (i - 1)) - sa(p) = sb(q + (i - 1)) - sb(q)
        BY <2>2
    <2>7. /\ sa(p + (i - 1)) \in Nat /\ sb(q + (i - 1)) \in Nat /\ sa(p) \in Nat /\ sb(q) \in Nat
          /\ EntrySize(a.kvs[p + i]) \in Nat
        BY <1>1, <1>2, <2>3
    <2>8. sa(p + i) - sa(p) = sb(q + i) - sb(q)
        <3> DEFINE x == sa(p + (i - 1))
                   y == sb(q + (i - 1))
                   s == EntrySize(a.kvs[p + i])
                   c == sa(p)
                   d == sb(q)
        <3>1. x \in Nat /\ y \in Nat /\ s \in Nat /\ c \in Nat /\ d \in Nat /\ x - c = y - d
            BY <2>6, <2>7
        <3>2. sa(p + i) = x + s /\ sb(q + i) = y + s
            BY <2>4, <2>5, Zenon
        <3>3. (x + s) - c = (y + s) - d
            <4> HIDE DEF x, y, s, c, d
            <4> QED  BY <3>1, SameStep
        <3> QED  BY <3>2, <3>3, Zenon
    <2> QED  BY <2>2, <2>8
<1>5. m \in 0 .. m
    BY <1>0
<1> QED  BY <1>4, <1>5 DEF sa, sb

\* Nodes that start with the same entries start with the same size.
LEMMA SamePrefix ==
    ASSUME NEW Child, NEW a, a.kvs \in Seq(EntryOf(Child)), NEW b, b.kvs \in Seq(EntryOf(Child)),
           NEW m \in Nat, m <= Len(a.kvs), m <= Len(b.kvs),
           \A i \in 1 .. m : a.kvs[i] = b.kvs[i]
    PROVE  nbytes(a, m) = nbytes(b, m)
<1>0. PICK z \in Nat : z = 0
    OBVIOUS
<1>1. Len(a.kvs) \in Nat /\ Len(b.kvs) \in Nat
    BY LenProperties
<1>2. ASSUME NEW i \in 1 .. m  PROVE EntrySize(a.kvs[z + i]) = EntrySize(b.kvs[z + i])
    <2>1. z + i = i /\ a.kvs[i] = b.kvs[i]
        BY <1>0
    <2> QED  BY <2>1, Zenon
<1>3. z + m <= Len(a.kvs) /\ z + m <= Len(b.kvs) /\ z + m = m
    BY <1>0
<1>4. nbytes(a, z + m) - nbytes(a, z) = nbytes(b, z + m) - nbytes(b, z)
    <2>1. SameSizes(Child, a, z, b, z, m)
        BY <1>2, <1>3 DEF SameSizes
    <2> QED  BY <2>1, SameSums
<1>5. nbytes(a, z) = 1 /\ nbytes(b, z) = 1 /\ nbytes(a, m) \in Nat /\ nbytes(b, m) \in Nat
    <2>1. nbytes(a, z) = Header /\ nbytes(b, z) = Header
        BY <1>0, SumNext
    <2>2. m \in 0 .. Len(a.kvs) /\ m \in 0 .. Len(b.kvs)
        BY <1>1
    <2>3. nbytes(a, m) \in Nat
        BY <2>2, SumNext
    <2>4. nbytes(b, m) \in Nat
        BY <2>2, SumNext
    <2> QED  BY <2>4, <2>1, <2>3, PageFacts
<1> DEFINE x == nbytes(a, m)
           y == nbytes(b, m)
<1>6. x - 1 = y - 1 /\ x \in Nat /\ y \in Nat
    BY <1>3, <1>4, <1>5, Zenon
<1> HIDE DEF x, y
<1>7. x = y
    BY <1>6
<1> QED  BY <1>7 DEF x, y

LEMMA Extremes ==
    ASSUME NEW lo \in Nat, NEW hi \in Nat, NEW S \in SUBSET (lo .. hi), S # {}
    PROVE  /\ Max(S) \in S /\ \A x \in S : x <= Max(S)
           /\ Min(S) \in S /\ \A x \in S : Min(S) <= x
<1>1. \E n \in S : \A x \in S : n <= x
    <2>1. S \in SUBSET Nat
        OBVIOUS
    <2> QED  BY <2>1, Least
<1>2. \E n \in S : \A x \in S : n >= x
    <2> DEFINE D == {hi - x : x \in S}
    <2>1. D \in SUBSET Nat /\ D # {}
        <3>1. \A x \in S : hi - x \in Nat
            OBVIOUS
        <3> QED  BY <3>1
    <2>2. PICK d \in D : \A e \in D : d <= e
        BY <2>1, Least
    <2>3. PICK n \in S : d = hi - n
        OBVIOUS
    <2>4. ASSUME NEW x \in S  PROVE n >= x
        <3>1. hi - x \in D
            OBVIOUS
        <3>2. hi - n <= hi - x
            BY <2>2, <2>3, <3>1
        <3>3. n \in Nat /\ x \in Nat
            OBVIOUS
        <3> QED  BY <3>2, <3>3
    <2> QED  BY <2>4
<1>3. Max(S) \in S /\ \A x \in S : Max(S) >= x
    BY <1>2 DEF Max
<1>4. Min(S) \in S /\ \A x \in S : Min(S) <= x
    BY <1>1 DEF Min
<1> DEFINE mx == Max(S)
<1>5. mx \in S /\ (\A x \in S : mx >= x) /\ S \subseteq Nat
    BY <1>3
<1> HIDE DEF mx
<1>6. \A x \in S : x <= mx
    BY <1>5
<1> QED  BY <1>3, <1>4, <1>6 DEF mx

-----------------------------------------------------------------------------
(* Splits *)

LEMMA NodeFacts ==
    ASSUME NEW Child, NEW node \in NodeOf(Child)
    PROVE  /\ node.leaf \in BOOLEAN /\ node.kvs \in Seq(EntryOf(Child)) /\ Len(node.kvs) \in Nat
           /\ \A i \in 1 .. Len(node.kvs) : node.kvs[i] \in EntryOf(Child)
<1>1. node.leaf \in BOOLEAN /\ node.kvs \in Seq(EntryOf(Child))
    BY DEF NodeOf
<1> QED  BY <1>1, LenProperties, ElementOfSeq

LEMMA NodeIs ==
    ASSUME NEW Child, NEW leaf \in BOOLEAN, NEW kvs \in Seq(EntryOf(Child))
    PROVE  Node(leaf, kvs) \in NodeOf(Child) /\ Node(leaf, kvs).kvs = kvs /\ Node(leaf, kvs).leaf = leaf
BY DEF Node, NodeOf

\* The first k entries of a node, and the rest.
LEMMA PartSizes ==
    ASSUME NEW Child, NEW node \in NodeOf(Child), NEW k \in 0 .. Len(node.kvs)
    PROVE  LET left == Node(node.leaf, SubSeq(node.kvs, 1, k))
               right == Node(node.leaf, SubSeq(node.kvs, k + 1, Len(node.kvs)))
           IN  /\ left \in NodeOf(Child) /\ Len(left.kvs) = k /\ Bytes(left) = nbytes(node, k)
               /\ right \in NodeOf(Child) /\ Len(right.kvs) = Len(node.kvs) - k
               /\ Bytes(right) = Bytes(node) - nbytes(node, k) + Header
<1> DEFINE kvs == node.kvs
           n == Len(kvs)
           lkvs == SubSeq(kvs, 1, k)
           rkvs == SubSeq(kvs, k + 1, n)
           left == Node(node.leaf, lkvs)
           right == Node(node.leaf, rkvs)
<1>1. node.leaf \in BOOLEAN /\ kvs \in Seq(EntryOf(Child)) /\ n \in Nat /\ \A i \in 1 .. n : kvs[i] \in EntryOf(Child)
    BY NodeFacts
<1>2. k \in 0 .. n /\ k \in Int /\ n \in Int /\ k + 1 \in Int /\ 1 \in Int
    BY <1>1
<1> HIDE DEF kvs, n
<1>3. lkvs \in Seq(EntryOf(Child)) /\ Len(lkvs) = k /\ \A i \in 1 .. k : lkvs[i] = kvs[i]
    <2>1. \A i \in 1 .. k : kvs[i] \in EntryOf(Child)
        BY <1>1, <1>2
    <2>2. /\ lkvs \in Seq(EntryOf(Child)) /\ Len(lkvs) = IF 1 <= k THEN k - 1 + 1 ELSE 0
          /\ \A i \in 1 .. k - 1 + 1 : lkvs[i] = kvs[1 + i - 1]
        BY <1>2, <2>1, SubSeqProperties
    <2> QED  BY <1>2, <2>2
<1>4. rkvs \in Seq(EntryOf(Child)) /\ Len(rkvs) = n - k /\ \A i \in 1 .. n - k : rkvs[i] = kvs[k + i]
    <2>1. \A i \in k + 1 .. n : kvs[i] \in EntryOf(Child)
        BY <1>1, <1>2
    <2>2. /\ rkvs \in Seq(EntryOf(Child)) /\ Len(rkvs) = IF k + 1 <= n THEN n - (k + 1) + 1 ELSE 0
          /\ \A i \in 1 .. n - (k + 1) + 1 : rkvs[i] = kvs[(k + 1) + i - 1]
        BY <1>2, <2>1, SubSeqProperties
    <2> QED  BY <1>2, <2>2
<1> HIDE DEF lkvs, rkvs
<1>5. /\ left \in NodeOf(Child) /\ left.kvs = lkvs /\ right \in NodeOf(Child) /\ right.kvs = rkvs
    BY <1>1, <1>3, <1>4, NodeIs
<1> HIDE DEF left, right
<1>6. nbytes(left, k) = nbytes(node, k)
    <2>1. /\ left.kvs \in Seq(EntryOf(Child)) /\ node.kvs \in Seq(EntryOf(Child)) /\ k \in Nat
          /\ k <= Len(left.kvs) /\ k <= Len(node.kvs) /\ \A i \in 1 .. k : left.kvs[i] = node.kvs[i]
        BY <1>1, <1>2, <1>3, <1>5 DEF kvs, n
    <2> QED  BY <2>1, SamePrefix
<1>7. Bytes(right) = nbytes(node, n) - nbytes(node, k) + Header
    <2>0. PICK z \in Nat : z = 0
        OBVIOUS
    <2> DEFINE m == n - k
    <2>1. m \in Nat /\ z + m = m /\ k + m = n /\ Len(right.kvs) = m
        BY <1>2, <1>4, <1>5, <2>0
    <2>2. SameSizes(Child, right, z, node, k, m)
        <3>1. ASSUME NEW i \in 1 .. m  PROVE EntrySize(right.kvs[z + i]) = EntrySize(node.kvs[k + i])
            <4>1. right.kvs[z + i] = node.kvs[k + i]
                BY <1>4, <1>5, <2>0 DEF kvs
            <4> QED  BY <4>1
        <3>2. /\ right.kvs \in Seq(EntryOf(Child)) /\ node.kvs \in Seq(EntryOf(Child))
              /\ z \in Nat /\ k \in Nat /\ m \in Nat /\ z + m <= Len(right.kvs) /\ k + m <= Len(node.kvs)
            BY <1>1, <1>2, <1>4, <1>5, <2>1 DEF kvs, n
        <3> QED  BY <3>1, <3>2 DEF SameSizes
    <2>3. nbytes(right, z + m) - nbytes(right, z) = nbytes(node, k + m) - nbytes(node, k)
        BY <2>2, SameSums
    <2>4. nbytes(right, z) = Header /\ nbytes(right, m) \in Nat
        <3>1. right.kvs \in Seq(EntryOf(Child)) /\ m \in 0 .. Len(right.kvs)
            BY <1>4, <1>5, <2>1
        <3> QED  BY <2>0, <3>1, SumNext
    <2>5. nbytes(node, n) \in Nat /\ nbytes(node, k) \in Nat
        <3>1. node.kvs \in Seq(EntryOf(Child)) /\ k \in 0 .. Len(node.kvs) /\ n \in 0 .. Len(node.kvs)
            BY <1>1, <1>2 DEF n, kvs
        <3> QED  BY <3>1, SumNext
    <2>6. Bytes(right) = nbytes(right, m)
        BY <2>1 DEF Bytes
    <2> DEFINE x == nbytes(right, m)
               y == nbytes(node, n)
               w == nbytes(node, k)
    <2>7. x - Header = y - w /\ x \in Nat /\ y \in Nat /\ w \in Nat
        BY <2>1, <2>3, <2>4, <2>5, Zenon
    <2> HIDE DEF x, y, w
    <2>8. x = y - w + Header
        BY <2>7, PageFacts
    <2> QED  BY <2>6, <2>8 DEF x, y, w
<1>8. Len(left.kvs) = k /\ Len(right.kvs) = n - k
    BY <1>3, <1>4, <1>5
<1>9. Bytes(left) = nbytes(node, k) /\ Bytes(right) = Bytes(node) - nbytes(node, k) + Header
    BY <1>6, <1>7, <1>8 DEF Bytes, n, kvs
<1> QED  BY <1>5, <1>8, <1>9 DEF left, right, lkvs, rkvs, kvs, n

LEMMA SplitOkIf ==
    ASSUME NEW Child, NEW node \in NodeOf(Child), Bytes(node) <= PageSize + Half
    PROVE  SplitOk(node)
<1> DEFINE kvs == node.kvs
           n == Len(kvs)
           s(i) == nbytes(node, i)
           B == Bytes(node)
           lefts == {i \in 0 .. n \div 2 : nbytes(node, i) <= PageSize}
           nleft == Max(lefts)
           rights == {i \in nleft .. n : Bytes(node) - nbytes(node, i) + Header <= PageSize}
           m == Min(rights)
<1> SUFFICES ASSUME ~ Fits(node)  PROVE SplitOk(node)
    BY DEF SplitOk
<1>1. /\ n \in Nat /\ s(0) = 1 /\ \A i \in 0 .. n : s(i) \in Nat
      /\ \A i \in 1 .. n : s(i - 1) \in Nat /\ s(i) <= s(i - 1) + Half /\ s(i) = s(i - 1) + EntrySize(kvs[i])
      /\ \A i \in 1 .. n : EntrySize(kvs[i]) \in 1 .. Half
    <2>1. n \in Nat /\ kvs \in Seq(EntryOf(Child))
        BY NodeFacts
    <2>2. /\ s(0) = Header /\ \A i \in 0 .. n : s(i) \in Nat
          /\ \A i \in 1 .. n : s(i) = s(i - 1) + EntrySize(kvs[i])
          /\ \A i \in 1 .. n : EntrySize(kvs[i]) \in 1 .. Half
        BY <2>1, SumNext
    <2> HIDE DEF s, n, kvs
    <2>3. ASSUME NEW i \in 1 .. n  PROVE s(i - 1) \in Nat /\ s(i) <= s(i - 1) + Half
        <3> DEFINE x == s(i - 1)
                   y == s(i)
                   e == EntrySize(kvs[i])
        <3>1. i - 1 \in 0 .. n
            BY <2>1
        <3>2. x \in Nat /\ e \in 1 .. Half /\ y = x + e
            BY <2>2, <3>1
        <3> HIDE DEF x, y, e
        <3>3. x \in Nat /\ y <= x + Half
            BY <3>2, PageFacts
        <3> QED  BY <3>3 DEF x, y
    <2> QED  BY <2>1, <2>2, <2>3, PageFacts
<1>2. B = s(n) /\ B <= PageSize + Half /\ B > PageSize /\ B \in Nat
    <2>1. B = s(n) /\ B <= PageSize + Half /\ n \in 0 .. n
        BY <1>1 DEF Bytes
    <2>2. B \in Nat
        BY <1>1, <2>1
    <2>3. ~(B <= PageSize)
        BY DEF Fits
    <2> HIDE DEF B
    <2> QED  BY <2>1, <2>2, <2>3, PageFacts
<1> HIDE DEF s, n, B, kvs
<1>3. n >= 2
    <2> SUFFICES ASSUME n \in {0, 1}  PROVE FALSE
        BY <1>1
    <2>1. CASE n = 0
        BY <1>1, <1>2, <2>1, PageFacts
    <2>2. CASE n = 1
        <3>1. s(1) <= s(1 - 1) + Half /\ 1 - 1 = 0
            BY <1>1, <2>2
        <3>2. s(1) <= 1 + Half
            BY <1>1, <3>1
        <3> QED  BY <1>2, <2>2, <3>2, PageFacts
    <2> QED  BY <2>1, <2>2
<1>4. s(1) \in Nat /\ s(1) <= PageSize
    <2>1. s(1) \in Nat /\ s(1) <= s(1 - 1) + Half /\ 1 - 1 = 0
        BY <1>1, <1>3
    <2>2. s(1) <= 1 + Half
        BY <1>1, <2>1
    <2> QED  BY <2>1, <2>2, PageFacts
<1>5. 1 \in 0 .. n \div 2 /\ n \div 2 \in Nat /\ n \div 2 <= n - 1 /\ 1 \in 1 .. n \div 2
    BY <1>1, <1>3
<1>6. nleft \in 1 .. n \div 2 /\ s(nleft) <= PageSize
    <2>1. 1 \in lefts
        BY <1>4, <1>5 DEF s
    <2>2. lefts \in SUBSET (0 .. n \div 2) /\ 0 \in Nat
        OBVIOUS
    <2> HIDE DEF lefts
    <2>3. nleft \in lefts /\ 1 <= nleft
        BY <1>5, <2>1, <2>2, Extremes
    <2>4. nleft \in 0 .. n \div 2 /\ s(nleft) <= PageSize
        BY <2>3 DEF lefts, s
    <2> QED  BY <1>5, <2>3, <2>4
<1> HIDE DEF nleft
<1>7. /\ m \in nleft .. n /\ B - s(m) + 1 <= PageSize /\ m <= n - 1
      /\ m > nleft => B - s(m - 1) + 1 > PageSize
    <2>1. n - 1 \in rights
        <3>1. n \in 1 .. n /\ n - 1 \in nleft .. n
            BY <1>1, <1>3, <1>5, <1>6
        <3> DEFINE x == s(n - 1)
        <3>2. x \in Nat /\ B <= x + Half
            BY <1>1, <1>2, <3>1
        <3> HIDE DEF x
        <3>3. B - x + Header <= PageSize
            BY <1>2, <3>2, PageFacts
        <3> QED  BY <3>1, <3>3 DEF x, s, B
    <2>2. rights \in SUBSET (nleft .. n) /\ nleft \in Nat
        BY <1>6
    <2> HIDE DEF rights
    <2>3. m \in rights /\ \A x \in rights : m <= x
        BY <1>1, <2>1, <2>2, Extremes
    <2>4. m \in nleft .. n /\ B - s(m) + 1 <= PageSize /\ m <= n - 1
        <3>1. m \in nleft .. n /\ B - s(m) + Header <= PageSize
            BY <2>3 DEF rights, s, B
        <3> QED  BY <2>1, <2>3, <3>1, PageFacts
    <2>5. ASSUME m > nleft  PROVE B - s(m - 1) + 1 > PageSize
        <3>1. m - 1 \in nleft .. n /\ m - 1 \notin rights
            <4> HIDE DEF m
            <4>1. m - 1 \in nleft .. n /\ ~(m <= m - 1)
                BY <1>1, <1>6, <2>2, <2>4, <2>5
            <4> QED  BY <2>3, <4>1
        <3>2. ~(B - s(m - 1) + Header <= PageSize)
            BY <3>1 DEF rights, s, B
        <3> DEFINE x == s(m - 1)
        <3>3. x \in Nat
            <4>1. m \in 1 .. n
                BY <1>6, <2>4, <2>5
            <4> QED  BY <1>1, <4>1
        <3>4. ~(B - x + Header <= PageSize)
            BY <3>2
        <3> HIDE DEF x
        <3>5. B - x + 1 > PageSize
            BY <1>2, <3>3, <3>4, PageFacts
        <3> QED  BY <3>5 DEF x
    <2> QED  BY <2>4, <2>5
<1> HIDE DEF rights, m
<1>8. m \in 1 .. n - 1 /\ m \in 0 .. n /\ m \in 1 .. n
    BY <1>1, <1>6, <1>7
<1>9. s(m) <= PageSize
    <2>1. CASE m = nleft
        BY <1>6, <2>1
    <2>2. CASE m # nleft
        <3>1. m > nleft
            BY <1>6, <1>7, <1>8, <2>2
        <3> DEFINE x == s(m - 1)
                   y == s(m)
        <3>2. B - x + 1 > PageSize /\ x \in Nat /\ y \in Nat /\ y <= x + Half
            BY <1>1, <1>7, <1>8, <3>1
        <3> HIDE DEF x, y
        <3>3. y <= PageSize
            BY <1>2, <3>2, PageFacts
        <3> QED  BY <3>3 DEF y
    <2> QED  BY <2>1, <2>2
<1>10. SplitAt(node) = m
    BY DEF SplitAt, m, rights, nleft, n, kvs
<1>11. Fits(node_split(node)[1]) /\ Fits(node_split(node)[2])
    <2>1. m \in 0 .. Len(node.kvs)
        BY <1>8 DEF n, kvs
    <2> DEFINE left == Node(node.leaf, SubSeq(node.kvs, 1, m))
               right == Node(node.leaf, SubSeq(node.kvs, m + 1, Len(node.kvs)))
    <2>2. Bytes(left) = nbytes(node, m) /\ Bytes(right) = Bytes(node) - nbytes(node, m) + Header
        BY <2>1, PartSizes
    <2>3. node_split(node) = <<left, right>>
        BY <1>10 DEF node_split
    <2> HIDE DEF left, right
    <2>4. Bytes(left) <= PageSize
        BY <1>9, <2>2 DEF s
    <2>5. Bytes(right) <= PageSize
        BY <1>7, <2>2, PageFacts DEF s, B
    <2> QED  BY <2>3, <2>4, <2>5 DEF Fits
<1>12. \A i \in 1 .. 2 : Fits(node_split(node)[i])
    BY <1>11
<1>13. \E i \in 1 .. n \div 2 : s(i) <= PageSize
    BY <1>4, <1>5
<1>14. SplitAt(node) \in 1 .. n - 1 /\ n >= 2
    BY <1>3, <1>8, <1>10
<1> QED  BY <1>12, <1>13, <1>14 DEF SplitOk, s, n, kvs

\* "A 3rd node is never needed": a node that is too big by at most one entry
\* passes every assertion of node_split, both halves fit a page, and together
\* they are the node. The left loop stops before it has no entry left; where
\* the right loop moves on, the left half has not passed half a page yet.
THEOREM SplitFits ==
    ASSUME NEW Child, NEW node \in NodeOf(Child), Bytes(node) <= PageSize + Half
    PROVE  /\ SplitOk(node)
           /\ ~ Fits(node) => node_merge(node_split(node)[1], node_split(node)[2]) = node
<1>1. SplitOk(node)
    BY SplitOkIf
<1>2. ASSUME ~ Fits(node)  PROVE node_merge(node_split(node)[1], node_split(node)[2]) = node
    <2> DEFINE kvs == node.kvs
               n == Len(kvs)
               m == SplitAt(node)
               left == Node(node.leaf, SubSeq(kvs, 1, m))
               right == Node(node.leaf, SubSeq(kvs, m + 1, n))
    <2>1. m \in 1 .. n - 1
        BY <1>1, <1>2 DEF SplitOk
    <2>2. kvs \in Seq(EntryOf(Child)) /\ n \in Nat /\ node = [leaf |-> node.leaf, kvs |-> kvs]
        BY NodeFacts DEF NodeOf
    <2>3. node_split(node) = <<left, right>>
        BY DEF node_split
    <2>4. left.leaf = node.leaf /\ left.kvs = SubSeq(kvs, 1, m) /\ right.kvs = SubSeq(kvs, m + 1, n)
        BY DEF Node
    <2> HIDE DEF left, right, kvs, n, m
    <2>5. SubSeq(kvs, 1, m) \o SubSeq(kvs, m + 1, n) = SubSeq(kvs, 1, n)
        <3>1. 1 \in 1 .. n + 1 /\ m \in 1 - 1 .. n /\ n \in m .. n
            BY <2>1, <2>2
        <3> QED  BY <2>2, <3>1, ConcatAdjacentSubSeq DEF n
    <2>6. SubSeq(kvs, 1, n) = kvs
        BY <2>2, SubSeqFull DEF n
    <2>7. node_merge(left, right) = [leaf |-> node.leaf, kvs |-> kvs]
        BY <2>4, <2>5, <2>6 DEF node_merge, Node
    <2> QED  BY <2>2, <2>3, <2>7
<1> QED  BY <1>1, <1>2

-----------------------------------------------------------------------------
(* New nodes *)

\* What a run of entries takes in a node.
Size(kvs) == Bytes(Leaf(kvs)) - Header

LEMMA SizeOf ==
    ASSUME NEW Child, NEW leaf \in BOOLEAN, NEW kvs \in Seq(EntryOf(Child))
    PROVE  Size(kvs) \in Nat /\ Bytes(Node(leaf, kvs)) = Size(kvs) + Header
<1> DEFINE n == Len(kvs)
           a == Node(leaf, kvs)
           b == Leaf(kvs)
<1>1. n \in Nat /\ a.kvs = kvs /\ b.kvs = kvs
    BY LenProperties DEF Node, Leaf
<1> HIDE DEF a, b, n
<1>2. nbytes(a, n) = nbytes(b, n)
    BY <1>1, SamePrefix DEF n
<1>3. nbytes(b, n) \in Nat /\ nbytes(b, n) >= 1
    <2>1. b.kvs \in Seq(EntryOf(Child)) /\ Len(b.kvs) = n
        BY <1>1 DEF n
    <2> DEFINE s(i) == nbytes(b, i)
               T == {i \in 0 .. n : ~(s(i) >= 1)}
    <2>2. /\ s(0) = Header /\ \A i \in 0 .. n : s(i) \in Nat
          /\ \A i \in 1 .. n : s(i) = s(i - 1) + EntrySize(b.kvs[i]) /\ EntrySize(b.kvs[i]) \in 1 .. Half
        BY <2>1, SumNext
    <2> HIDE DEF s
    <2>3. T = {}
        <3> SUFFICES ASSUME T # {}  PROVE FALSE
            OBVIOUS
        <3>1. 0 \notin T
            BY <2>2, PageFacts
        <3>2. PICK i \in T : i \in 1 .. n /\ i - 1 \in 0 .. n /\ i - 1 \notin T
            BY <1>1, <3>1, FirstFailure
        <3> DEFINE x == s(i - 1)
                   y == s(i)
                   e == EntrySize(b.kvs[i])
        <3>3. x >= 1 /\ x \in Nat /\ e \in 1 .. Half /\ y = x + e
            BY <2>2, <3>2
        <3>4. ~(y >= 1)
            BY <3>2
        <3> HIDE DEF x, y, e
        <3> QED  BY <3>3, <3>4, PageFacts
    <2>4. n \in 0 .. n
        BY <1>1
    <2>5. s(n) \in Nat /\ s(n) >= 1
        BY <2>2, <2>3, <2>4
    <2> QED  BY <2>5 DEF s
<1>4. Bytes(a) = nbytes(a, n) /\ Bytes(b) = nbytes(b, n)
    BY <1>1 DEF Bytes, n
<1>5. Size(kvs) = nbytes(b, n) - Header
    BY <1>4 DEF Size, b
<1>6. Size(kvs) \in Nat /\ nbytes(b, n) = Size(kvs) + Header
    BY <1>3, <1>5, PageFacts
<1> QED  BY <1>2, <1>4, <1>6 DEF a

LEMMA SizeOfNode ==
    ASSUME NEW Child, NEW node \in NodeOf(Child)
    PROVE  Size(node.kvs) \in Nat /\ Bytes(node) = Size(node.kvs) + Header
<1>1. node.leaf \in BOOLEAN /\ node.kvs \in Seq(EntryOf(Child))
    BY NodeFacts
<1>2. node = Node(node.leaf, node.kvs)
    BY DEF Node, NodeOf
<1> QED  BY <1>1, <1>2, SizeOf

LEMMA SizeOfOne ==
    ASSUME NEW Child, NEW e \in EntryOf(Child)
    PROVE  <<e>> \in Seq(EntryOf(Child)) /\ Size(<<e>>) = EntrySize(e) /\ EntrySize(e) \in 1 .. Half
<1> DEFINE b == Leaf(<<e>>)
<1>1. <<e>> \in Seq(EntryOf(Child)) /\ Len(<<e>>) = 1 /\ <<e>>[1] = e
    OBVIOUS
<1>2. b.kvs \in Seq(EntryOf(Child)) /\ Len(b.kvs) = 1 /\ b.kvs[1] = e
    <2>1. b.kvs = <<e>>
        BY DEF Node, Leaf
    <2> QED  BY <1>1, <2>1, Zenon
<1> HIDE DEF b
<1>3. nbytes(b, 0) = Header /\ nbytes(b, 1) = nbytes(b, 1 - 1) + EntrySize(b.kvs[1])
    <2>1. nbytes(b, 0) = Header /\ \A i \in 1 .. 1 : nbytes(b, i) = nbytes(b, i - 1) + EntrySize(b.kvs[i])
        BY <1>2, SumNext
    <2> QED  BY <2>1
<1>4. EntrySize(e) \in 1 .. Half
    BY EntryHalf
<1>5. Size(<<e>>) = nbytes(b, 1) - Header
    <2>1. Bytes(b) = nbytes(b, 1)
        BY <1>2 DEF Bytes
    <2> QED  BY <2>1 DEF Size, b
<1>6. nbytes(b, 1) = Header + EntrySize(e)
    BY <1>2, <1>3
<1> DEFINE x == EntrySize(e)
<1>7. Size(<<e>>) = (Header + x) - Header /\ x \in 1 .. Half
    BY <1>4, <1>5, <1>6
<1> HIDE DEF x
<1>8. Size(<<e>>) = x
    BY <1>7, PageFacts
<1> QED  BY <1>1, <1>4, <1>8 DEF x

LEMMA SizeOfTwo ==
    ASSUME NEW Child, NEW a \in Seq(EntryOf(Child)), NEW b \in Seq(EntryOf(Child))
    PROVE  a \o b \in Seq(EntryOf(Child)) /\ Size(a \o b) = Size(a) + Size(b)
<1> DEFINE c == a \o b
           k == Len(a)
           n == Len(c)
           node == Leaf(c)
<1>1. c \in Seq(EntryOf(Child)) /\ n = k + Len(b) /\ k \in Nat /\ Len(b) \in Nat
    BY ConcatProperties, LenProperties
<1>2. SubSeq(c, 1, k) = a /\ SubSeq(c, k + 1, n) = b
    <2>1. \A i \in 1 .. n : c[i] = IF i <= k THEN a[i] ELSE b[i - k]
        BY <1>1, ConcatProperties
    <2>2. \A i \in 1 .. n : c[i] \in EntryOf(Child)
        BY <1>1, ElementOfSeq
    <2> HIDE DEF c, n
    <2>3. SubSeq(c, 1, k) = a
        <3> DEFINE d == SubSeq(c, 1, k)
        <3>1. (\A i \in 1 .. k : c[i] \in EntryOf(Child)) /\ 1 \in Int /\ k \in Int
            BY <1>1, <2>2
        <3>2. /\ d \in Seq(EntryOf(Child)) /\ Len(d) = IF 1 <= k THEN k - 1 + 1 ELSE 0
              /\ \A i \in 1 .. k - 1 + 1 : d[i] = c[1 + i - 1]
            BY <3>1, SubSeqProperties
        <3> HIDE DEF d
        <3>3. Len(d) = k /\ \A i \in 1 .. Len(d) : d[i] = a[i]
            <4> HIDE DEF k
            <4>1. Len(d) = k
                BY <1>1, <3>2
            <4>2. ASSUME NEW i \in 1 .. k  PROVE d[i] = a[i]
                <5>1. i \in 1 .. k - 1 + 1 /\ 1 + i - 1 = i /\ i \in 1 .. n /\ i <= k
                    BY <1>1, <4>2
                <5>2. d[i] = c[i]
                    BY <3>2, <5>1
                <5> QED  BY <2>1, <5>1, <5>2
            <4> QED  BY <4>1, <4>2
        <3>4. d = a
            BY <3>2, <3>3, SeqEqual
        <3> QED  BY <3>4 DEF d
    <2>4. SubSeq(c, k + 1, n) = b
        <3> DEFINE d == SubSeq(c, k + 1, n)
        <3>1. (\A i \in k + 1 .. n : c[i] \in EntryOf(Child)) /\ k + 1 \in Int /\ n \in Int
            BY <1>1, <2>2
        <3>2. /\ d \in Seq(EntryOf(Child)) /\ Len(d) = IF k + 1 <= n THEN n - (k + 1) + 1 ELSE 0
              /\ \A i \in 1 .. n - (k + 1) + 1 : d[i] = c[(k + 1) + i - 1]
            BY <3>1, SubSeqProperties
        <3> HIDE DEF d, k
        <3>3. Len(d) = Len(b) /\ \A i \in 1 .. Len(d) : d[i] = b[i]
            <4>1. Len(d) = Len(b)
                BY <1>1, <3>2
            <4>2. ASSUME NEW i \in 1 .. Len(b)  PROVE d[i] = b[i]
                <5>1. i \in 1 .. n - (k + 1) + 1 /\ (k + 1) + i - 1 = k + i /\ k + i \in 1 .. n /\ ~(k + i <= k) /\ (k + i) - k = i
                    BY <1>1, <4>2
                <5>2. d[i] = c[k + i]
                    BY <3>2, <5>1
                <5> QED  BY <2>1, <5>1, <5>2
            <4> QED  BY <4>1, <4>2
        <3>4. d = b
            BY <3>2, <3>3, SeqEqual
        <3> QED  BY <3>4 DEF d
    <2> QED  BY <2>3, <2>4
<1>3. node \in NodeOf(Child) /\ node.kvs = c /\ node.leaf = TRUE /\ k \in 0 .. Len(node.kvs)
    <2>1. TRUE \in BOOLEAN /\ node = Node(TRUE, c)
        BY DEF Leaf
    <2>2. node \in NodeOf(Child) /\ node.kvs = c /\ node.leaf = TRUE
        BY <1>1, <2>1, NodeIs
    <2>3. k \in 0 .. n
        <3> HIDE DEF k, n
        <3> QED  BY <1>1
    <2> HIDE DEF node
    <2> QED  BY <2>2, <2>3
<1> HIDE DEF node, c, k, n
<1>4. Bytes(Leaf(a)) = nbytes(node, k) /\ Bytes(Leaf(b)) = Bytes(node) - nbytes(node, k) + Header
    BY <1>2, <1>3, PartSizes DEF Leaf, n
<1>5. nbytes(node, k) \in Nat /\ Bytes(node) \in Nat
    <2>1. node.kvs \in Seq(EntryOf(Child)) /\ Len(node.kvs) \in 0 .. Len(node.kvs)
        BY <1>1, <1>3 DEF n
    <2> QED  BY <1>3, <2>1, SumNext DEF Bytes
<1>6. Size(c) = Bytes(node) - Header /\ Size(a) = nbytes(node, k) - Header /\ Size(b) = Bytes(node) - nbytes(node, k)
    BY <1>4, <1>5, PageFacts DEF Size, node
<1>7. Size(c) = Size(a) + Size(b)
    BY <1>5, <1>6, PageFacts
<1> QED  BY <1>1, <1>7 DEF c

LEMMA SizeOfPair ==
    ASSUME NEW Child, NEW x \in EntryOf(Child), NEW y \in EntryOf(Child)
    PROVE  <<x, y>> \in Seq(EntryOf(Child)) /\ Size(<<x, y>>) = EntrySize(x) + EntrySize(y)
<1> DEFINE a == <<x>>
           b == <<y>>
           ab == <<x, y>>
           c == a \o b
<1>1. Len(a) = 1 /\ Len(b) = 1 /\ a[1] = x /\ b[1] = y /\ Len(ab) = 2 /\ ab[1] = x /\ ab[2] = y
    OBVIOUS
<1>2. /\ a \in Seq(EntryOf(Child)) /\ Size(a) = EntrySize(x)
      /\ b \in Seq(EntryOf(Child)) /\ Size(b) = EntrySize(y)
      /\ ab \in Seq(EntryOf(Child))
    BY SizeOfOne
<1> HIDE DEF a, b, ab
<1>3. /\ c \in Seq(EntryOf(Child)) /\ Len(c) = Len(a) + Len(b) /\ Size(c) = Size(a) + Size(b)
      /\ \A i \in 1 .. Len(a) + Len(b) : c[i] = IF i <= Len(a) THEN a[i] ELSE b[i - Len(a)]
    BY <1>2, ConcatProperties, SizeOfTwo
<1> HIDE DEF c
<1>4. Len(c) = 2 /\ c[1] = x /\ c[2] = y
    BY <1>1, <1>3
<1>5. Len(c) = Len(ab) /\ \A i \in 1 .. Len(c) : c[i] = ab[i]
    BY <1>1, <1>4
<1>6. c = ab
    BY <1>2, <1>3, <1>5, SeqEqual
<1> QED  BY <1>2, <1>3, <1>6 DEF ab

LEMMA SizeOfNone ==
    ASSUME NEW Child
    PROVE  <<>> \in Seq(EntryOf(Child)) /\ Size(<<>>) = 0
<1>1. <<>> \in Seq(EntryOf(Child)) /\ <<>> \o <<>> = <<>>
    BY EmptySeq, ConcatEmptySeq
<1>2. Size(<<>>) \in Nat
    BY <1>1, SizeOf
<1>3. Size(<<>>) = Size(<<>>) + Size(<<>>)
    BY <1>1, SizeOfTwo
<1> QED  BY <1>1, <1>2, <1>3

\* The entries from m to n.
LEMMA Part ==
    ASSUME NEW Child, NEW kvs \in Seq(EntryOf(Child)), NEW m \in 1 .. Len(kvs) + 1, NEW n \in m - 1 .. Len(kvs)
    PROVE  SubSeq(kvs, m, n) \in Seq(EntryOf(Child))
<1>1. Len(kvs) \in Nat /\ \A i \in 1 .. Len(kvs) : kvs[i] \in EntryOf(Child)
    BY LenProperties, ElementOfSeq
<1>2. (\A i \in m .. n : kvs[i] \in EntryOf(Child)) /\ m \in Int /\ n \in Int
    BY <1>1
<1> QED  BY <1>2, SubSeqProperties

\* Other entries instead of the cnt entries from idx on.
Replaced(leaf, kvs, idx, cnt, mid) ==
    Node(leaf, SubSeq(kvs, 1, idx - 1) \o mid \o SubSeq(kvs, idx + cnt, Len(kvs)))

CanReplace(Child, node, leaf, idx, cnt, mid) ==
    /\ node \in NodeOf(Child) /\ leaf \in BOOLEAN /\ idx \in 1 .. Len(node.kvs) + 1
    /\ cnt \in 0 .. Len(node.kvs) + 1 - idx /\ mid \in Seq(EntryOf(Child))

Old(kvs, idx, cnt) == SubSeq(kvs, idx, idx + cnt - 1)

Resized(Child, node, leaf, idx, cnt, mid) ==
    LET new == Replaced(leaf, node.kvs, idx, cnt, mid)
    IN  /\ new \in NodeOf(Child)
        /\ Bytes(new) = Bytes(node) - Size(Old(node.kvs, idx, cnt)) + Size(mid)

LEMMA ReplacedSize ==
    ASSUME NEW Child, NEW node, NEW leaf, NEW idx, NEW cnt, NEW mid, CanReplace(Child, node, leaf, idx, cnt, mid)
    PROVE  Resized(Child, node, leaf, idx, cnt, mid)
<1> DEFINE kvs == node.kvs
           n == Len(kvs)
           pre == SubSeq(kvs, 1, idx - 1)
           old == SubSeq(kvs, idx, idx + cnt - 1)
           post == SubSeq(kvs, idx + cnt, n)
           S == Seq(EntryOf(Child))
           new == Replaced(leaf, kvs, idx, cnt, mid)
<1>0. node \in NodeOf(Child) /\ leaf \in BOOLEAN /\ mid \in S
    BY DEF CanReplace
<1>1. kvs \in S /\ n \in Nat /\ idx \in 1 .. n + 1 /\ cnt \in 0 .. n + 1 - idx
    BY <1>0, NodeFacts DEF CanReplace
<1> HIDE DEF kvs, n
<1>2. /\ 1 \in 1 .. n + 1 /\ idx - 1 \in 1 - 1 .. n /\ idx \in 1 .. n + 1 /\ idx + cnt - 1 \in idx - 1 .. n
      /\ idx + cnt \in 1 .. n + 1 /\ n \in (idx + cnt) - 1 .. n /\ n \in idx - 1 .. n
      /\ (idx - 1) + 1 = idx /\ (idx + cnt - 1) + 1 = idx + cnt /\ n \in idx + cnt - 1 .. n
    BY <1>1
<1>3. pre \in S /\ old \in S /\ post \in S
    BY <1>1, <1>2, Part DEF n
<1>4. pre \o SubSeq(kvs, idx, n) = kvs
    <2>1. SubSeq(kvs, 1, idx - 1) \o SubSeq(kvs, (idx - 1) + 1, n) = SubSeq(kvs, 1, n)
        BY <1>1, <1>2, ConcatAdjacentSubSeq DEF n
    <2>2. SubSeq(kvs, 1, n) = kvs
        BY <1>1, SubSeqFull DEF n
    <2> QED  BY <1>2, <2>1, <2>2
<1>5. old \o post = SubSeq(kvs, idx, n)
    <2>1. SubSeq(kvs, idx, idx + cnt - 1) \o SubSeq(kvs, (idx + cnt - 1) + 1, n) = SubSeq(kvs, idx, n)
        BY <1>1, <1>2, ConcatAdjacentSubSeq DEF n
    <2> QED  BY <1>2, <2>1
<1>6. new = Node(leaf, pre \o mid \o post)
    BY DEF Replaced, n
<1> HIDE DEF pre, old, post, new
<1>7. kvs = pre \o (old \o post)
    BY <1>4, <1>5
<1>8. old \o post \in S /\ pre \o mid \in S /\ (pre \o mid) \o post \in S
    BY <1>0, <1>3, SizeOfTwo
<1>9. Size(kvs) = Size(pre) + (Size(old) + Size(post))
    <2>1. Size(old \o post) = Size(old) + Size(post)
        BY <1>0, <1>3, SizeOfTwo
    <2>2. Size(kvs) = Size(pre) + Size(old \o post)
        BY <1>3, <1>7, <1>8, SizeOfTwo
    <2> QED  BY <2>1, <2>2
<1>10. Size((pre \o mid) \o post) = (Size(pre) + Size(mid)) + Size(post)
    <2>1. Size(pre \o mid) = Size(pre) + Size(mid)
        BY <1>0, <1>3, SizeOfTwo
    <2>2. Size((pre \o mid) \o post) = Size(pre \o mid) + Size(post)
        BY <1>3, <1>8, SizeOfTwo
    <2> QED  BY <2>1, <2>2
<1>11. Size(pre) \in Nat /\ Size(old) \in Nat /\ Size(post) \in Nat /\ Size(mid) \in Nat
    <2>1. \A s \in S : Size(s) \in Nat
        BY SizeOf
    <2> QED  BY <1>0, <1>3, <2>1
<1>12. new \in NodeOf(Child) /\ Bytes(new) = Size((pre \o mid) \o post) + Header
    BY <1>0, <1>6, <1>8, NodeIs, SizeOf
<1>13. Bytes(node) = Size(kvs) + Header
    BY <1>0, SizeOfNode DEF kvs
<1>14. Bytes(new) = Bytes(node) - Size(old) + Size(mid)
    BY <1>9, <1>10, <1>11, <1>12, <1>13, PageFacts
<1> QED  BY <1>12, <1>14 DEF new, old, kvs, Old, Resized

LEMMA OneOld ==
    ASSUME NEW Child, NEW kvs \in Seq(EntryOf(Child)), NEW idx \in 1 .. Len(kvs)
    PROVE  Old(kvs, idx, 1) = <<kvs[idx]>> /\ kvs[idx] \in EntryOf(Child)
<1>1. Len(kvs) \in Nat /\ kvs[idx] \in EntryOf(Child)
    BY LenProperties, ElementOfSeq
<1>2. idx \in idx .. Len(kvs) /\ idx + 1 \in Int /\ idx \in Int /\ idx < idx + 1 /\ idx + 1 - 1 = idx
    BY <1>1
<1>3. SubSeq(kvs, idx, idx) = <<kvs[idx]>> \o SubSeq(kvs, idx + 1, idx)
    BY <1>2, SubSeqRecursiveFirst
<1>4. SubSeq(kvs, idx + 1, idx) = <<>>
    BY <1>2, SubSeqEmpty
<1>5. <<kvs[idx]>> \in Seq(EntryOf(Child))
    BY <1>1, SizeOfOne
<1>6. <<kvs[idx]>> \o <<>> = <<kvs[idx]>>
    BY <1>5, ConcatEmptySeq
<1> QED  BY <1>1, <1>2, <1>3, <1>4, <1>6 DEF Old

LEMMA NoOld ==
    ASSUME NEW kvs, NEW idx \in Int
    PROVE  Old(kvs, idx, 0) = <<>>
<1>1. idx + 0 - 1 \in Int /\ idx + 0 - 1 < idx
    OBVIOUS
<1> QED  BY <1>1, SubSeqEmpty DEF Old

LEMMA TwoOld ==
    ASSUME NEW Child, NEW kvs \in Seq(EntryOf(Child)), NEW idx \in 1 .. Len(kvs) - 1
    PROVE  Old(kvs, idx, 2) = <<kvs[idx]>> \o <<kvs[idx + 1]>>
<1>1. Len(kvs) \in Nat
    BY LenProperties
<1>2. idx \in 1 .. Len(kvs) /\ idx + 1 \in idx .. Len(kvs) /\ idx + 1 \in 1 .. Len(kvs) /\ idx + 2 - 1 = idx + 1 /\ (idx + 1) + 1 - 1 = idx + 1
    BY <1>1
<1>3. SubSeq(kvs, idx, idx + 1) = <<kvs[idx]>> \o SubSeq(kvs, idx + 1, idx + 1)
    BY <1>2, SubSeqRecursiveFirst
<1>4. Old(kvs, idx + 1, 1) = <<kvs[idx + 1]>>
    BY <1>2, OneOld
<1> QED  BY <1>2, <1>3, <1>4 DEF Old

Links(children) == [i \in DOMAIN children |-> Link(children[i])]

\* The nodes that leaf_insert, leaf_update, leaf_delete and the two functions
\* for links build.
LEMMA AreReplaced ==
    ASSUME NEW Child, NEW node \in NodeOf(Child)
    PROVE  /\ \A idx \in 1 .. Len(node.kvs) + 1, e \in EntryOf(Child) :
                leaf_insert(node, idx, e) = Replaced(TRUE, node.kvs, idx, 0, <<e>>)
           /\ \A idx \in 1 .. Len(node.kvs), e \in EntryOf(Child) :
                leaf_update(node, idx, e) = Replaced(TRUE, node.kvs, idx, 1, <<e>>)
           /\ \A idx \in 1 .. Len(node.kvs) :
                leaf_delete(node, idx) = Replaced(TRUE, node.kvs, idx, 1, <<>>)
           /\ \A idx, n, children :
                replace_links(node, idx, n, children) = Replaced(FALSE, node.kvs, idx, n, Links(children))
<1> DEFINE kvs == node.kvs
           l == Len(kvs)
           S == Seq(EntryOf(Child))
<1>1. kvs \in S /\ l \in Nat /\ \A i \in 1 .. l : kvs[i] \in EntryOf(Child)
    BY NodeFacts
<1>2. ASSUME NEW idx \in 1 .. l + 1, NEW e \in EntryOf(Child)
      PROVE  leaf_insert(node, idx, e) = Replaced(TRUE, kvs, idx, 0, <<e>>)
    <2>1. idx + 0 = idx
        BY <1>1
    <2> QED  BY <2>1 DEF leaf_insert, InsertAt, Replaced, Leaf
<1>3. ASSUME NEW idx \in 1 .. l, NEW e \in EntryOf(Child)
      PROVE  leaf_update(node, idx, e) = Replaced(TRUE, kvs, idx, 1, <<e>>)
    <2> DEFINE pre == SubSeq(kvs, 1, idx - 1)
               post == SubSeq(kvs, idx + 1, l)
               a == [kvs EXCEPT ![idx] = e]
               b == (pre \o <<e>>) \o post
    <2>0. idx \in 1 .. l /\ idx \in Int /\ idx - 1 \in Int /\ idx + 1 \in Int /\ l \in Int /\ 1 \in Int
        BY <1>1
    <2>1. a \in S /\ Len(a) = l /\ \A j \in 1 .. l : a[j] = IF j = idx THEN e ELSE kvs[j]
        BY <1>1, ExceptSeq
    <2> HIDE DEF kvs, l
    <2>2. pre \in S /\ Len(pre) = idx - 1 /\ \A i \in 1 .. idx - 1 : pre[i] = kvs[i]
        <3>1. \A i \in 1 .. idx - 1 : kvs[i] \in EntryOf(Child)
            BY <1>1, <2>0
        <3>2. /\ pre \in S /\ Len(pre) = IF 1 <= idx - 1 THEN (idx - 1) - 1 + 1 ELSE 0
              /\ \A i \in 1 .. (idx - 1) - 1 + 1 : pre[i] = kvs[1 + i - 1]
            BY <2>0, <3>1, SubSeqProperties
        <3> HIDE DEF pre
        <3> QED  BY <2>0, <3>2
    <2>3. post \in S /\ Len(post) = l - idx /\ \A i \in 1 .. l - idx : post[i] = kvs[idx + i]
        <3>1. \A i \in idx + 1 .. l : kvs[i] \in EntryOf(Child)
            BY <1>1, <2>0
        <3>2. /\ post \in S /\ Len(post) = IF idx + 1 <= l THEN l - (idx + 1) + 1 ELSE 0
              /\ \A i \in 1 .. l - (idx + 1) + 1 : post[i] = kvs[(idx + 1) + i - 1]
            BY <2>0, <3>1, SubSeqProperties
        <3> HIDE DEF post
        <3> QED  BY <2>0, <3>2
    <2> HIDE DEF pre, post
    <2> DEFINE c == pre \o <<e>>
    <2>4. c \in S /\ Len(c) = idx /\ \A i \in 1 .. idx : c[i] = IF i = idx THEN e ELSE kvs[i]
        <3> DEFINE o == <<e>>
        <3>1. o \in S /\ Len(o) = 1 /\ o[1] = e
            OBVIOUS
        <3> HIDE DEF o
        <3>2. /\ pre \o o \in S /\ Len(pre \o o) = (idx - 1) + 1
              /\ \A i \in 1 .. (idx - 1) + 1 : (pre \o o)[i] = IF i <= idx - 1 THEN pre[i] ELSE o[i - (idx - 1)]
            <4>1. /\ pre \o o \in S /\ Len(pre \o o) = Len(pre) + Len(o)
                  /\ \A i \in 1 .. Len(pre) + Len(o) : (pre \o o)[i] = IF i <= Len(pre) THEN pre[i] ELSE o[i - Len(pre)]
                BY <2>2, <3>1, ConcatProperties
            <4> QED  BY <2>2, <3>1, <4>1, Zenon
        <3> DEFINE po == pre \o o
        <3>3. /\ po \in S /\ Len(po) = (idx - 1) + 1
              /\ \A i \in 1 .. (idx - 1) + 1 : po[i] = IF i <= idx - 1 THEN pre[i] ELSE o[i - (idx - 1)]
            BY <3>2
        <3> HIDE DEF po
        <3>4. po \in S /\ Len(po) = idx /\ \A i \in 1 .. idx : po[i] = IF i = idx THEN e ELSE kvs[i]
            <4>1. ASSUME NEW i \in 1 .. idx  PROVE po[i] = IF i = idx THEN e ELSE kvs[i]
                <5>1. CASE i = idx
                    BY <2>0, <3>1, <3>3, <5>1
                <5>2. CASE i # idx
                    <6>1. i \in 1 .. idx - 1 /\ i \in 1 .. (idx - 1) + 1 /\ i <= idx - 1
                        BY <2>0, <5>2
                    <6> QED  BY <2>2, <3>3, <5>2, <6>1
                <5> QED  BY <5>1, <5>2
            <4> QED  BY <2>0, <3>3, <4>1
        <3> QED  BY <3>4 DEF po, o
    <2> HIDE DEF c
    <2>5. b \in S /\ Len(b) = l /\ \A i \in 1 .. l : b[i] = IF i = idx THEN e ELSE kvs[i]
        <3>1. /\ b \in S /\ Len(b) = idx + (l - idx)
              /\ \A i \in 1 .. idx + (l - idx) : b[i] = IF i <= idx THEN c[i] ELSE post[i - idx]
            <4>1. /\ c \o post \in S /\ Len(c \o post) = Len(c) + Len(post)
                  /\ \A i \in 1 .. Len(c) + Len(post) : (c \o post)[i] = IF i <= Len(c) THEN c[i] ELSE post[i - Len(c)]
                BY <2>3, <2>4, ConcatProperties
            <4>2. b = c \o post
                BY DEF c
            <4> HIDE DEF b
            <4> QED  BY <2>3, <2>4, <4>1, <4>2
        <3> HIDE DEF b
        <3>2. idx + (l - idx) = l
            BY <2>0
        <3>3. ASSUME NEW i \in 1 .. l  PROVE b[i] = IF i = idx THEN e ELSE kvs[i]
            <4>1. CASE i <= idx
                <5>1. i \in 1 .. idx
                    BY <2>0, <4>1
                <5> QED  BY <2>4, <3>1, <3>2, <4>1, <5>1
            <4>2. CASE ~(i <= idx)
                <5>1. i - idx \in 1 .. l - idx /\ idx + (i - idx) = i /\ i # idx
                    BY <2>0, <4>2
                <5> QED  BY <2>3, <3>1, <3>2, <4>2, <5>1
            <4> QED  BY <4>1, <4>2
        <3> QED  BY <3>1, <3>2, <3>3
    <2>6. a = b
        <3> HIDE DEF a, b
        <3>1. Len(a) = Len(b) /\ \A i \in 1 .. Len(a) : a[i] = b[i]
            BY <2>1, <2>5
        <3> QED  BY <2>1, <2>5, <3>1, SeqEqual
    <2>7. leaf_update(node, idx, e) = Node(TRUE, a) /\ Replaced(TRUE, kvs, idx, 1, <<e>>) = Node(TRUE, b)
        BY DEF leaf_update, ReplaceAt, Replaced, Leaf, pre, post, kvs, l
    <2> QED  BY <2>6, <2>7
<1>4. ASSUME NEW idx \in 1 .. l
      PROVE  leaf_delete(node, idx) = Replaced(TRUE, kvs, idx, 1, <<>>)
    <2>1. 1 \in 1 .. l + 1 /\ idx - 1 \in 1 - 1 .. l
        BY <1>1
    <2>2. SubSeq(kvs, 1, idx - 1) \in S
        BY <1>1, <2>1, Part
    <2>3. SubSeq(kvs, 1, idx - 1) \o <<>> = SubSeq(kvs, 1, idx - 1)
        BY <2>2, ConcatEmptySeq
    <2> QED  BY <2>3 DEF leaf_delete, RemoveAt, Replaced, Leaf
<1>5. \A idx, n, children : replace_links(node, idx, n, children) = Replaced(FALSE, kvs, idx, n, Links(children))
    BY DEF replace_links, Replaced, Links, Inner
<1> QED  BY <1>2, <1>3, <1>4, <1>5

-----------------------------------------------------------------------------
(* What insertions and removals make of a node that fits its page *)

FirstKey(child) == child.kvs[1].key
KeyBytes(key) == IF key = 0 THEN 0 ELSE KeySize[key]

\* The children a link can be made to.
Linkable(Child) == {c \in Child : FirstKey(c) \in Keys \cup {0}}

LEMMA LinkFacts ==
    ASSUME NEW Child, NEW c \in Linkable(Child)
    PROVE  /\ Link(c) \in EntryOf(Child) /\ KeyBytes(FirstKey(c)) \in Nat
           /\ EntrySize(Link(c)) = 1 + KeyBytes(FirstKey(c))
<1> DEFINE k == FirstKey(c)
<1>1. k \in Keys \cup {0} /\ c \in Child
    BY DEF Linkable
<1>2. Link(c) = [key |-> k, val |-> 0, child |-> c]
    BY DEF Link, Entry, FirstKey
<1> HIDE DEF k
<1>3. Link(c) \in EntryOf(Child) /\ Link(c).key = k /\ Link(c).val = 0
    BY <1>1, <1>2 DEF EntryOf
<1>4. KeyBytes(k) \in Nat
    BY <1>1, EntryAssumption DEF KeyBytes
<1>5. EntrySize(Link(c)) = 1 + KeyBytes(k) + 0
    BY <1>3, PageFacts DEF EntrySize, KeyBytes
<1> QED  BY <1>3, <1>4, <1>5 DEF k

LEMMA KeyPart ==
    ASSUME NEW Child, NEW e \in EntryOf(Child)
    PROVE  KeyBytes(e.key) \in Nat /\ EntrySize(e) \in Nat /\ 1 + KeyBytes(e.key) <= EntrySize(e)
<1> DEFINE k == e.key
           v == e.val
<1>1. k \in Keys \cup {0} /\ v \in Vals \cup {0}
    BY DEF EntryOf
<1>2. EntrySize(e) = 1 + KeyBytes(k) + v
    BY PageFacts DEF EntrySize, KeyBytes
<1> HIDE DEF k, v
<1>3. KeyBytes(k) \in Nat /\ v \in Nat
    BY <1>1, EntryAssumption DEF KeyBytes
<1> QED  BY <1>2, <1>3 DEF k

LEMMA LinkSizes ==
    ASSUME NEW Child, NEW c \in Linkable(Child), NEW d \in Linkable(Child)
    PROVE  /\ Links(<<c>>) \in Seq(EntryOf(Child)) /\ Size(Links(<<c>>)) = EntrySize(Link(c))
           /\ Links(<<c, d>>) \in Seq(EntryOf(Child)) /\ Size(Links(<<c, d>>)) = EntrySize(Link(c)) + EntrySize(Link(d))
<1>1. Link(c) \in EntryOf(Child) /\ Link(d) \in EntryOf(Child)
    BY LinkFacts
<1> DEFINE x == Link(c)
           y == Link(d)
<1>2. Links(<<c>>) = <<x>>
    <2> HIDE DEF x, y
    <2>1. Links(<<c>>) = [i \in 1 .. 1 |-> x]
        BY DEF Links, x
    <2> QED  BY <2>1
<1>3. Links(<<c, d>>) = <<x, y>>
    <2>1. Links(<<c, d>>) = [i \in 1 .. 2 |-> Link(<<c, d>>[i])]
        BY DEF Links
    <2>2. Link(<<c, d>>[1]) = x /\ Link(<<c, d>>[2]) = y
        OBVIOUS
    <2> HIDE DEF x, y
    <2> QED  BY <2>1, <2>2
<1> HIDE DEF x, y
<1>4. Links(<<c>>) \in Seq(EntryOf(Child)) /\ Size(Links(<<c>>)) = EntrySize(x)
    BY <1>1, <1>2, SizeOfOne DEF x
<1>5. Links(<<c, d>>) \in Seq(EntryOf(Child)) /\ Size(Links(<<c, d>>)) = EntrySize(x) + EntrySize(y)
    BY <1>1, <1>3, SizeOfPair DEF x, y
<1> QED  BY <1>4, <1>5 DEF x, y

\* One node is left, or two halves of it.
Splits(Child, new) ==
    /\ new \in NodeOf(Child) /\ Bytes(new) <= 2 * PageSize /\ SplitOk(new)
    /\ ~ Fits(new) => node_merge(node_split(new)[1], node_split(new)[2]) = new

LEMMA SplitsIf ==
    ASSUME NEW Child, NEW new \in NodeOf(Child), Bytes(new) <= PageSize + Half
    PROVE  Splits(Child, new)
<1>1. Bytes(new) \in Nat
    BY SizeOfNode, PageFacts
<1>2. Bytes(new) <= 2 * PageSize
    BY <1>1, PageFacts
<1> QED  BY <1>2, SplitFits DEF Splits

\* Whatever insert makes of a node that fits its page, a leaf with one more
\* entry or another value, or an inner node with the links to the one or two
\* nodes that its child became, fits the two pages it is built in, and
\* node_split_if_needed leaves it or splits it in two that fit.
THEOREM InsertSplits ==
    ASSUME NEW Child, NEW node \in NodeOf(Child), Fits(node), NEW idx \in 1 .. Len(node.kvs)
    PROVE  /\ \A e \in EntryOf(Child) :
                Splits(Child, leaf_insert(node, idx + 1, e)) /\ Splits(Child, leaf_update(node, idx, e))
           /\ \A c, d \in Linkable(Child) :
                FirstKey(c) = node.kvs[idx].key =>
                    /\ Fits(node_replace_child_n(node, idx, <<c>>))
                    /\ Splits(Child, node_replace_child_n(node, idx, <<c, d>>))
<1> DEFINE kvs == node.kvs
           n == Len(kvs)
           S == Seq(EntryOf(Child))
           B == Bytes(node)
           old == Old(kvs, idx, 1)
           o == EntrySize(kvs[idx])
<1>1. kvs \in S /\ n \in Nat /\ idx \in 1 .. n /\ kvs[idx] \in EntryOf(Child)
    BY NodeFacts
<1>2. B \in Nat /\ B <= PageSize
    <2>1. B \in Nat
        BY SizeOfNode, PageFacts
    <2> QED  BY <2>1 DEF Fits
<1>3. Size(old) = o /\ o \in 1 .. Half
    BY <1>1, OneOld, SizeOfOne
<1>4. /\ idx + 1 \in 1 .. n + 1 /\ idx \in 1 .. n + 1 /\ 0 \in 0 .. n + 1 - (idx + 1) /\ 1 \in 0 .. n + 1 - idx
      /\ idx + 1 \in Int /\ idx + 1 \in 1 .. Len(node.kvs) + 1
    <2> HIDE DEF n
    <2>1. idx + 1 \in 1 .. n + 1 /\ idx \in 1 .. n + 1 /\ 0 \in 0 .. n + 1 - (idx + 1) /\ 1 \in 0 .. n + 1 - idx /\ idx + 1 \in Int
        BY <1>1
    <2> QED  BY <2>1 DEF n
<1>5. ASSUME NEW e \in EntryOf(Child)
      PROVE  Splits(Child, leaf_insert(node, idx + 1, e)) /\ Splits(Child, leaf_update(node, idx, e))
    <2> DEFINE x == EntrySize(e)
    <2>1. <<e>> \in S /\ Size(<<e>>) = x /\ x \in 1 .. Half
        BY SizeOfOne
    <2>2. Splits(Child, leaf_insert(node, idx + 1, e))
        <3> DEFINE new == Replaced(TRUE, kvs, idx + 1, 0, <<e>>)
        <3>1. leaf_insert(node, idx + 1, e) = new
            BY <1>4, AreReplaced
        <3>2. new \in NodeOf(Child) /\ Bytes(new) = B - Size(Old(kvs, idx + 1, 0)) + Size(<<e>>)
            <4>1. CanReplace(Child, node, TRUE, idx + 1, 0, <<e>>)
                BY <1>4, <2>1 DEF CanReplace
            <4>2. Resized(Child, node, TRUE, idx + 1, 0, <<e>>)
                BY <4>1, ReplacedSize
            <4> QED  BY <4>2 DEF Resized
        <3>3. Size(Old(kvs, idx + 1, 0)) = 0
            BY <1>4, NoOld, SizeOfNone
        <3> HIDE DEF new, x, B
        <3>4. Bytes(new) = B + x
            BY <1>2, <2>1, <3>2, <3>3
        <3>5. Bytes(new) <= PageSize + Half
            BY <1>2, <2>1, <3>4, PageFacts
        <3> QED  BY <3>1, <3>2, <3>5, SplitsIf
    <2>3. Splits(Child, leaf_update(node, idx, e))
        <3> DEFINE new == Replaced(TRUE, kvs, idx, 1, <<e>>)
        <3>1. leaf_update(node, idx, e) = new
            BY <1>1, AreReplaced
        <3>2. new \in NodeOf(Child) /\ Bytes(new) = B - Size(old) + Size(<<e>>)
            <4>1. CanReplace(Child, node, TRUE, idx, 1, <<e>>)
                BY <1>4, <2>1 DEF CanReplace
            <4>2. Resized(Child, node, TRUE, idx, 1, <<e>>)
                BY <4>1, ReplacedSize
            <4> QED  BY <4>2 DEF Resized
        <3> HIDE DEF new, x, B, o, old
        <3>4. Bytes(new) = B - o + x
            BY <1>2, <1>3, <2>1, <3>2
        <3>5. Bytes(new) <= PageSize + Half
            BY <1>2, <1>3, <2>1, <3>4, PageFacts
        <3> QED  BY <3>1, <3>2, <3>5, SplitsIf
    <2> QED  BY <2>2, <2>3
<1>6. ASSUME NEW c \in Linkable(Child), NEW d \in Linkable(Child), FirstKey(c) = kvs[idx].key
      PROVE  /\ Fits(node_replace_child_n(node, idx, <<c>>))
             /\ Splits(Child, node_replace_child_n(node, idx, <<c, d>>))
    <2> DEFINE x == EntrySize(Link(c))
               y == EntrySize(Link(d))
    <2>1. /\ Links(<<c>>) \in S /\ Size(Links(<<c>>)) = x
          /\ Links(<<c, d>>) \in S /\ Size(Links(<<c, d>>)) = x + y
        BY LinkSizes
    <2>2. x \in Nat /\ x <= o /\ y \in 1 .. Half
        <3>1. x = 1 + KeyBytes(kvs[idx].key) /\ Link(d) \in EntryOf(Child) /\ Link(c) \in EntryOf(Child)
            BY <1>6, LinkFacts
        <3>2. 1 + KeyBytes(kvs[idx].key) <= o
            BY <1>1, KeyPart
        <3>3. x \in 1 .. Half /\ y \in 1 .. Half
            BY <3>1, EntryHalf
        <3> HIDE DEF x, y
        <3> QED  BY <3>1, <3>2, <3>3, PageFacts
    <2> DEFINE one == Replaced(FALSE, kvs, idx, 1, Links(<<c>>))
               two == Replaced(FALSE, kvs, idx, 1, Links(<<c, d>>))
    <2>3. node_replace_child_n(node, idx, <<c>>) = one /\ node_replace_child_n(node, idx, <<c, d>>) = two
        BY AreReplaced DEF node_replace_child_n
    <2>4. CanReplace(Child, node, FALSE, idx, 1, Links(<<c>>)) /\ CanReplace(Child, node, FALSE, idx, 1, Links(<<c, d>>))
        BY <1>4, <2>1 DEF CanReplace
    <2>5. one \in NodeOf(Child) /\ Bytes(one) = B - Size(old) + Size(Links(<<c>>))
        <3>1. Resized(Child, node, FALSE, idx, 1, Links(<<c>>))
            BY <2>4, ReplacedSize
        <3> QED  BY <3>1 DEF Resized
    <2>6. two \in NodeOf(Child) /\ Bytes(two) = B - Size(old) + Size(Links(<<c, d>>))
        <3>1. Resized(Child, node, FALSE, idx, 1, Links(<<c, d>>))
            BY <2>4, ReplacedSize
        <3> QED  BY <3>1 DEF Resized
    <2> HIDE DEF one, two, x, y, B, o, old
    <2>7. Bytes(one) <= PageSize
        BY <1>2, <1>3, <2>1, <2>2, <2>5, PageFacts
    <2>8. Bytes(two) <= PageSize + Half
        BY <1>2, <1>3, <2>1, <2>2, <2>6, PageFacts
    <2>9. Splits(Child, two)
        BY <2>6, <2>8, SplitsIf
    <2> QED  BY <2>3, <2>7, <2>9 DEF Fits
<1> QED  BY <1>5, <1>6

\* Whatever remove makes of a node that fits its page fits one too: a leaf with
\* an entry less, a node merged with a sibling for which should_merge finds
\* room, and a parent whose one or two links become a link with a key that is
\* no longer than the keys it replaces. With a longer key it need not fit: the
\* run btree_uneven shows it.
THEOREM RemoveFits ==
    ASSUME NEW Child, NEW node \in NodeOf(Child), Fits(node), NEW idx \in 1 .. Len(node.kvs)
    PROVE  /\ Fits(leaf_delete(node, idx))
           /\ \A sibling \in NodeOf(Child) :
                Bytes(sibling) + Bytes(node) - Header <= PageSize =>
                    Fits(node_merge(sibling, node)) /\ Fits(node_merge(node, sibling))
           /\ \A c \in Linkable(Child) :
                /\ KeyBytes(FirstKey(c)) <= KeyBytes(node.kvs[idx].key) =>
                        Fits(node_replace_child_n(node, idx, <<c>>))
                /\ idx < Len(node.kvs)
                   /\ KeyBytes(FirstKey(c)) <= KeyBytes(node.kvs[idx].key) + KeyBytes(node.kvs[idx + 1].key) =>
                        Fits(node_replace_2_child(node, idx, c))
<1> DEFINE kvs == node.kvs
           n == Len(kvs)
           S == Seq(EntryOf(Child))
           B == Bytes(node)
           old == Old(kvs, idx, 1)
           o == EntrySize(kvs[idx])
<1>1. kvs \in S /\ n \in Nat /\ idx \in 1 .. n /\ kvs[idx] \in EntryOf(Child)
    BY NodeFacts
<1>2. B \in Nat /\ B <= PageSize
    <2>1. B \in Nat
        BY SizeOfNode, PageFacts
    <2> QED  BY <2>1 DEF Fits
<1>3. Size(old) = o /\ o \in 1 .. Half
    BY <1>1, OneOld, SizeOfOne
<1>4. idx \in 1 .. n + 1 /\ 1 \in 0 .. n + 1 - idx
    <2> HIDE DEF n
    <2> QED  BY <1>1
<1>5. Fits(leaf_delete(node, idx))
    <2> DEFINE new == Replaced(TRUE, kvs, idx, 1, <<>>)
    <2>1. leaf_delete(node, idx) = new
        BY <1>1, AreReplaced
    <2>2. <<>> \in S /\ Size(<<>>) = 0
        BY SizeOfNone
    <2>3. CanReplace(Child, node, TRUE, idx, 1, <<>>)
        BY <1>4, <2>2 DEF CanReplace
    <2>4. Resized(Child, node, TRUE, idx, 1, <<>>)
        BY <2>3, ReplacedSize
    <2>5. Bytes(new) = B - Size(old) + Size(<<>>)
        BY <2>4 DEF Resized
    <2> HIDE DEF new, B, o, old
    <2>6. Bytes(new) <= PageSize
        BY <1>2, <1>3, <2>2, <2>5, PageFacts
    <2> QED  BY <2>1, <2>6 DEF Fits
<1>6. ASSUME NEW sibling \in NodeOf(Child), Bytes(sibling) + B - Header <= PageSize
      PROVE  Fits(node_merge(sibling, node)) /\ Fits(node_merge(node, sibling))
    <2> DEFINE skvs == sibling.kvs
    <2>1. skvs \in S /\ node.leaf \in BOOLEAN /\ sibling.leaf \in BOOLEAN
        BY NodeFacts
    <2>2. skvs \o kvs \in S /\ Size(skvs \o kvs) = Size(skvs) + Size(kvs) /\ kvs \o skvs \in S /\ Size(kvs \o skvs) = Size(kvs) + Size(skvs)
        BY <1>1, <2>1, SizeOfTwo
    <2>3. Bytes(node) = Size(kvs) + Header /\ Bytes(sibling) = Size(skvs) + Header /\ Size(kvs) \in Nat /\ Size(skvs) \in Nat
        BY SizeOfNode
    <2>4. /\ Bytes(node_merge(sibling, node)) = Size(skvs \o kvs) + Header
          /\ Bytes(node_merge(node, sibling)) = Size(kvs \o skvs) + Header
        BY <2>1, <2>2, SizeOf DEF node_merge
    <2>5. Bytes(node_merge(sibling, node)) <= PageSize /\ Bytes(node_merge(node, sibling)) <= PageSize
        BY <1>6, <2>2, <2>3, <2>4, PageFacts
    <2> QED  BY <2>5 DEF Fits
<1>7. ASSUME NEW c \in Linkable(Child), KeyBytes(FirstKey(c)) <= KeyBytes(kvs[idx].key)
      PROVE  Fits(node_replace_child_n(node, idx, <<c>>))
    <2> DEFINE x == EntrySize(Link(c))
               new == Replaced(FALSE, kvs, idx, 1, Links(<<c>>))
               kc == KeyBytes(FirstKey(c))
               ko == KeyBytes(kvs[idx].key)
    <2>1. Links(<<c>>) \in S /\ Size(Links(<<c>>)) = x
        BY LinkSizes
    <2>2. x = 1 + kc /\ kc \in Nat /\ ko \in Nat /\ 1 + ko <= o /\ kc <= ko
        BY <1>1, <1>7, LinkFacts, KeyPart
    <2>3. node_replace_child_n(node, idx, <<c>>) = new
        BY AreReplaced DEF node_replace_child_n
    <2>4. CanReplace(Child, node, FALSE, idx, 1, Links(<<c>>))
        BY <1>4, <2>1 DEF CanReplace
    <2>5. Resized(Child, node, FALSE, idx, 1, Links(<<c>>))
        BY <2>4, ReplacedSize
    <2>6. Bytes(new) = B - Size(old) + Size(Links(<<c>>))
        BY <2>5 DEF Resized
    <2> HIDE DEF new, x, B, o, old, kc, ko
    <2>7. Bytes(new) <= PageSize
        BY <1>2, <1>3, <2>1, <2>2, <2>6, PageFacts
    <2> QED  BY <2>3, <2>7 DEF Fits
<1>8. ASSUME NEW c \in Linkable(Child), idx < n, KeyBytes(FirstKey(c)) <= KeyBytes(kvs[idx].key) + KeyBytes(kvs[idx + 1].key)
      PROVE  Fits(node_replace_2_child(node, idx, c))
    <2> DEFINE x == EntrySize(Link(c))
               new == Replaced(FALSE, kvs, idx, 2, Links(<<c>>))
               kc == KeyBytes(FirstKey(c))
               ko == KeyBytes(kvs[idx].key)
               kp == KeyBytes(kvs[idx + 1].key)
               p == EntrySize(kvs[idx + 1])
               both == Old(kvs, idx, 2)
    <2>1. Links(<<c>>) \in S /\ Size(Links(<<c>>)) = x
        BY LinkSizes
    <2>2. idx + 1 \in 1 .. n /\ idx \in 1 .. n - 1 /\ 2 \in 0 .. n + 1 - idx
        <3> HIDE DEF n
        <3> QED  BY <1>1, <1>8
    <2>3. kvs[idx + 1] \in EntryOf(Child)
        BY <2>2, NodeFacts
    <2>4. x = 1 + kc /\ kc \in Nat /\ ko \in Nat /\ 1 + ko <= o /\ kp \in Nat /\ p \in Nat /\ 1 + kp <= p /\ kc <= ko + kp
        BY <1>1, <1>8, <2>3, LinkFacts, KeyPart
    <2>5. Size(both) = o + p
        <3>1. both = <<kvs[idx]>> \o <<kvs[idx + 1]>>
            BY <1>1, <2>2, TwoOld
        <3>2. <<kvs[idx]>> \in S /\ <<kvs[idx + 1]>> \in S /\ Size(<<kvs[idx]>>) = o /\ Size(<<kvs[idx + 1]>>) = p
            BY <1>1, <2>3, SizeOfOne
        <3> DEFINE a == <<kvs[idx]>>
                   b == <<kvs[idx + 1]>>
        <3>3. both = a \o b /\ a \in S /\ b \in S /\ Size(a) = o /\ Size(b) = p
            BY <3>1, <3>2
        <3> HIDE DEF a, b, o, p, both
        <3> QED  BY <3>3, SizeOfTwo
    <2>6. node_replace_2_child(node, idx, c) = new
        BY AreReplaced DEF node_replace_2_child
    <2>7. CanReplace(Child, node, FALSE, idx, 2, Links(<<c>>))
        BY <1>4, <2>1, <2>2 DEF CanReplace
    <2>8. Resized(Child, node, FALSE, idx, 2, Links(<<c>>))
        BY <2>7, ReplacedSize
    <2>9. Bytes(new) = B - Size(both) + Size(Links(<<c>>))
        BY <2>8 DEF Resized
    <2> HIDE DEF new, x, B, o, p, both, kc, ko, kp
    <2>10. Bytes(new) <= PageSize
        BY <1>2, <1>3, <2>1, <2>4, <2>5, <2>9, PageFacts
    <2> QED  BY <2>6, <2>10 DEF Fits
<1> QED  BY <1>5, <1>6, <1>7, <1>8

-----------------------------------------------------------------------------
(* Lookup *)

Start(n) == [lo |-> 1, hi |-> n, result |-> 0]

\* The loop of node_lookup_le.
FindLoop(f, kvs, key, n, m) == f = [i \in 0 .. m |-> IF i = 0 THEN Start(n) ELSE search(kvs, key, f[i - 1])]

LEMMA FindLoops ==
    ASSUME NEW node, NEW key, Len(node.kvs) \in Nat
    PROVE  \E f : FindLoop(f, node.kvs, key, Len(node.kvs), Len(node.kvs)) /\ node_lookup_le(node, key) = f[Len(node.kvs)].result
<1> DEFINE kvs == node.kvs
           n == Len(kvs)
           T == {m \in 0 .. n : ~ \E f : FindLoop(f, kvs, key, n, m)}
           pass(x) == search(kvs, key, x)
           first == Start(n)
           Loop(f, m) == f = [i \in 0 .. m |-> IF i = 0 THEN first ELSE pass(f[i - 1])]
<1>0. \A f, m : FindLoop(f, kvs, key, n, m) <=> Loop(f, m)
    BY DEF FindLoop
<1>1. \E f : FindLoop(f, kvs, key, n, n)
    <2> HIDE DEF pass, first, n
    <2> SUFFICES ASSUME T # {}  PROVE FALSE
        <3>1. n \in 0 .. n
            BY DEF n
        <3> QED  BY <3>1
    <2>1. 0 \notin T
        <3>1. Loop([i \in 0 .. 0 |-> first], 0)
            OBVIOUS
        <3> QED  BY <1>0, <3>1
    <2>2. PICK m \in T : m \in 1 .. n /\ m - 1 \in 0 .. n /\ m - 1 \notin T
        BY <2>1, FirstFailure DEF n
    <2>3. PICK f : Loop(f, m - 1)
        BY <1>0, <2>2
    <2> DEFINE g == [i \in 0 .. m |-> IF i = m THEN pass(f[m - 1]) ELSE f[i]]
    <2>4. ASSUME NEW i \in 0 .. m  PROVE g[i] = IF i = 0 THEN first ELSE pass(g[i - 1])
        <3>1. CASE i = m
            BY <2>2, <3>1
        <3>2. CASE i # m
            <4>1. i \in 0 .. m - 1 /\ i - 1 # m /\ g[i] = f[i]
                BY <2>2, <3>2
            <4>2. f[i] = IF i = 0 THEN first ELSE pass(f[i - 1])
                BY <2>3, <4>1
            <4>3. i # 0 => g[i - 1] = f[i - 1]
                BY <2>2, <4>1
            <4> QED  BY <4>1, <4>2, <4>3
        <3> QED  BY <3>1, <3>2
    <2>5. Loop(g, m)
        BY <2>4
    <2> QED  BY <1>0, <2>2, <2>5
<1>2. node_lookup_le(node, key) = (CHOOSE f : Loop(f, n))[n].result
    BY DEF node_lookup_le, Start
<1>3. Loop(CHOOSE f : Loop(f, n), n)
    <2> HIDE DEF Loop
    <2> QED  BY <1>0, <1>1
<1> QED  BY <1>0, <1>2, <1>3

\* After i passes: everything before lo is at most key, everything behind hi
\* is above it, and what is between them is shorter with each pass.
Narrowed(kvs, key, s, i) ==
    /\ s.lo \in 1 .. Len(kvs) + 1 /\ s.hi \in 0 .. Len(kvs) /\ s.lo <= s.hi + 1 /\ s.result = s.lo - 1
    /\ \A j \in 1 .. Len(kvs) : (j < s.lo => kvs[j].key <= key) /\ (j > s.hi => kvs[j].key > key)
    /\ s.lo <= s.hi => s.hi - s.lo + 1 <= Len(kvs) - i

LEMMA SearchStep ==
    ASSUME NEW kvs, Len(kvs) \in Nat, \A j \in 1 .. Len(kvs) : kvs[j].key \in Nat, Ascending(kvs),
           NEW key \in Nat, NEW i \in Nat, NEW s, Narrowed(kvs, key, s, i)
    PROVE  Narrowed(kvs, key, search(kvs, key, s), i + 1)
<1> DEFINE n == Len(kvs)
           k(j) == kvs[j].key
           lo == s.lo
           hi == s.hi
           mid == lo + (hi - lo) \div 2
<1>1. /\ n \in Nat /\ lo \in 1 .. n + 1 /\ hi \in 0 .. n /\ lo <= hi + 1 /\ s.result = lo - 1
      /\ \A j \in 1 .. n : (j < lo => k(j) <= key) /\ (j > hi => k(j) > key)
      /\ lo <= hi => hi - lo + 1 <= n - i
    BY DEF Narrowed
<1>2. (\A j \in 1 .. n : k(j) \in Nat) /\ \A a, b \in 1 .. n : a < b => k(a) < k(b)
    BY DEF Ascending
<1>3. CASE lo > hi
    <2>1. search(kvs, key, s) = s
        BY <1>3 DEF search
    <2>2. ~(lo <= hi)
        BY <1>1, <1>3
    <2> QED  BY <2>1, <2>2 DEF Narrowed
<1>4. CASE ~(lo > hi)
    <2>1. mid \in lo .. hi /\ mid \in 1 .. n /\ mid + 1 \in 1 .. n + 1 /\ mid - 1 \in 0 .. n
        <3> HIDE DEF lo, hi, n
        <3> QED  BY <1>1, <1>4
    <2>2. CASE k(mid) = key
        <3> DEFINE t == [lo |-> mid + 1, hi |-> mid, result |-> mid]
        <3>1. search(kvs, key, s) = t
            BY <1>4, <2>2 DEF search
        <3>2. t.lo = mid + 1 /\ t.hi = mid /\ t.result = mid
            OBVIOUS
        <3> HIDE DEF lo, hi, mid, n, k, t
        <3>3. \A j \in 1 .. n : (j < mid + 1 => k(j) <= key) /\ (j > mid => k(j) > key)
            <4> SUFFICES ASSUME NEW j \in 1 .. n  PROVE (j < mid + 1 => k(j) <= key) /\ (j > mid => k(j) > key)
                OBVIOUS
            <4>1. (j < mid => k(j) < k(mid)) /\ (mid < j => k(mid) < k(j)) /\ k(j) \in Nat /\ k(mid) \in Nat
                BY <1>2, <2>1
            <4> QED  BY <1>1, <2>1, <2>2, <4>1
        <3>4. mid = (mid + 1) - 1 /\ mid + 1 <= mid + 1 /\ ~(mid + 1 <= mid) /\ mid \in 0 .. n
            BY <1>1, <2>1
        <3> QED  BY <2>1, <3>1, <3>2, <3>3, <3>4 DEF Narrowed, n, k
    <2>3. CASE k(mid) # key /\ k(mid) < key
        <3> DEFINE t == [lo |-> mid + 1, hi |-> hi, result |-> mid]
        <3>1. search(kvs, key, s) = t
            BY <1>4, <2>3 DEF search
        <3>2. t.lo = mid + 1 /\ t.hi = hi /\ t.result = mid
            OBVIOUS
        <3> HIDE DEF lo, hi, mid, n, k, t
        <3>3. \A j \in 1 .. n : (j < mid + 1 => k(j) <= key) /\ (j > hi => k(j) > key)
            <4> SUFFICES ASSUME NEW j \in 1 .. n  PROVE (j < mid + 1 => k(j) <= key) /\ (j > hi => k(j) > key)
                OBVIOUS
            <4>1. (j < mid => k(j) < k(mid)) /\ k(j) \in Nat /\ k(mid) \in Nat
                BY <1>2, <2>1
            <4> QED  BY <1>1, <2>1, <2>3, <4>1
        <3>4. mid = (mid + 1) - 1 /\ mid + 1 <= hi + 1 /\ (mid + 1 <= hi => hi - (mid + 1) + 1 <= n - (i + 1))
            BY <1>1, <1>4, <2>1
        <3> QED  BY <1>1, <2>1, <3>1, <3>2, <3>3, <3>4 DEF Narrowed, n, k
    <2>4. CASE k(mid) # key /\ ~(k(mid) < key)
        <3> DEFINE t == [lo |-> lo, hi |-> mid - 1, result |-> s.result]
        <3>1. search(kvs, key, s) = t
            BY <1>4, <2>4 DEF search
        <3>2. t.lo = lo /\ t.hi = mid - 1 /\ t.result = s.result
            OBVIOUS
        <3> HIDE DEF lo, hi, mid, n, k, t
        <3>3. \A j \in 1 .. n : (j < lo => k(j) <= key) /\ (j > mid - 1 => k(j) > key)
            <4> SUFFICES ASSUME NEW j \in 1 .. n  PROVE (j < lo => k(j) <= key) /\ (j > mid - 1 => k(j) > key)
                OBVIOUS
            <4>1. (mid < j => k(mid) < k(j)) /\ k(j) \in Nat /\ k(mid) \in Nat
                BY <1>2, <2>1
            <4> QED  BY <1>1, <2>1, <2>4, <4>1
        <3>4. lo <= (mid - 1) + 1 /\ (lo <= mid - 1 => (mid - 1) - lo + 1 <= n - (i + 1))
            BY <1>1, <1>4, <2>1
        <3> QED  BY <1>1, <2>1, <3>1, <3>2, <3>3, <3>4 DEF Narrowed, n, k
    <2> QED  BY <2>2, <2>3, <2>4
<1> QED  BY <1>3, <1>4

\* node_lookup_le returns the position of the last key that is not above its
\* key, and 0 (-1 in the code) when every key is: its binary search ends within
\* as many passes as the node has keys, at every number of keys.
THEOREM LookupExact ==
    ASSUME NEW Child, NEW node \in NodeOf(Child), Ascending(node.kvs), NEW key \in Keys \cup {0}
    PROVE  LET idx == node_lookup_le(node, key)
           IN  /\ idx \in 0 .. Len(node.kvs)
               /\ \A j \in 1 .. Len(node.kvs) : j <= idx <=> node.kvs[j].key <= key
<1> DEFINE kvs == node.kvs
           n == Len(kvs)
           idx == node_lookup_le(node, key)
<1>1. n \in Nat /\ key \in Nat /\ \A j \in 1 .. n : kvs[j].key \in Nat
    <2>1. n \in Nat /\ \A j \in 1 .. n : kvs[j] \in EntryOf(Child)
        BY NodeFacts
    <2>2. key \in Nat
        BY EntryAssumption
    <2>3. ASSUME NEW j \in 1 .. n  PROVE kvs[j].key \in Nat
        BY <2>1, KeyNat
    <2> QED  BY <2>1, <2>2, <2>3
<1>2. PICK f : FindLoop(f, kvs, key, n, n) /\ idx = f[n].result
    BY <1>1, FindLoops
<1>3. f[0] = Start(n) /\ \A i \in 1 .. n : f[i] = search(kvs, key, f[i - 1])
    <2> DEFINE pass(x) == search(kvs, key, x)
               first == Start(n)
    <2>1. f = [i \in 0 .. n |-> IF i = 0 THEN first ELSE pass(f[i - 1])]
        BY <1>2 DEF FindLoop
    <2> HIDE DEF pass, first, n
    <2>2. f[0] = first /\ \A i \in 1 .. n : f[i] = pass(f[i - 1])
        BY <1>1, <2>1
    <2> QED  BY <2>2 DEF pass, first
<1> DEFINE T == {i \in 0 .. n : ~ Narrowed(kvs, key, f[i], i)}
<1>4. Ascending(kvs)
    OBVIOUS
<1>5. 0 \notin T
    <2>1. Start(n).lo = 1 /\ Start(n).hi = n /\ Start(n).result = 0
        BY DEF Start
    <2>2. Narrowed(kvs, key, Start(n), 0)
        BY <1>1, <2>1 DEF Narrowed
    <2> QED  BY <1>3, <2>2
<1> HIDE DEF kvs, n, idx
<1>6. T = {}
    <2> SUFFICES ASSUME T # {}  PROVE FALSE
        OBVIOUS
    <2>1. PICK i \in T : i \in 1 .. n /\ i - 1 \in 0 .. n /\ i - 1 \notin T
        BY <1>1, <1>5, FirstFailure
    <2>2. Narrowed(kvs, key, f[i - 1], i - 1) /\ f[i] = search(kvs, key, f[i - 1]) /\ i - 1 \in Nat /\ (i - 1) + 1 = i
        BY <1>1, <1>3, <2>1
    <2>3. Narrowed(kvs, key, search(kvs, key, f[i - 1]), (i - 1) + 1)
        BY <1>1, <1>4, <2>2, SearchStep DEF n
    <2> QED  BY <2>1, <2>2, <2>3
<1>7. Narrowed(kvs, key, f[n], n)
    BY <1>1, <1>6
<1> DEFINE s == f[n]
           lo == s.lo
           hi == s.hi
<1>8. /\ lo \in 1 .. n + 1 /\ hi \in 0 .. n /\ lo <= hi + 1 /\ idx = lo - 1
      /\ \A j \in 1 .. n : (j < lo => kvs[j].key <= key) /\ (j > hi => kvs[j].key > key)
      /\ lo <= hi => hi - lo + 1 <= n - n
    BY <1>2, <1>7 DEF Narrowed, n
<1> HIDE DEF lo, hi
<1>9. idx \in 0 .. n /\ \A j \in 1 .. n : j <= idx <=> kvs[j].key <= key
    <2>1. lo = hi + 1 /\ idx = hi
        BY <1>1, <1>8
    <2>2. ASSUME NEW j \in 1 .. n  PROVE j <= idx <=> kvs[j].key <= key
        <3>1. kvs[j].key \in Nat
            BY <1>1
        <3>2. CASE j <= idx
            BY <1>1, <1>8, <2>1, <3>2
        <3>3. CASE ~(j <= idx)
            <4>1. kvs[j].key > key
                BY <1>1, <1>8, <2>1, <3>3
            <4> QED  BY <1>1, <3>1, <3>3, <4>1
        <3> QED  BY <3>2, <3>3
    <2> QED  BY <1>8, <2>1, <2>2
<1> QED  BY <1>9 DEF idx, n, kvs

-----------------------------------------------------------------------------
(* Order and contents *)

\* Entry by entry, the node with mid instead of the cnt entries from idx on.
ReplacedIs(Child, node, leaf, idx, cnt, mid) ==
    LET r == Replaced(leaf, node.kvs, idx, cnt, mid).kvs
    IN  /\ r \in Seq(EntryOf(Child)) /\ Len(r) = Len(node.kvs) - cnt + Len(mid)
        /\ \A j \in 1 .. Len(r) :
              r[j] = IF j < idx THEN node.kvs[j]
                     ELSE IF j < idx + Len(mid) THEN mid[j - idx + 1]
                     ELSE node.kvs[j - Len(mid) + cnt]

LEMMA ReplacedAt ==
    ASSUME NEW Child, NEW node, NEW leaf, NEW idx, NEW cnt, NEW mid, CanReplace(Child, node, leaf, idx, cnt, mid)
    PROVE  ReplacedIs(Child, node, leaf, idx, cnt, mid)
<1> DEFINE kvs == node.kvs
           n == Len(kvs)
           k == Len(mid)
           S == Seq(EntryOf(Child))
           pre == SubSeq(kvs, 1, idx - 1)
           post == SubSeq(kvs, idx + cnt, n)
           c == pre \o mid
           r == c \o post
<1>1. node \in NodeOf(Child) /\ mid \in S /\ idx \in 1 .. n + 1 /\ cnt \in 0 .. n + 1 - idx
    BY DEF CanReplace
<1>2. kvs \in S /\ n \in Nat /\ (\A i \in 1 .. n : kvs[i] \in EntryOf(Child)) /\ k \in Nat
    BY <1>1, NodeFacts, LenProperties
<1>3. Replaced(leaf, kvs, idx, cnt, mid).kvs = r
    BY DEF Replaced, Node
<1> HIDE DEF kvs, n, k
<1>4. idx \in Int /\ cnt \in Int /\ idx - 1 \in Int /\ idx + cnt \in Int /\ n \in Int /\ 1 \in Int
    BY <1>1, <1>2
<1>5. pre \in S /\ Len(pre) = idx - 1 /\ \A i \in 1 .. idx - 1 : pre[i] = kvs[i]
    <2>1. \A i \in 1 .. idx - 1 : kvs[i] \in EntryOf(Child)
        BY <1>1, <1>2
    <2>2. /\ pre \in S /\ Len(pre) = IF 1 <= idx - 1 THEN (idx - 1) - 1 + 1 ELSE 0
          /\ \A i \in 1 .. (idx - 1) - 1 + 1 : pre[i] = kvs[1 + i - 1]
        BY <1>4, <2>1, SubSeqProperties
    <2> HIDE DEF pre
    <2> QED  BY <1>1, <1>2, <2>2
<1>6. post \in S /\ Len(post) = n + 1 - (idx + cnt) /\ \A i \in 1 .. n + 1 - (idx + cnt) : post[i] = kvs[(idx + cnt) + i - 1]
    <2>1. \A i \in idx + cnt .. n : kvs[i] \in EntryOf(Child)
        BY <1>1, <1>2
    <2>2. /\ post \in S /\ Len(post) = IF idx + cnt <= n THEN n - (idx + cnt) + 1 ELSE 0
          /\ \A i \in 1 .. n - (idx + cnt) + 1 : post[i] = kvs[(idx + cnt) + i - 1]
        BY <1>4, <2>1, SubSeqProperties
    <2> HIDE DEF post
    <2> QED  BY <1>1, <1>2, <2>2
<1> HIDE DEF pre, post
<1>7. /\ c \in S /\ Len(c) = (idx - 1) + k
      /\ \A i \in 1 .. (idx - 1) + k : c[i] = IF i <= idx - 1 THEN pre[i] ELSE mid[i - (idx - 1)]
    <2>1. /\ c \in S /\ Len(c) = Len(pre) + Len(mid)
          /\ \A i \in 1 .. Len(pre) + Len(mid) : c[i] = IF i <= Len(pre) THEN pre[i] ELSE mid[i - Len(pre)]
        BY <1>1, <1>5, ConcatProperties
    <2> QED  BY <1>5, <2>1, Zenon DEF k
<1> HIDE DEF c
<1>8. /\ r \in S /\ Len(r) = ((idx - 1) + k) + (n + 1 - (idx + cnt))
      /\ \A i \in 1 .. Len(r) : r[i] = IF i <= (idx - 1) + k THEN c[i] ELSE post[i - ((idx - 1) + k)]
    <2>1. /\ r \in S /\ Len(r) = Len(c) + Len(post)
          /\ \A i \in 1 .. Len(c) + Len(post) : r[i] = IF i <= Len(c) THEN c[i] ELSE post[i - Len(c)]
        BY <1>6, <1>7, ConcatProperties
    <2> HIDE DEF r
    <2> QED  BY <1>6, <1>7, <2>1, Zenon
<1> HIDE DEF r
<1>9. Len(r) = n - cnt + k
    BY <1>1, <1>2, <1>8
<1>10. ASSUME NEW j \in 1 .. Len(r)
       PROVE  r[j] = IF j < idx THEN kvs[j] ELSE IF j < idx + k THEN mid[j - idx + 1] ELSE kvs[j - k + cnt]
    <2>0. j \in 1 .. n - cnt + k /\ Len(r) \in Nat
        BY <1>1, <1>2, <1>9
    <2>1. CASE j < idx
        <3>1. j \in 1 .. idx - 1 /\ j <= (idx - 1) + k /\ j \in 1 .. (idx - 1) + k /\ j <= idx - 1
            BY <1>1, <1>2, <2>0, <2>1
        <3> QED  BY <1>5, <1>7, <1>8, <2>1, <3>1
    <2>2. CASE ~(j < idx) /\ j < idx + k
        <3>1. j <= (idx - 1) + k /\ j \in 1 .. (idx - 1) + k /\ ~(j <= idx - 1) /\ j - (idx - 1) = j - idx + 1
            BY <1>1, <1>2, <2>0, <2>2
        <3> QED  BY <1>7, <1>8, <2>2, <3>1
    <2>3. CASE ~(j < idx) /\ ~(j < idx + k)
        <3>1. /\ ~(j <= (idx - 1) + k) /\ j - ((idx - 1) + k) \in 1 .. n + 1 - (idx + cnt)
              /\ (idx + cnt) + (j - ((idx - 1) + k)) - 1 = j - k + cnt
            BY <1>1, <1>2, <2>0, <2>3
        <3>2. r[j] = post[j - ((idx - 1) + k)]
            BY <1>8, <3>1
        <3>3. post[j - ((idx - 1) + k)] = kvs[(idx + cnt) + (j - ((idx - 1) + k)) - 1]
            BY <1>6, <3>1
        <3> QED  BY <2>3, <3>1, <3>2, <3>3
    <2> QED  BY <2>1, <2>2, <2>3
<1> QED  BY <1>3, <1>8, <1>9, <1>10 DEF ReplacedIs, n, k, kvs

\* The keys of mid belong where it goes.
Between(kvs, idx, cnt, mid) ==
    \A j \in 1 .. Len(mid) :
        /\ idx > 1 => kvs[idx - 1].key < mid[j].key
        /\ idx + cnt <= Len(kvs) => mid[j].key < kvs[idx + cnt].key

LEMMA ReplacedOrder ==
    ASSUME NEW Child, NEW node, NEW leaf, NEW idx, NEW cnt, NEW mid, CanReplace(Child, node, leaf, idx, cnt, mid),
           Ascending(node.kvs), Ascending(mid), Between(node.kvs, idx, cnt, mid)
    PROVE  Ascending(Replaced(leaf, node.kvs, idx, cnt, mid).kvs)
<1> DEFINE kvs == node.kvs
           n == Len(kvs)
           k == Len(mid)
           r == Replaced(leaf, kvs, idx, cnt, mid).kvs
           K(j) == kvs[j].key
           M(j) == mid[j].key
           R(j) == r[j].key
<1>1. node \in NodeOf(Child) /\ mid \in Seq(EntryOf(Child)) /\ idx \in 1 .. n + 1 /\ cnt \in 0 .. n + 1 - idx
    BY DEF CanReplace
<1>2. /\ n \in Nat /\ k \in Nat /\ \A j \in 1 .. n : K(j) \in Nat
      /\ \A j \in 1 .. k : M(j) \in Nat
    <2>1. /\ n \in Nat /\ k \in Nat /\ \A j \in 1 .. n : kvs[j] \in EntryOf(Child)
          /\ \A j \in 1 .. k : mid[j] \in EntryOf(Child)
        BY <1>1, NodeFacts, LenProperties, ElementOfSeq
    <2>2. \A e \in EntryOf(Child) : e.key \in Nat
        BY KeyNat
    <2> QED  BY <2>1, <2>2
<1>3. /\ Len(r) = n - cnt + k
      /\ \A j \in 1 .. Len(r) : R(j) = IF j < idx THEN K(j) ELSE IF j < idx + k THEN M(j - idx + 1) ELSE K(j - k + cnt)
    BY ReplacedAt DEF ReplacedIs
<1>4. /\ \A i, j \in 1 .. n : i < j => K(i) < K(j)
      /\ \A i, j \in 1 .. k : i < j => M(i) < M(j)
      /\ \A j \in 1 .. k : (idx > 1 => K(idx - 1) < M(j)) /\ (idx + cnt <= n => M(j) < K(idx + cnt))
    BY DEF Ascending, Between
<1> HIDE DEF kvs, n, k, r, K, M, R
<1>5. /\ \A i \in 1 .. idx - 1, j \in 1 .. k : K(i) < M(j)
      /\ \A i \in idx + cnt .. n, j \in 1 .. k : M(j) < K(i)
    <2>1. ASSUME NEW i \in 1 .. idx - 1, NEW j \in 1 .. k  PROVE K(i) < M(j)
        <3>1. i \in 1 .. n /\ idx - 1 \in 1 .. n /\ idx > 1
            BY <1>1, <1>2
        <3>2. K(i) \in Nat /\ K(idx - 1) \in Nat /\ M(j) \in Nat /\ K(idx - 1) < M(j) /\ (i < idx - 1 => K(i) < K(idx - 1))
            BY <1>2, <1>4, <3>1
        <3>3. CASE i = idx - 1
            BY <3>2, <3>3
        <3>4. CASE i < idx - 1
            BY <3>2, <3>4
        <3> QED  BY <1>1, <3>3, <3>4
    <2>2. ASSUME NEW i \in idx + cnt .. n, NEW j \in 1 .. k  PROVE M(j) < K(i)
        <3>1. i \in 1 .. n /\ idx + cnt \in 1 .. n /\ idx + cnt <= n
            BY <1>1, <1>2
        <3>2. K(i) \in Nat /\ K(idx + cnt) \in Nat /\ M(j) \in Nat /\ M(j) < K(idx + cnt) /\ (idx + cnt < i => K(idx + cnt) < K(i))
            BY <1>2, <1>4, <3>1
        <3>3. CASE i = idx + cnt
            BY <3>2, <3>3
        <3>4. CASE idx + cnt < i
            BY <3>2, <3>4
        <3> QED  BY <1>1, <3>3, <3>4
    <2> QED  BY <2>1, <2>2
<1>6. ASSUME NEW i \in 1 .. Len(r), NEW j \in 1 .. Len(r), i < j  PROVE R(i) < R(j)
    <2>0. i \in 1 .. n - cnt + k /\ j \in 1 .. n - cnt + k
        BY <1>3
    <2>1. CASE j < idx
        <3>1. i \in 1 .. n /\ j \in 1 .. n /\ i < idx
            BY <1>1, <1>2, <1>6, <2>0, <2>1
        <3>2. R(i) = K(i) /\ R(j) = K(j)
            BY <1>3, <2>1, <3>1
        <3> QED  BY <1>4, <1>6, <3>1, <3>2
    <2>2. CASE ~(j < idx) /\ j < idx + k
        <3>1. R(j) = M(j - idx + 1) /\ j - idx + 1 \in 1 .. k
            BY <1>1, <1>2, <1>3, <2>0, <2>2
        <3>2. CASE i < idx
            <4>1. R(i) = K(i) /\ i \in 1 .. idx - 1
                BY <1>1, <1>2, <1>3, <2>0, <3>2
            <4> QED  BY <1>5, <3>1, <4>1
        <3>3. CASE ~(i < idx)
            <4>1. R(i) = M(i - idx + 1) /\ i - idx + 1 \in 1 .. k /\ i - idx + 1 < j - idx + 1
                <5>1. i < idx + k
                    BY <1>1, <1>2, <1>6, <2>0, <2>2
                <5> QED  BY <1>1, <1>2, <1>3, <1>6, <2>0, <2>2, <3>3, <5>1
            <4> QED  BY <1>4, <3>1, <4>1
        <3> QED  BY <3>2, <3>3
    <2>3. CASE ~(j < idx) /\ ~(j < idx + k)
        <3>1. R(j) = K(j - k + cnt) /\ j - k + cnt \in idx + cnt .. n /\ j - k + cnt \in 1 .. n
            BY <1>1, <1>2, <1>3, <2>0, <2>3
        <3>2. CASE i < idx
            <4>1. R(i) = K(i) /\ i \in 1 .. n /\ i < j - k + cnt
                BY <1>1, <1>2, <1>3, <2>0, <2>3, <3>2
            <4> QED  BY <1>4, <3>1, <4>1
        <3>3. CASE ~(i < idx) /\ i < idx + k
            <4>1. R(i) = M(i - idx + 1) /\ i - idx + 1 \in 1 .. k
                BY <1>1, <1>2, <1>3, <2>0, <3>3
            <4> QED  BY <1>5, <3>1, <4>1
        <3>4. CASE ~(i < idx) /\ ~(i < idx + k)
            <4>1. R(i) = K(i - k + cnt) /\ i - k + cnt \in 1 .. n /\ i - k + cnt < j - k + cnt
                BY <1>1, <1>2, <1>3, <1>6, <2>0, <3>4
            <4> QED  BY <1>4, <3>1, <4>1
        <3> QED  BY <3>2, <3>3, <3>4
    <2> QED  BY <2>1, <2>2, <2>3
<1> QED  BY <1>6 DEF Ascending, R, r, kvs

\* The other entries.
Others(kvs, idx, cnt) == {kvs[j] : j \in (1 .. idx - 1) \cup (idx + cnt .. Len(kvs))}

ReplacedHas(node, leaf, idx, cnt, mid) ==
    ToSet(Replaced(leaf, node.kvs, idx, cnt, mid).kvs) =
        {mid[j] : j \in 1 .. Len(mid)} \cup Others(node.kvs, idx, cnt)

LEMMA ReplacedSet ==
    ASSUME NEW Child, NEW node, NEW leaf, NEW idx, NEW cnt, NEW mid, CanReplace(Child, node, leaf, idx, cnt, mid)
    PROVE  ReplacedHas(node, leaf, idx, cnt, mid)
<1> DEFINE kvs == node.kvs
           n == Len(kvs)
           k == Len(mid)
           r == Replaced(leaf, kvs, idx, cnt, mid).kvs
           rest == (1 .. idx - 1) \cup (idx + cnt .. n)
<1>1. node \in NodeOf(Child) /\ mid \in Seq(EntryOf(Child)) /\ idx \in 1 .. n + 1 /\ cnt \in 0 .. n + 1 - idx
    BY DEF CanReplace
<1>2. n \in Nat /\ k \in Nat
    BY <1>1, NodeFacts, LenProperties
<1>3. /\ r \in Seq(EntryOf(Child)) /\ Len(r) = n - cnt + k
      /\ \A j \in 1 .. Len(r) : r[j] = IF j < idx THEN kvs[j] ELSE IF j < idx + k THEN mid[j - idx + 1] ELSE kvs[j - k + cnt]
    BY ReplacedAt DEF ReplacedIs
<1>4. ToSet(r) = {r[j] : j \in 1 .. Len(r)}
    <2>1. DOMAIN r = 1 .. Len(r)
        BY <1>3, LenProperties
    <2> QED  BY <2>1 DEF ToSet
<1> HIDE DEF kvs, n, k, r
<1>5. ASSUME NEW j \in 1 .. Len(r)
      PROVE  (\E i \in 1 .. k : r[j] = mid[i]) \/ (\E i \in rest : r[j] = kvs[i])
    <2>1. CASE j < idx
        <3>1. j \in 1 .. idx - 1 /\ r[j] = kvs[j]
            BY <1>1, <1>2, <1>3, <2>1
        <3> QED  BY <3>1
    <2>2. CASE ~(j < idx) /\ j < idx + k
        <3>1. j - idx + 1 \in 1 .. k /\ r[j] = mid[j - idx + 1]
            BY <1>1, <1>2, <1>3, <2>2
        <3> QED  BY <3>1
    <2>3. CASE ~(j < idx) /\ ~(j < idx + k)
        <3>1. j - k + cnt \in idx + cnt .. n /\ r[j] = kvs[j - k + cnt]
            BY <1>1, <1>2, <1>3, <2>3
        <3> QED  BY <3>1
    <2> QED  BY <2>1, <2>2, <2>3
<1>6. ASSUME NEW i \in 1 .. k  PROVE \E j \in 1 .. Len(r) : r[j] = mid[i]
    <2>0. idx \in 1 .. n + 1 /\ cnt \in 0 .. n + 1 - idx /\ Len(r) = n - cnt + k
        BY <1>1, <1>3
    <2>1. /\ i + idx - 1 \in 1 .. Len(r) /\ ~(i + idx - 1 < idx) /\ i + idx - 1 < idx + k /\ (i + idx - 1) - idx + 1 = i
        BY <1>2, <2>0
    <2>2. r[i + idx - 1] = mid[i]
        BY <1>3, <2>1
    <2> QED  BY <2>1, <2>2
<1>7. ASSUME NEW i \in rest  PROVE \E j \in 1 .. Len(r) : r[j] = kvs[i]
    <2>1. CASE i \in 1 .. idx - 1
        <3>1. i \in 1 .. Len(r) /\ i < idx
            BY <1>1, <1>2, <1>3, <2>1
        <3> QED  BY <1>3, <3>1
    <2>2. CASE i \in idx + cnt .. n
        <3>1. i + k - cnt \in 1 .. Len(r) /\ ~(i + k - cnt < idx) /\ ~(i + k - cnt < idx + k) /\ (i + k - cnt) - k + cnt = i
            BY <1>1, <1>2, <1>3, <2>2
        <3>2. r[i + k - cnt] = kvs[i]
            BY <1>3, <3>1
        <3> QED  BY <3>1, <3>2
    <2> QED  BY <2>1, <2>2
<1>8. {r[j] : j \in 1 .. Len(r)} = {mid[j] : j \in 1 .. k} \cup {kvs[j] : j \in rest}
    <2> HIDE DEF rest
    <2> QED  BY <1>5, <1>6, <1>7
<1> QED  BY <1>4, <1>8 DEF r, k, n, kvs, Others, ReplacedHas

\* A key is at the position that node_lookup_le returns, or not in the node.
LEMMA HasKeyExact ==
    ASSUME NEW Child, NEW node \in NodeOf(Child), Ascending(node.kvs), NEW key \in Keys
    PROVE  LET idx == node_lookup_le(node, key)
               n == Len(node.kvs)
           IN  /\ idx \in 0 .. n
               /\ \A j \in 1 .. n : node.kvs[j].key \in Nat
               /\ \A j \in 1 .. idx - 1 : node.kvs[j].key < key
               /\ \A j \in idx + 1 .. n : key < node.kvs[j].key
               /\ HasKeyAt(node, idx, key) => idx > 0 /\ node.kvs[idx].key = key
               /\ ~HasKeyAt(node, idx, key) => (idx > 0 => node.kvs[idx].key < key)
<1> DEFINE idx == node_lookup_le(node, key)
           n == Len(node.kvs)
           K(j) == node.kvs[j].key
<1>1. n \in Nat /\ key \in Nat /\ \A j \in 1 .. n : K(j) \in Nat
    <2>1. n \in Nat /\ \A j \in 1 .. n : node.kvs[j] \in EntryOf(Child)
        BY NodeFacts
    <2>2. ASSUME NEW j \in 1 .. n  PROVE K(j) \in Nat
        BY <2>1, KeyNat
    <2>3. key \in Nat
        BY EntryAssumption
    <2> QED  BY <2>1, <2>2, <2>3
<1>2. idx \in 0 .. n /\ \A j \in 1 .. n : j <= idx <=> K(j) <= key
    BY LookupExact
<1>3. \A i, j \in 1 .. n : i < j => K(i) < K(j)
    BY DEF Ascending
<1>4. HasKeyAt(node, idx, key) <=> idx > 0 /\ K(idx) = key
    BY DEF HasKeyAt
<1> HIDE DEF idx, n, K
<1>5. ASSUME NEW j \in 1 .. idx - 1  PROVE K(j) < key
    <2>1. j \in 1 .. n /\ idx \in 1 .. n /\ j < idx /\ idx <= idx
        BY <1>1, <1>2
    <2>2. K(j) < K(idx) /\ K(idx) <= key /\ K(j) \in Nat /\ K(idx) \in Nat
        BY <1>1, <1>2, <1>3, <2>1
    <2> QED  BY <1>1, <2>2
<1>6. ASSUME NEW j \in idx + 1 .. n  PROVE key < K(j)
    <2>1. j \in 1 .. n /\ ~(j <= idx)
        BY <1>1, <1>2
    <2>2. ~(K(j) <= key) /\ K(j) \in Nat
        BY <1>1, <1>2, <2>1
    <2> QED  BY <1>1, <2>2
<1>7. ASSUME ~HasKeyAt(node, idx, key), idx > 0  PROVE K(idx) < key
    <2>1. idx \in 1 .. n /\ idx <= idx
        BY <1>1, <1>2, <1>7
    <2>2. K(idx) <= key /\ K(idx) # key /\ K(idx) \in Nat
        BY <1>1, <1>2, <1>4, <1>7, <2>1
    <2> QED  BY <1>1, <2>2
<1>8. \A j \in 1 .. n : K(j) \in Nat
    BY <1>1
<1> QED  BY <1>2, <1>4, <1>5, <1>6, <1>7, <1>8 DEF idx, n, K

\* A leaf keeps its keys in order, has the new value under the key, and every
\* other entry as it was.
SetExactly(old, new, entry) ==
    /\ Ascending(new)
    /\ ToSet(new) = {e \in ToSet(old) : e.key # entry.key} \cup {entry}

\* tree_insert on a leaf sets the key and nothing else, and the leaf stays in
\* order. As long as the key is not below the leaf's first key, which is the
\* key of the link it was found by, the first key stays, and so does the link's.
THEOREM LeafSetExact ==
    ASSUME NEW Child, Nil \in Child, NEW node \in NodeOf(Child), Ascending(node.kvs),
           NEW key \in Keys, NEW val \in Vals
    PROVE  /\ SetExactly(node.kvs, leaf_set(node, key, val).kvs, Entry(key, val, Nil))
           /\ node.kvs # <<>> /\ FirstKey(node) <= key =>
                /\ FirstKey(leaf_set(node, key, val)) = FirstKey(node)
                /\ Fits(node) => Splits(Child, leaf_set(node, key, val))
<1> DEFINE kvs == node.kvs
           n == Len(kvs)
           S == Seq(EntryOf(Child))
           K(j) == kvs[j].key
           idx == node_lookup_le(node, key)
           entry == Entry(key, val, Nil)
           new == leaf_set(node, key, val)
           mid == <<entry>>
<1>1. kvs \in S /\ n \in Nat /\ (\A j \in 1 .. n : kvs[j] \in EntryOf(Child)) /\ DOMAIN kvs = 1 .. n
    BY NodeFacts, LenProperties
<1>2. /\ idx \in 0 .. n /\ (\A j \in 1 .. n : K(j) \in Nat)
      /\ (\A j \in 1 .. idx - 1 : K(j) < key) /\ (\A j \in idx + 1 .. n : key < K(j))
      /\ HasKeyAt(node, idx, key) => idx > 0 /\ K(idx) = key
      /\ ~HasKeyAt(node, idx, key) => (idx > 0 => K(idx) < key)
    BY HasKeyExact
<1>3. entry \in EntryOf(Child) /\ entry.key = key /\ key \in Nat
    BY EntryAssumption DEF Entry, EntryOf
<1>4. new = IF HasKeyAt(node, idx, key) THEN leaf_update(node, idx, entry) ELSE leaf_insert(node, idx + 1, entry)
    BY DEF leaf_set
<1>5. ToSet(kvs) = {kvs[j] : j \in 1 .. n}
    BY <1>1 DEF ToSet
<1>6. mid \in S /\ Len(mid) = 1 /\ mid[1] = entry
    BY <1>3
<1>7. Ascending(mid)
    <2> HIDE DEF mid
    <2> QED  BY <1>6 DEF Ascending
<1>8. ToSet(mid) = {entry} /\ {mid[j] : j \in 1 .. Len(mid)} = {entry}
    <2> HIDE DEF mid
    <2>1. DOMAIN mid = 1 .. Len(mid)
        BY <1>6, LenProperties
    <2> QED  BY <1>6, <2>1 DEF ToSet
<1>9. CASE HasKeyAt(node, idx, key)
    <2>1. idx \in 1 .. n /\ idx \in 1 .. n + 1 /\ 1 \in 0 .. n + 1 - idx
        <3> HIDE DEF idx, n
        <3> QED  BY <1>1, <1>2, <1>9
    <2>2. CanReplace(Child, node, TRUE, idx, 1, mid)
        BY <1>6, <2>1 DEF CanReplace
    <2>3. new = Replaced(TRUE, kvs, idx, 1, mid)
        BY <1>3, <1>4, <1>9, <2>1, AreReplaced
    <2> HIDE DEF mid
    <2>4. Between(kvs, idx, 1, mid)
        <3>1. idx > 1 => K(idx - 1) < key
            <4> HIDE DEF idx, n, K
            <4> QED  BY <1>2, <2>1
        <3>2. idx + 1 <= n => key < K(idx + 1)
            <4> HIDE DEF idx, n, K
            <4> QED  BY <1>1, <1>2, <2>1
        <3>3. \A j \in 1 .. Len(mid) : mid[j].key = key
            BY <1>3, <1>6
        <3> QED  BY <3>1, <3>2, <3>3 DEF Between
    <2>5. Ascending(new.kvs)
        BY <1>7, <2>2, <2>3, <2>4, ReplacedOrder
    <2>6. ToSet(new.kvs) = {entry} \cup {kvs[j] : j \in (1 .. idx - 1) \cup (idx + 1 .. n)}
        <3>1. ToSet(new.kvs) = {mid[j] : j \in 1 .. Len(mid)} \cup Others(kvs, idx, 1)
            <4>1. ReplacedHas(node, TRUE, idx, 1, mid)
                BY <2>2, ReplacedSet
            <4> QED  BY <2>3, <4>1, Zenon DEF ReplacedHas
        <3> QED  BY <1>8, <3>1 DEF Others
    <2>7. \A j \in 1 .. n : j \in (1 .. idx - 1) \cup (idx + 1 .. n) <=> K(j) # key
        <3> SUFFICES ASSUME NEW j \in 1 .. n  PROVE j \in (1 .. idx - 1) \cup (idx + 1 .. n) <=> K(j) # key
            OBVIOUS
        <3> HIDE DEF idx, n, K
        <3>1. (j \in 1 .. idx - 1 => K(j) < key) /\ (j \in idx + 1 .. n => key < K(j)) /\ K(j) \in Nat
            BY <1>2
        <3>2. j = idx => K(j) = key
            BY <1>2, <1>9
        <3>3. j = idx \/ j \in 1 .. idx - 1 \/ j \in idx + 1 .. n
            BY <1>1, <2>1
        <3>4. j = idx => ~(j \in (1 .. idx - 1) \cup (idx + 1 .. n))
            BY <1>1, <2>1
        <3> QED  BY <1>3, <3>1, <3>2, <3>3, <3>4
    <2>8. (1 .. idx - 1) \cup (idx + 1 .. n) \subseteq 1 .. n
        <3> HIDE DEF idx, n
        <3> QED  BY <1>1, <2>1
    <2>9. {kvs[j] : j \in (1 .. idx - 1) \cup (idx + 1 .. n)} = {e \in ToSet(kvs) : e.key # key}
        <3> DEFINE rest == (1 .. idx - 1) \cup (idx + 1 .. n)
        <3>1. rest \subseteq 1 .. n /\ \A j \in 1 .. n : j \in rest <=> kvs[j].key # key
            BY <2>7, <2>8
        <3> HIDE DEF rest, n, kvs
        <3>2. {kvs[j] : j \in rest} = {e \in {kvs[j] : j \in 1 .. n} : e.key # key}
            BY <3>1
        <3> QED  BY <1>5, <3>2 DEF rest
    <2>10. SetExactly(kvs, new.kvs, entry)
        BY <1>3, <2>5, <2>6, <2>9 DEF SetExactly
    <2>11. new.kvs[1].key = K(1)
        <3> DEFINE r == new.kvs
        <3>1. Len(r) = n - 1 + 1 /\ \A j \in 1 .. Len(r) : r[j] = IF j < idx THEN kvs[j] ELSE IF j < idx + 1 THEN mid[j - idx + 1] ELSE kvs[j - 1 + 1]
            <4>1. ReplacedIs(Child, node, TRUE, idx, 1, mid)
                BY <2>2, ReplacedAt
            <4> QED  BY <1>6, <2>3, <4>1, Zenon DEF ReplacedIs
        <3> HIDE DEF r, idx, n, kvs
        <3>2. 1 \in 1 .. Len(r)
            BY <1>1, <2>1, <3>1
        <3>3. CASE idx = 1
            <4>1. r[1] = mid[1]
                BY <3>1, <3>2, <3>3
            <4> QED  BY <1>2, <1>3, <1>6, <1>9, <3>3, <4>1 DEF r
        <3>4. CASE 1 < idx
            <4>1. r[1] = kvs[1]
                BY <3>1, <3>2, <3>4
            <4> QED  BY <4>1 DEF r
        <3> QED  BY <1>1, <2>1, <3>3, <3>4
    <2>12. Fits(node) => Splits(Child, new)
        BY <1>3, <1>4, <1>9, <2>1, InsertSplits
    <2> QED  BY <2>10, <2>11, <2>12 DEF FirstKey
<1>10. CASE ~HasKeyAt(node, idx, key)
    <2>1. idx + 1 \in 1 .. n + 1 /\ 0 \in 0 .. n + 1 - (idx + 1)
        <3> HIDE DEF idx, n
        <3> QED  BY <1>1, <1>2
    <2>2. CanReplace(Child, node, TRUE, idx + 1, 0, mid)
        BY <1>6, <2>1 DEF CanReplace
    <2>3. new = Replaced(TRUE, kvs, idx + 1, 0, mid)
        BY <1>3, <1>4, <1>10, <2>1, AreReplaced
    <2> HIDE DEF mid
    <2>4. Between(kvs, idx + 1, 0, mid)
        <3>1. idx + 1 > 1 => K((idx + 1) - 1) < key
            <4> HIDE DEF idx, n, K
            <4>1. (idx + 1) - 1 = idx /\ (idx + 1 > 1 => idx > 0)
                BY <1>1, <1>2
            <4> QED  BY <1>2, <1>10, <4>1
        <3>2. (idx + 1) + 0 <= n => key < K((idx + 1) + 0)
            <4> HIDE DEF idx, n, K
            <4> QED  BY <1>1, <1>2, <2>1
        <3>3. \A j \in 1 .. Len(mid) : mid[j].key = key
            BY <1>3, <1>6
        <3> QED  BY <3>1, <3>2, <3>3 DEF Between
    <2>5. Ascending(new.kvs)
        BY <1>7, <2>2, <2>3, <2>4, ReplacedOrder
    <2>6. ToSet(new.kvs) = {entry} \cup {kvs[j] : j \in (1 .. (idx + 1) - 1) \cup ((idx + 1) + 0 .. n)}
        <3>1. ToSet(new.kvs) = {mid[j] : j \in 1 .. Len(mid)} \cup Others(kvs, idx + 1, 0)
            <4>1. ReplacedHas(node, TRUE, idx + 1, 0, mid)
                BY <2>2, ReplacedSet
            <4> QED  BY <2>3, <4>1, Zenon DEF ReplacedHas
        <3> QED  BY <1>8, <3>1 DEF Others
    <2>7. (1 .. (idx + 1) - 1) \cup ((idx + 1) + 0 .. n) = 1 .. n
        <3> HIDE DEF idx, n
        <3> QED  BY <1>1, <1>2, <2>1
    <2>8. \A j \in 1 .. n : K(j) # key
        <3> SUFFICES ASSUME NEW j \in 1 .. n  PROVE K(j) # key
            OBVIOUS
        <3> HIDE DEF idx, n, K
        <3>1. (j \in 1 .. idx - 1 => K(j) < key) /\ (j \in idx + 1 .. n => key < K(j)) /\ K(j) \in Nat
            BY <1>2
        <3>2. j = idx => K(j) < key
            BY <1>2, <1>10
        <3>3. j = idx \/ j \in 1 .. idx - 1 \/ j \in idx + 1 .. n
            BY <1>1, <1>2
        <3> QED  BY <1>3, <3>1, <3>2, <3>3
    <2>9. {kvs[j] : j \in 1 .. n} = {e \in ToSet(kvs) : e.key # key}
        <3> HIDE DEF n, kvs
        <3> QED  BY <1>5, <2>8
    <2>10. SetExactly(kvs, new.kvs, entry)
        BY <1>3, <2>5, <2>6, <2>7, <2>9 DEF SetExactly
    <2>11. ASSUME kvs # <<>>, FirstKey(node) <= key  PROVE idx > 0 /\ new.kvs[1].key = K(1)
        <3>1. n >= 1 /\ K(1) <= key
            BY <1>1, <2>11, EmptySeq DEF FirstKey
        <3>2. idx > 0
            <4> HIDE DEF idx, n, K
            <4> SUFFICES ASSUME idx = 0  PROVE FALSE
                BY <1>2
            <4>1. 1 \in idx + 1 .. n /\ 1 \in 1 .. n
                BY <1>1, <3>1
            <4>2. key < K(1) /\ K(1) \in Nat
                BY <1>2, <4>1
            <4> QED  BY <1>3, <3>1, <4>2
        <3> DEFINE r == new.kvs
        <3>3. Len(r) = n - 0 + Len(mid) /\ \A j \in 1 .. Len(r) : j < idx + 1 => r[j] = kvs[j]
            <4>1. ReplacedIs(Child, node, TRUE, idx + 1, 0, mid)
                BY <2>2, ReplacedAt
            <4> QED  BY <2>3, <4>1, Zenon DEF ReplacedIs
        <3> HIDE DEF r, idx, n, kvs
        <3>4. 1 \in 1 .. Len(r) /\ 1 < idx + 1
            BY <1>1, <1>2, <1>6, <3>2, <3>3
        <3>5. r[1] = kvs[1]
            BY <3>3, <3>4
        <3> QED  BY <3>2, <3>5 DEF r
    <2>12. ASSUME idx > 0, Fits(node)  PROVE Splits(Child, new)
        <3>1. idx \in 1 .. n
            <4> HIDE DEF idx, n
            <4> QED  BY <1>1, <1>2, <2>12
        <3> QED  BY <1>3, <1>4, <1>10, <2>12, <3>1, InsertSplits
    <2> QED  BY <2>10, <2>11, <2>12 DEF FirstKey
<1> QED  BY <1>9, <1>10

\* tree_delete on a leaf takes the key out and nothing else, and finds it
\* whenever the leaf has it.
THEOREM LeafDeleteExact ==
    ASSUME NEW Child, NEW node \in NodeOf(Child), Ascending(node.kvs), NEW key \in Keys
    PROVE  LET idx == node_lookup_le(node, key)
               left == {e \in ToSet(node.kvs) : e.key # key}
           IN  IF HasKeyAt(node, idx, key)
               THEN Ascending(leaf_delete(node, idx).kvs) /\ ToSet(leaf_delete(node, idx).kvs) = left
               ELSE left = ToSet(node.kvs)
<1> DEFINE kvs == node.kvs
           n == Len(kvs)
           K(j) == kvs[j].key
           idx == node_lookup_le(node, key)
           rest == (1 .. idx - 1) \cup (idx + 1 .. n)
           left == {e \in ToSet(kvs) : e.key # key}
           mid == <<>>
<1>1. n \in Nat /\ DOMAIN kvs = 1 .. n /\ key \in Nat
    BY NodeFacts, LenProperties, EntryAssumption
<1>2. /\ idx \in 0 .. n /\ (\A j \in 1 .. n : K(j) \in Nat)
      /\ (\A j \in 1 .. idx - 1 : K(j) < key) /\ (\A j \in idx + 1 .. n : key < K(j))
      /\ HasKeyAt(node, idx, key) => idx > 0 /\ K(idx) = key
      /\ ~HasKeyAt(node, idx, key) => (idx > 0 => K(idx) < key)
    BY HasKeyExact
<1>3. ToSet(kvs) = {kvs[j] : j \in 1 .. n}
    BY <1>1 DEF ToSet
<1>4. \A j \in 1 .. n : j # idx => j \in rest /\ K(j) # key
    <2> SUFFICES ASSUME NEW j \in 1 .. n, j # idx  PROVE j \in rest /\ K(j) # key
        OBVIOUS
    <2> HIDE DEF idx, n, K
    <2>1. (j \in 1 .. idx - 1 => K(j) < key) /\ (j \in idx + 1 .. n => key < K(j)) /\ K(j) \in Nat
        BY <1>2
    <2>2. j \in 1 .. idx - 1 \/ j \in idx + 1 .. n
        BY <1>1, <1>2
    <2> QED  BY <1>1, <2>1, <2>2
<1>5. CASE HasKeyAt(node, idx, key)
    <2>1. idx \in 1 .. n /\ idx \in 1 .. n + 1 /\ 1 \in 0 .. n + 1 - idx /\ rest \subseteq 1 .. n /\ idx \notin rest
        <3> HIDE DEF idx, n
        <3> QED  BY <1>1, <1>2, <1>5
    <2>2. mid \in Seq(EntryOf(Child)) /\ Len(mid) = 0
        BY EmptySeq
    <2>3. leaf_delete(node, idx) = Replaced(TRUE, kvs, idx, 1, mid)
        BY <2>1, AreReplaced
    <2> HIDE DEF mid
    <2>4. CanReplace(Child, node, TRUE, idx, 1, mid)
        BY <2>1, <2>2 DEF CanReplace
    <2>5. Between(kvs, idx, 1, mid) /\ Ascending(mid)
        <3>1. ~ \E j \in 1 .. Len(mid) : TRUE
            BY <2>2
        <3> QED  BY <3>1 DEF Between, Ascending
    <2>6. Ascending(leaf_delete(node, idx).kvs)
        BY <2>3, <2>4, <2>5, ReplacedOrder
    <2>7. ToSet(leaf_delete(node, idx).kvs) = {kvs[j] : j \in rest}
        <3>1. ReplacedHas(node, TRUE, idx, 1, mid)
            BY <2>4, ReplacedSet
        <3>2. ToSet(leaf_delete(node, idx).kvs) = {mid[j] : j \in 1 .. Len(mid)} \cup {kvs[j] : j \in rest}
            BY <2>3, <3>1, Zenon DEF ReplacedHas, Others
        <3>3. {mid[j] : j \in 1 .. Len(mid)} = {}
            BY <2>2
        <3> QED  BY <3>2, <3>3
    <2>8. \A j \in 1 .. n : j \in rest <=> K(j) # key
        <3> HIDE DEF rest, idx, n, K
        <3> QED  BY <1>2, <1>4, <1>5, <2>1
    <2>9. {kvs[j] : j \in rest} = left
        <3>1. rest \subseteq 1 .. n /\ \A j \in 1 .. n : j \in rest <=> kvs[j].key # key
            BY <2>1, <2>8
        <3> HIDE DEF rest, n, kvs
        <3>2. {kvs[j] : j \in rest} = {e \in {kvs[j] : j \in 1 .. n} : e.key # key}
            BY <3>1
        <3> QED  BY <1>3, <3>2
    <2> QED  BY <1>5, <2>6, <2>7, <2>9
<1>6. CASE ~HasKeyAt(node, idx, key)
    <2>1. \A j \in 1 .. n : kvs[j].key # key
        <3>1. \A j \in 1 .. n : K(j) # key
            <4> SUFFICES ASSUME NEW j \in 1 .. n  PROVE K(j) # key
                OBVIOUS
            <4> HIDE DEF idx, n, K, rest
            <4>1. CASE j = idx
                BY <1>1, <1>2, <1>6, <4>1
            <4> QED  BY <1>4, <4>1
        <3> QED  BY <3>1
    <2>2. left = ToSet(kvs)
        <3> HIDE DEF n, kvs
        <3> QED  BY <1>3, <2>1
    <2> QED  BY <1>6, <2>2
<1> QED  BY <1>5, <1>6

\* A link to what a child became, or two links to its halves, leave an inner
\* node in order: what was below the old link has no key below its key or from
\* the next link's on.
THEOREM LinksOrdered ==
    ASSUME NEW Child, NEW node \in NodeOf(Child), Ascending(node.kvs), NEW idx \in 1 .. Len(node.kvs),
           NEW c \in Linkable(Child), NEW d \in Linkable(Child), node.kvs[idx].key <= FirstKey(c)
    PROVE  /\ (idx < Len(node.kvs) => FirstKey(c) < node.kvs[idx + 1].key) =>
                  Ascending(node_replace_child_n(node, idx, <<c>>).kvs)
           /\ FirstKey(c) < FirstKey(d) /\ (idx < Len(node.kvs) => FirstKey(d) < node.kvs[idx + 1].key) =>
                  Ascending(node_replace_child_n(node, idx, <<c, d>>).kvs)
<1> DEFINE kvs == node.kvs
           n == Len(kvs)
           S == Seq(EntryOf(Child))
           K(j) == kvs[j].key
           kc == FirstKey(c)
           kd == FirstKey(d)
           one == Links(<<c>>)
           two == Links(<<c, d>>)
<1>1. n \in Nat /\ (\A j \in 1 .. n : K(j) \in Nat) /\ (\A i, j \in 1 .. n : i < j => K(i) < K(j)) /\ idx \in 1 .. n
    <2>1. n \in Nat /\ \A j \in 1 .. n : kvs[j] \in EntryOf(Child)
        BY NodeFacts
    <2>2. \A j \in 1 .. n : K(j) \in Nat
        BY <2>1, KeyNat
    <2> QED  BY <2>1, <2>2 DEF Ascending
<1>2. one \in S /\ two \in S /\ DOMAIN one = 1 .. 1 /\ DOMAIN two = 1 .. 2
    <2>1. one \in S /\ two \in S
        BY LinkSizes
    <2>2. DOMAIN <<c>> = 1 .. 1 /\ DOMAIN <<c, d>> = 1 .. 2
        OBVIOUS
    <2> QED  BY <2>1, <2>2 DEF Links
<1>3. one[1].key = kc /\ two[1].key = kc /\ two[2].key = kd
    <2>1. one[1] = Link(c) /\ two[1] = Link(c) /\ two[2] = Link(d)
        BY DEF Links
    <2>2. Link(c).key = kc /\ Link(d).key = kd
        BY DEF Link, Entry, FirstKey
    <2> QED  BY <2>1, <2>2
<1>4. Len(one) = 1 /\ Len(two) = 2
    <2>1. \A x \in Nat, y \in Nat \ {0} : 1 .. x = 1 .. y => x = y
        <3> SUFFICES ASSUME NEW x \in Nat, NEW y \in Nat \ {0}, 1 .. x = 1 .. y  PROVE x = y
            OBVIOUS
        <3>1. y \in 1 .. y
            OBVIOUS
        <3>2. y <= x /\ 1 <= x
            BY <3>1
        <3>3. x \in 1 .. x
            BY <3>2
        <3> QED  BY <3>2, <3>3
    <2> HIDE DEF one, two
    <2>2. Len(one) \in Nat /\ 1 .. Len(one) = 1 .. 1 /\ Len(two) \in Nat /\ 1 .. Len(two) = 1 .. 2
        BY <1>2, LenProperties
    <2>3. 1 \in Nat \ {0} /\ 2 \in Nat \ {0}
        OBVIOUS
    <2> QED  BY <2>1, <2>2, <2>3, Zenon
<1>5. kc \in Nat /\ kd \in Nat /\ K(idx) <= kc
    <2>1. kc \in Keys \cup {0} /\ kd \in Keys \cup {0}
        BY DEF Linkable
    <2>2. K(idx) <= kc
        OBVIOUS
    <2> HIDE DEF kc, kd
    <2>3. kc \in Nat /\ kd \in Nat
        BY <2>1, EntryAssumption
    <2> QED  BY <2>2, <2>3
<1>6. idx \in 1 .. n + 1 /\ 1 \in 0 .. n + 1 - idx /\ (idx < n <=> idx + 1 <= n)
    <2> HIDE DEF n
    <2> QED  BY <1>1
<1>7. idx > 1 => K(idx - 1) < kc
    <2> HIDE DEF n, K, kc
    <2> SUFFICES ASSUME idx > 1  PROVE K(idx - 1) < kc
        OBVIOUS
    <2>1. idx - 1 \in 1 .. n /\ idx - 1 < idx
        BY <1>1
    <2>2. K(idx - 1) < K(idx) /\ K(idx - 1) \in Nat /\ K(idx) \in Nat
        BY <1>1, <2>1
    <2> QED  BY <1>5, <2>2
<1>8. ASSUME idx < n => kc < K(idx + 1)
      PROVE  Ascending(node_replace_child_n(node, idx, <<c>>).kvs)
    <2>1. node_replace_child_n(node, idx, <<c>>) = Replaced(FALSE, kvs, idx, 1, one)
        BY AreReplaced DEF node_replace_child_n
    <2> HIDE DEF one
    <2>2. CanReplace(Child, node, FALSE, idx, 1, one)
        BY <1>2, <1>6 DEF CanReplace
    <2>3. Ascending(one)
        BY <1>4 DEF Ascending
    <2>4. Between(kvs, idx, 1, one)
        <3>1. \A j \in 1 .. Len(one) : one[j].key = kc
            BY <1>3, <1>4
        <3> QED  BY <1>6, <1>7, <1>8, <3>1 DEF Between
    <2> QED  BY <2>1, <2>2, <2>3, <2>4, ReplacedOrder
<1>9. ASSUME kc < kd, idx < n => kd < K(idx + 1)
      PROVE  Ascending(node_replace_child_n(node, idx, <<c, d>>).kvs)
    <2>1. node_replace_child_n(node, idx, <<c, d>>) = Replaced(FALSE, kvs, idx, 1, two)
        BY AreReplaced DEF node_replace_child_n
    <2> HIDE DEF two
    <2>2. CanReplace(Child, node, FALSE, idx, 1, two)
        BY <1>2, <1>6 DEF CanReplace
    <2>3. Ascending(two)
        <3>1. ASSUME NEW i \in 1 .. 2, NEW j \in 1 .. 2, i < j  PROVE two[i].key < two[j].key
            <4>1. i = 1 /\ j = 2
                BY <3>1
            <4> QED  BY <1>3, <1>9, <4>1
        <3> QED  BY <1>4, <3>1 DEF Ascending
    <2>4. Between(kvs, idx, 1, two)
        <3> HIDE DEF n, K, kc, kd
        <3>1. ASSUME NEW j \in 1 .. 2  PROVE two[j].key \in {kc, kd}
            <4>1. j = 1 \/ j = 2
                OBVIOUS
            <4> QED  BY <1>3, <4>1
        <3>2. idx > 1 => K(idx - 1) < kc /\ K(idx - 1) < kd
            <4> SUFFICES ASSUME idx > 1  PROVE K(idx - 1) < kc /\ K(idx - 1) < kd
                OBVIOUS
            <4>1. idx - 1 \in 1 .. n
                BY <1>1
            <4>2. K(idx - 1) \in Nat
                BY <1>1, <4>1
            <4> QED  BY <1>5, <1>7, <1>9, <4>2
        <3>3. idx + 1 <= n => kc < K(idx + 1) /\ kd < K(idx + 1)
            <4> SUFFICES ASSUME idx + 1 <= n  PROVE kc < K(idx + 1) /\ kd < K(idx + 1)
                OBVIOUS
            <4>1. idx + 1 \in 1 .. n /\ idx < n
                BY <1>1, <1>6
            <4>2. K(idx + 1) \in Nat
                BY <1>1, <4>1
            <4> QED  BY <1>5, <1>9, <4>1, <4>2
        <3>4. ASSUME NEW j \in 1 .. Len(two)
              PROVE  (idx > 1 => K(idx - 1) < two[j].key) /\ (idx + 1 <= n => two[j].key < K(idx + 1))
            BY <1>4, <3>1, <3>2, <3>3
        <3> QED  BY <3>4 DEF Between, K, n
    <2> QED  BY <2>1, <2>2, <2>3, <2>4, ReplacedOrder
<1> QED  BY <1>8, <1>9

-----------------------------------------------------------------------------
(* The tree: the nodes visited and the levels below a node *)

\* The loop of Visited.
VisitLoop(f, tree, key, n) == f = [i \in 0 .. n |-> IF i = 0 THEN tree ELSE f[i - 1].kvs[node_lookup_le(f[i - 1], key)].child]

LEMMA VisitLoops ==
    ASSUME NEW tree, NEW key, NEW n \in Nat
    PROVE  \E f : VisitLoop(f, tree, key, n) /\ Visited(tree, key, n) = f[n]
<1> DEFINE T == {m \in 0 .. n : ~ \E f : VisitLoop(f, tree, key, m)}
           base == tree
           pass(x, i) == x.kvs[node_lookup_le(x, key)].child
           Loop(f, m) == f = [i \in 0 .. m |-> IF i = 0 THEN base ELSE pass(f[i - 1], i)]
<1>0. \A f, m : VisitLoop(f, tree, key, m) <=> Loop(f, m)
    BY DEF VisitLoop
<1>1. \E f : VisitLoop(f, tree, key, n)
    <2> HIDE DEF pass, base
    <2> SUFFICES ASSUME T # {}  PROVE FALSE
        <3>1. n \in 0 .. n
            OBVIOUS
        <3> QED  BY <3>1
    <2>1. 0 \notin T
        <3>1. Loop([i \in 0 .. 0 |-> base], 0)
            OBVIOUS
        <3> QED  BY <1>0, <3>1
    <2>2. PICK m \in T : m \in 1 .. n /\ m - 1 \in 0 .. n /\ m - 1 \notin T
        BY <2>1, FirstFailure
    <2>3. PICK f : Loop(f, m - 1)
        BY <1>0, <2>2
    <2> DEFINE g == [i \in 0 .. m |-> IF i = m THEN pass(f[m - 1], m) ELSE f[i]]
    <2>4. ASSUME NEW i \in 0 .. m  PROVE g[i] = IF i = 0 THEN base ELSE pass(g[i - 1], i)
        <3>1. CASE i = m
            BY <2>2, <3>1
        <3>2. CASE i # m
            <4>1. i \in 0 .. m - 1 /\ i - 1 # m /\ g[i] = f[i]
                BY <2>2, <3>2
            <4>2. f[i] = IF i = 0 THEN base ELSE pass(f[i - 1], i)
                BY <2>3, <4>1
            <4>3. i # 0 => g[i - 1] = f[i - 1]
                BY <2>2, <4>1
            <4> QED  BY <4>1, <4>2, <4>3
        <3> QED  BY <3>1, <3>2
    <2>5. Loop(g, m)
        BY <2>4
    <2> QED  BY <1>0, <2>2, <2>5
<1>2. Visited(tree, key, n) = (CHOOSE f : Loop(f, n))[n]
    BY DEF Visited
<1>3. Loop(CHOOSE f : Loop(f, n), n)
    <2> HIDE DEF Loop
    <2> QED  BY <1>0, <1>1
<1> QED  BY <1>0, <1>2, <1>3

\* Each node visited is the child to which the one before it leads.
LEMMA VisitNext ==
    ASSUME NEW tree, NEW key
    PROVE  /\ Visited(tree, key, 0) = tree
           /\ \A n \in Nat : Visited(tree, key, n + 1) = Visited(tree, key, n).kvs[node_lookup_le(Visited(tree, key, n), key)].child
<1> DEFINE base == tree
           pass(x, i) == x.kvs[node_lookup_le(x, key)].child
<1>1. ASSUME NEW m \in Nat, NEW f, VisitLoop(f, tree, key, m)
      PROVE  f[0] = base /\ \A i \in 1 .. m : f[i] = pass(f[i - 1], i)
    <2>1. f = [i \in 0 .. m |-> IF i = 0 THEN base ELSE pass(f[i - 1], i)]
        BY <1>1 DEF VisitLoop
    <2> HIDE DEF base, pass
    <2> QED  BY <2>1
<1>2. Visited(tree, key, 0) = base
    <2>1. PICK f : VisitLoop(f, tree, key, 0) /\ Visited(tree, key, 0) = f[0]
        BY VisitLoops
    <2> HIDE DEF base, pass
    <2> QED  BY <1>1, <2>1
<1>3. ASSUME NEW n \in Nat  PROVE Visited(tree, key, n + 1) = pass(Visited(tree, key, n), n + 1)
    <2> HIDE DEF base, pass
    <2>1. n + 1 \in Nat
        OBVIOUS
    <2>2. PICK f : VisitLoop(f, tree, key, n + 1) /\ Visited(tree, key, n + 1) = f[n + 1]
        BY <2>1, VisitLoops
    <2>3. PICK g : VisitLoop(g, tree, key, n) /\ Visited(tree, key, n) = g[n]
        BY VisitLoops
    <2>4. f[0] = base /\ \A i \in 1 .. n + 1 : f[i] = pass(f[i - 1], i)
        BY <1>1, <2>1, <2>2
    <2>5. g[0] = base /\ \A i \in 1 .. n : g[i] = pass(g[i - 1], i)
        BY <1>1, <2>3
    <2> DEFINE T == {i \in 0 .. n : f[i] # g[i]}
    <2>6. T = {}
        <3> SUFFICES ASSUME T # {}  PROVE FALSE
            OBVIOUS
        <3>1. 0 \notin T
            BY <2>4, <2>5
        <3>2. PICK i \in T : i \in 1 .. n /\ i - 1 \in 0 .. n /\ i - 1 \notin T
            BY <3>1, FirstFailure
        <3>3. i \in 1 .. n + 1 /\ f[i - 1] = g[i - 1]
            BY <3>2
        <3> QED  BY <2>4, <2>5, <3>2, <3>3
    <2>7. f[n] = g[n] /\ n + 1 \in 1 .. n + 1 /\ (n + 1) - 1 = n
        BY <2>6
    <2> QED  BY <2>2, <2>3, <2>4, <2>7
<1> QED  BY <1>2, <1>3

\* The loop of Nodes.
NodeLoop(f, tree, n) == f = [i \in 0 .. n |-> IF i = 0 THEN {tree} ELSE UNION {{e.child : e \in ToSet(k.kvs)} : k \in f[i - 1]}]

LEMMA NodeLoops ==
    ASSUME NEW tree, NEW n \in Nat
    PROVE  \E f : NodeLoop(f, tree, n) /\ Nodes(tree, n) = f[n]
<1> DEFINE T == {m \in 0 .. n : ~ \E f : NodeLoop(f, tree, m)}
           base == {tree}
           pass(x, i) == UNION {{e.child : e \in ToSet(k.kvs)} : k \in x}
           Loop(f, m) == f = [i \in 0 .. m |-> IF i = 0 THEN base ELSE pass(f[i - 1], i)]
<1>0. \A f, m : NodeLoop(f, tree, m) <=> Loop(f, m)
    BY DEF NodeLoop
<1>1. \E f : NodeLoop(f, tree, n)
    <2> HIDE DEF pass, base
    <2> SUFFICES ASSUME T # {}  PROVE FALSE
        <3>1. n \in 0 .. n
            OBVIOUS
        <3> QED  BY <3>1
    <2>1. 0 \notin T
        <3>1. Loop([i \in 0 .. 0 |-> base], 0)
            OBVIOUS
        <3> QED  BY <1>0, <3>1
    <2>2. PICK m \in T : m \in 1 .. n /\ m - 1 \in 0 .. n /\ m - 1 \notin T
        BY <2>1, FirstFailure
    <2>3. PICK f : Loop(f, m - 1)
        BY <1>0, <2>2
    <2> DEFINE g == [i \in 0 .. m |-> IF i = m THEN pass(f[m - 1], m) ELSE f[i]]
    <2>4. ASSUME NEW i \in 0 .. m  PROVE g[i] = IF i = 0 THEN base ELSE pass(g[i - 1], i)
        <3>1. CASE i = m
            BY <2>2, <3>1
        <3>2. CASE i # m
            <4>1. i \in 0 .. m - 1 /\ i - 1 # m /\ g[i] = f[i]
                BY <2>2, <3>2
            <4>2. f[i] = IF i = 0 THEN base ELSE pass(f[i - 1], i)
                BY <2>3, <4>1
            <4>3. i # 0 => g[i - 1] = f[i - 1]
                BY <2>2, <4>1
            <4> QED  BY <4>1, <4>2, <4>3
        <3> QED  BY <3>1, <3>2
    <2>5. Loop(g, m)
        BY <2>4
    <2> QED  BY <1>0, <2>2, <2>5
<1>2. Nodes(tree, n) = (CHOOSE f : Loop(f, n))[n]
    BY DEF Nodes
<1>3. Loop(CHOOSE f : Loop(f, n), n)
    <2> HIDE DEF Loop
    <2> QED  BY <1>0, <1>1
<1> QED  BY <1>0, <1>2, <1>3

\* Each level has the children of the one above.
LEMMA NodeNext ==
    ASSUME NEW tree
    PROVE  /\ Nodes(tree, 0) = {tree}
           /\ \A n \in Nat : Nodes(tree, n + 1) = UNION {{e.child : e \in ToSet(k.kvs)} : k \in Nodes(tree, n)}
<1> DEFINE base == {tree}
           pass(x, i) == UNION {{e.child : e \in ToSet(k.kvs)} : k \in x}
<1>1. ASSUME NEW m \in Nat, NEW f, NodeLoop(f, tree, m)
      PROVE  f[0] = base /\ \A i \in 1 .. m : f[i] = pass(f[i - 1], i)
    <2>1. f = [i \in 0 .. m |-> IF i = 0 THEN base ELSE pass(f[i - 1], i)]
        BY <1>1 DEF NodeLoop
    <2> HIDE DEF base, pass
    <2> QED  BY <2>1
<1>2. Nodes(tree, 0) = base
    <2>1. PICK f : NodeLoop(f, tree, 0) /\ Nodes(tree, 0) = f[0]
        BY NodeLoops
    <2> HIDE DEF base, pass
    <2> QED  BY <1>1, <2>1
<1>3. ASSUME NEW n \in Nat  PROVE Nodes(tree, n + 1) = pass(Nodes(tree, n), n + 1)
    <2> HIDE DEF base, pass
    <2>1. n + 1 \in Nat
        OBVIOUS
    <2>2. PICK f : NodeLoop(f, tree, n + 1) /\ Nodes(tree, n + 1) = f[n + 1]
        BY <2>1, NodeLoops
    <2>3. PICK g : NodeLoop(g, tree, n) /\ Nodes(tree, n) = g[n]
        BY NodeLoops
    <2>4. f[0] = base /\ \A i \in 1 .. n + 1 : f[i] = pass(f[i - 1], i)
        BY <1>1, <2>1, <2>2
    <2>5. g[0] = base /\ \A i \in 1 .. n : g[i] = pass(g[i - 1], i)
        BY <1>1, <2>3
    <2> DEFINE T == {i \in 0 .. n : f[i] # g[i]}
    <2>6. T = {}
        <3> SUFFICES ASSUME T # {}  PROVE FALSE
            OBVIOUS
        <3>1. 0 \notin T
            BY <2>4, <2>5
        <3>2. PICK i \in T : i \in 1 .. n /\ i - 1 \in 0 .. n /\ i - 1 \notin T
            BY <3>1, FirstFailure
        <3>3. i \in 1 .. n + 1 /\ f[i - 1] = g[i - 1]
            BY <3>2
        <3> QED  BY <2>4, <2>5, <3>2, <3>3
    <2>7. f[n] = g[n] /\ n + 1 \in 1 .. n + 1 /\ (n + 1) - 1 = n
        BY <2>6
    <2> QED  BY <2>2, <2>3, <2>4, <2>7
<1> QED  BY <1>2, <1>3

\* The loop of Ranges.
RangeLoop(f, tree, range, n) == f = [i \in 0 .. n |-> IF i = 0 THEN {<<tree, range>>} ELSE UNION {{<<t[1].kvs[k].child, Below(t[1], k, t[2])>> : k \in DOMAIN t[1].kvs} : t \in f[i - 1]}]

LEMMA RangeLoops ==
    ASSUME NEW tree, NEW range, NEW n \in Nat
    PROVE  \E f : RangeLoop(f, tree, range, n) /\ Ranges(tree, range, n) = f[n]
<1> DEFINE T == {m \in 0 .. n : ~ \E f : RangeLoop(f, tree, range, m)}
           base == {<<tree, range>>}
           pass(x, i) == UNION {{<<t[1].kvs[k].child, Below(t[1], k, t[2])>> : k \in DOMAIN t[1].kvs} : t \in x}
           Loop(f, m) == f = [i \in 0 .. m |-> IF i = 0 THEN base ELSE pass(f[i - 1], i)]
<1>0. \A f, m : RangeLoop(f, tree, range, m) <=> Loop(f, m)
    BY DEF RangeLoop
<1>1. \E f : RangeLoop(f, tree, range, n)
    <2> HIDE DEF pass, base
    <2> SUFFICES ASSUME T # {}  PROVE FALSE
        <3>1. n \in 0 .. n
            OBVIOUS
        <3> QED  BY <3>1
    <2>1. 0 \notin T
        <3>1. Loop([i \in 0 .. 0 |-> base], 0)
            OBVIOUS
        <3> QED  BY <1>0, <3>1
    <2>2. PICK m \in T : m \in 1 .. n /\ m - 1 \in 0 .. n /\ m - 1 \notin T
        BY <2>1, FirstFailure
    <2>3. PICK f : Loop(f, m - 1)
        BY <1>0, <2>2
    <2> DEFINE g == [i \in 0 .. m |-> IF i = m THEN pass(f[m - 1], m) ELSE f[i]]
    <2>4. ASSUME NEW i \in 0 .. m  PROVE g[i] = IF i = 0 THEN base ELSE pass(g[i - 1], i)
        <3>1. CASE i = m
            BY <2>2, <3>1
        <3>2. CASE i # m
            <4>1. i \in 0 .. m - 1 /\ i - 1 # m /\ g[i] = f[i]
                BY <2>2, <3>2
            <4>2. f[i] = IF i = 0 THEN base ELSE pass(f[i - 1], i)
                BY <2>3, <4>1
            <4>3. i # 0 => g[i - 1] = f[i - 1]
                BY <2>2, <4>1
            <4> QED  BY <4>1, <4>2, <4>3
        <3> QED  BY <3>1, <3>2
    <2>5. Loop(g, m)
        BY <2>4
    <2> QED  BY <1>0, <2>2, <2>5
<1>2. Ranges(tree, range, n) = (CHOOSE f : Loop(f, n))[n]
    BY DEF Ranges
<1>3. Loop(CHOOSE f : Loop(f, n), n)
    <2> HIDE DEF Loop
    <2> QED  BY <1>0, <1>1
<1> QED  BY <1>0, <1>2, <1>3

\* The same of the levels with ranges.
LEMMA RangeNext ==
    ASSUME NEW tree, NEW range
    PROVE  /\ Ranges(tree, range, 0) = {<<tree, range>>}
           /\ \A n \in Nat : Ranges(tree, range, n + 1) = UNION {{<<t[1].kvs[k].child, Below(t[1], k, t[2])>> : k \in DOMAIN t[1].kvs} : t \in Ranges(tree, range, n)}
<1> DEFINE base == {<<tree, range>>}
           pass(x, i) == UNION {{<<t[1].kvs[k].child, Below(t[1], k, t[2])>> : k \in DOMAIN t[1].kvs} : t \in x}
<1>1. ASSUME NEW m \in Nat, NEW f, RangeLoop(f, tree, range, m)
      PROVE  f[0] = base /\ \A i \in 1 .. m : f[i] = pass(f[i - 1], i)
    <2>1. f = [i \in 0 .. m |-> IF i = 0 THEN base ELSE pass(f[i - 1], i)]
        BY <1>1 DEF RangeLoop
    <2> HIDE DEF base, pass
    <2> QED  BY <2>1
<1>2. Ranges(tree, range, 0) = base
    <2>1. PICK f : RangeLoop(f, tree, range, 0) /\ Ranges(tree, range, 0) = f[0]
        BY RangeLoops
    <2> HIDE DEF base, pass
    <2> QED  BY <1>1, <2>1
<1>3. ASSUME NEW n \in Nat  PROVE Ranges(tree, range, n + 1) = pass(Ranges(tree, range, n), n + 1)
    <2> HIDE DEF base, pass
    <2>1. n + 1 \in Nat
        OBVIOUS
    <2>2. PICK f : RangeLoop(f, tree, range, n + 1) /\ Ranges(tree, range, n + 1) = f[n + 1]
        BY <2>1, RangeLoops
    <2>3. PICK g : RangeLoop(g, tree, range, n) /\ Ranges(tree, range, n) = g[n]
        BY RangeLoops
    <2>4. f[0] = base /\ \A i \in 1 .. n + 1 : f[i] = pass(f[i - 1], i)
        BY <1>1, <2>1, <2>2
    <2>5. g[0] = base /\ \A i \in 1 .. n : g[i] = pass(g[i - 1], i)
        BY <1>1, <2>3
    <2> DEFINE T == {i \in 0 .. n : f[i] # g[i]}
    <2>6. T = {}
        <3> SUFFICES ASSUME T # {}  PROVE FALSE
            OBVIOUS
        <3>1. 0 \notin T
            BY <2>4, <2>5
        <3>2. PICK i \in T : i \in 1 .. n /\ i - 1 \in 0 .. n /\ i - 1 \notin T
            BY <3>1, FirstFailure
        <3>3. i \in 1 .. n + 1 /\ f[i - 1] = g[i - 1]
            BY <3>2
        <3> QED  BY <2>4, <2>5, <3>2, <3>3
    <2>7. f[n] = g[n] /\ n + 1 \in 1 .. n + 1 /\ (n + 1) - 1 = n
        BY <2>6
    <2> QED  BY <2>2, <2>3, <2>4, <2>7
<1> QED  BY <1>2, <1>3

\* The children of a set of nodes, with and without their ranges.
Own(node) == {e.child : e \in ToSet(node.kvs)}
Kids(S) == UNION {Own(n) : n \in S}
RangesOf(t) == {<<t[1].kvs[k].child, Below(t[1], k, t[2])>> : k \in DOMAIN t[1].kvs}
RangeKids(S) == UNION {RangesOf(t) : t \in S}

LEMMA NodesNext ==
    ASSUME NEW tree
    PROVE  /\ Nodes(tree, 0) = {tree}
           /\ \A n \in Nat : Nodes(tree, n + 1) = Kids(Nodes(tree, n))
BY NodeNext DEF Kids, Own

LEMMA RangesNext ==
    ASSUME NEW tree, NEW range
    PROVE  /\ Ranges(tree, range, 0) = {<<tree, range>>}
           /\ \A n \in Nat : Ranges(tree, range, n + 1) = RangeKids(Ranges(tree, range, n))
BY RangeNext DEF RangeKids, RangesOf

\* What is one level further below a node is below one of its children.
LEMMA NodesShift ==
    ASSUME NEW tree, NEW m \in Nat
    PROVE  Nodes(tree, m + 1) = UNION {Nodes(c, m) : c \in Own(tree)}
<1> DEFINE C == Own(tree)
           Good(i) == Nodes(tree, i + 1) = UNION {Nodes(c, i) : c \in C}
           T == {i \in 0 .. m : ~Good(i)}
<1>1. Kids({tree}) = C
    BY DEF Kids
<1> HIDE DEF C
<1> SUFFICES ASSUME T # {}  PROVE FALSE
    <2>1. m \in 0 .. m
        OBVIOUS
    <2> HIDE DEF Good
    <2>2. Good(m)
        BY <2>1
    <2> QED  BY <2>2 DEF Good, C
<1>2. 0 \notin T
    <2>1. Nodes(tree, 0 + 1) = C
        BY <1>1, NodesNext
    <2>2. \A c : Nodes(c, 0) = {c}
        BY NodesNext
    <2>3. UNION {Nodes(c, 0) : c \in C} = C
        BY <2>2
    <2> QED  BY <2>1, <2>3
<1>3. PICK i \in T : i \in 1 .. m /\ i - 1 \in 0 .. m /\ i - 1 \notin T
    BY <1>2, FirstFailure
<1>4. i - 1 \in Nat /\ i \in Nat /\ (i - 1) + 1 = i
    BY <1>3
<1>5. Nodes(tree, i) = UNION {Nodes(c, i - 1) : c \in C}
    BY <1>3, <1>4
<1>6. Nodes(tree, i + 1) = Kids(Nodes(tree, i)) /\ \A c : Nodes(c, i) = Kids(Nodes(c, i - 1))
    BY <1>4, NodesNext
<1>7. Kids(UNION {Nodes(c, i - 1) : c \in C}) = UNION {Kids(Nodes(c, i - 1)) : c \in C}
    BY DEF Kids
<1> QED  BY <1>3, <1>5, <1>6, <1>7

LEMMA RangesShift ==
    ASSUME NEW tree, NEW range, NEW m \in Nat
    PROVE  Ranges(tree, range, m + 1) = UNION {Ranges(t[1], t[2], m) : t \in RangesOf(<<tree, range>>)}
<1> DEFINE C == RangesOf(<<tree, range>>)
           Good(i) == Ranges(tree, range, i + 1) = UNION {Ranges(t[1], t[2], i) : t \in C}
           T == {i \in 0 .. m : ~Good(i)}
<1>1. RangeKids({<<tree, range>>}) = C
    BY DEF RangeKids
<1>0. \A t \in C : t = <<t[1], t[2]>>
    BY DEF RangesOf
<1> HIDE DEF C
<1> SUFFICES ASSUME T # {}  PROVE FALSE
    <2>1. m \in 0 .. m
        OBVIOUS
    <2> HIDE DEF Good
    <2>2. Good(m)
        BY <2>1
    <2> QED  BY <2>2 DEF Good, C
<1>2. 0 \notin T
    <2>1. Ranges(tree, range, 0 + 1) = C
        <3>1. 0 \in Nat
            OBVIOUS
        <3>2. Ranges(tree, range, 0) = {<<tree, range>>} /\ Ranges(tree, range, 0 + 1) = RangeKids(Ranges(tree, range, 0))
            BY <3>1, RangesNext, Zenon
        <3> QED  BY <1>1, <3>2, Zenon
    <2>2. \A t \in C : Ranges(t[1], t[2], 0) = {t}
        BY <1>0, RangesNext
    <2>3. UNION {Ranges(t[1], t[2], 0) : t \in C} = C
        BY <2>2
    <2> QED  BY <2>1, <2>3
<1>3. PICK i \in T : i \in 1 .. m /\ i - 1 \in 0 .. m /\ i - 1 \notin T
    BY <1>2, FirstFailure
<1>4. i - 1 \in Nat /\ i \in Nat /\ (i - 1) + 1 = i
    BY <1>3
<1>5. Ranges(tree, range, i) = UNION {Ranges(t[1], t[2], i - 1) : t \in C}
    BY <1>3, <1>4
<1>6. /\ Ranges(tree, range, i + 1) = RangeKids(Ranges(tree, range, i))
      /\ \A t : Ranges(t[1], t[2], i) = RangeKids(Ranges(t[1], t[2], i - 1))
    <2>1. \A a, b, n : n \in Nat => Ranges(a, b, n + 1) = RangeKids(Ranges(a, b, n))
        BY RangesNext
    <2>2. \A a, b : Ranges(a, b, i) = RangeKids(Ranges(a, b, i - 1))
        BY <1>4, <2>1
    <2> QED  BY <1>4, <2>1, <2>2
<1>7. RangeKids(UNION {Ranges(t[1], t[2], i - 1) : t \in C}) = UNION {RangeKids(Ranges(t[1], t[2], i - 1)) : t \in C}
    <2> DEFINE S(t) == Ranges(t[1], t[2], i - 1)
    <2> HIDE DEF S
    <2>1. RangeKids(UNION {S(t) : t \in C}) = UNION {RangeKids(S(t)) : t \in C}
        BY DEF RangeKids
    <2> QED  BY <2>1 DEF S
<1> QED  BY <1>3, <1>5, <1>6, <1>7

\* The entries held are those of a leaf, or those that the children hold.
LEMMA HeldNext ==
    ASSUME NEW tree
    PROVE  /\ Held(tree, 0) = ToSet(tree.kvs)
           /\ \A h \in Nat : Held(tree, h + 1) = UNION {Held(c, h) : c \in Own(tree)}
<1>1. Held(tree, 0) = ToSet(tree.kvs)
    BY NodesNext DEF Held
<1>2. ASSUME NEW h \in Nat  PROVE Held(tree, h + 1) = UNION {Held(c, h) : c \in Own(tree)}
    <2>1. Nodes(tree, h + 1) = UNION {Nodes(c, h) : c \in Own(tree)}
        BY NodesShift
    <2> QED  BY <2>1 DEF Held
<1> QED  BY <1>1, <1>2

-----------------------------------------------------------------------------
(* Subtrees *)

\* A node of a tree of h levels as a call leaves it: in order and with proper
\* subtrees, but it may be empty, too large, or start above its range.
Inside(node, range, h) ==
    /\ node \in NodeOf(Own(node)) /\ node.leaf = (h = 0) /\ Ascending(node.kvs)
    /\ \A i \in DOMAIN node.kvs : node.kvs[i].key \in range
    /\ h > 0 => \A i \in DOMAIN node.kvs : IsTree(node.kvs[i].child, Below(node, i, range), h - 1)

\* What makes it a tree.
Whole(node, range) == node.kvs # <<>> /\ Fits(node) /\ \A k \in range : FirstKey(node) <= k

LEMMA ProperIs ==
    ASSUME NEW node, NEW range, NEW leaf
    PROVE  Proper(node, range, leaf) <=>
                /\ Whole(node, range) /\ node \in NodeOf(Own(node)) /\ node.leaf = leaf
                /\ Ascending(node.kvs) /\ \A i \in DOMAIN node.kvs : node.kvs[i].key \in range
BY DEF Proper, Whole, Own, FirstKey

LEMMA IsTreeNext ==
    ASSUME NEW node, NEW range
    PROVE  /\ IsTree(node, range, 0) <=> Proper(node, range, TRUE)
           /\ \A h \in Nat : IsTree(node, range, h + 1) <=>
                /\ Proper(node, range, FALSE)
                /\ \A i \in DOMAIN node.kvs : IsTree(node.kvs[i].child, Below(node, i, range), h)
<1> DEFINE t0 == <<node, range>>
<1>0. Ranges(node, range, 0) = {t0} /\ t0[1] = node /\ t0[2] = range
    BY RangesNext
<1>1. IsTree(node, range, 0) <=> Proper(node, range, TRUE)
    <2>1. 0 .. 0 = {0} /\ (0 = 0) = TRUE
        OBVIOUS
    <2>2. IsTree(node, range, 0) <=> \A i \in {0} : \A t \in Ranges(node, range, i) : Proper(t[1], t[2], i = 0)
        BY <2>1 DEF IsTree
    <2> HIDE DEF t0
    <2>3. IsTree(node, range, 0) <=> \A t \in {t0} : Proper(t[1], t[2], 0 = 0)
        BY <1>0, <2>2, Zenon
    <2> QED  BY <1>0, <2>1, <2>3, Zenon
<1>2. ASSUME NEW h \in Nat
      PROVE  IsTree(node, range, h + 1) <=>
                /\ Proper(node, range, FALSE)
                /\ \A t \in RangesOf(t0) : IsTree(t[1], t[2], h)
    <2>1. \A i \in 0 .. h : Ranges(node, range, i + 1) = UNION {Ranges(t[1], t[2], i) : t \in RangesOf(t0)}
        BY RangesShift
    <2> HIDE DEF t0
    <2>2. ASSUME IsTree(node, range, h + 1)
          PROVE  Proper(node, range, FALSE) /\ \A t \in RangesOf(t0) : IsTree(t[1], t[2], h)
        <3>1. 0 \in 0 .. h + 1 /\ 0 # h + 1 /\ t0 \in Ranges(node, range, 0)
            BY <1>0
        <3>2. Proper(node, range, FALSE)
            BY <1>0, <2>2, <3>1 DEF IsTree
        <3>3. ASSUME NEW t \in RangesOf(t0), NEW i \in 0 .. h, NEW s \in Ranges(t[1], t[2], i)
              PROVE  Proper(s[1], s[2], i = h)
            <4>1. i + 1 \in 0 .. h + 1 /\ (i + 1 = h + 1) = (i = h)
                OBVIOUS
            <4>2. s \in Ranges(node, range, i + 1)
                BY <2>1, <3>3
            <4>3. Proper(s[1], s[2], i + 1 = h + 1)
                BY <2>2, <4>1, <4>2 DEF IsTree
            <4> QED  BY <4>1, <4>3
        <3> QED  BY <3>2, <3>3 DEF IsTree
    <2>3. ASSUME Proper(node, range, FALSE), \A t \in RangesOf(t0) : IsTree(t[1], t[2], h)
          PROVE  IsTree(node, range, h + 1)
        <3>1. ASSUME NEW i \in 0 .. h + 1, NEW s \in Ranges(node, range, i)
              PROVE  Proper(s[1], s[2], i = h + 1)
            <4>1. CASE i = 0
                <5>1. s = t0 /\ (i = h + 1) = FALSE
                    BY <1>0, <3>1, <4>1
                <5> QED  BY <1>0, <2>3, <5>1
            <4>2. CASE i # 0
                <5>1. i - 1 \in 0 .. h /\ (i - 1) + 1 = i /\ (i - 1 = h) = (i = h + 1)
                    BY <3>1, <4>2
                <5>2. PICK t \in RangesOf(t0) : s \in Ranges(t[1], t[2], i - 1)
                    BY <2>1, <3>1, <5>1
                <5>3. Proper(s[1], s[2], i - 1 = h)
                    BY <2>3, <5>1, <5>2 DEF IsTree
                <5> QED  BY <5>1, <5>3
            <4> QED  BY <4>1, <4>2
        <3> QED  BY <3>1 DEF IsTree
    <2> QED  BY <2>2, <2>3
<1>3. ASSUME NEW h \in Nat
      PROVE  (\A t \in RangesOf(t0) : IsTree(t[1], t[2], h)) <=>
                \A i \in DOMAIN node.kvs : IsTree(node.kvs[i].child, Below(node, i, range), h)
    <2> DEFINE D == DOMAIN node.kvs
               c(i) == node.kvs[i].child
               b(i) == Below(node, i, range)
    <2>1. RangesOf(t0) = {<<c(i), b(i)>> : i \in D}
        BY <1>0 DEF RangesOf
    <2> HIDE DEF t0, D, c, b
    <2>2. ASSUME \A t \in RangesOf(t0) : IsTree(t[1], t[2], h), NEW i \in D  PROVE IsTree(c(i), b(i), h)
        <3>1. <<c(i), b(i)>> \in RangesOf(t0) /\ <<c(i), b(i)>>[1] = c(i) /\ <<c(i), b(i)>>[2] = b(i)
            BY <2>1, <2>2
        <3> QED  BY <2>2, <3>1, Zenon
    <2>3. ASSUME \A i \in D : IsTree(c(i), b(i), h), NEW t \in RangesOf(t0)  PROVE IsTree(t[1], t[2], h)
        <3>1. PICK i \in D : t[1] = c(i) /\ t[2] = b(i)
            BY <2>1, <2>3
        <3> QED  BY <2>3, <3>1, Zenon
    <2>4. (\A t \in RangesOf(t0) : IsTree(t[1], t[2], h)) <=> \A i \in D : IsTree(c(i), b(i), h)
        BY <2>2, <2>3, Zenon
    <2> QED  BY <2>4, Zenon DEF D, c, b
<1> QED  BY <1>1, <1>2, <1>3

\* A tree is a node in order that is whole.
LEMMA TreeIs ==
    ASSUME NEW node, NEW range, NEW h \in Nat
    PROVE  IsTree(node, range, h) <=> Inside(node, range, h) /\ Whole(node, range)
<1>1. CASE h = 0
    <2>1. (h = 0) = TRUE /\ ~(h > 0)
        BY <1>1
    <2>2. IsTree(node, range, h) <=> Proper(node, range, TRUE)
        BY <1>1, IsTreeNext
    <2> QED  BY <2>1, <2>2, ProperIs DEF Inside
<1>2. CASE h # 0
    <2>1. h - 1 \in Nat /\ (h - 1) + 1 = h /\ h > 0
        BY <1>2
    <2>2. IsTree(node, range, h) <=>
                /\ Proper(node, range, FALSE)
                /\ \A i \in DOMAIN node.kvs : IsTree(node.kvs[i].child, Below(node, i, range), h - 1)
        <3>1. IsTree(node, range, (h - 1) + 1) <=>
                /\ Proper(node, range, FALSE)
                /\ \A i \in DOMAIN node.kvs : IsTree(node.kvs[i].child, Below(node, i, range), h - 1)
            BY <2>1, IsTreeNext
        <3> QED  BY <2>1, <3>1
    <2> QED  BY <1>2, <2>1, <2>2, ProperIs DEF Inside
<1> QED  BY <1>1, <1>2

AllKeys == Keys \cup {0}

LEMMA KeysNat == \A k \in AllKeys : k \in Nat
BY EntryAssumption DEF AllKeys

\* A node needs no children but its own, and may be taken with more.
LEMMA OwnNode ==
    ASSUME NEW Child, NEW node \in NodeOf(Child)
    PROVE  /\ Own(node) \subseteq Child /\ node \in NodeOf(Own(node))
           /\ \A More : Child \subseteq More => node \in NodeOf(More)
           /\ node.kvs \in Seq(EntryOf(Child)) /\ Len(node.kvs) \in Nat /\ DOMAIN node.kvs = 1 .. Len(node.kvs)
           /\ \A i \in 1 .. Len(node.kvs) :
                node.kvs[i] \in EntryOf(Child) /\ node.kvs[i].key \in AllKeys /\ node.kvs[i].child \in Own(node)
           /\ Own(node) = {node.kvs[i].child : i \in 1 .. Len(node.kvs)}
<1> DEFINE kvs == node.kvs
           n == Len(kvs)
<1>1. kvs \in Seq(EntryOf(Child)) /\ n \in Nat /\ node.leaf \in BOOLEAN /\ node = [leaf |-> node.leaf, kvs |-> kvs]
    BY NodeFacts DEF NodeOf
<1>2. DOMAIN kvs = 1 .. n /\ \A i \in 1 .. n : kvs[i] \in EntryOf(Child)
    BY <1>1, LenProperties, ElementOfSeq
<1>3. \A i \in 1 .. n : kvs[i].key \in AllKeys
    BY <1>2 DEF EntryOf, AllKeys
<1>4. Own(node) = {kvs[i].child : i \in 1 .. n}
    BY <1>2 DEF Own, ToSet
<1>5. Own(node) \subseteq Child
    BY <1>2, <1>4 DEF EntryOf
<1>6. ASSUME NEW More, \A i \in 1 .. n : kvs[i].child \in More  PROVE node \in NodeOf(More)
    <2>1. \A i \in 1 .. n : kvs[i] \in EntryOf(More)
        BY <1>2, <1>6 DEF EntryOf
    <2>2. kvs \in Seq(EntryOf(More))
        <3>1. \A i \in 1 .. Len(kvs) : kvs[i] \in EntryOf(More)
            BY <2>1
        <3> HIDE DEF kvs, n
        <3>2. kvs = [i \in 1 .. Len(kvs) |-> kvs[i]] /\ Len(kvs) \in Nat
            BY <1>1, LenProperties
        <3> QED  BY <3>1, <3>2, IsASeq
    <2> HIDE DEF kvs, n
    <2> QED  BY <1>1, <2>2 DEF NodeOf
<1>7. node \in NodeOf(Own(node)) /\ \A More : Child \subseteq More => node \in NodeOf(More)
    <2>1. \A i \in 1 .. n : kvs[i].child \in Own(node)
        BY <1>4
    <2>2. \A i \in 1 .. n : kvs[i].child \in Child
        BY <1>5, <2>1
    <2> QED  BY <1>6, <2>1, <2>2
<1> QED  BY <1>1, <1>2, <1>3, <1>4, <1>5, <1>7

\* The facts of a node in order, with the length for its domain.
LEMMA InsideFacts ==
    ASSUME NEW node, NEW range, NEW h \in Nat, Inside(node, range, h)
    PROVE  /\ node \in NodeOf(Own(node)) /\ node.leaf = (h = 0) /\ Ascending(node.kvs)
           /\ Len(node.kvs) \in Nat /\ DOMAIN node.kvs = 1 .. Len(node.kvs)
           /\ node.kvs # <<>> <=> Len(node.kvs) > 0
           /\ \A i \in 1 .. Len(node.kvs) :
                /\ node.kvs[i].key \in range /\ node.kvs[i].key \in AllKeys /\ node.kvs[i].key \in Nat
                /\ node.kvs[i].child \in Own(node)
                /\ h > 0 => IsTree(node.kvs[i].child, Below(node, i, range), h - 1)
<1>1. node \in NodeOf(Own(node)) /\ node.leaf = (h = 0) /\ Ascending(node.kvs)
    BY DEF Inside
<1>2. /\ Len(node.kvs) \in Nat /\ DOMAIN node.kvs = 1 .. Len(node.kvs) /\ node.kvs \in Seq(EntryOf(Own(node)))
      /\ \A i \in 1 .. Len(node.kvs) : node.kvs[i].key \in AllKeys /\ node.kvs[i].child \in Own(node)
    BY <1>1, OwnNode
<1>3. node.kvs # <<>> <=> Len(node.kvs) > 0
    <2> DEFINE s == node.kvs
    <2> HIDE DEF s
    <2>1. s \in Seq(EntryOf(Own(node))) => (s # <<>> <=> Len(s) > 0)
        BY EmptySeq, LenProperties
    <2> QED  BY <1>2, <2>1 DEF s
<1>4. \A i \in 1 .. Len(node.kvs) :
            /\ node.kvs[i].key \in range
            /\ h > 0 => IsTree(node.kvs[i].child, Below(node, i, range), h - 1)
    BY <1>2 DEF Inside
<1> QED  BY <1>1, <1>2, <1>3, <1>4, KeysNat

\* The key of a link is the first key below it.
LEMMA LinkedTree ==
    ASSUME NEW node, NEW range, NEW h \in Nat, Inside(node, range, h + 1), NEW i \in 1 .. Len(node.kvs)
    PROVE  /\ IsTree(node.kvs[i].child, Below(node, i, range), h)
           /\ Inside(node.kvs[i].child, Below(node, i, range), h)
           /\ node.kvs[i].child.kvs # <<>> /\ Fits(node.kvs[i].child)
           /\ FirstKey(node.kvs[i].child) = node.kvs[i].key
           /\ node.kvs[i].key \in Below(node, i, range)
<1> DEFINE c == node.kvs[i].child
           B == Below(node, i, range)
           K(j) == node.kvs[j].key
           n == Len(node.kvs)
<1>1. /\ h + 1 \in Nat /\ h + 1 > 0 /\ (h + 1) - 1 = h
      /\ Ascending(node.kvs) /\ n \in Nat /\ \A j \in 1 .. n : K(j) \in range /\ K(j) \in Nat
    BY InsideFacts
<1>2. IsTree(c, B, h)
    BY <1>1, InsideFacts
<1>3. Inside(c, B, h) /\ Whole(c, B)
    BY <1>2, TreeIs
<1>4. \A j \in 1 .. n : i < j => K(i) < K(j)
    BY <1>1 DEF Ascending
<1>5. K(i) \in B
    <2>1. i < n => i + 1 \in 1 .. n /\ i < i + 1
        BY <1>1
    <2> QED  BY <1>1, <1>4, <2>1 DEF Below
<1>6. FirstKey(c) \in Nat /\ FirstKey(c) \in B
    <2>1. Len(c.kvs) \in Nat /\ Len(c.kvs) > 0 /\ \A j \in 1 .. Len(c.kvs) : c.kvs[j].key \in B /\ c.kvs[j].key \in Nat
        BY <1>3, InsideFacts DEF Whole
    <2>2. 1 \in 1 .. Len(c.kvs)
        BY <2>1
    <2> QED  BY <2>1, <2>2 DEF FirstKey
<1>7. FirstKey(c) <= K(i) /\ K(i) <= FirstKey(c)
    <2>1. FirstKey(c) <= K(i)
        BY <1>3, <1>5 DEF Whole
    <2>2. K(i) <= FirstKey(c)
        BY <1>6 DEF Below
    <2> QED  BY <2>1, <2>2
<1> HIDE DEF c, B
<1>8. FirstKey(c) = K(i)
    BY <1>1, <1>6, <1>7
<1> QED  BY <1>2, <1>3, <1>5, <1>8 DEF Whole, c, B

Wider(node, range, more) == range \subseteq more /\ more \subseteq AllKeys /\ \A k \in more : FirstKey(node) <= k

\* A tree stays one when its range grows upwards.
LEMMA Grow ==
    ASSUME NEW m \in Nat
    PROVE  \A node, range, more : IsTree(node, range, m) /\ Wider(node, range, more) => IsTree(node, more, m)
<1> DEFINE Good(h) == \A node, range, more : IsTree(node, range, h) /\ Wider(node, range, more) => IsTree(node, more, h)
           T == {h \in 0 .. m : ~Good(h)}
<1> SUFFICES ASSUME T # {}  PROVE FALSE
    <2>1. m \in 0 .. m
        OBVIOUS
    <2> HIDE DEF Good
    <2>2. Good(m)
        BY <2>1
    <2> QED  BY <2>2 DEF Good
<1>1. ASSUME NEW h \in Nat, h = 0 \/ Good(h - 1), NEW node, NEW range, NEW more,
             IsTree(node, range, h), Wider(node, range, more)
      PROVE  IsTree(node, more, h)
    <2>1. Inside(node, range, h) /\ Whole(node, range) /\ range \subseteq more /\ more \subseteq AllKeys
        BY <1>1, TreeIs DEF Wider
    <2>2. Whole(node, more)
        BY <1>1, <2>1 DEF Wider, Whole
    <2>3. \A i \in DOMAIN node.kvs : node.kvs[i].key \in more
        BY <2>1 DEF Inside
    <2>4. ASSUME h > 0, NEW i \in DOMAIN node.kvs  PROVE IsTree(node.kvs[i].child, Below(node, i, more), h - 1)
        <3>1. h - 1 \in Nat /\ (h - 1) + 1 = h /\ Good(h - 1) /\ i \in 1 .. Len(node.kvs)
            BY <1>1, <2>1, <2>4, InsideFacts
        <3>2. /\ IsTree(node.kvs[i].child, Below(node, i, range), h - 1)
              /\ FirstKey(node.kvs[i].child) = node.kvs[i].key
            <4>1. Inside(node, range, (h - 1) + 1)
                BY <2>1, <3>1
            <4> HIDE DEF Good
            <4> QED  BY <3>1, <4>1, LinkedTree
        <3>3. Wider(node.kvs[i].child, Below(node, i, range), Below(node, i, more))
            BY <2>1, <3>2 DEF Wider, Below
        <3> QED  BY <3>1, <3>2, <3>3
    <2>5. Inside(node, more, h)
        BY <2>1, <2>3, <2>4 DEF Inside
    <2> QED  BY <2>2, <2>5, TreeIs
<1> HIDE DEF Good
<1>2. 0 \notin T
    <2>1. Good(0)
        BY <1>1 DEF Good
    <2> QED  BY <2>1
<1>3. PICK i \in T : i \in 1 .. m /\ i - 1 \in 0 .. m /\ i - 1 \notin T
    BY <1>2, FirstFailure
<1>4. i \in Nat /\ Good(i - 1)
    BY <1>3
<1>5. Good(i)
    BY <1>1, <1>4 DEF Good
<1> QED  BY <1>3, <1>5

\* What is held in a tree are entries with keys of its range.
LEMMA HeldInside ==
    ASSUME NEW m \in Nat
    PROVE  \A node, range : Inside(node, range, m) => \A e \in Held(node, m) : e.key \in range
<1> DEFINE Good(h) == \A node, range : Inside(node, range, h) => \A e \in Held(node, h) : e.key \in range
           T == {h \in 0 .. m : ~Good(h)}
<1> SUFFICES ASSUME T # {}  PROVE FALSE
    <2>1. m \in 0 .. m
        OBVIOUS
    <2> HIDE DEF Good
    <2>2. Good(m)
        BY <2>1
    <2> QED  BY <2>2 DEF Good
<1>2. 0 \notin T
    <2>1. ASSUME NEW node, NEW range, Inside(node, range, 0), NEW e \in Held(node, 0)  PROVE e.key \in range
        <3>1. e \in ToSet(node.kvs)
            BY <2>1, HeldNext
        <3>2. PICK i \in DOMAIN node.kvs : e = node.kvs[i]
            BY <3>1 DEF ToSet
        <3> QED  BY <2>1, <3>2 DEF Inside
    <2> QED  BY <2>1
<1>3. PICK i \in T : i \in 1 .. m /\ i - 1 \in 0 .. m /\ i - 1 \notin T
    BY <1>2, FirstFailure
<1>4. i - 1 \in Nat /\ i \in Nat /\ (i - 1) + 1 = i /\ Good(i - 1)
    BY <1>3
<1>5. ASSUME NEW node, NEW range, Inside(node, range, i), NEW e \in Held(node, i)  PROVE e.key \in range
    <2>1. Held(node, i) = UNION {Held(c, i - 1) : c \in Own(node)}
        <3>1. Held(node, (i - 1) + 1) = UNION {Held(c, i - 1) : c \in Own(node)}
            BY <1>4, HeldNext
        <3> QED  BY <1>4, <3>1
    <2>2. PICK c \in Own(node) : e \in Held(c, i - 1)
        BY <1>5, <2>1
    <2>3. node \in NodeOf(Own(node)) /\ Inside(node, range, (i - 1) + 1)
        BY <1>4, <1>5 DEF Inside
    <2>4. PICK j \in 1 .. Len(node.kvs) : c = node.kvs[j].child
        BY <2>3, OwnNode
    <2>5. Inside(c, Below(node, j, range), i - 1)
        BY <1>4, <2>3, <2>4, LinkedTree
    <2>6. e.key \in Below(node, j, range)
        BY <1>4, <2>2, <2>5
    <2> QED  BY <2>6 DEF Below
<1> QED  BY <1>3, <1>5

\* A node in order whose first key becomes its link's key.
LEMMA Relink ==
    ASSUME NEW node, NEW range \in SUBSET AllKeys, NEW h \in Nat, Inside(node, range, h), node.kvs # <<>>
    PROVE  Inside(node, {k \in range : FirstKey(node) <= k}, h)
<1> DEFINE R == {k \in range : FirstKey(node) <= k}
           n == Len(node.kvs)
           K(j) == node.kvs[j].key
<1>1. /\ n \in Nat /\ n > 0 /\ DOMAIN node.kvs = 1 .. n
      /\ \A j \in 1 .. n : K(j) \in range /\ K(j) \in Nat
    BY InsideFacts
<1>2. \A i, j \in 1 .. n : i < j => K(i) < K(j)
    BY DEF Inside, Ascending
<1>3. 1 \in 1 .. n /\ FirstKey(node) = K(1)
    BY <1>1 DEF FirstKey
<1>4. \A j \in 1 .. n : K(1) <= K(j)
    BY <1>1, <1>2, <1>3
<1>5. \A j \in 1 .. n : K(j) \in R
    BY <1>1, <1>3, <1>4
<1>6. ASSUME NEW i \in 1 .. n  PROVE Below(node, i, R) = Below(node, i, range)
    <2>1. \A k \in range : K(i) <= k => K(1) <= k
        BY <1>1, <1>3, <1>4, KeysNat
    <2> QED  BY <1>3, <2>1 DEF Below
<1> QED  BY <1>1, <1>5, <1>6 DEF Inside

\* The child at p of a new node is in order below the next link's key.
Linked(node, p, range, h) ==
    \E A \in SUBSET range :
        /\ Inside(node.kvs[p].child, A, h)
        /\ node.kvs[p].child.kvs # <<>> /\ Fits(node.kvs[p].child)
        /\ FirstKey(node.kvs[p].child) = node.kvs[p].key
        /\ p < Len(node.kvs) => \A k \in A : k < node.kvs[p + 1].key

\* A new inner node is in order if its links are.
LEMMA Assemble ==
    ASSUME NEW Child, NEW node \in NodeOf(Child), NEW range \in SUBSET AllKeys, NEW h \in Nat,
           ~node.leaf, Ascending(node.kvs),
           \A p \in 1 .. Len(node.kvs) : node.kvs[p].key \in range /\ Linked(node, p, range, h)
    PROVE  Inside(node, range, h + 1)
<1>1. node \in NodeOf(Own(node)) /\ DOMAIN node.kvs = 1 .. Len(node.kvs)
    BY OwnNode
<1>2. ASSUME NEW p \in 1 .. Len(node.kvs)  PROVE IsTree(node.kvs[p].child, Below(node, p, range), h)
    <2> DEFINE c == node.kvs[p].child
               B == Below(node, p, range)
    <2>1. PICK A \in SUBSET range :
            /\ Inside(c, A, h) /\ c.kvs # <<>> /\ Fits(c) /\ FirstKey(c) = node.kvs[p].key
            /\ p < Len(node.kvs) => \A k \in A : k < node.kvs[p + 1].key
        BY DEF Linked
    <2> DEFINE R == {k \in A : FirstKey(c) <= k}
    <2>2. Inside(c, R, h)
        <3>1. A \in SUBSET AllKeys
            OBVIOUS
        <3> HIDE DEF c
        <3> QED  BY <2>1, <3>1, Relink
    <2>3. R \subseteq B /\ B \subseteq AllKeys /\ \A k \in B : FirstKey(c) <= k
        BY <2>1 DEF Below
    <2>4. IsTree(c, R, h)
        BY <2>1, <2>2, TreeIs DEF Whole
    <2> HIDE DEF c, R, B
    <2> QED  BY <2>3, <2>4, Grow DEF Wider, c, B
<1>3. node.leaf = (h + 1 = 0) /\ (h + 1) - 1 = h
    <2>1. node.leaf \in BOOLEAN
        BY DEF NodeOf
    <2> QED  BY <2>1
<1> QED  BY <1>1, <1>2, <1>3 DEF Inside

\* The links of a node in order are linked.
LEMMA OldLinked ==
    ASSUME NEW node, NEW range, NEW h \in Nat, Inside(node, range, h + 1), NEW i \in 1 .. Len(node.kvs)
    PROVE  Linked(node, i, range, h)
<1>1. Below(node, i, range) \in SUBSET range
    BY DEF Below
<1>2. i < Len(node.kvs) => \A k \in Below(node, i, range) : k < node.kvs[i + 1].key
    BY DEF Below
<1> QED  BY <1>1, <1>2, LinkedTree DEF Linked

\* New children for the links from idx to idx + cnt - 1.
CanRelink(node, range, h, idx, cnt, mid) ==
    /\ Inside(node, range, h + 1) /\ range \subseteq AllKeys
    /\ idx \in 1 .. Len(node.kvs) /\ cnt \in 1 .. Len(node.kvs) + 1 - idx
    /\ \E Child : mid \in Seq(EntryOf(Child))
    /\ Len(mid) >= 1 /\ Ascending(mid)
    /\ \A j \in 1 .. Len(mid) :
        \E A \in SUBSET range :
            /\ Inside(mid[j].child, A, h)
            /\ mid[j].child.kvs # <<>> /\ Fits(mid[j].child)
            /\ FirstKey(mid[j].child) = mid[j].key
            /\ \A k \in A :
                /\ node.kvs[idx].key <= k
                /\ j < Len(mid) => k < mid[j + 1].key
                /\ idx + cnt <= Len(node.kvs) => k < node.kvs[idx + cnt].key

Relinked(node, range, h, idx, cnt, mid) ==
    LET new == Replaced(FALSE, node.kvs, idx, cnt, mid)
    IN  /\ Inside(new, range, h + 1)
        /\ new.kvs # <<>>
        /\ FirstKey(new) = IF idx = 1 THEN mid[1].key ELSE FirstKey(node)
        /\ Own(new) = {mid[j].child : j \in 1 .. Len(mid)}
                        \cup {node.kvs[j].child : j \in (1 .. idx - 1) \cup (idx + cnt .. Len(node.kvs))}

LEMMA RelinkNode ==
    ASSUME NEW node, NEW range, NEW h \in Nat, NEW idx, NEW cnt, NEW mid, CanRelink(node, range, h, idx, cnt, mid)
    PROVE  Relinked(node, range, h, idx, cnt, mid)
<1> DEFINE kvs == node.kvs
           n == Len(kvs)
           k == Len(mid)
           new == Replaced(FALSE, kvs, idx, cnt, mid)
           r == new.kvs
           l == Len(r)
           rest == (1 .. idx - 1) \cup (idx + cnt .. n)
<1>1. PICK C : mid \in Seq(EntryOf(C))
    BY DEF CanRelink
<1> DEFINE Child == C \cup Own(node)
<1>2. /\ h + 1 \in Nat /\ Inside(node, range, h + 1) /\ range \in SUBSET AllKeys
      /\ idx \in 1 .. n /\ cnt \in 1 .. n + 1 - idx /\ k >= 1 /\ Ascending(mid)
    BY DEF CanRelink
<1>3. /\ node \in NodeOf(Own(node)) /\ Ascending(kvs) /\ n \in Nat
      /\ \A j \in 1 .. n : kvs[j].key \in range /\ kvs[j].key \in Nat
    BY <1>2, InsideFacts
<1>4. node \in NodeOf(Child) /\ kvs \in Seq(EntryOf(Child))
    BY <1>3, OwnNode
<1>5. mid \in Seq(EntryOf(Child)) /\ k \in Nat /\ \A j \in 1 .. k : mid[j].key \in AllKeys
    <2>1. EntryOf(C) \subseteq EntryOf(Child)
        BY DEF EntryOf
    <2>2. k \in Nat /\ \A j \in 1 .. k : mid[j] \in EntryOf(C)
        BY <1>1, LenProperties, ElementOfSeq
    <2>3. mid = [j \in 1 .. k |-> mid[j]]
        BY <1>1, LenProperties
    <2>4. \A j \in 1 .. k : mid[j] \in EntryOf(Child)
        BY <2>1, <2>2
    <2>5. mid \in Seq(EntryOf(Child))
        <3>1. Len(mid) \in Nat /\ mid = [j \in 1 .. Len(mid) |-> mid[j]] /\ \A j \in 1 .. Len(mid) : mid[j] \in EntryOf(Child)
            BY <2>2, <2>3, <2>4
        <3> HIDE DEF Child
        <3> QED  BY <3>1, IsASeq
    <2> QED  BY <2>2, <2>5 DEF EntryOf, AllKeys
<1>6. ASSUME NEW j \in 1 .. k
      PROVE  \E A \in SUBSET range :
                /\ Inside(mid[j].child, A, h) /\ mid[j].child.kvs # <<>> /\ Fits(mid[j].child)
                /\ FirstKey(mid[j].child) = mid[j].key /\ mid[j].key \in A
                /\ \A x \in A :
                    /\ kvs[idx].key <= x
                    /\ j < k => x < mid[j + 1].key
                    /\ idx + cnt <= n => x < kvs[idx + cnt].key
    <2> DEFINE c == mid[j].child
    <2>1. PICK A \in SUBSET range :
                /\ Inside(c, A, h) /\ c.kvs # <<>> /\ Fits(c)
                /\ FirstKey(c) = mid[j].key
                /\ \A x \in A :
                    /\ kvs[idx].key <= x
                    /\ j < k => x < mid[j + 1].key
                    /\ idx + cnt <= n => x < kvs[idx + cnt].key
        BY DEF CanRelink
    <2>2. FirstKey(c) \in A
        <3> HIDE DEF c
        <3>1. Len(c.kvs) > 0 /\ Len(c.kvs) \in Nat /\ \A i \in 1 .. Len(c.kvs) : c.kvs[i].key \in A
            BY <2>1, InsideFacts
        <3> QED  BY <3>1 DEF FirstKey
    <2> QED  BY <2>1, <2>2
<1>7. \A j \in 1 .. k : /\ mid[j].key \in range /\ mid[j].key \in Nat /\ kvs[idx].key <= mid[j].key
                        /\ idx + cnt <= n => mid[j].key < kvs[idx + cnt].key
    BY <1>5, <1>6, KeysNat
<1> HIDE DEF Child
<1>8. CanReplace(Child, node, FALSE, idx, cnt, mid)
    BY <1>2, <1>3, <1>4, <1>5 DEF CanReplace
<1>9. Between(kvs, idx, cnt, mid)
    <2>1. idx > 1 => idx - 1 \in 1 .. n /\ idx - 1 < idx
        BY <1>2, <1>3
    <2>2. idx > 1 => kvs[idx - 1].key < kvs[idx].key
        BY <1>2, <1>3, <2>1 DEF Ascending
    <2>3. idx > 1 => kvs[idx - 1].key \in Nat /\ kvs[idx].key \in Nat
        BY <1>2, <1>3, <2>1
    <2> QED  BY <1>7, <2>2, <2>3 DEF Between
<1>10. new \in NodeOf(Child) /\ Ascending(r)
    BY <1>2, <1>3, <1>8, <1>9, ReplacedSize, ReplacedOrder DEF Resized
<1>11. /\ l = n - cnt + k /\ l \in Nat
       /\ \A j \in 1 .. l : r[j] = IF j < idx THEN kvs[j] ELSE IF j < idx + k THEN mid[j - idx + 1] ELSE kvs[j - k + cnt]
    <2>1. ReplacedIs(Child, node, FALSE, idx, cnt, mid)
        BY <1>8, ReplacedAt
    <2>2. l = n - cnt + k /\ r \in Seq(EntryOf(Child))
          /\ \A j \in 1 .. l : r[j] = IF j < idx THEN kvs[j] ELSE IF j < idx + k THEN mid[j - idx + 1] ELSE kvs[j - k + cnt]
        BY <2>1, Zenon DEF ReplacedIs
    <2> HIDE DEF r, kvs, n, k
    <2> QED  BY <2>2, LenProperties DEF l
<1>12. ~new.leaf /\ new.leaf \in BOOLEAN
    BY DEF Replaced, Node
<1>16. Own(new) = {mid[j].child : j \in 1 .. k} \cup {kvs[j].child : j \in rest}
    <2>1. ToSet(r) = {mid[j] : j \in 1 .. k} \cup {kvs[j] : j \in rest}
        <3>1. ReplacedHas(node, FALSE, idx, cnt, mid)
            BY <1>8, ReplacedSet
        <3> QED  BY <3>1, Zenon DEF ReplacedHas, Others
    <2> HIDE DEF r, rest, k, kvs
    <2>2. {e.child : e \in ToSet(r)} = {mid[j].child : j \in 1 .. k} \cup {kvs[j].child : j \in rest}
        BY <2>1
    <2> QED  BY <2>2 DEF Own, r
<1>17. \A j \in 1 .. n : \E A \in SUBSET range :
            /\ Inside(kvs[j].child, A, h) /\ kvs[j].child.kvs # <<>> /\ Fits(kvs[j].child)
            /\ FirstKey(kvs[j].child) = kvs[j].key
            /\ j < n => \A x \in A : x < kvs[j + 1].key
    <2>1. \A j \in 1 .. n : Linked(node, j, range, h)
        BY <1>2, OldLinked
    <2> QED  BY <2>1, Zenon DEF Linked
<1>18. n \in Nat /\ k \in Nat /\ k >= 1 /\ idx \in 1 .. n /\ cnt \in 1 .. n + 1 - idx
    BY <1>2, <1>3, <1>5
<1>19. \A p : Linked(new, p, range, h) <=> \E A \in SUBSET range :
            /\ Inside(r[p].child, A, h)
            /\ r[p].child.kvs # <<>> /\ Fits(r[p].child)
            /\ FirstKey(r[p].child) = r[p].key
            /\ p < l => \A x \in A : x < r[p + 1].key
    BY Zenon DEF Linked
<1>20. \A p \in 1 .. Len(new.kvs) : p \in 1 .. l /\ new.kvs[p] = r[p]
    OBVIOUS
<1> HIDE DEF n, k, l, r, new, kvs, rest
<1>13. ASSUME NEW p \in 1 .. l  PROVE r[p].key \in range /\ Linked(new, p, range, h)
    <2>0. r[p] = IF p < idx THEN kvs[p] ELSE IF p < idx + k THEN mid[p - idx + 1] ELSE kvs[p - k + cnt]
        BY <1>11
    <2>n. p < l => r[p + 1] = IF p + 1 < idx THEN kvs[p + 1] ELSE IF p + 1 < idx + k THEN mid[(p + 1) - idx + 1] ELSE kvs[(p + 1) - k + cnt]
        BY <1>11
    <2>1. CASE p < idx
        <3>1. p \in 1 .. n /\ r[p] = kvs[p]
            BY <1>18, <2>0, <2>1
        <3>2. kvs[p].key \in range /\ kvs[p].key \in Nat
            BY <1>3, <3>1
        <3>3. PICK A \in SUBSET range :
                /\ Inside(kvs[p].child, A, h) /\ kvs[p].child.kvs # <<>> /\ Fits(kvs[p].child)
                /\ FirstKey(kvs[p].child) = kvs[p].key
                /\ p < n => \A x \in A : x < kvs[p + 1].key
            BY <1>17, <3>1, Zenon
        <3>4. ASSUME p < l, NEW x \in A  PROVE x < r[p + 1].key
            <4>0. p < n /\ x \in Nat
                BY <1>2, <1>18, <2>1, KeysNat
            <4>1. CASE p + 1 < idx
                BY <2>n, <3>3, <3>4, <4>0, <4>1
            <4>2. CASE p + 1 = idx
                <5>1. r[p + 1] = mid[1] /\ 1 \in 1 .. k
                    BY <1>18, <2>n, <3>4, <4>2
                <5>2. kvs[idx].key <= mid[1].key /\ mid[1].key \in Nat /\ kvs[idx].key \in Nat
                    BY <1>3, <1>7, <1>18, <5>1
                <5>3. x < kvs[idx].key
                    BY <3>3, <4>0, <4>2
                <5> QED  BY <4>0, <5>1, <5>2, <5>3
            <4> QED  BY <1>18, <2>1, <4>1, <4>2
        <3> QED  BY <1>19, <3>1, <3>2, <3>3, <3>4
    <2>2. CASE p >= idx /\ p < idx + k
        <3> DEFINE j == p - idx + 1
        <3>1. j \in 1 .. k /\ r[p] = mid[j]
            BY <1>18, <2>0, <2>2
        <3>2. PICK A \in SUBSET range :
                /\ Inside(mid[j].child, A, h) /\ mid[j].child.kvs # <<>> /\ Fits(mid[j].child)
                /\ FirstKey(mid[j].child) = mid[j].key
                /\ \A x \in A :
                    /\ kvs[idx].key <= x
                    /\ j < k => x < mid[j + 1].key
                    /\ idx + cnt <= n => x < kvs[idx + cnt].key
            BY <1>6, <3>1
        <3>3. ASSUME p < l, NEW x \in A  PROVE x < r[p + 1].key
            <4>1. CASE j < k
                <5>1. r[p + 1] = mid[j + 1]
                    <6>1. ~(p + 1 < idx) /\ p + 1 < idx + k /\ (p + 1) - idx + 1 = j + 1
                        BY <1>18, <2>2, <4>1
                    <6> QED  BY <2>n, <3>3, <6>1
                <5> QED  BY <3>2, <4>1, <5>1
            <4>2. CASE ~(j < k)
                <5>1. p + 1 = idx + k /\ (p + 1) - k + cnt = idx + cnt /\ idx + cnt <= n
                    BY <1>18, <1>11, <2>2, <3>1, <3>3, <4>2
                <5>2. r[p + 1] = kvs[idx + cnt]
                    BY <1>18, <2>n, <3>3, <5>1
                <5> QED  BY <3>2, <5>1, <5>2
            <4> QED  BY <4>1, <4>2
        <3>4. mid[j].key \in range
            BY <1>7, <3>1
        <3> HIDE DEF j
        <3> QED  BY <1>19, <3>1, <3>2, <3>3, <3>4
    <2>3. CASE p >= idx + k
        <3> DEFINE j == p - k + cnt
        <3>1. j \in 1 .. n /\ r[p] = kvs[j]
            BY <1>11, <1>18, <2>0, <2>3
        <3>2. p < l => j < n /\ r[p + 1] = kvs[j + 1]
            <4>1. p < l => j < n /\ ~(p + 1 < idx) /\ ~(p + 1 < idx + k) /\ (p + 1) - k + cnt = j + 1
                BY <1>11, <1>18, <2>0, <2>3
            <4> QED  BY <2>n, <4>1
        <3> HIDE DEF j
        <3>3. kvs[j].key \in range
            BY <1>3, <3>1
        <3>4. PICK A \in SUBSET range :
                /\ Inside(kvs[j].child, A, h) /\ kvs[j].child.kvs # <<>> /\ Fits(kvs[j].child)
                /\ FirstKey(kvs[j].child) = kvs[j].key
                /\ j < n => \A x \in A : x < kvs[j + 1].key
            BY <1>17, <3>1, Zenon
        <3> QED  BY <1>19, <3>1, <3>2, <3>3, <3>4
    <2>4. p < idx \/ (p >= idx /\ p < idx + k) \/ p >= idx + k
        BY <1>18
    <2> QED  BY <2>1, <2>2, <2>3, <2>4
<1>14. Inside(new, range, h + 1)
    <2>1. Ascending(new.kvs) /\ \A p \in 1 .. Len(new.kvs) : new.kvs[p].key \in range /\ Linked(new, p, range, h)
        BY <1>10, <1>13, <1>20 DEF r
    <2>2. h \in Nat /\ new \in NodeOf(Child) /\ range \in SUBSET AllKeys
        BY <1>2, <1>10
    <2> QED  BY <1>12, <2>1, <2>2, Assemble
<1>15. r # <<>> /\ FirstKey(new) = IF idx = 1 THEN mid[1].key ELSE FirstKey(node)
    <2>1. l > 0 /\ 1 \in 1 .. l
        BY <1>11, <1>18
    <2>2. r # <<>>
        BY <2>1 DEF l
    <2>3. r[1] = IF idx = 1 THEN mid[1] ELSE kvs[1]
        <3>1. 1 < idx <=> idx # 1
            BY <1>18
        <3>2. idx = 1 => 1 < idx + k /\ 1 - idx + 1 = 1
            BY <1>18
        <3> QED  BY <1>11, <2>1, <3>1, <3>2
    <2>4. FirstKey(new) = r[1].key /\ FirstKey(node) = kvs[1].key
        BY Zenon DEF FirstKey, r, kvs
    <2> QED  BY <2>2, <2>3, <2>4
<1> QED  BY <1>14, <1>15, <1>16, Zenon DEF Relinked, n, k, r, new, kvs, rest

-----------------------------------------------------------------------------
(* The way of a call *)

Among(node, range, h, key) == range \subseteq AllKeys /\ h \in Nat /\ IsTree(node, range, h) /\ key \in range

LeadsOn(node, range, h, key) ==
    LET idx == node_lookup_le(node, key)
    IN  /\ idx \in 1 .. Len(node.kvs) /\ Len(node.kvs) \in Nat
        /\ key \in Below(node, idx, range)
        /\ h > 0 => IsTree(node.kvs[idx].child, Below(node, idx, range), h - 1)
        /\ node.leaf <=> h = 0

\* Lookup in a tree whose range has the key leads into the child whose range
\* has it.
LEMMA LookupTree ==
    ASSUME NEW node, NEW range, NEW h, NEW key, Among(node, range, h, key)
    PROVE  LeadsOn(node, range, h, key)
<1> DEFINE idx == node_lookup_le(node, key)
           n == Len(node.kvs)
           K(j) == node.kvs[j].key
<1>0. range \subseteq AllKeys /\ h \in Nat /\ IsTree(node, range, h) /\ key \in range
    BY DEF Among
<1>1. Inside(node, range, h) /\ Whole(node, range)
    BY <1>0, TreeIs
<1>2. /\ node \in NodeOf(Own(node)) /\ Ascending(node.kvs) /\ n \in Nat /\ n > 0 /\ node.leaf = (h = 0)
      /\ \A i \in 1 .. n : h > 0 => IsTree(node.kvs[i].child, Below(node, i, range), h - 1)
    BY <1>0, <1>1, InsideFacts DEF Whole
<1>3. key \in Keys \cup {0} /\ K(1) <= key
    BY <1>0, <1>1 DEF Whole, FirstKey, AllKeys
<1>4. idx \in 0 .. n /\ \A j \in 1 .. n : j <= idx <=> K(j) <= key
    BY <1>2, <1>3, LookupExact
<1>5. \A j \in 1 .. n : K(j) \in Nat
    BY <1>0, <1>1, InsideFacts
<1>6. key \in Nat
    BY <1>0, KeysNat
<1> HIDE DEF idx, n
<1>7. idx \in 1 .. n
    BY <1>2, <1>3, <1>4
<1>8. K(idx) <= key /\ (idx < n => key < K(idx + 1))
    <2>1. K(idx) <= key
        BY <1>4, <1>7
    <2>2. ASSUME idx < n  PROVE key < K(idx + 1)
        <3>1. idx + 1 \in 1 .. n /\ ~(idx + 1 <= idx)
            BY <1>2, <1>7, <2>2
        <3>2. ~(K(idx + 1) <= key) /\ K(idx + 1) \in Nat
            BY <1>4, <1>5, <3>1
        <3> QED  BY <1>6, <3>2
    <2> QED  BY <2>1, <2>2
<1>9. key \in Below(node, idx, range)
    BY <1>0, <1>8 DEF Below, n
<1> QED  BY <1>2, <1>7, <1>9 DEF idx, n, LeadsOn

\* The node visited after i links is the root of a tree of the levels left, in
\* whose range the key is.
OnWay(tree, key, range, h, i) ==
    \E Q \in SUBSET range : key \in Q /\ IsTree(Visited(tree, key, i), Q, h - i)

LEMMA Way ==
    ASSUME NEW tree, NEW range \in SUBSET AllKeys, NEW h \in Nat, IsTree(tree, range, h), NEW key \in range
    PROVE  \A i \in 0 .. h :
                /\ OnWay(tree, key, range, h, i)
                /\ Ends(Visited(tree, key, i), key) <=> i = h
                /\ Visited(tree, key, i).leaf <=> i = h
<1> DEFINE v(i) == Visited(tree, key, i)
           T == {i \in 0 .. h : ~OnWay(tree, key, range, h, i)}
<1>1. v(0) = tree /\ \A i \in Nat : v(i + 1) = v(i).kvs[node_lookup_le(v(i), key)].child
    BY VisitNext
<1>2. T = {}
    <2> SUFFICES ASSUME T # {}  PROVE FALSE
        OBVIOUS
    <2>1. 0 \notin T
        <3>1. range \in SUBSET range /\ h - 0 = h
            OBVIOUS
        <3>2. IsTree(v(0), range, h - 0)
            BY <1>1, <3>1
        <3> QED  BY <3>1, <3>2 DEF OnWay
    <2>2. PICK i \in T : i \in 1 .. h /\ i - 1 \in 0 .. h /\ i - 1 \notin T
        BY <2>1, FirstFailure
    <2>3. i - 1 \in Nat /\ (i - 1) + 1 = i /\ h - (i - 1) \in Nat /\ h - (i - 1) > 0 /\ (h - (i - 1)) - 1 = h - i
        BY <2>2
    <2>4. PICK Q \in SUBSET range : key \in Q /\ IsTree(v(i - 1), Q, h - (i - 1))
        BY <2>2 DEF OnWay
    <2> DEFINE u == v(i - 1)
               idx == node_lookup_le(u, key)
               B == Below(u, idx, Q)
    <2>5. key \in B /\ IsTree(u.kvs[idx].child, B, (h - (i - 1)) - 1)
        <3>1. Among(u, Q, h - (i - 1), key)
            BY <2>3, <2>4 DEF Among
        <3>2. LeadsOn(u, Q, h - (i - 1), key)
            BY <3>1, LookupTree
        <3> HIDE DEF v
        <3> QED  BY <2>3, <3>2 DEF LeadsOn
    <2>6. v(i) = u.kvs[idx].child
        BY <1>1, <2>3
    <2>7. B \in SUBSET range
        BY DEF Below
    <2>8. IsTree(v(i), B, h - i)
        BY <2>3, <2>5, <2>6
    <2> HIDE DEF B
    <2>9. OnWay(tree, key, range, h, i)
        BY <2>5, <2>7, <2>8 DEF OnWay
    <2> QED  BY <2>2, <2>9
<1>3. ASSUME NEW i \in 0 .. h
      PROVE  (Ends(v(i), key) <=> i = h) /\ (v(i).leaf <=> i = h)
    <2>1. PICK Q \in SUBSET range : key \in Q /\ IsTree(v(i), Q, h - i)
        BY <1>2 DEF OnWay
    <2>2. Q \in SUBSET AllKeys /\ h - i \in Nat /\ (h - i = 0) = (i = h)
        OBVIOUS
    <2> DEFINE u == v(i)
               idx == node_lookup_le(u, key)
               g == h - i
    <2>3. idx \in 1 .. Len(u.kvs) /\ Len(u.kvs) \in Nat /\ (u.leaf <=> g = 0)
        <3>1. Among(u, Q, g, key)
            BY <2>1, <2>2 DEF Among
        <3>2. LeadsOn(u, Q, g, key)
            BY <3>1, LookupTree
        <3> HIDE DEF u, g
        <3> QED  BY <3>2 DEF LeadsOn
    <2> HIDE DEF u, idx
    <2>4. Ends(u, key) <=> u.leaf
        BY <2>3 DEF Ends, idx
    <2>5. g = 0 <=> i = h
        BY <2>2
    <2> HIDE DEF g
    <2> QED  BY <2>3, <2>4, <2>5, Zenon DEF u
<1> QED  BY <1>2, <1>3

DownLoop(f, tree, key) == f = [i \in Nat |-> IF Ends(Visited(tree, key, i), key) THEN i ELSE f[i + 1]]

\* A call visits as many nodes as the tree has levels.
LEMMA DepthIs ==
    ASSUME NEW tree, NEW range \in SUBSET AllKeys, NEW h \in Nat, IsTree(tree, range, h), NEW key \in range
    PROVE  Depth(tree, key) = h
<1> DEFINE E(i) == Ends(Visited(tree, key, i), key)
           Loop(f) == f = [i \in Nat |-> IF E(i) THEN i ELSE f[i + 1]]
<1>1. \A i \in 0 .. h : E(i) <=> i = h
    <2>1. \A i \in 0 .. h : Ends(Visited(tree, key, i), key) <=> i = h
        <3>1. \A i \in 0 .. h :
                /\ OnWay(tree, key, range, h, i)
                /\ Ends(Visited(tree, key, i), key) <=> i = h
                /\ Visited(tree, key, i).leaf <=> i = h
            BY Way, Zenon
        <3> QED  BY <3>1, Zenon
    <2> QED  BY <2>1, Zenon
<1> HIDE DEF E
<1>2. \E f : Loop(f)
    <2> DEFINE ends(i) == {j \in Nat : j >= i /\ E(j)}
               g == [i \in Nat |-> IF ends(i) = {} THEN 0 ELSE CHOOSE j \in ends(i) : \A m \in ends(i) : j <= m]
    <2>1. ASSUME NEW i \in Nat  PROVE g[i] = IF E(i) THEN i ELSE g[i + 1]
        <3>1. CASE E(i)
            <4>1. i \in ends(i) /\ \A m \in ends(i) : i <= m
                BY <3>1
            <4>2. \A j \in ends(i) : (\A m \in ends(i) : j <= m) => j = i
                BY <4>1
            <4> HIDE DEF ends
            <4> QED  BY <3>1, <4>1, <4>2
        <3>2. CASE ~E(i)
            <4>1. ends(i) = ends(i + 1)
                BY <3>2
            <4> HIDE DEF ends
            <4> QED  BY <3>2, <4>1
        <3> QED  BY <3>1, <3>2
    <2> HIDE DEF ends
    <2>2. g = [i \in Nat |-> IF E(i) THEN i ELSE g[i + 1]]
        <3>1. g = [i \in Nat |-> g[i]]
            OBVIOUS
        <3> HIDE DEF g
        <3> QED  BY <2>1, <3>1, Zenon
    <2> HIDE DEF g
    <2> QED  BY <2>2
<1> DEFINE down == CHOOSE f : Loop(f)
<1>3. Depth(tree, key) = down[0]
    BY DEF Depth, E
<1>4. \A i \in Nat : down[i] = IF E(i) THEN i ELSE down[i + 1]
    <2> HIDE DEF Loop
    <2>1. Loop(down)
        BY <1>2
    <2> HIDE DEF down
    <2>2. down = [i \in Nat |-> IF E(i) THEN i ELSE down[i + 1]]
        BY <2>1 DEF Loop
    <2> QED  BY <2>2
<1> HIDE DEF down
<1>5. \A i \in 0 .. h : down[h - i] = h
    <2> DEFINE T == {i \in 0 .. h : down[h - i] # h}
    <2> SUFFICES ASSUME T # {}  PROVE FALSE
        OBVIOUS
    <2>1. 0 \notin T
        BY <1>1, <1>4
    <2>2. PICK i \in T : i \in 1 .. h /\ i - 1 \in 0 .. h /\ i - 1 \notin T
        BY <2>1, FirstFailure
    <2>3. h - i \in Nat /\ h - i \in 0 .. h /\ h - i # h /\ (h - i) + 1 = h - (i - 1)
        BY <2>2
    <2>4. down[h - (i - 1)] = h
        BY <2>2
    <2>5. down[h - i] = down[(h - i) + 1]
        BY <1>1, <1>4, <2>3
    <2> QED  BY <2>2, <2>3, <2>4, <2>5
<1>6. h \in 0 .. h /\ h - h = 0
    OBVIOUS
<1> QED  BY <1>3, <1>5, <1>6

-----------------------------------------------------------------------------
(* Insertion *)

\* What tree_insert makes of the root of a tree of h levels.
Inserted(old, range, h, entry, new) ==
    /\ Inside(new, range, h) /\ new.kvs # <<>> /\ FirstKey(new) = FirstKey(old)
    /\ Splits(Own(new), new)
    /\ Held(new, h) = {e \in Held(old, h) : e.key # entry.key} \cup {entry}

LEMMA OwnSplits ==
    ASSUME NEW Child, NEW node, Splits(Child, node)
    PROVE  Splits(Own(node), node) /\ node \in NodeOf(Own(node))
<1>1. node \in NodeOf(Child)
    BY DEF Splits
<1>2. node \in NodeOf(Own(node))
    BY <1>1, OwnNode
<1> QED  BY <1>2 DEF Splits

LEMMA InsertLeaf ==
    ASSUME NEW node, NEW range, NEW key \in Keys, NEW val \in Vals, Among(node, range, 0, key)
    PROVE  Inserted(node, range, 0, Entry(key, val, Nil), leaf_set(node, key, val))
<1> DEFINE Child == Own(node) \cup {Nil}
           entry == Entry(key, val, Nil)
           new == leaf_set(node, key, val)
<1>1. range \subseteq AllKeys /\ key \in range /\ Inside(node, range, 0) /\ Whole(node, range)
    BY TreeIs DEF Among
<1>2. node \in NodeOf(Own(node)) /\ Ascending(node.kvs) /\ DOMAIN node.kvs = 1 .. Len(node.kvs)
    BY <1>1, InsideFacts
<1>3. node \in NodeOf(Child) /\ Nil \in Child
    BY <1>2, OwnNode
<1>4. node.kvs # <<>> /\ FirstKey(node) <= key /\ Fits(node)
    BY <1>1 DEF Whole
<1> HIDE DEF Child
<1>5. /\ SetExactly(node.kvs, new.kvs, entry)
      /\ FirstKey(new) = FirstKey(node) /\ Splits(Child, new)
    BY <1>2, <1>3, <1>4, LeafSetExact
<1>6. new.leaf
    BY DEF leaf_set, leaf_insert, leaf_update, Leaf, Node
<1>7. Splits(Own(new), new) /\ new \in NodeOf(Own(new))
    BY <1>5, OwnSplits
<1> HIDE DEF new
<1>8. Ascending(new.kvs) /\ ToSet(new.kvs) = {e \in ToSet(node.kvs) : e.key # entry.key} \cup {entry}
    BY <1>5 DEF SetExactly
<1>9. entry.key = key
    BY DEF Entry
<1>10. \A i \in DOMAIN new.kvs : new.kvs[i].key \in range
    <2>1. \A e \in ToSet(node.kvs) : e.key \in range
        BY <1>1 DEF Inside, ToSet
    <2>2. \A i \in DOMAIN new.kvs : new.kvs[i] \in ToSet(new.kvs)
        BY DEF ToSet
    <2> HIDE DEF entry
    <2> QED  BY <1>1, <1>8, <1>9, <2>1, <2>2
<1>11. new.kvs # <<>>
    <2>1. ToSet(<<>>) = {}
        BY DEF ToSet
    <2> QED  BY <1>8, <2>1
<1>12. Inside(new, range, 0)
    <2>1. new.leaf = TRUE /\ (0 = 0) = TRUE /\ ~(0 > 0)
        BY <1>6, <1>7 DEF NodeOf
    <2> QED  BY <1>7, <1>8, <1>10, <2>1 DEF Inside
<1>13. Held(new, 0) = ToSet(new.kvs) /\ Held(node, 0) = ToSet(node.kvs)
    BY HeldNext
<1> HIDE DEF entry
<1> QED  BY <1>5, <1>7, <1>8, <1>11, <1>12, <1>13 DEF Inserted, new, entry

\* The two halves of a node are in order, the left one below the right one's
\* first key, and hold what the node held.
SplitAsOne(node, range, h) ==
    LET left == node_split(node)[1]
        right == node_split(node)[2]
    IN  /\ Inside(left, {k \in range : k < FirstKey(right)}, h) /\ left.kvs # <<>> /\ Fits(left)
        /\ Inside(right, {k \in range : FirstKey(right) <= k}, h) /\ right.kvs # <<>> /\ Fits(right)
        /\ FirstKey(left) = FirstKey(node) /\ FirstKey(left) < FirstKey(right)
        /\ Held(left, h) \cup Held(right, h) = Held(node, h)

LEMMA SplitInside ==
    ASSUME NEW node, NEW range \in SUBSET AllKeys, NEW h \in Nat, Inside(node, range, h), SplitOk(node), ~Fits(node)
    PROVE  SplitAsOne(node, range, h)
<1> DEFINE kvs == node.kvs
           n == Len(kvs)
           m == SplitAt(node)
           left == Node(node.leaf, SubSeq(kvs, 1, m))
           right == Node(node.leaf, SubSeq(kvs, m + 1, n))
           a == left.kvs
           b == right.kvs
           K(i) == kvs[i].key
           C(i) == kvs[i].child
           A == {k \in range : k < K(m + 1)}
           B == {k \in range : K(m + 1) <= k}
<1>1. m \in 1 .. n - 1 /\ \A i \in 1 .. 2 : Fits(node_split(node)[i])
    BY DEF SplitOk
<1>2. /\ node \in NodeOf(Own(node)) /\ node.leaf = (h = 0) /\ Ascending(kvs) /\ n \in Nat
      /\ \A i \in 1 .. n : /\ K(i) \in range /\ K(i) \in Nat
                           /\ h > 0 => IsTree(C(i), Below(node, i, range), h - 1)
    BY InsideFacts
<1>3. kvs \in Seq(EntryOf(Own(node))) /\ node.leaf \in BOOLEAN
    BY <1>2, NodeFacts
<1>4. node_split(node)[1] = left /\ node_split(node)[2] = right
    BY DEF node_split
<1>5. Fits(left) /\ Fits(right)
    BY <1>1, <1>4
<1>6. /\ Len(a) = m /\ \A i \in 1 .. m : a[i] = kvs[i]
      /\ Len(b) = n - m /\ \A i \in 1 .. n - m : b[i] = kvs[m + i]
      /\ a \in Seq(EntryOf(Own(node))) /\ b \in Seq(EntryOf(Own(node)))
    <2>1. a = SubSeq(kvs, 1, m) /\ b = SubSeq(kvs, m + 1, n)
        BY DEF Node
    <2>2. /\ Len(SubSeq(kvs, 1, m)) = m /\ \A i \in 1 .. m : SubSeq(kvs, 1, m)[i] = kvs[i]
          /\ SubSeq(kvs, 1, m) \in Seq(EntryOf(Own(node)))
        <3> HIDE DEF m, kvs, n
        <3>1. 1 \in 1 .. Len(kvs) + 1 /\ m \in 1 - 1 .. Len(kvs)
            BY <1>1, <1>2 DEF n
        <3> QED  BY <1>1, <1>2, <1>3, <3>1, Part DEF n
    <2>3. /\ Len(SubSeq(kvs, m + 1, n)) = n - m /\ \A i \in 1 .. n - m : SubSeq(kvs, m + 1, n)[i] = kvs[m + i]
          /\ SubSeq(kvs, m + 1, n) \in Seq(EntryOf(Own(node)))
        <3> HIDE DEF m, kvs, n
        <3>1. m + 1 \in 1 .. Len(kvs) + 1 /\ n \in (m + 1) - 1 .. Len(kvs)
            BY <1>1, <1>2 DEF n
        <3> QED  BY <1>1, <1>2, <1>3, <3>1, Part DEF n
    <2> QED  BY <2>1, <2>2, <2>3
<1>7. left.leaf = node.leaf /\ right.leaf = node.leaf
    BY DEF Node
<1>8. left \in NodeOf(Own(node)) /\ right \in NodeOf(Own(node))
    BY <1>3, <1>6, NodeIs DEF Node
<1>9. left \in NodeOf(Own(left)) /\ right \in NodeOf(Own(right)) /\ DOMAIN a = 1 .. Len(a) /\ DOMAIN b = 1 .. Len(b)
    BY <1>8, OwnNode
<1>10. \A i, j \in 1 .. n : i < j => K(i) < K(j)
    BY <1>2 DEF Ascending
<1> HIDE DEF kvs, n, m, left, right, a, b
<1>11. \A i, j \in 1 .. n : i <= j => K(i) <= K(j)
    BY <1>2, <1>10
<1>12. m + 1 \in 1 .. n /\ m \in Nat /\ 1 \in 1 .. m /\ 1 \in 1 .. n - m /\ 1 \in 1 .. n
    BY <1>1, <1>2
<1>13. Ascending(a) /\ Ascending(b)
    <2>1. \A i \in 1 .. m : i \in 1 .. n
        BY <1>1, <1>2
    <2>2. \A i \in 1 .. n - m : m + i \in 1 .. n
        BY <1>1, <1>2
    <2>3. ASSUME NEW i \in 1 .. m, NEW j \in 1 .. m, i < j  PROVE a[i].key < a[j].key
        BY <1>6, <1>10, <2>1, <2>3
    <2>4. ASSUME NEW i \in 1 .. n - m, NEW j \in 1 .. n - m, i < j  PROVE b[i].key < b[j].key
        <3>1. m + i \in 1 .. n /\ m + j \in 1 .. n /\ m + i < m + j
            BY <1>12, <2>2, <2>4
        <3> QED  BY <1>6, <1>10, <3>1
    <2> QED  BY <1>6, <2>3, <2>4 DEF Ascending
<1>14. FirstKey(left) = K(1) /\ FirstKey(right) = K(m + 1) /\ FirstKey(node) = K(1)
    BY <1>6, <1>12 DEF FirstKey, a, b, kvs
<1>15. K(1) < K(m + 1)
    BY <1>10, <1>12
<1>16. a # <<>> /\ b # <<>>
    BY <1>6, <1>12
<1>17. ASSUME NEW i \in 1 .. m
       PROVE  a[i].key \in A /\ Below(left, i, A) = Below(node, i, range)
    <2>1. i \in 1 .. n /\ i < m + 1 /\ a[i] = kvs[i]
        BY <1>1, <1>2, <1>6
    <2>2. K(i) < K(m + 1)
        BY <1>10, <1>12, <2>1
    <2>3. CASE i < m
        <3>1. i + 1 \in 1 .. m /\ i + 1 \in 1 .. n /\ i + 1 <= m + 1 /\ i < n
            BY <1>1, <1>2, <2>3
        <3>2. a[i + 1] = kvs[i + 1] /\ K(i + 1) <= K(m + 1) /\ K(i + 1) \in Nat /\ K(m + 1) \in Nat
            BY <1>2, <1>6, <1>11, <1>12, <3>1
        <3>3. \A k \in range : k \in Nat
            BY KeysNat
        <3>4. Below(left, i, A) = {k \in A : K(i) <= k /\ k < K(i + 1)}
            BY <1>6, <2>1, <2>3, <3>2 DEF Below, a
        <3>5. Below(node, i, range) = {k \in range : K(i) <= k /\ k < K(i + 1)}
            BY <3>1 DEF Below, n, kvs
        <3>6. \A k \in range : k < K(i + 1) => k < K(m + 1)
            BY <3>2, <3>3
        <3> QED  BY <1>2, <2>1, <2>2, <3>4, <3>5, <3>6
    <2>4. CASE i = m
        <3>1. Below(left, i, A) = {k \in A : K(i) <= k}
            BY <1>6, <2>1, <2>4 DEF Below, a
        <3>2. Below(node, i, range) = {k \in range : K(i) <= k /\ k < K(m + 1)}
            <4>1. i < n
                BY <1>1, <1>2, <2>4
            <4> QED  BY <2>4, <4>1 DEF Below, n, kvs
        <3> QED  BY <1>2, <2>1, <2>2, <3>1, <3>2
    <2> QED  BY <1>12, <2>3, <2>4
<1>18. ASSUME NEW i \in 1 .. n - m
       PROVE  b[i].key \in B /\ Below(right, i, B) = Below(node, m + i, range)
    <2>1. m + i \in 1 .. n /\ m + 1 <= m + i /\ b[i] = kvs[m + i]
        BY <1>1, <1>2, <1>6
    <2>2. K(m + 1) <= K(m + i) /\ K(m + i) \in Nat /\ K(m + 1) \in Nat
        BY <1>2, <1>11, <1>12, <2>1
    <2>3. i < n - m => i + 1 \in 1 .. n - m /\ m + (i + 1) = (m + i) + 1
        BY <1>1, <1>2
    <2>4. Below(right, i, B) = {k \in B : K(m + i) <= k /\ (i < n - m => k < K((m + i) + 1))}
        BY <1>6, <2>1, <2>3 DEF Below, b
    <2>5. Below(node, m + i, range) = {k \in range : K(m + i) <= k /\ (m + i < n => k < K((m + i) + 1))}
        BY DEF Below, n, kvs
    <2>6. \A k \in range : K(m + i) <= k => K(m + 1) <= k
        BY <2>2, KeysNat
    <2>7. i < n - m <=> m + i < n
        BY <1>1, <1>2
    <2> QED  BY <1>2, <2>1, <2>2, <2>4, <2>5, <2>6, <2>7
<1>19. Inside(left, A, h)
    <2>1. \A i \in DOMAIN a : a[i].key \in A
        BY <1>6, <1>9, <1>17
    <2>2. ASSUME h > 0, NEW i \in DOMAIN a  PROVE IsTree(a[i].child, Below(left, i, A), h - 1)
        <3>1. i \in 1 .. m /\ i \in 1 .. n /\ a[i] = kvs[i]
            BY <1>1, <1>2, <1>6, <1>9, <2>2
        <3> QED  BY <1>2, <1>17, <2>2, <3>1
    <2> QED  BY <1>2, <1>7, <1>9, <1>13, <2>1, <2>2 DEF Inside, a
<1>20. Inside(right, B, h)
    <2>1. \A i \in DOMAIN b : b[i].key \in B
        BY <1>6, <1>9, <1>18
    <2>2. ASSUME h > 0, NEW i \in DOMAIN b  PROVE IsTree(b[i].child, Below(right, i, B), h - 1)
        <3>1. i \in 1 .. n - m /\ m + i \in 1 .. n /\ b[i] = kvs[m + i]
            BY <1>1, <1>2, <1>6, <1>9, <2>2
        <3> QED  BY <1>2, <1>18, <2>2, <3>1
    <2> QED  BY <1>2, <1>7, <1>9, <1>13, <2>1, <2>2 DEF Inside, b
<1>21. ToSet(a) \cup ToSet(b) = ToSet(kvs)
    <2>1. DOMAIN kvs = 1 .. n
        BY <1>2, OwnNode DEF kvs, n
    <2>2. ToSet(kvs) = {kvs[i] : i \in 1 .. n} /\ ToSet(a) = {a[i] : i \in 1 .. m} /\ ToSet(b) = {b[i] : i \in 1 .. n - m}
        BY <1>6, <1>9, <2>1 DEF ToSet
    <2>3. ASSUME NEW i \in 1 .. n  PROVE (\E j \in 1 .. m : kvs[i] = a[j]) \/ (\E j \in 1 .. n - m : kvs[i] = b[j])
        <3>1. CASE i <= m
            <4>1. i \in 1 .. m
                BY <1>12, <3>1
            <4> QED  BY <1>6, <4>1
        <3>2. CASE i > m
            <4>1. i - m \in 1 .. n - m /\ m + (i - m) = i
                BY <1>1, <1>2, <3>2
            <4> QED  BY <1>6, <4>1
        <3> QED  BY <1>12, <3>1, <3>2
    <2>4. \A j \in 1 .. m : j \in 1 .. n /\ a[j] = kvs[j]
        BY <1>1, <1>2, <1>6
    <2>5. \A j \in 1 .. n - m : m + j \in 1 .. n /\ b[j] = kvs[m + j]
        BY <1>1, <1>2, <1>6
    <2>6. {a[j] : j \in 1 .. m} \subseteq {kvs[j] : j \in 1 .. n}
        BY <2>4
    <2>7. {b[j] : j \in 1 .. n - m} \subseteq {kvs[j] : j \in 1 .. n}
        BY <2>5
    <2>8. {kvs[j] : j \in 1 .. n} \subseteq {a[j] : j \in 1 .. m} \cup {b[j] : j \in 1 .. n - m}
        BY <2>3
    <2> QED  BY <2>2, <2>6, <2>7, <2>8
<1>22. Held(left, h) \cup Held(right, h) = Held(node, h)
    <2>1. CASE h = 0
        BY <1>21, <2>1, HeldNext DEF a, b, kvs
    <2>2. CASE h # 0
        <3>1. h - 1 \in Nat /\ (h - 1) + 1 = h
            BY <2>2
        <3>2. Own(left) \cup Own(right) = Own(node)
            BY <1>21 DEF Own, a, b, kvs
        <3>3. \A t : Held(t, h) = UNION {Held(c, h - 1) : c \in Own(t)}
            <4>1. \A t : Held(t, (h - 1) + 1) = UNION {Held(c, h - 1) : c \in Own(t)}
                BY <3>1, HeldNext
            <4> QED  BY <3>1, <4>1
        <3> QED  BY <3>2, <3>3
    <2> QED  BY <2>1, <2>2
<1> HIDE DEF K
<1> QED  BY <1>4, <1>5, <1>14, <1>15, <1>16, <1>19, <1>20, <1>22 DEF SplitAsOne, a, b

\* Below a link there are no entries with a key that belongs below another.
LEMMA Elsewhere ==
    ASSUME NEW node, NEW range, NEW h \in Nat, Inside(node, range, h + 1), range \subseteq AllKeys,
           NEW idx \in 1 .. Len(node.kvs), NEW key \in Below(node, idx, range),
           NEW j \in 1 .. Len(node.kvs), j # idx
    PROVE  \A e \in Held(node.kvs[j].child, h) : e.key # key
<1> DEFINE n == Len(node.kvs)
           K(i) == node.kvs[i].key
<1>1. /\ h + 1 \in Nat /\ Ascending(node.kvs) /\ n \in Nat /\ \A i \in 1 .. n : K(i) \in Nat
    BY InsideFacts
<1>2. \A a, b \in 1 .. n : a <= b => K(a) <= K(b)
    BY <1>1 DEF Ascending
<1>3. key \in Nat /\ K(idx) <= key /\ (idx < n => key < K(idx + 1))
    BY KeysNat DEF Below
<1>4. key \notin Below(node, j, range)
    <2>1. CASE j < idx
        <3>1. j < n /\ j + 1 \in 1 .. n /\ j + 1 <= idx
            BY <1>1, <2>1
        <3>2. K(j + 1) <= K(idx) /\ K(j + 1) \in Nat /\ K(idx) \in Nat
            BY <1>1, <1>2, <3>1
        <3>3. ~(key < K(j + 1))
            BY <1>3, <3>2
        <3> QED  BY <3>1, <3>3 DEF Below
    <2>2. CASE j > idx
        <3>1. idx < n /\ idx + 1 \in 1 .. n /\ idx + 1 <= j
            BY <1>1, <2>2
        <3>2. K(idx + 1) <= K(j) /\ K(idx + 1) \in Nat /\ K(j) \in Nat
            BY <1>1, <1>2, <3>1
        <3>3. ~(K(j) <= key)
            BY <1>3, <3>1, <3>2
        <3> QED  BY <3>3 DEF Below
    <2> QED  BY <1>1, <2>1, <2>2
<1>5. Inside(node.kvs[j].child, Below(node, j, range), h)
    BY LinkedTree
<1>6. \A e \in Held(node.kvs[j].child, h) : e.key \in Below(node, j, range)
    BY <1>5, HeldInside
<1> QED  BY <1>4, <1>6

\* The links to one child, or to two.
LEMMA LinksAre ==
    ASSUME NEW c, NEW d, FirstKey(c) \in AllKeys, FirstKey(d) \in AllKeys
    PROVE  /\ Link(c).key = FirstKey(c) /\ Link(c).child = c
           /\ Links(<<c>>) \in Seq(EntryOf({c, d})) /\ Len(Links(<<c>>)) = 1 /\ Links(<<c>>)[1] = Link(c)
           /\ Links(<<c, d>>) \in Seq(EntryOf({c, d})) /\ Len(Links(<<c, d>>)) = 2
           /\ Links(<<c, d>>)[1] = Link(c) /\ Links(<<c, d>>)[2] = Link(d)
<1>1. c \in Linkable({c, d}) /\ d \in Linkable({c, d})
    BY DEF Linkable, AllKeys
<1>2. Links(<<c>>) \in Seq(EntryOf({c, d})) /\ Links(<<c, d>>) \in Seq(EntryOf({c, d}))
    BY <1>1, LinkSizes
<1>3. Links(<<c>>) = [i \in 1 .. 1 |-> Link(<<c>>[i])] /\ Links(<<c, d>>) = [i \in 1 .. 2 |-> Link(<<c, d>>[i])]
    BY DEF Links
<1>4. Link(c).key = FirstKey(c) /\ Link(c).child = c
    BY DEF Link, Entry, FirstKey
<1>5. <<c>>[1] = c /\ <<c, d>>[1] = c /\ <<c, d>>[2] = d
    OBVIOUS
<1>6. Links(<<c>>)[1] = Link(c) /\ Links(<<c, d>>)[1] = Link(c) /\ Links(<<c, d>>)[2] = Link(d)
    <2>1. Links(<<c>>)[1] = Link(<<c>>[1]) /\ Links(<<c, d>>)[1] = Link(<<c, d>>[1]) /\ Links(<<c, d>>)[2] = Link(<<c, d>>[2])
        BY <1>3
    <2> QED  BY <1>5, <2>1
<1>7. Len(Links(<<c>>)) = 1 /\ Len(Links(<<c, d>>)) = 2
    <2> DEFINE one(i) == Link(<<c>>[i])
               two(i) == Link(<<c, d>>[i])
    <2>1. Links(<<c>>) = [i \in 1 .. 1 |-> one(i)] /\ Links(<<c, d>>) = [i \in 1 .. 2 |-> two(i)]
        BY <1>3
    <2> HIDE DEF one, two
    <2>2. Len([i \in 1 .. 1 |-> one(i)]) = 1 /\ Len([i \in 1 .. 2 |-> two(i)]) = 2
        OBVIOUS
    <2> QED  BY <2>1, <2>2
<1> QED  BY <1>2, <1>4, <1>6, <1>7

LEMMA HeldTwo ==
    ASSUME NEW S, NEW Q, NEW h
    PROVE  UNION {Held(x, h) : x \in S \cup Q} = (UNION {Held(x, h) : x \in S}) \cup (UNION {Held(x, h) : x \in Q})
OBVIOUS

\* What the other children hold stays, and has no key that belongs below a link
\* that is replaced.
KeepsRest(node, range, h, idx, cnt, mid) ==
    \E R :
        /\ Held(Replaced(FALSE, node.kvs, idx, cnt, mid), h + 1) = (UNION {Held(mid[j].child, h) : j \in 1 .. Len(mid)}) \cup R
        /\ Held(node, h + 1) = (UNION {Held(node.kvs[j].child, h) : j \in idx .. idx + cnt - 1}) \cup R
        /\ \A i \in idx .. idx + cnt - 1 : \A key \in Below(node, i, range) : \A e \in R : e.key # key

LEMMA RelinkHeld ==
    ASSUME NEW node, NEW range, NEW h \in Nat, NEW idx, NEW cnt, NEW mid, CanRelink(node, range, h, idx, cnt, mid)
    PROVE  KeepsRest(node, range, h, idx, cnt, mid)
<1> DEFINE n == Len(node.kvs)
           c(j) == node.kvs[j].child
           rest == (1 .. idx - 1) \cup (idx + cnt .. n)
           gone == idx .. idx + cnt - 1
           new == Replaced(FALSE, node.kvs, idx, cnt, mid)
           H(t) == Held(t, h)
           R == UNION {H(c(j)) : j \in rest}
<1>1. /\ Inside(node, range, h + 1) /\ range \subseteq AllKeys /\ h + 1 \in Nat
      /\ idx \in 1 .. n /\ cnt \in 1 .. n + 1 - idx
    BY DEF CanRelink
<1>2. n \in Nat /\ node \in NodeOf(Own(node))
    BY <1>1, InsideFacts
<1>3. Own(node) = {c(j) : j \in 1 .. n}
    BY <1>2, OwnNode
<1>4. Own(new) = {mid[j].child : j \in 1 .. Len(mid)} \cup {c(j) : j \in rest}
    <2>1. Relinked(node, range, h, idx, cnt, mid)
        BY RelinkNode
    <2> QED  BY <2>1, Zenon DEF Relinked
<1>5. 1 .. n = gone \cup rest /\ \A i \in gone, j \in rest : i \in 1 .. n /\ j \in 1 .. n /\ i # j
    <2> HIDE DEF n
    <2> QED  BY <1>1, <1>2
<1>6. \A t : Held(t, h + 1) = UNION {H(x) : x \in Own(t)}
    BY HeldNext
<1>7. \A i \in gone : \A key \in Below(node, i, range) : \A e \in R : e.key # key
    <2>1. ASSUME NEW i \in gone, NEW key \in Below(node, i, range), NEW j \in rest  PROVE \A e \in H(c(j)) : e.key # key
        <3>1. i \in 1 .. Len(node.kvs) /\ j \in 1 .. Len(node.kvs) /\ j # i
            BY <1>5, <2>1
        <3> HIDE DEF gone, rest
        <3> QED  BY <1>1, <3>1, Elsewhere
    <2> HIDE DEF gone, rest, H, c
    <2> QED  BY <2>1
<1> HIDE DEF n, rest, gone, H, c, new
<1>8. Held(new, h + 1) = (UNION {H(mid[j].child) : j \in 1 .. Len(mid)}) \cup R
    <2> DEFINE S == {mid[j].child : j \in 1 .. Len(mid)}
               Q == {c(j) : j \in rest}
    <2>1. UNION {H(x) : x \in S} = UNION {H(mid[j].child) : j \in 1 .. Len(mid)}
        OBVIOUS
    <2>2. UNION {H(x) : x \in Q} = R
        OBVIOUS
    <2> HIDE DEF S, Q, R
    <2>3. UNION {H(x) : x \in S \cup Q} = (UNION {H(x) : x \in S}) \cup (UNION {H(x) : x \in Q})
        BY HeldTwo DEF H
    <2>4. Held(new, h + 1) = UNION {H(x) : x \in S \cup Q}
        BY <1>4, <1>6 DEF S, Q
    <2> QED  BY <2>1, <2>2, <2>3, <2>4
<1>9. Held(node, h + 1) = (UNION {H(c(j)) : j \in gone}) \cup R
    <2> DEFINE S == {c(j) : j \in gone}
               Q == {c(j) : j \in rest}
    <2>1. UNION {H(x) : x \in S} = UNION {H(c(j)) : j \in gone}
        OBVIOUS
    <2>2. UNION {H(x) : x \in Q} = R
        OBVIOUS
    <2>3. Own(node) = S \cup Q
        <3>1. \A x : x \in 1 .. n <=> x \in gone \/ x \in rest
            BY <1>5, Zenon
        <3> QED  BY <1>3, <3>1
    <2> HIDE DEF S, Q, R
    <2>4. UNION {H(x) : x \in S \cup Q} = (UNION {H(x) : x \in S}) \cup (UNION {H(x) : x \in Q})
        BY HeldTwo DEF H
    <2>5. Held(node, h + 1) = UNION {H(x) : x \in S \cup Q}
        BY <1>6, <2>3
    <2> QED  BY <2>1, <2>2, <2>4, <2>5
<1> HIDE DEF R
<1> QED  BY <1>7, <1>8, <1>9 DEF KeepsRest, new, gone, H, c

\* What was inserted below a node: the call's result for it, given the result
\* for the child it visited.
WasInserted(node, range, h, key, entry, updated) ==
    LET idx == node_lookup_le(node, key)
    IN  /\ Among(node, range, h + 1, key) /\ h \in Nat /\ key \in Keys /\ entry.key = key
        /\ updated.ok
        /\ Inserted(node.kvs[idx].child, Below(node, idx, range), h, entry, updated.node)

InsertedToo(node, range, h, key, entry, updated) ==
    LET result == node_insert(node, key, updated)
    IN  result.ok /\ Inserted(node, range, h + 1, entry, result.node)

LEMMA InsertNode ==
    ASSUME NEW node, NEW range, NEW h, NEW key, NEW entry, NEW updated,
           WasInserted(node, range, h, key, entry, updated)
    PROVE  InsertedToo(node, range, h, key, entry, updated)
<1> DEFINE idx == node_lookup_le(node, key)
           n == Len(node.kvs)
           c == node.kvs[idx].child
           B == Below(node, idx, range)
           u == updated.node
           split == node_split_if_needed(u)
           mid == Links(split)
           new == Replaced(FALSE, node.kvs, idx, 1, mid)
           l == node_split(u)[1]
           r == node_split(u)[2]
<1>1. /\ Among(node, range, h + 1, key) /\ h \in Nat /\ key \in Keys /\ entry.key = key
      /\ updated.ok /\ Inserted(c, B, h, entry, u)
    BY DEF WasInserted
<1>2. h + 1 \in Nat /\ range \subseteq AllKeys /\ IsTree(node, range, h + 1) /\ key \in range
    BY <1>1 DEF Among
<1>3. Inside(node, range, h + 1) /\ node.kvs # <<>> /\ Fits(node)
    BY <1>2, TreeIs DEF Whole
<1>4. idx \in 1 .. n /\ n \in Nat /\ key \in B
    BY <1>1, LookupTree DEF LeadsOn
<1>5. node \in NodeOf(Own(node)) /\ \A j \in 1 .. n : node.kvs[j].key \in Nat
    BY <1>2, <1>3, InsideFacts
<1>6. FirstKey(c) = node.kvs[idx].key
    BY <1>1, <1>3, <1>4, LinkedTree
<1>7. Inside(u, B, h) /\ u.kvs # <<>> /\ FirstKey(u) = FirstKey(c) /\ Splits(Own(u), u)
    BY <1>1 DEF Inserted
<1>8. B \in SUBSET range /\ B \in SUBSET AllKeys
    BY <1>2 DEF Below
<1>9. \A x \in B : node.kvs[idx].key <= x /\ (idx + 1 <= n => x < node.kvs[idx + 1].key)
    <2>1. idx + 1 <= n <=> idx < n
        BY <1>4
    <2> QED  BY <2>1 DEF Below
<1>10. node_insert(node, key, updated).node = new
    BY AreReplaced, <1>5 DEF node_insert, node_replace_child_n, Result
<1>11. node_insert(node, key, updated).ok <=> updated.ok /\ SplitOk(u) /\ Bytes(new) <= 2 * PageSize
    BY <1>10 DEF node_insert, Result
<1>12. FirstKey(u) \in AllKeys
    <2>1. Len(u.kvs) \in Nat /\ Len(u.kvs) > 0 /\ \A i \in 1 .. Len(u.kvs) : u.kvs[i].key \in AllKeys
        BY <1>1, <1>7, InsideFacts
    <2>2. 1 \in 1 .. Len(u.kvs)
        BY <2>1
    <2> QED  BY <2>1, <2>2 DEF FirstKey
<1>13. 1 \in 1 .. n + 1 - idx /\ idx .. idx + 1 - 1 = {idx}
    BY <1>4
<1> HIDE DEF idx, n, c, B, u
<1> DEFINE Done == /\ mid[1].key = FirstKey(u)
                   /\ Relinked(node, range, h, idx, 1, mid) /\ KeepsRest(node, range, h, idx, 1, mid)
                   /\ Splits(Own(new), new)
                   /\ UNION {Held(mid[j].child, h) : j \in 1 .. Len(mid)} = Held(u, h)
<1>14. ASSUME Fits(u)  PROVE Done
    <2>1. split = <<u>>
        BY <1>14 DEF node_split_if_needed
    <2>2. mid \in Seq(EntryOf({u, u})) /\ Len(mid) = 1 /\ mid[1] = Link(u) /\ Link(u).key = FirstKey(u) /\ Link(u).child = u
        BY <1>12, <2>1, LinksAre
    <2> HIDE DEF split, mid
    <2>3. CanRelink(node, range, h, idx, 1, mid)
        <3>1. Ascending(mid) /\ \A j \in 1 .. Len(mid) : j = 1 /\ ~(j < Len(mid))
            BY <2>2 DEF Ascending
        <3>2. Inside(mid[1].child, B, h) /\ mid[1].child.kvs # <<>> /\ Fits(mid[1].child) /\ FirstKey(mid[1].child) = mid[1].key
            BY <1>7, <1>14, <2>2
        <3>3. \A j \in 1 .. Len(mid) :
                /\ Inside(mid[j].child, B, h)
                /\ mid[j].child.kvs # <<>> /\ Fits(mid[j].child)
                /\ FirstKey(mid[j].child) = mid[j].key
                /\ \A k \in B :
                    /\ node.kvs[idx].key <= k
                    /\ j < Len(mid) => k < mid[j + 1].key
                    /\ idx + 1 <= Len(node.kvs) => k < node.kvs[idx + 1].key
            BY <1>9, <3>1, <3>2 DEF n
        <3>4. Len(mid) >= 1
            BY <2>2
        <3> QED  BY <1>2, <1>3, <1>4, <1>8, <1>13, <2>2, <3>1, <3>3, <3>4 DEF CanRelink, n
    <2>4. Relinked(node, range, h, idx, 1, mid) /\ KeepsRest(node, range, h, idx, 1, mid)
        BY <1>1, <2>3, RelinkNode, RelinkHeld
    <2>5. Fits(new)
        <3> DEFINE Child == Own(node) \cup {u}
        <3>1. node \in NodeOf(Child) /\ u \in Linkable(Child)
            BY <1>5, <1>12, OwnNode DEF Linkable, AllKeys
        <3>2. Fits(node_replace_child_n(node, idx, <<u>>))
            BY <1>3, <1>4, <1>6, <1>7, <3>1, InsertSplits DEF n
        <3>3. node_replace_child_n(node, idx, <<u>>) = new
            BY <1>5, <2>1, AreReplaced DEF node_replace_child_n, mid
        <3> QED  BY <3>2, <3>3
    <2>6. Splits(Own(new), new)
        <3>1. new \in NodeOf(Own(new))
            BY <2>4 DEF Relinked, Inside
        <3> HIDE DEF new
        <3>2. Bytes(new) \in Nat
            BY <3>1, SizeOfNode, PageFacts
        <3>3. Bytes(new) <= PageSize + Half
            BY <2>5, <3>2, PageFacts DEF Fits
        <3> QED  BY <3>1, <3>3, SplitsIf
    <2>7. UNION {Held(mid[j].child, h) : j \in 1 .. Len(mid)} = Held(u, h)
        <3>1. 1 .. Len(mid) = {1}
            BY <2>2
        <3> QED  BY <2>2, <3>1
    <2> HIDE DEF new
    <2> QED  BY <2>2, <2>4, <2>6, <2>7
<1>15. ASSUME ~Fits(u)  PROVE Done
    <2>1. split = <<l, r>>
        BY <1>15 DEF node_split_if_needed, node_split
    <2>2. SplitAsOne(u, B, h)
        <3>1. SplitOk(u)
            BY <1>7 DEF Splits
        <3> QED  BY <1>1, <1>7, <1>8, <1>15, <3>1, SplitInside
    <2> DEFINE A1 == {k \in B : k < FirstKey(r)}
               A2 == {k \in B : FirstKey(r) <= k}
    <2>3. /\ Inside(l, A1, h) /\ l.kvs # <<>> /\ Fits(l)
          /\ Inside(r, A2, h) /\ r.kvs # <<>> /\ Fits(r)
          /\ FirstKey(l) = FirstKey(u) /\ FirstKey(l) < FirstKey(r)
          /\ Held(l, h) \cup Held(r, h) = Held(u, h)
        BY <2>2 DEF SplitAsOne
    <2>4. FirstKey(l) \in AllKeys /\ FirstKey(r) \in AllKeys
        <3>1. Len(r.kvs) \in Nat /\ Len(r.kvs) > 0 /\ \A i \in 1 .. Len(r.kvs) : r.kvs[i].key \in AllKeys
            BY <1>1, <2>3, InsideFacts
        <3>2. 1 \in 1 .. Len(r.kvs)
            BY <3>1
        <3> QED  BY <1>12, <2>3, <3>1, <3>2 DEF FirstKey
    <2>5. /\ mid \in Seq(EntryOf({l, r})) /\ Len(mid) = 2 /\ mid[1] = Link(l) /\ mid[2] = Link(r)
          /\ Link(l).key = FirstKey(l) /\ Link(l).child = l
          /\ Link(r).key = FirstKey(r) /\ Link(r).child = r
        <3> HIDE DEF l, r
        <3>1. Links(<<l, r>>) \in Seq(EntryOf({l, r})) /\ Len(Links(<<l, r>>)) = 2
              /\ Links(<<l, r>>)[1] = Link(l) /\ Links(<<l, r>>)[2] = Link(r)
            BY <2>4, LinksAre
        <3>2. Link(l).key = FirstKey(l) /\ Link(l).child = l /\ Link(r).key = FirstKey(r) /\ Link(r).child = r
            BY <2>4, LinksAre
        <3> QED  BY <2>1, <3>1, <3>2
    <2> HIDE DEF split, mid, l, r
    <2>6. CanRelink(node, range, h, idx, 1, mid)
        <3>1. Ascending(mid) /\ 1 .. Len(mid) = {1, 2}
            <4>1. 1 .. Len(mid) = {1, 2}
                BY <2>5
            <4>2. mid[1].key < mid[2].key
                BY <2>3, <2>5
            <4> QED  BY <4>1, <4>2 DEF Ascending
        <3>2. A1 \in SUBSET range /\ A2 \in SUBSET range
            BY <1>8
        <3>3. /\ Inside(mid[1].child, A1, h) /\ mid[1].child.kvs # <<>> /\ Fits(mid[1].child) /\ FirstKey(mid[1].child) = mid[1].key
              /\ Inside(mid[2].child, A2, h) /\ mid[2].child.kvs # <<>> /\ Fits(mid[2].child) /\ FirstKey(mid[2].child) = mid[2].key
            BY <2>3, <2>5
        <3>4. /\ \A k \in A1 : /\ node.kvs[idx].key <= k
                               /\ k < mid[2].key
                               /\ idx + 1 <= Len(node.kvs) => k < node.kvs[idx + 1].key
              /\ \A k \in A2 : /\ node.kvs[idx].key <= k
                               /\ idx + 1 <= Len(node.kvs) => k < node.kvs[idx + 1].key
            BY <1>9, <2>5 DEF n
        <3> HIDE DEF A1, A2
        <3>5. \A j \in 1 .. Len(mid) :
                \E A \in SUBSET range :
                    /\ Inside(mid[j].child, A, h)
                    /\ mid[j].child.kvs # <<>> /\ Fits(mid[j].child)
                    /\ FirstKey(mid[j].child) = mid[j].key
                    /\ \A k \in A :
                        /\ node.kvs[idx].key <= k
                        /\ j < Len(mid) => k < mid[j + 1].key
                        /\ idx + 1 <= Len(node.kvs) => k < node.kvs[idx + 1].key
            <4>1. CASE TRUE
                <5>1. \A j \in 1 .. Len(mid) : j = 1 \/ j = 2
                    BY <2>5
                <5>2. ASSUME NEW j, j = 1
                      PROVE  \E A \in SUBSET range :
                                /\ Inside(mid[j].child, A, h)
                                /\ mid[j].child.kvs # <<>> /\ Fits(mid[j].child)
                                /\ FirstKey(mid[j].child) = mid[j].key
                                /\ \A k \in A :
                                    /\ node.kvs[idx].key <= k
                                    /\ j < Len(mid) => k < mid[j + 1].key
                                    /\ idx + 1 <= Len(node.kvs) => k < node.kvs[idx + 1].key
                    <6>1. j + 1 = 2
                        BY <5>2
                    <6> QED  BY <3>2, <3>3, <3>4, <5>2, <6>1
                <5>3. ASSUME NEW j, j = 2
                      PROVE  \E A \in SUBSET range :
                                /\ Inside(mid[j].child, A, h)
                                /\ mid[j].child.kvs # <<>> /\ Fits(mid[j].child)
                                /\ FirstKey(mid[j].child) = mid[j].key
                                /\ \A k \in A :
                                    /\ node.kvs[idx].key <= k
                                    /\ j < Len(mid) => k < mid[j + 1].key
                                    /\ idx + 1 <= Len(node.kvs) => k < node.kvs[idx + 1].key
                    <6>1. ~(j < Len(mid))
                        BY <2>5, <5>3
                    <6> QED  BY <3>2, <3>3, <3>4, <5>3, <6>1
                <5> QED  BY <5>1, <5>2, <5>3
            <4> QED  BY <4>1
        <3>6. Len(mid) >= 1
            BY <2>5
        <3> QED  BY <1>2, <1>3, <1>4, <1>13, <2>5, <3>1, <3>5, <3>6 DEF CanRelink, n
    <2>7. Relinked(node, range, h, idx, 1, mid) /\ KeepsRest(node, range, h, idx, 1, mid)
        BY <1>1, <2>6, RelinkNode, RelinkHeld
    <2>8. Splits(Own(new), new)
        <3> DEFINE Child == Own(node) \cup {l, r}
        <3>1. node \in NodeOf(Child) /\ l \in Linkable(Child) /\ r \in Linkable(Child)
            BY <1>5, <2>4, OwnNode DEF Linkable, AllKeys
        <3>2. FirstKey(l) = node.kvs[idx].key /\ idx \in 1 .. Len(node.kvs)
            BY <1>4, <1>6, <1>7, <2>3 DEF n
        <3> HIDE DEF Child
        <3>3. Splits(Child, node_replace_child_n(node, idx, <<l, r>>))
            BY <1>3, <3>1, <3>2, InsertSplits
        <3>4. node_replace_child_n(node, idx, <<l, r>>) = new
            BY <1>5, <2>1, AreReplaced DEF node_replace_child_n, mid
        <3>5. Splits(Child, new)
            BY <3>3, <3>4
        <3> QED  BY <3>5, OwnSplits
    <2>9. UNION {Held(mid[j].child, h) : j \in 1 .. Len(mid)} = Held(u, h)
        <3>1. 1 .. Len(mid) = {1, 2}
            BY <2>5
        <3> QED  BY <2>3, <2>5, <3>1
    <2>10. mid[1].key = FirstKey(u)
        BY <2>3, <2>5
    <2> HIDE DEF new
    <2> QED  BY <2>7, <2>8, <2>9, <2>10
<1>16. Done
    BY <1>14, <1>15
<1> HIDE DEF mid, split
<1>17. Inside(new, range, h + 1) /\ new.kvs # <<>> /\ FirstKey(new) = IF idx = 1 THEN mid[1].key ELSE FirstKey(node)
    BY <1>16 DEF Relinked
<1>18. FirstKey(new) = FirstKey(node)
    <2>1. idx = 1 => mid[1].key = FirstKey(node)
        BY <1>6, <1>7, <1>16 DEF FirstKey
    <2> QED  BY <1>17, <2>1
<1>19. Held(new, h + 1) = {e \in Held(node, h + 1) : e.key # entry.key} \cup {entry}
    <2>1. PICK R : /\ Held(new, h + 1) = (UNION {Held(mid[j].child, h) : j \in 1 .. Len(mid)}) \cup R
                   /\ Held(node, h + 1) = (UNION {Held(node.kvs[j].child, h) : j \in idx .. idx + 1 - 1}) \cup R
                   /\ \A i \in idx .. idx + 1 - 1 : \A k \in Below(node, i, range) : \A e \in R : e.key # k
        BY <1>16 DEF KeepsRest
    <2>2. UNION {Held(node.kvs[j].child, h) : j \in idx .. idx + 1 - 1} = Held(c, h)
        BY <1>13 DEF c
    <2>3. \A e \in R : e.key # key
        BY <1>4, <1>13, <2>1 DEF B
    <2> DEFINE was == Held(c, h)
               now == UNION {Held(mid[j].child, h) : j \in 1 .. Len(mid)}
               old == UNION {Held(node.kvs[j].child, h) : j \in idx .. idx + 1 - 1}
    <2>4. now = Held(u, h) /\ old = was /\ Held(new, h + 1) = now \cup R /\ Held(node, h + 1) = old \cup R
        <3>1. now = Held(u, h)
            BY <1>16
        <3>2. old = was
            BY <2>2
        <3>3. Held(new, h + 1) = now \cup R
            BY <2>1
        <3>4. Held(node, h + 1) = old \cup R
            BY <2>1
        <3> HIDE DEF now, old, was
        <3> QED  BY <3>1, <3>2, <3>3, <3>4
    <2> HIDE DEF was, now, old
    <2>5. Held(u, h) = {e \in was : e.key # key} \cup {entry}
        BY <1>1 DEF Inserted, was
    <2>6. Held(new, h + 1) = ({e \in was : e.key # key} \cup {entry}) \cup R /\ Held(node, h + 1) = was \cup R
        BY <2>4, <2>5
    <2>7. {e \in was \cup R : e.key # key} = {e \in was : e.key # key} \cup R
        BY <2>3
    <2>8. entry.key = key
        BY <1>1
    <2> QED  BY <2>6, <2>7, <2>8
<1>20. node_insert(node, key, updated).ok
    BY <1>1, <1>7, <1>11, <1>16 DEF Splits
<1> HIDE DEF new
<1>21. Inserted(node, range, h + 1, entry, new)
    BY <1>16, <1>17, <1>18, <1>19 DEF Inserted
<1> QED  BY <1>10, <1>20, <1>21 DEF InsertedToo

\* The loop of tree_insert.
InsertLoop(f, tree, key, d, first, n) == f = [i \in 0 .. n |-> IF i = 0 THEN first ELSE node_insert(Visited(tree, key, d - i), key, f[i - 1])]

LEMMA InsertLoops ==
    ASSUME NEW tree, NEW key, NEW d, NEW first, NEW n \in Nat
    PROVE  \E f : InsertLoop(f, tree, key, d, first, n)
<1> DEFINE T == {m \in 0 .. n : ~ \E f : InsertLoop(f, tree, key, d, first, m)}
           base == first
           pass(x, i) == node_insert(Visited(tree, key, d - i), key, x)
           Loop(f, m) == f = [i \in 0 .. m |-> IF i = 0 THEN base ELSE pass(f[i - 1], i)]
<1>0. \A f, m : InsertLoop(f, tree, key, d, first, m) <=> Loop(f, m)
    BY DEF InsertLoop
<1>1. \E f : InsertLoop(f, tree, key, d, first, n)
    <2> HIDE DEF pass, base
    <2> SUFFICES ASSUME T # {}  PROVE FALSE
        <3>1. n \in 0 .. n
            OBVIOUS
        <3> QED  BY <3>1
    <2>1. 0 \notin T
        <3>1. Loop([i \in 0 .. 0 |-> base], 0)
            OBVIOUS
        <3> QED  BY <1>0, <3>1
    <2>2. PICK m \in T : m \in 1 .. n /\ m - 1 \in 0 .. n /\ m - 1 \notin T
        BY <2>1, FirstFailure
    <2>3. PICK f : Loop(f, m - 1)
        BY <1>0, <2>2
    <2> DEFINE g == [i \in 0 .. m |-> IF i = m THEN pass(f[m - 1], m) ELSE f[i]]
    <2>4. ASSUME NEW i \in 0 .. m  PROVE g[i] = IF i = 0 THEN base ELSE pass(g[i - 1], i)
        <3>1. CASE i = m
            BY <2>2, <3>1
        <3>2. CASE i # m
            <4>1. i \in 0 .. m - 1 /\ i - 1 # m /\ g[i] = f[i]
                BY <2>2, <3>2
            <4>2. f[i] = IF i = 0 THEN base ELSE pass(f[i - 1], i)
                BY <2>3, <4>1
            <4>3. i # 0 => g[i - 1] = f[i - 1]
                BY <2>2, <4>1
            <4> QED  BY <4>1, <4>2, <4>3
        <3> QED  BY <3>1, <3>2
    <2>5. Loop(g, m)
        BY <2>4
    <2> QED  BY <1>0, <2>2, <2>5
<1> QED  BY <1>1

\* tree_insert makes of a tree what may become one again, with the entry set and
\* everything else held as before.
LEMMA InsertTree ==
    ASSUME NEW tree, NEW range, NEW h, NEW key \in Keys, NEW val \in Vals, Among(tree, range, h, key)
    PROVE  tree_insert(tree, key, val).ok /\ Inserted(tree, range, h, Entry(key, val, Nil), tree_insert(tree, key, val).node)
<1> DEFINE v(i) == Visited(tree, key, i)
           last == v(h)
           leaf == leaf_set(last, key, val)
           first == Result(leaf, {}, {}, last.leaf /\ Bytes(leaf) <= 2 * PageSize)
           entry == Entry(key, val, Nil)
           Loop(f, n) == f = [i \in 0 .. n |-> IF i = 0 THEN first ELSE node_insert(v(h - i), key, f[i - 1])]
           result == CHOOSE f : Loop(f, h)
           Good(i) == \A Q : Among(v(h - i), Q, i, key) => result[i].ok /\ Inserted(v(h - i), Q, i, entry, result[i].node)
           T == {i \in 0 .. h : ~Good(i)}
<1>1. h \in Nat /\ IsTree(tree, range, h) /\ range \in SUBSET AllKeys /\ key \in range
    BY DEF Among
<1>2. Depth(tree, key) = h
    BY <1>1, DepthIs
<1>3. tree_insert(tree, key, val) = result[h]
    BY <1>2 DEF tree_insert
<1>4. Loop(result, h)
    <2>1. \E f : Loop(f, h)
        <3>1. \E f : InsertLoop(f, tree, key, h, first, h)
            BY <1>1, InsertLoops
        <3> QED  BY <3>1 DEF InsertLoop
    <2> HIDE DEF Loop
    <2> QED  BY <2>1
<1>5. v(0) = tree /\ \A i \in Nat : v(i + 1) = v(i).kvs[node_lookup_le(v(i), key)].child
    BY VisitNext
<1>6. entry.key = key
    BY DEF Entry
<1>7. \A i \in 0 .. h : result[i] = IF i = 0 THEN first ELSE node_insert(v(h - i), key, result[i - 1])
    <2> HIDE DEF first, v, result
    <2>1. result = [i \in 0 .. h |-> IF i = 0 THEN first ELSE node_insert(v(h - i), key, result[i - 1])]
        BY <1>4
    <2> QED  BY <2>1
<1> HIDE DEF result, entry, v
<1>8. 0 \notin T
    <2> SUFFICES ASSUME NEW Q, Among(v(h), Q, 0, key)
                 PROVE  result[0].ok /\ Inserted(v(h), Q, 0, entry, result[0].node)
        BY <1>1
    <2>1. Inserted(last, Q, 0, entry, leaf)
        BY InsertLeaf DEF entry
    <2>2. last.leaf
        <3>1. LeadsOn(v(h), Q, 0, key)
            BY LookupTree
        <3> QED  BY <3>1 DEF LeadsOn
    <2>3. result[0].node = leaf /\ (result[0].ok <=> last.leaf /\ Bytes(leaf) <= 2 * PageSize)
        <3>1. 0 \in 0 .. h
            BY <1>1
        <3>2. result[0] = first
            <4> HIDE DEF first
            <4> QED  BY <1>7, <3>1
        <3>3. first.node = leaf /\ (first.ok <=> last.leaf /\ Bytes(leaf) <= 2 * PageSize)
            <4>2. ASSUME NEW n, NEW g  PROVE Result(n, {}, {}, g).ok <=> g
                BY DEF Result
            <4>3. first.node = leaf
                <5> HIDE DEF leaf, last
                <5> QED  BY DEF Result
            <4>4. first.ok <=> last.leaf /\ Bytes(leaf) <= 2 * PageSize
                BY <4>2, Zenon
            <4> QED  BY <4>3, <4>4
        <3> HIDE DEF first
        <3> QED  BY <3>2, <3>3
    <2>4. Bytes(leaf) <= 2 * PageSize
        BY <2>1 DEF Inserted, Splits
    <2> QED  BY <2>1, <2>2, <2>3, <2>4
<1> HIDE DEF first, last, leaf
<1>9. ASSUME NEW i \in 1 .. h, Good(i - 1)  PROVE Good(i)
    <2> SUFFICES ASSUME NEW Q, Among(v(h - i), Q, i, key)
                 PROVE  result[i].ok /\ Inserted(v(h - i), Q, i, entry, result[i].node)
        OBVIOUS
    <2> DEFINE node == v(h - i)
               idx == node_lookup_le(node, key)
               B == Below(node, idx, Q)
    <2>1. i - 1 \in Nat /\ (i - 1) + 1 = i /\ h - i \in Nat /\ (h - i) + 1 = h - (i - 1) /\ i > 0 /\ i \in 0 .. h /\ i # 0
        BY <1>1
    <2>2. LeadsOn(node, Q, i, key)
        BY LookupTree
    <2>3. key \in B /\ IsTree(node.kvs[idx].child, B, i - 1)
        BY <2>1, <2>2 DEF LeadsOn
    <2>4. v(h - (i - 1)) = node.kvs[idx].child
        BY <1>5, <2>1
    <2>5. B \subseteq AllKeys
        BY DEF Among, Below
    <2>6. Among(v(h - (i - 1)), B, i - 1, key)
        BY <2>1, <2>3, <2>4, <2>5 DEF Among
    <2>7. result[i - 1].ok /\ Inserted(v(h - (i - 1)), B, i - 1, entry, result[i - 1].node)
        BY <1>9, <2>6
    <2>8. result[i] = node_insert(node, key, result[i - 1])
        BY <1>7, <2>1
    <2>9. WasInserted(node, Q, i - 1, key, entry, result[i - 1])
        BY <1>6, <2>1, <2>4, <2>7 DEF WasInserted
    <2>10. InsertedToo(node, Q, i - 1, key, entry, result[i - 1])
        BY <2>9, InsertNode
    <2> QED  BY <2>1, <2>8, <2>10 DEF InsertedToo
<1> HIDE DEF Good
<1>10. T = {}
    <2> SUFFICES ASSUME T # {}  PROVE FALSE
        OBVIOUS
    <2>1. PICK i \in T : i \in 1 .. h /\ i - 1 \in 0 .. h /\ i - 1 \notin T
        BY <1>1, <1>8, FirstFailure
    <2> QED  BY <1>9, <2>1
<1>11. Good(h)
    BY <1>1, <1>10
<1>12. h - h = 0
    BY <1>1
<1> QED  BY <1>3, <1>5, <1>11, <1>12 DEF Good, entry

\* Two entries always fit a page.
LEMMA TwoFit ==
    ASSUME NEW Child, NEW a \in EntryOf(Child), NEW b \in EntryOf(Child), NEW leaf \in BOOLEAN
    PROVE  /\ <<a, b>> \in Seq(EntryOf(Child)) /\ Node(leaf, <<a, b>>) \in NodeOf(Child)
           /\ Fits(Node(leaf, <<a, b>>))
<1>1. EntrySize(a) \in 1 .. Half /\ EntrySize(b) \in 1 .. Half
    BY EntryHalf
<1>3. <<a, b>> \in Seq(EntryOf(Child)) /\ Size(<<a, b>>) = EntrySize(a) + EntrySize(b)
    BY SizeOfPair
<1>4. Bytes(Node(leaf, <<a, b>>)) = Size(<<a, b>>) + Header
    BY <1>3, SizeOf
<1>5. Fits(Node(leaf, <<a, b>>))
    BY <1>1, <1>3, <1>4, PageFacts DEF Fits
<1> QED  BY <1>3, <1>5, NodeIs

\* A tree of the map's keys. Its first key is the sentinel.
Sound(tree, h) == tree # Nil /\ h \in Nat /\ IsTree(tree, AllKeys, h)

LEMMA SoundIs ==
    ASSUME NEW tree, NEW h \in Nat
    PROVE  Sound(tree, h) <=> Inside(tree, AllKeys, h) /\ Whole(tree, AllKeys)
<1>1. ASSUME Inside(tree, AllKeys, h)  PROVE tree # Nil
    <2>1. tree \in NodeOf(Own(tree))
        BY <1>1 DEF Inside
    <2>2. DOMAIN tree = {"leaf", "kvs"} /\ DOMAIN Nil = {"page"}
        BY <2>1 DEF NodeOf, Nil
    <2>3. "leaf" \in DOMAIN tree /\ "leaf" \notin DOMAIN Nil
        BY <2>2
    <2> QED  BY <2>3
<1>2. IsTree(tree, AllKeys, h) <=> Inside(tree, AllKeys, h) /\ Whole(tree, AllKeys)
    BY TreeIs
<1> QED  BY <1>1, <1>2 DEF Sound

\* What insert makes of a tree of h levels, and of no tree.
InsertedInto(held, key, val, h, r) ==
    /\ r.ok
    /\ \E g \in Nat : /\ Sound(r.node, g)
                      /\ Held(r.node, g) = {e \in held : e.key # key} \cup {Entry(key, val, Nil)}

LEMMA InsertFirst ==
    ASSUME NEW key \in Keys, NEW val \in Vals
    PROVE  InsertedInto({Entry(0, 0, Nil)}, key, val, 0, insert(Nil, key, val))
<1> DEFINE a == Entry(0, 0, Nil)
           b == Entry(key, val, Nil)
           first == Leaf(<<a, b>>)
<1>1. a \in EntryOf({Nil}) /\ b \in EntryOf({Nil}) /\ a.key = 0 /\ b.key = key
    BY EntryAssumption DEF Entry, EntryOf
<1>2. key \in Nat /\ key # 0
    BY EntryAssumption
<1>3. first.kvs = <<a, b>> /\ first.leaf = TRUE
    BY DEF Leaf, Node
<1>4. insert(Nil, key, val).node = first /\ (insert(Nil, key, val).ok <=> Fits(first))
    <2> DEFINE r == Result(first, {first}, {}, Fits(first))
    <2>1. insert(Nil, key, val) = r
        BY DEF insert
    <2>2. r.node = first /\ (r.ok <=> Fits(first))
        <3> HIDE DEF first
        <3> QED  BY DEF Result
    <2> HIDE DEF r, first
    <2> QED  BY <2>1, <2>2
<1> HIDE DEF a, b
<1>5. first \in NodeOf({Nil}) /\ Fits(first)
    <2>1. TRUE \in BOOLEAN
        OBVIOUS
    <2> QED  BY <1>1, <2>1, TwoFit DEF Leaf
<1>6. DOMAIN <<a, b>> = 1 .. 2 /\ Len(<<a, b>>) = 2 /\ <<a, b>>[1] = a /\ <<a, b>>[2] = b
    OBVIOUS
<1> HIDE DEF first
<1>7. Ascending(first.kvs)
    <2>1. \A i, j \in 1 .. 2 : i < j => i = 1 /\ j = 2
        OBVIOUS
    <2> QED  BY <1>1, <1>2, <1>3, <1>6, <2>1 DEF Ascending
<1>8. Inside(first, AllKeys, 0)
    <2>1. \A i \in 1 .. 2 : i = 1 \/ i = 2
        OBVIOUS
    <2>2. \A i \in DOMAIN first.kvs : first.kvs[i].key \in AllKeys
        BY <1>1, <1>3, <1>6, <2>1 DEF AllKeys
    <2>3. first \in NodeOf(Own(first))
        BY <1>5, OwnNode
    <2>4. first.leaf = (0 = 0) /\ ~(0 > 0)
        <3>1. (0 = 0) = TRUE /\ ~(0 > 0)
            OBVIOUS
        <3> QED  BY <1>3, <3>1
    <2> QED  BY <1>7, <2>2, <2>3, <2>4 DEF Inside
<1>9. Whole(first, AllKeys)
    <2>1. first.kvs # <<>> /\ FirstKey(first) = 0
        BY <1>1, <1>3, <1>6 DEF FirstKey
    <2> QED  BY <1>5, <2>1, KeysNat DEF Whole
<1>10. Held(first, 0) = {a, b}
    <2>1. Held(first, 0) = ToSet(<<a, b>>)
        BY <1>3, HeldNext
    <2>2. ToSet(<<a, b>>) = {a, b}
        BY <1>6 DEF ToSet
    <2> QED  BY <2>1, <2>2
<1>11. {e \in {a} : e.key # key} \cup {b} = {a, b}
    BY <1>1, <1>2
<1>12. Sound(first, 0)
    BY <1>8, <1>9, SoundIs
<1> QED  BY <1>4, <1>5, <1>10, <1>11, <1>12 DEF InsertedInto, a, b

LEMMA InsertRoot ==
    ASSUME NEW tree, NEW h, Sound(tree, h), NEW key \in Keys, NEW val \in Vals
    PROVE  InsertedInto(Held(tree, h), key, val, h, insert(tree, key, val))
<1> DEFINE updated == tree_insert(tree, key, val)
           u == updated.node
           split == node_split_if_needed(u)
           new_root == IF Len(split) > 1 THEN Inner([i \in DOMAIN split |-> Link(split[i])]) ELSE split[1]
           entry == Entry(key, val, Nil)
           l == node_split(u)[1]
           r == node_split(u)[2]
           result == insert(tree, key, val)
           held == {e \in Held(tree, h) : e.key # key} \cup {entry}
<1>1. h \in Nat /\ tree # Nil /\ Whole(tree, AllKeys) /\ IsTree(tree, AllKeys, h)
    BY TreeIs DEF Sound
<1>2. updated.ok /\ Inserted(tree, AllKeys, h, entry, u)
    <2>1. Among(tree, AllKeys, h, key)
        BY <1>1 DEF Among, AllKeys
    <2> QED  BY <2>1, InsertTree
<1>3. /\ Inside(u, AllKeys, h) /\ u.kvs # <<>> /\ FirstKey(u) = FirstKey(tree) /\ Splits(Own(u), u)
      /\ Held(u, h) = held
    <2>1. entry.key = key
        BY DEF Entry
    <2> QED  BY <1>2, <2>1 DEF Inserted
<1>4. result.node = new_root /\ (result.ok <=> SplitOk(u) /\ Fits(new_root))
    <2> DEFINE news == updated.news \cup ToSet(split) \cup {new_root}
               dels == updated.dels \cup {tree}
               good == updated.ok /\ SplitOk(u) /\ Fits(new_root)
    <2>1. result = Result(new_root, news, dels, good)
        BY <1>1 DEF insert, insert_root
    <2>2. Result(new_root, news, dels, good).node = new_root
        <3> HIDE DEF new_root, news, dels, good
        <3> QED  BY DEF Result
    <2>3. Result(new_root, news, dels, good).ok <=> good
        <3> HIDE DEF new_root, news, dels, good
        <3> QED  BY DEF Result
    <2>4. good <=> SplitOk(u) /\ Fits(new_root)
        BY <1>2
    <2> HIDE DEF new_root, news, dels, good, result
    <2> QED  BY <2>1, <2>2, <2>3, <2>4
<1>5. SplitOk(u)
    BY <1>3 DEF Splits
<1> HIDE DEF u, held, result
<1>6. CASE Fits(u)
    <2>1. split = <<u>> /\ Len(<<u>>) = 1 /\ <<u>>[1] = u
        BY <1>6 DEF node_split_if_needed
    <2>2. new_root = u
        <3> HIDE DEF split
        <3> QED  BY <2>1
    <2>3. Whole(u, AllKeys)
        BY <1>1, <1>3, <1>6 DEF Whole
    <2>4. Sound(u, h)
        BY <1>1, <1>3, <2>3, SoundIs
    <2> HIDE DEF new_root
    <2> QED  BY <1>1, <1>3, <1>4, <1>5, <1>6, <2>2, <2>4 DEF InsertedInto, held, result
<1>7. CASE ~Fits(u)
    <2>1. split = <<l, r>> /\ Len(<<l, r>>) = 2
        BY <1>7 DEF node_split_if_needed, node_split
    <2>2. new_root = Inner(Links(<<l, r>>))
        <3> HIDE DEF split, l, r
        <3> QED  BY <2>1 DEF Links
    <2> DEFINE A1 == {k \in AllKeys : k < FirstKey(r)}
               A2 == {k \in AllKeys : FirstKey(r) <= k}
               mid == Links(<<l, r>>)
               top == Inner(mid)
    <2>3. /\ Inside(l, A1, h) /\ l.kvs # <<>> /\ Fits(l)
          /\ Inside(r, A2, h) /\ r.kvs # <<>> /\ Fits(r)
          /\ FirstKey(l) = FirstKey(u) /\ FirstKey(l) < FirstKey(r)
          /\ Held(l, h) \cup Held(r, h) = Held(u, h)
        <3>1. SplitAsOne(u, AllKeys, h)
            BY <1>1, <1>3, <1>5, <1>7, SplitInside
        <3> QED  BY <3>1 DEF SplitAsOne
    <2> HIDE DEF l, r, split, new_root
    <2>4. FirstKey(l) \in AllKeys /\ FirstKey(r) \in AllKeys
        <3>1. /\ Len(l.kvs) \in Nat /\ Len(l.kvs) > 0 /\ \A i \in 1 .. Len(l.kvs) : l.kvs[i].key \in AllKeys
              /\ Len(r.kvs) \in Nat /\ Len(r.kvs) > 0 /\ \A i \in 1 .. Len(r.kvs) : r.kvs[i].key \in AllKeys
            BY <1>1, <2>3, InsideFacts
        <3>2. 1 \in 1 .. Len(r.kvs) /\ 1 \in 1 .. Len(l.kvs)
            BY <3>1
        <3> QED  BY <3>1, <3>2 DEF FirstKey
    <2>5. /\ mid \in Seq(EntryOf({l, r})) /\ Len(mid) = 2 /\ mid[1] = Link(l) /\ mid[2] = Link(r)
          /\ Link(l).key = FirstKey(l) /\ Link(l).child = l
          /\ Link(r).key = FirstKey(r) /\ Link(r).child = r
        <3>1. Link(r).key = FirstKey(r) /\ Link(r).child = r
            BY <2>4, LinksAre
        <3> QED  BY <2>4, <3>1, LinksAre
    <2> HIDE DEF mid
    <2>6. top.kvs = mid /\ top.leaf = FALSE
        BY DEF Inner, Node
    <2>7. top \in NodeOf({l, r}) /\ Fits(top)
        <3>1. Link(l) \in EntryOf({l, r}) /\ Link(r) \in EntryOf({l, r})
            <4>1. l \in Linkable({l, r}) /\ r \in Linkable({l, r})
                BY <2>4 DEF Linkable, AllKeys
            <4> QED  BY <4>1, LinkFacts
        <3>2. mid = <<Link(l), Link(r)>>
            BY <2>5
        <3>3. FALSE \in BOOLEAN
            OBVIOUS
        <3> QED  BY <3>1, <3>2, <3>3, TwoFit DEF Inner
    <2> HIDE DEF top
    <2>8. 1 .. Len(mid) = {1, 2} /\ Ascending(mid)
        <3>1. 1 .. Len(mid) = {1, 2}
            BY <2>5
        <3> QED  BY <2>3, <2>5, <3>1 DEF Ascending
    <2>9. Linked(top, 1, AllKeys, h) /\ Linked(top, 2, AllKeys, h)
        <3>1. A1 \in SUBSET AllKeys /\ A2 \in SUBSET AllKeys
            OBVIOUS
        <3>2. \A k \in A1 : k < top.kvs[1 + 1].key
            BY <2>5, <2>6
        <3>3. Linked(top, 1, AllKeys, h)
            <4> HIDE DEF A1
            <4>1. top.kvs[1].child = l /\ top.kvs[1].key = FirstKey(l)
                BY <2>5, <2>6
            <4> QED  BY <2>3, <3>1, <3>2, <4>1 DEF Linked
        <3>4. Linked(top, 2, AllKeys, h)
            <4> HIDE DEF A2
            <4>1. top.kvs[2].child = r /\ top.kvs[2].key = FirstKey(r) /\ ~(2 < Len(top.kvs))
                <5>1. Len(top.kvs) = 2 /\ ~(2 < 2)
                    BY <2>5, <2>6
                <5> QED  BY <2>5, <2>6, <5>1
            <4> QED  BY <2>3, <3>1, <4>1 DEF Linked
        <3> QED  BY <3>3, <3>4
    <2>10. Inside(top, AllKeys, h + 1)
        <3>1. \A p \in 1 .. Len(top.kvs) : top.kvs[p].key \in AllKeys /\ Linked(top, p, AllKeys, h)
            BY <2>4, <2>5, <2>6, <2>8, <2>9
        <3> QED  BY <1>1, <2>6, <2>7, <2>8, <3>1, Assemble
    <2>11. Whole(top, AllKeys)
        <3>1. top.kvs # <<>> /\ FirstKey(top) = FirstKey(tree)
            <4>1. mid # <<>>
                <5>1. mid \in Seq(EntryOf({l, r})) /\ Len(mid) = 2
                    BY <2>5
                <5> QED  BY <5>1, EmptySeq
            <4>2. FirstKey(top) = mid[1].key
                BY <2>6 DEF FirstKey
            <4> QED  BY <1>3, <2>3, <2>5, <2>6, <4>1, <4>2
        <3> QED  BY <1>1, <2>7, <3>1 DEF Whole
    <2>12. h + 1 \in Nat /\ Sound(top, h + 1)
        BY <1>1, <2>10, <2>11, SoundIs
    <2>13. Held(top, h + 1) = held
        <3>1. Held(top, h + 1) = UNION {Held(x, h) : x \in Own(top)}
            BY <1>1, HeldNext
        <3>2. Own(top) = {l, r}
            <4>1. Own(top) = {top.kvs[i].child : i \in 1 .. Len(top.kvs)}
                BY <2>7, OwnNode
            <4> QED  BY <2>5, <2>6, <2>8, <4>1
        <3> QED  BY <1>3, <2>3, <3>1, <3>2
    <2>14. new_root = top
        BY <2>2 DEF top, mid
    <2> QED  BY <1>4, <1>5, <2>7, <2>12, <2>13, <2>14 DEF InsertedInto, held, result
<1> QED  BY <1>6, <1>7

-----------------------------------------------------------------------------
(* Removal *)

\* Two neighbours as one node.
Merged(left, right, A, B, h) ==
    LET new == node_merge(left, right)
    IN  /\ Inside(new, A \cup B, h)
        /\ Held(new, h) = Held(left, h) \cup Held(right, h)
        /\ left.kvs # <<>> => new.kvs # <<>> /\ FirstKey(new) = FirstKey(left)
        /\ right.kvs # <<>> => new.kvs # <<>>

CanMerge(left, right, A, B, h) ==
    /\ h \in Nat /\ Inside(left, A, h) /\ Inside(right, B, h)
    /\ A \subseteq AllKeys /\ B \subseteq AllKeys /\ \A a \in A, b \in B : a < b

LEMMA MergeInside ==
    ASSUME NEW left, NEW right, NEW A, NEW B, NEW h, CanMerge(left, right, A, B, h)
    PROVE  Merged(left, right, A, B, h)
<1> DEFINE a == left.kvs
           b == right.kvs
           m == Len(a)
           n == Len(b)
           new == node_merge(left, right)
           c == new.kvs
           Child == Own(left) \cup Own(right)
           range == A \cup B
<1>1. /\ h \in Nat /\ Inside(left, A, h) /\ Inside(right, B, h)
      /\ range \in SUBSET AllKeys /\ \A x \in A, y \in B : x < y
    BY DEF CanMerge
<1>2. /\ left \in NodeOf(Own(left)) /\ (left.leaf <=> h = 0) /\ Ascending(a) /\ m \in Nat
      /\ \A i \in 1 .. m : a[i].key \in A /\ a[i].key \in Nat
    BY <1>1, InsideFacts
<1>3. /\ right \in NodeOf(Own(right)) /\ (right.leaf <=> h = 0) /\ Ascending(b) /\ n \in Nat
      /\ \A i \in 1 .. n : b[i].key \in B /\ b[i].key \in Nat
    BY <1>1, InsideFacts
<1>4. left \in NodeOf(Child) /\ right \in NodeOf(Child)
    BY <1>2, <1>3, OwnNode
<1> HIDE DEF Child
<1>5. a \in Seq(EntryOf(Child)) /\ b \in Seq(EntryOf(Child)) /\ left.leaf \in BOOLEAN
    BY <1>4, NodeFacts
<1>6. new = Node(left.leaf, a \o b) /\ c = a \o b /\ new.leaf = left.leaf
    BY DEF node_merge, Node
<1>7. c \in Seq(EntryOf(Child)) /\ new \in NodeOf(Child)
    <2>1. a \o b \in Seq(EntryOf(Child))
        BY <1>5, ConcatProperties
    <2> HIDE DEF a, b, c, new
    <2> QED  BY <1>5, <1>6, <2>1, NodeIs DEF a
<1>8. Len(c) = m + n /\ \A i \in 1 .. m + n : c[i] = IF i <= m THEN a[i] ELSE b[i - m]
    <2> DEFINE s == a \o b
    <2> HIDE DEF a, b, c
    <2>1. Len(s) = Len(a) + Len(b) /\ \A i \in 1 .. Len(a) + Len(b) : s[i] = IF i <= Len(a) THEN a[i] ELSE b[i - Len(a)]
        BY <1>5, ConcatProperties
    <2>2. c = s
        BY <1>6
    <2> HIDE DEF s
    <2> QED  BY <2>1, <2>2
<1> HIDE DEF a, b, c, m, n, new
<1>9. DOMAIN c = 1 .. m + n /\ new \in NodeOf(Own(new))
    BY <1>7, <1>8, OwnNode DEF c
<1>10. \A i \in 1 .. m : c[i] = a[i] /\ i \in 1 .. m + n
    BY <1>2, <1>3, <1>8
<1>11. \A i \in 1 .. n : c[m + i] = b[i] /\ m + i \in 1 .. m + n
    <2>1. ASSUME NEW i \in 1 .. n  PROVE m + i \in 1 .. m + n /\ ~(m + i <= m) /\ (m + i) - m = i
        BY <1>2, <1>3
    <2> QED  BY <1>8, <2>1
<1>12. \A p \in 1 .. m + n : p \in 1 .. m \/ \E i \in 1 .. n : p = m + i
    <2> SUFFICES ASSUME NEW p \in 1 .. m + n, p \notin 1 .. m  PROVE \E i \in 1 .. n : p = m + i
        OBVIOUS
    <2>1. p - m \in 1 .. n /\ p = m + (p - m)
        BY <1>2, <1>3
    <2> QED  BY <2>1
<1>13. \A p \in 1 .. m + n : c[p].key \in range /\ c[p].key \in Nat
    BY <1>2, <1>3, <1>10, <1>11, <1>12 DEF a, b
<1>14. Ascending(c)
    <2>1. ASSUME NEW i \in 1 .. m + n, NEW j \in 1 .. m + n, i < j  PROVE c[i].key < c[j].key
        <3>1. CASE j \in 1 .. m
            <4>1. i \in 1 .. m
                BY <1>2, <2>1, <3>1
            <4> QED  BY <1>2, <1>10, <2>1, <3>1, <4>1 DEF Ascending, a, m
        <3>2. CASE j \notin 1 .. m
            <4>1. PICK q \in 1 .. n : j = m + q
                BY <1>12, <3>2
            <4>2. CASE i \in 1 .. m
                BY <1>1, <1>2, <1>3, <1>10, <1>11, <4>1, <4>2 DEF a, b
            <4>3. CASE i \notin 1 .. m
                <5>1. PICK o \in 1 .. n : i = m + o
                    BY <1>12, <4>3
                <5>2. o < q
                    BY <1>2, <1>3, <2>1, <4>1, <5>1
                <5>3. b[o].key < b[q].key
                    BY <1>3, <5>2 DEF Ascending, b, n
                <5> QED  BY <1>11, <4>1, <5>1, <5>3
            <4> QED  BY <4>2, <4>3
        <3> QED  BY <3>1, <3>2
    <2> QED  BY <1>8, <2>1 DEF Ascending
<1>15. Inside(new, range, h)
    <2>1. CASE h = 0
        <3>1. new.leaf = (h = 0) /\ ~(h > 0)
            <4>1. left.leaf = TRUE
                BY <1>2, <1>5, <2>1
            <4>2. (h = 0) = TRUE /\ ~(h > 0)
                BY <2>1
            <4> QED  BY <1>6, <4>1, <4>2
        <3> QED  BY <1>9, <1>13, <1>14, <3>1 DEF Inside, c
    <2>2. CASE h # 0
        <3>1. h - 1 \in Nat /\ (h - 1) + 1 = h
            BY <1>1, <2>2
        <3>2. ASSUME NEW p \in 1 .. m + n  PROVE Linked(new, p, range, h - 1)
            <4>1. CASE p \in 1 .. m
                <5>1. Linked(left, p, A, h - 1)
                    BY <1>1, <3>1, <4>1, OldLinked DEF m, a
                <5>2. PICK X \in SUBSET A :
                        /\ Inside(a[p].child, X, h - 1) /\ a[p].child.kvs # <<>> /\ Fits(a[p].child)
                        /\ FirstKey(a[p].child) = a[p].key
                        /\ p < m => \A k \in X : k < a[p + 1].key
                    BY <5>1 DEF Linked, a, m
                <5>3. X \in SUBSET range
                    OBVIOUS
                <5>4. ASSUME p < m + n, NEW k \in X  PROVE k < c[p + 1].key
                    <6>1. CASE p < m
                        <7>1. p + 1 \in 1 .. m
                            BY <1>2, <4>1, <6>1
                        <7> QED  BY <1>10, <5>2, <5>4, <6>1, <7>1
                    <6>2. CASE ~(p < m)
                        <7>1. p + 1 = m + 1 /\ 1 \in 1 .. n
                            BY <1>2, <1>3, <4>1, <5>4, <6>2
                        <7>2. c[p + 1] = b[1] /\ b[1].key \in B
                            BY <1>3, <1>11, <7>1 DEF b
                        <7> QED  BY <1>1, <7>2
                    <6> QED  BY <6>1, <6>2
                <5>5. c[p] = a[p]
                    BY <1>10, <4>1
                <5> HIDE DEF range
                <5> QED  BY <1>8, <5>2, <5>3, <5>4, <5>5 DEF Linked, c
            <4>2. CASE p \notin 1 .. m
                <5>1. PICK i \in 1 .. n : p = m + i
                    BY <1>12, <4>2
                <5>2. Linked(right, i, B, h - 1)
                    BY <1>1, <3>1, OldLinked DEF n, b
                <5>3. PICK X \in SUBSET B :
                        /\ Inside(b[i].child, X, h - 1) /\ b[i].child.kvs # <<>> /\ Fits(b[i].child)
                        /\ FirstKey(b[i].child) = b[i].key
                        /\ i < n => \A k \in X : k < b[i + 1].key
                    BY <5>2 DEF Linked, b, n
                <5>4. X \in SUBSET range
                    OBVIOUS
                <5>5. c[p] = b[i] /\ (p < m + n => i < n /\ c[p + 1] = b[i + 1])
                    <6>1. p < m + n => i < n /\ i + 1 \in 1 .. n /\ p + 1 = m + (i + 1)
                        BY <1>2, <1>3, <5>1
                    <6> QED  BY <1>11, <5>1, <6>1
                <5> HIDE DEF range
                <5> QED  BY <1>8, <5>3, <5>4, <5>5 DEF Linked, c
            <4> QED  BY <4>1, <4>2
        <3>3. ~new.leaf
            BY <1>2, <1>6, <2>2
        <3> HIDE DEF range
        <3>4. Inside(new, range, (h - 1) + 1)
            BY <1>1, <1>7, <1>8, <1>13, <1>14, <3>1, <3>2, <3>3, Assemble DEF c
        <3> QED  BY <3>1, <3>4
    <2> QED  BY <2>1, <2>2
<1>16. ToSet(c) = ToSet(a) \cup ToSet(b)
    <2>1. DOMAIN a = 1 .. m /\ DOMAIN b = 1 .. n
        BY <1>4, OwnNode DEF a, b, m, n
    <2>2. ToSet(c) = {c[p] : p \in 1 .. m + n} /\ ToSet(a) = {a[i] : i \in 1 .. m} /\ ToSet(b) = {b[i] : i \in 1 .. n}
        BY <1>9, <2>1 DEF ToSet
    <2>3. {c[p] : p \in 1 .. m + n} \subseteq {a[i] : i \in 1 .. m} \cup {b[i] : i \in 1 .. n}
        BY <1>10, <1>11, <1>12
    <2>4. {a[i] : i \in 1 .. m} \subseteq {c[p] : p \in 1 .. m + n}
        BY <1>10
    <2>5. {b[i] : i \in 1 .. n} \subseteq {c[p] : p \in 1 .. m + n}
        BY <1>11
    <2> QED  BY <2>2, <2>3, <2>4, <2>5
<1>17. Held(new, h) = Held(left, h) \cup Held(right, h)
    <2>1. CASE h = 0
        BY <1>16, <2>1, HeldNext DEF a, b, c
    <2>2. CASE h # 0
        <3>1. h - 1 \in Nat /\ (h - 1) + 1 = h
            BY <1>1, <2>2
        <3>2. Own(new) = Own(left) \cup Own(right)
            BY <1>16 DEF Own, a, b, c
        <3>3. \A t : Held(t, h) = UNION {Held(x, h - 1) : x \in Own(t)}
            <4>1. \A t : Held(t, (h - 1) + 1) = UNION {Held(x, h - 1) : x \in Own(t)}
                BY <3>1, HeldNext
            <4> QED  BY <3>1, <4>1
        <3> QED  BY <3>2, <3>3, HeldTwo
    <2> QED  BY <2>1, <2>2
<1>18. /\ a # <<>> => c # <<>> /\ c[1] = a[1]
       /\ b # <<>> => c # <<>>
    <2>1. (a # <<>> => m > 0) /\ (b # <<>> => n > 0)
        BY <1>5, EmptySeq, LenProperties DEF m, n
    <2>2. m + n > 0 => c # <<>>
        BY <1>7, <1>8, EmptySeq
    <2>3. m > 0 => 1 \in 1 .. m
        BY <1>2
    <2> QED  BY <1>2, <1>3, <1>10, <2>1, <2>2, <2>3
<1> QED  BY <1>15, <1>17, <1>18 DEF Merged, FirstKey, a, b, c, new

\* What tree_delete makes of the root of a tree of h levels. A node may become
\* empty, or start at a later key, but the sentinel stays the first.
Removed(old, range, h, key, new) ==
    /\ Inside(new, range, h) /\ Fits(new)
    /\ Held(new, h) = {e \in Held(old, h) : e.key # key}
    /\ FirstKey(old) = 0 => new.kvs # <<>> /\ FirstKey(new) = 0

Deleted(old, range, h, key, r) ==
    \/ r = NotFound /\ \A e \in Held(old, h) : e.key # key
    \/ /\ r # NotFound /\ \E e \in Held(old, h) : e.key = key
       /\ r.ok => Removed(old, range, h, key, r.node)

LEMMA ResultIs ==
    ASSUME NEW node, NEW news, NEW dels, NEW good
    PROVE  LET r == Result(node, news, dels, good)
           IN  r.node = node /\ (r.ok <=> good) /\ (node # Nil => r # NotFound)
<1>1. Result(node, news, dels, good).node = node /\ NotFound.node = Nil
    BY DEF Result, NotFound
<1>2. Result(node, news, dels, good).ok <=> good
    BY DEF Result
<1> QED  BY <1>1, <1>2

LEMMA NodeNotNil ==
    ASSUME NEW leaf, NEW kvs
    PROVE  Node(leaf, kvs) # Nil
<1>1. DOMAIN Node(leaf, kvs) = {"leaf", "kvs"} /\ DOMAIN Nil = {"page"}
    BY DEF Node, Nil
<1>2. "leaf" \in DOMAIN Node(leaf, kvs) /\ "leaf" \notin DOMAIN Nil
    BY <1>1
<1> QED  BY <1>2

LEMMA DeleteLeaf ==
    ASSUME NEW node, NEW range, NEW key \in Keys, Among(node, range, 0, key), NEW news, NEW dels
    PROVE  LET idx == node_lookup_le(node, key)
               r == Result(leaf_delete(node, idx), news, dels, node.leaf)
           IN  Deleted(node, range, 0, key, IF HasKeyAt(node, idx, key) THEN r ELSE NotFound)
<1> DEFINE idx == node_lookup_le(node, key)
           kvs == node.kvs
           n == Len(kvs)
           new == leaf_delete(node, idx)
           r == Result(new, news, dels, node.leaf)
           left == {e \in ToSet(kvs) : e.key # key}
           Child == Own(node)
<1>1. range \subseteq AllKeys /\ key \in range /\ Inside(node, range, 0) /\ Whole(node, range)
    BY TreeIs DEF Among
<1>2. /\ node \in NodeOf(Child) /\ Ascending(kvs) /\ DOMAIN kvs = 1 .. n /\ n \in Nat
      /\ \A i \in 1 .. n : kvs[i].key \in range
    BY <1>1, InsideFacts
<1>3. Held(node, 0) = ToSet(kvs) /\ Held(new, 0) = ToSet(new.kvs)
    BY HeldNext
<1>4. idx \in 0 .. n
    BY <1>2, HasKeyExact
<1>5. CASE ~HasKeyAt(node, idx, key)
    <2>1. left = ToSet(kvs)
        BY <1>2, <1>5, LeafDeleteExact
    <2>2. \A e \in Held(node, 0) : e.key # key
        BY <1>3, <2>1
    <2> QED  BY <1>5, <2>2 DEF Deleted
<1>6. CASE HasKeyAt(node, idx, key)
    <2>1. idx \in 1 .. n /\ kvs[idx].key = key
        BY <1>2, <1>4, <1>6 DEF HasKeyAt
    <2>2. Ascending(new.kvs) /\ ToSet(new.kvs) = left
        BY <1>2, <1>6, LeafDeleteExact
    <2>3. Fits(new)
        BY <1>1, <1>2, <2>1, RemoveFits DEF Whole
    <2>4. new \in NodeOf(Child)
        <3>1. new = Replaced(TRUE, kvs, idx, 1, <<>>)
            BY <1>2, <2>1, AreReplaced
        <3>2. CanReplace(Child, node, TRUE, idx, 1, <<>>)
            <4> HIDE DEF Child
            <4>1. 1 \in 0 .. Len(node.kvs) + 1 - idx /\ idx \in 1 .. Len(node.kvs) + 1 /\ <<>> \in Seq(EntryOf(Child))
                BY <1>2, <2>1, EmptySeq
            <4> QED  BY <1>2, <4>1 DEF CanReplace
        <3>3. Resized(Child, node, TRUE, idx, 1, <<>>)
            BY <3>2, ReplacedSize
        <3> QED  BY <3>1, <3>3 DEF Resized
    <2>5. new.leaf = TRUE
        BY DEF leaf_delete, Leaf, Node
    <2>6. node.leaf
        <3>1. LeadsOn(node, range, 0, key)
            BY LookupTree
        <3> QED  BY <3>1 DEF LeadsOn
    <2>7. r.node = new /\ r # NotFound
        <3>1. new # Nil
            BY NodeNotNil DEF leaf_delete, Leaf
        <3> QED  BY <3>1, ResultIs
    <2> HIDE DEF new, r
    <2>8. \E e \in Held(node, 0) : e.key = key
        BY <1>2, <1>3, <2>1 DEF ToSet
    <2>9. new \in NodeOf(Own(new)) /\ DOMAIN new.kvs = 1 .. Len(new.kvs)
        BY <2>4, OwnNode
    <2>10. \A i \in DOMAIN new.kvs : new.kvs[i].key \in range
        <3>1. \A e \in ToSet(kvs) : e.key \in range
            BY <1>2 DEF ToSet
        <3>2. \A i \in DOMAIN new.kvs : new.kvs[i] \in ToSet(new.kvs)
            BY DEF ToSet
        <3> QED  BY <2>2, <3>1, <3>2
    <2>11. Inside(new, range, 0)
        <3>1. new.leaf = (0 = 0) /\ ~(0 > 0)
            <4>1. (0 = 0) = TRUE /\ ~(0 > 0)
                OBVIOUS
            <4> QED  BY <2>5, <4>1
        <3> QED  BY <2>2, <2>9, <2>10, <3>1 DEF Inside
    <2>12. ASSUME FirstKey(node) = 0  PROVE new.kvs # <<>> /\ FirstKey(new) = 0
        <3>1. 1 \in 1 .. n /\ kvs[1].key = 0 /\ key # 0
            BY <1>2, <2>1, <2>12, EntryAssumption DEF FirstKey
        <3>2. kvs[1] \in ToSet(new.kvs)
            BY <1>2, <2>2, <3>1 DEF ToSet
        <3>3. PICK j \in DOMAIN new.kvs : new.kvs[j].key = 0
            BY <3>1, <3>2 DEF ToSet
        <3>4. Len(new.kvs) \in Nat /\ \A i \in 1 .. Len(new.kvs) : new.kvs[i].key \in Nat
            BY <2>11, InsideFacts
        <3>5. j \in 1 .. Len(new.kvs) /\ 1 \in 1 .. Len(new.kvs)
            BY <2>9, <3>3, <3>4
        <3>6. new.kvs[1].key = 0
            <4>1. 1 < j => new.kvs[1].key < new.kvs[j].key
                BY <2>2, <3>5 DEF Ascending
            <4> QED  BY <3>3, <3>4, <3>5, <4>1
        <3>7. new.kvs # <<>>
            BY <2>11, <3>4, <3>5, InsideFacts
        <3> QED  BY <3>6, <3>7 DEF FirstKey
    <2>13. Removed(node, range, 0, key, new)
        BY <1>3, <2>2, <2>3, <2>11, <2>12 DEF Removed
    <2> QED  BY <1>6, <2>7, <2>8, <2>13 DEF Deleted, new, r
<1> QED  BY <1>5, <1>6

\* One new child x, with keys of A, for the links from idx to idx + cnt - 1.
CanRelinkOne(node, range, h, idx, cnt, x, A) ==
    /\ h \in Nat /\ Inside(node, range, h + 1) /\ range \subseteq AllKeys
    /\ idx \in 1 .. Len(node.kvs) /\ cnt \in 1 .. Len(node.kvs) + 1 - idx
    /\ A \subseteq range /\ Inside(x, A, h) /\ x.kvs # <<>> /\ Fits(x)
    /\ \A k \in A : node.kvs[idx].key <= k /\ (idx + cnt <= Len(node.kvs) => k < node.kvs[idx + cnt].key)

RelinkedOne(node, range, h, idx, cnt, x) ==
    LET new == replace_links(node, idx, cnt, <<x>>)
    IN  /\ Inside(new, range, h + 1) /\ new.kvs # <<>> /\ new # Nil
        /\ FirstKey(new) = IF idx = 1 THEN FirstKey(x) ELSE FirstKey(node)
        /\ \E R : /\ Held(new, h + 1) = Held(x, h) \cup R
                  /\ Held(node, h + 1) = (UNION {Held(node.kvs[j].child, h) : j \in idx .. idx + cnt - 1}) \cup R
                  /\ \A i \in idx .. idx + cnt - 1 : \A key \in Below(node, i, range) : \A e \in R : e.key # key

LEMMA RelinkOne ==
    ASSUME NEW node, NEW range, NEW h, NEW idx, NEW cnt, NEW x, NEW A, CanRelinkOne(node, range, h, idx, cnt, x, A)
    PROVE  RelinkedOne(node, range, h, idx, cnt, x)
<1> DEFINE mid == Links(<<x>>)
           new == Replaced(FALSE, node.kvs, idx, cnt, mid)
           n == Len(node.kvs)
<1>1. /\ h \in Nat /\ h + 1 \in Nat /\ Inside(node, range, h + 1) /\ range \subseteq AllKeys
      /\ idx \in 1 .. n /\ cnt \in 1 .. n + 1 - idx
      /\ A \in SUBSET range /\ Inside(x, A, h) /\ x.kvs # <<>> /\ Fits(x)
      /\ \A k \in A : node.kvs[idx].key <= k /\ (idx + cnt <= n => k < node.kvs[idx + cnt].key)
    BY DEF CanRelinkOne
<1>2. FirstKey(x) \in AllKeys
    <2>1. Len(x.kvs) \in Nat /\ Len(x.kvs) > 0 /\ \A i \in 1 .. Len(x.kvs) : x.kvs[i].key \in AllKeys
        BY <1>1, InsideFacts
    <2>2. 1 \in 1 .. Len(x.kvs)
        BY <2>1
    <2> QED  BY <2>1, <2>2 DEF FirstKey
<1>3. mid \in Seq(EntryOf({x, x})) /\ Len(mid) = 1 /\ mid[1] = Link(x) /\ Link(x).key = FirstKey(x) /\ Link(x).child = x
    BY <1>2, LinksAre
<1>4. replace_links(node, idx, cnt, <<x>>) = new
    <2>1. node \in NodeOf(Own(node))
        BY <1>1 DEF Inside
    <2> QED  BY <2>1, AreReplaced
<1>5. new # Nil
    BY NodeNotNil DEF Replaced
<1> HIDE DEF mid, n
<1>6. CanRelink(node, range, h, idx, cnt, mid)
    <2>1. Ascending(mid) /\ \A j \in 1 .. Len(mid) : j = 1 /\ ~(j < Len(mid))
        BY <1>3 DEF Ascending
    <2>2. Inside(mid[1].child, A, h) /\ mid[1].child.kvs # <<>> /\ Fits(mid[1].child) /\ FirstKey(mid[1].child) = mid[1].key
        BY <1>1, <1>3
    <2>3. \A j \in 1 .. Len(mid) :
            /\ Inside(mid[j].child, A, h)
            /\ mid[j].child.kvs # <<>> /\ Fits(mid[j].child)
            /\ FirstKey(mid[j].child) = mid[j].key
            /\ \A k \in A :
                /\ node.kvs[idx].key <= k
                /\ j < Len(mid) => k < mid[j + 1].key
                /\ idx + cnt <= Len(node.kvs) => k < node.kvs[idx + cnt].key
        BY <1>1, <2>1, <2>2 DEF n
    <2>4. Len(mid) >= 1
        BY <1>3
    <2> QED  BY <1>1, <1>3, <2>1, <2>3, <2>4 DEF CanRelink, n
<1>7. Relinked(node, range, h, idx, cnt, mid) /\ KeepsRest(node, range, h, idx, cnt, mid)
    BY <1>1, <1>6, RelinkNode, RelinkHeld
<1>8. Inside(new, range, h + 1) /\ new.kvs # <<>> /\ FirstKey(new) = IF idx = 1 THEN mid[1].key ELSE FirstKey(node)
    BY <1>7 DEF Relinked
<1>9. PICK R : /\ Held(new, h + 1) = (UNION {Held(mid[j].child, h) : j \in 1 .. Len(mid)}) \cup R
               /\ Held(node, h + 1) = (UNION {Held(node.kvs[j].child, h) : j \in idx .. idx + cnt - 1}) \cup R
               /\ \A i \in idx .. idx + cnt - 1 : \A key \in Below(node, i, range) : \A e \in R : e.key # key
    BY <1>7 DEF KeepsRest
<1>10. UNION {Held(mid[j].child, h) : j \in 1 .. Len(mid)} = Held(x, h)
    <2>1. 1 .. Len(mid) = {1}
        BY <1>3
    <2> QED  BY <1>3, <2>1
<1> HIDE DEF new
<1>11. Held(new, h + 1) = Held(x, h) \cup R
    BY <1>9, <1>10
<1>12. FirstKey(new) = IF idx = 1 THEN FirstKey(x) ELSE FirstKey(node)
    BY <1>3, <1>8
<1> QED  BY <1>4, <1>5, <1>8, <1>9, <1>11, <1>12 DEF RelinkedOne

\* An empty node holds nothing, and is a node of any level.
LEMMA HoldsNothing ==
    ASSUME NEW node, node.kvs = <<>>, NEW h \in Nat
    PROVE  Held(node, h) = {}
<1>1. ToSet(node.kvs) = {} /\ Own(node) = {}
    BY DEF ToSet, Own
<1>2. CASE h = 0
    BY <1>1, <1>2, HeldNext
<1>3. CASE h # 0
    <2>1. h - 1 \in Nat /\ (h - 1) + 1 = h
        BY <1>3
    <2>2. Held(node, (h - 1) + 1) = UNION {Held(c, h - 1) : c \in Own(node)}
        BY <2>1, HeldNext
    <2> QED  BY <1>1, <2>1, <2>2
<1> QED  BY <1>2, <1>3

LEMMA EmptyInner ==
    ASSUME NEW range, NEW h \in Nat
    PROVE  LET new == Inner(<<>>)
           IN  Inside(new, range, h + 1) /\ Fits(new) /\ new # Nil /\ Held(new, h + 1) = {}
<1> DEFINE new == Inner(<<>>)
<1>1. new.kvs = <<>> /\ new.leaf = FALSE
    BY DEF Inner, Node
<1>2. new \in NodeOf(Own(new)) /\ Fits(new)
    <2>1. <<>> \in Seq(EntryOf(Own(new))) /\ Size(<<>>) = 0 /\ FALSE \in BOOLEAN
        BY SizeOfNone
    <2>2. new \in NodeOf(Own(new)) /\ Bytes(new) = Size(<<>>) + Header
        <3> DEFINE Child == Own(new)
        <3> HIDE DEF Child
        <3>1. Inner(<<>>) \in NodeOf(Child) /\ Bytes(Inner(<<>>)) = Size(<<>>) + Header
            BY <2>1, NodeIs, SizeOf DEF Inner, Child
        <3> QED  BY <3>1 DEF Child
    <2> HIDE DEF new
    <2>3. Bytes(new) <= PageSize
        BY <2>1, <2>2, PageFacts
    <2> QED  BY <2>2, <2>3 DEF Fits
<1>3. Ascending(new.kvs) /\ DOMAIN new.kvs = {}
    BY <1>1 DEF Ascending
<1>4. new.leaf = (h + 1 = 0)
    <2>1. (h + 1 = 0) = FALSE
        OBVIOUS
    <2> QED  BY <1>1, <2>1
<1>5. new # Nil
    BY NodeNotNil DEF Inner
<1> HIDE DEF new
<1>6. Inside(new, range, h + 1)
    BY <1>2, <1>3, <1>4 DEF Inside
<1>7. Held(new, h + 1) = {}
    BY <1>1, HoldsNothing
<1> QED  BY <1>2, <1>5, <1>6, <1>7 DEF new

\* What was removed below a node: the call's result for it, given the result
\* for the child it visited.
WasDeleted(node, range, h, key, updated) ==
    LET idx == node_lookup_le(node, key)
    IN  /\ Among(node, range, h + 1, key) /\ h \in Nat /\ key \in Keys
        /\ Deleted(node.kvs[idx].child, Below(node, idx, range), h, key, updated)

LEMMA ShouldMergeWith ==
    ASSUME NEW node, NEW idx, NEW updated
    PROVE  LET with == should_merge(node, idx, updated)
           IN  \/ with = 0
               \/ idx > 1 /\ with = idx - 1
               \/ idx < Len(node.kvs) /\ with = idx + 1
BY DEF should_merge

\* Two neighbouring ranges are one below the other.
LEMMA RangesApart ==
    ASSUME NEW node, NEW range \in SUBSET AllKeys, NEW i, i \in 1 .. Len(node.kvs), i < Len(node.kvs), Len(node.kvs) \in Nat,
           \A j \in 1 .. Len(node.kvs) : node.kvs[j].key \in Nat
    PROVE  \A a \in Below(node, i, range), b \in Below(node, i + 1, range) : a < b
<1>1. i + 1 \in 1 .. Len(node.kvs)
    OBVIOUS
<1> SUFFICES ASSUME NEW a \in Below(node, i, range), NEW b \in Below(node, i + 1, range)  PROVE a < b
    OBVIOUS
<1>2. a \in Nat /\ b \in Nat /\ a < node.kvs[i + 1].key /\ node.kvs[i + 1].key <= b
    BY KeysNat DEF Below
<1> QED  BY <1>1, <1>2

\* The keys below two neighbouring links are those between their ends.
LEMMA NeighboursBelow ==
    ASSUME NEW node, NEW range \in SUBSET AllKeys, NEW i \in 1 .. Len(node.kvs), i < Len(node.kvs), Len(node.kvs) \in Nat,
           \A j \in 1 .. Len(node.kvs) : node.kvs[j].key \in Nat, Ascending(node.kvs)
    PROVE  \A k \in Below(node, i, range) \cup Below(node, i + 1, range) :
                /\ k \in range /\ node.kvs[i].key <= k
                /\ i + 2 <= Len(node.kvs) => k < node.kvs[i + 2].key
<1> DEFINE K(j) == node.kvs[j].key
           n == Len(node.kvs)
<1>1. i + 1 \in 1 .. n /\ K(i) < K(i + 1) /\ K(i) \in Nat /\ K(i + 1) \in Nat
    BY DEF Ascending
<1>2. i + 2 <= n => i + 2 \in 1 .. n /\ K(i + 1) < K(i + 2) /\ K(i + 2) \in Nat /\ i + 1 < n /\ (i + 1) + 1 = i + 2
    BY DEF Ascending
<1>3. ASSUME NEW k \in Below(node, i, range)  PROVE k \in range /\ K(i) <= k /\ (i + 2 <= n => k < K(i + 2))
    <2>1. k \in Nat /\ k \in range /\ K(i) <= k /\ k < K(i + 1)
        BY KeysNat DEF Below
    <2> QED  BY <1>1, <1>2, <2>1
<1>4. ASSUME NEW k \in Below(node, i + 1, range)  PROVE k \in range /\ K(i) <= k /\ (i + 2 <= n => k < K(i + 2))
    <2>1. k \in Nat /\ k \in range /\ K(i + 1) <= k /\ (i + 1 < n => k < K((i + 1) + 1))
        BY KeysNat DEF Below
    <2> QED  BY <1>1, <1>2, <2>1
<1> QED  BY <1>3, <1>4

\* What a merge of the children at i and i + 1 holds, and where it goes.
CanJoin(node, range, h, i, left, right) ==
    /\ h \in Nat /\ Inside(node, range, h + 1) /\ range \in SUBSET AllKeys
    /\ i \in 1 .. Len(node.kvs) /\ i < Len(node.kvs)
    /\ Inside(left, Below(node, i, range), h) /\ Inside(right, Below(node, i + 1, range), h)
    /\ left.kvs # <<>> \/ right.kvs # <<>>

Joined(node, range, h, i, left, right) ==
    LET x == node_merge(left, right)
        new == node_replace_2_child(node, i, x)
    IN  Fits(x) =>
        /\ Inside(new, range, h + 1) /\ new.kvs # <<>> /\ new # Nil
        /\ FirstKey(new) = IF i = 1 THEN FirstKey(x) ELSE FirstKey(node)
        /\ left.kvs # <<>> => FirstKey(x) = FirstKey(left)
        /\ \E R : /\ Held(new, h + 1) = (Held(left, h) \cup Held(right, h)) \cup R
                  /\ Held(node, h + 1) = (Held(node.kvs[i].child, h) \cup Held(node.kvs[i + 1].child, h)) \cup R
                  /\ \A key \in Below(node, i, range) \cup Below(node, i + 1, range) : \A e \in R : e.key # key

LEMMA JoinNode ==
    ASSUME NEW node, NEW range, NEW h, NEW i, NEW left, NEW right, CanJoin(node, range, h, i, left, right)
    PROVE  Joined(node, range, h, i, left, right)
<1> DEFINE x == node_merge(left, right)
           new == node_replace_2_child(node, i, x)
           n == Len(node.kvs)
           A == Below(node, i, range)
           B == Below(node, i + 1, range)
           H(t) == Held(t, h)
<1>1. /\ h \in Nat /\ h + 1 \in Nat /\ Inside(node, range, h + 1) /\ range \in SUBSET AllKeys
      /\ i \in 1 .. n /\ i < n /\ Inside(left, A, h) /\ Inside(right, B, h)
      /\ left.kvs # <<>> \/ right.kvs # <<>>
    BY DEF CanJoin
<1>2. n \in Nat /\ Ascending(node.kvs) /\ \A j \in 1 .. n : node.kvs[j].key \in Nat
    BY <1>1, InsideFacts
<1>3. \A a \in A, b \in B : a < b
    BY <1>1, <1>2, RangesApart
<1>4. \A k \in A \cup B : k \in range /\ node.kvs[i].key <= k /\ (i + 2 <= n => k < node.kvs[i + 2].key)
    BY <1>1, <1>2, NeighboursBelow
<1>5. new = replace_links(node, i, 2, <<x>>)
    BY DEF node_replace_2_child
<1> HIDE DEF x, n, A, B, new
<1>6. Merged(left, right, A, B, h)
    <2>1. A \subseteq range /\ B \subseteq range
        BY <1>4
    <2> QED  BY <1>1, <1>3, <2>1, MergeInside DEF CanMerge
<1>7. /\ Inside(x, A \cup B, h) /\ H(x) = H(left) \cup H(right) /\ x.kvs # <<>>
      /\ left.kvs # <<>> => FirstKey(x) = FirstKey(left)
    BY <1>1, <1>6 DEF Merged, x
<1>8. ASSUME Fits(x)
      PROVE  RelinkedOne(node, range, h, i, 2, x)
    <2>1. 2 \in 1 .. n + 1 - i /\ A \cup B \subseteq range
        BY <1>1, <1>2, <1>4
    <2>2. CanRelinkOne(node, range, h, i, 2, x, A \cup B)
        BY <1>1, <1>4, <1>7, <1>8, <2>1 DEF CanRelinkOne, n
    <2> QED  BY <2>2, RelinkOne
<1>9. ASSUME Fits(x)
      PROVE  /\ Inside(new, range, h + 1) /\ new.kvs # <<>> /\ new # Nil
             /\ FirstKey(new) = IF i = 1 THEN FirstKey(x) ELSE FirstKey(node)
             /\ \E R : /\ Held(new, h + 1) = H(x) \cup R
                       /\ Held(node, h + 1) = (UNION {H(node.kvs[j].child) : j \in i .. i + 2 - 1}) \cup R
                       /\ \A j \in i .. i + 2 - 1 : \A key \in Below(node, j, range) : \A e \in R : e.key # key
    BY <1>5, <1>8, <1>9 DEF RelinkedOne
<1>10. i .. i + 2 - 1 = {i, i + 1}
    BY <1>1
<1>11. UNION {H(node.kvs[j].child) : j \in i .. i + 2 - 1} = H(node.kvs[i].child) \cup H(node.kvs[i + 1].child)
    BY <1>10
<1> HIDE DEF H
<1>12. ASSUME Fits(x)
       PROVE  \E R : /\ Held(new, h + 1) = (H(left) \cup H(right)) \cup R
                     /\ Held(node, h + 1) = (H(node.kvs[i].child) \cup H(node.kvs[i + 1].child)) \cup R
                     /\ \A key \in A \cup B : \A e \in R : e.key # key
    <2>1. PICK R : /\ Held(new, h + 1) = H(x) \cup R
                   /\ Held(node, h + 1) = (UNION {H(node.kvs[j].child) : j \in i .. i + 2 - 1}) \cup R
                   /\ \A j \in i .. i + 2 - 1 : \A key \in Below(node, j, range) : \A e \in R : e.key # key
        BY <1>9, <1>12
    <2>2. \A key \in A \cup B : \A e \in R : e.key # key
        <3>1. i \in i .. i + 2 - 1 /\ i + 1 \in i .. i + 2 - 1
            BY <1>10
        <3> QED  BY <2>1, <3>1 DEF A, B
    <2> QED  BY <1>7, <1>11, <2>1, <2>2
<1> QED  BY <1>7, <1>9, <1>12 DEF Joined, x, new, A, B, H

LEMMA DeleteNode ==
    ASSUME NEW node, NEW range, NEW h, NEW key, NEW updated, WasDeleted(node, range, h, key, updated)
    PROVE  Deleted(node, range, h + 1, key, node_delete(node, key, updated))
<1> DEFINE idx == node_lookup_le(node, key)
           n == Len(node.kvs)
           c == node.kvs[idx].child
           B == Below(node, idx, range)
           u == updated.node
           with == should_merge(node, idx, u)
           sib == node.kvs[with].child
           merged == IF with < idx THEN node_merge(sib, u) ELSE node_merge(u, sib)
           gone == updated.dels \cup {c}
           join == node_replace_2_child(node, IF with < idx THEN with ELSE idx, merged)
           only == node_replace_child_n(node, idx, <<u>>)
           result == node_delete(node, key, updated)
           held == Held(node, h + 1)
<1>1. /\ Among(node, range, h + 1, key) /\ h \in Nat /\ h + 1 \in Nat /\ key \in Keys
      /\ Deleted(c, B, h, key, updated)
    BY DEF WasDeleted
<1>2. range \in SUBSET AllKeys /\ IsTree(node, range, h + 1) /\ key \in range
    BY <1>1 DEF Among
<1>3. Inside(node, range, h + 1) /\ node.kvs # <<>> /\ Fits(node)
    BY <1>1, <1>2, TreeIs DEF Whole
<1>4. idx \in 1 .. n /\ n \in Nat /\ key \in B
    BY <1>1, LookupTree DEF LeadsOn
<1>5. /\ node \in NodeOf(Own(node)) /\ Ascending(node.kvs)
      /\ \A j \in 1 .. n : node.kvs[j].key \in Nat /\ node.kvs[j].child \in Own(node)
    BY <1>1, <1>3, InsideFacts
<1>6. \A j \in 1 .. n : /\ Inside(node.kvs[j].child, Below(node, j, range), h)
                        /\ node.kvs[j].child.kvs # <<>> /\ FirstKey(node.kvs[j].child) = node.kvs[j].key
    BY <1>1, <1>3, LinkedTree
<1>7. \A j \in 1 .. n : j # idx => \A e \in Held(node.kvs[j].child, h) : e.key # key
    BY <1>1, <1>2, <1>3, <1>4, Elsewhere
<1>8. held = UNION {Held(x, h) : x \in Own(node)} /\ c \in Own(node)
    BY <1>1, <1>4, <1>5, HeldNext
<1>9. FirstKey(node) = node.kvs[1].key
    BY DEF FirstKey
<1>10. ASSUME updated = NotFound  PROVE Deleted(node, range, h + 1, key, result)
    <2>1. result = NotFound
        BY <1>10 DEF node_delete
    <2>2. \A e \in Held(c, h) : e.key # key
        BY <1>1, <1>10 DEF Deleted
    <2>3. \A x \in Own(node) : \A e \in Held(x, h) : e.key # key
        <3>1. Own(node) = {node.kvs[i].child : i \in 1 .. n}
            BY <1>5, OwnNode
        <3> QED  BY <1>7, <2>2, <3>1
    <2>4. \A e \in held : e.key # key
        BY <1>8, <2>3
    <2> HIDE DEF result
    <2> QED  BY <2>1, <2>4 DEF Deleted
<1>11. ASSUME updated # NotFound  PROVE Deleted(node, range, h + 1, key, result)
    <2>1. (\E e \in Held(c, h) : e.key = key) /\ (updated.ok => Removed(c, B, h, key, u))
        BY <1>1, <1>11 DEF Deleted
    <2>2. \E e \in held : e.key = key
        BY <1>8, <2>1
    <2>3. updated.ok => /\ Inside(u, B, h) /\ Fits(u) /\ Held(u, h) = {e \in Held(c, h) : e.key # key}
                        /\ FirstKey(c) = 0 => u.kvs # <<>> /\ FirstKey(u) = 0
        BY <2>1 DEF Removed
    <2>4. \/ with = 0
          \/ idx > 1 /\ with = idx - 1
          \/ idx < n /\ with = idx + 1
        BY ShouldMergeWith
    <2>5. CASE with # 0
        <3> DEFINE news == updated.news \cup {merged}
                   dels == gone \cup {sib}
                   good == (updated.ok /\ Fits(join)) /\ Fits(merged)
                   r == Result(join, news, dels, good)
        <3>1. result = r
            BY <1>11, <2>5, Zenon DEF node_delete
        <3>2. join # Nil
            BY NodeNotNil DEF node_replace_2_child, replace_links, Inner
        <3>3. r.node = join /\ (r.ok <=> good) /\ r # NotFound
            <4> HIDE DEF join, news, dels, good
            <4> QED  BY <3>2, ResultIs
        <3>4. ASSUME good  PROVE Removed(node, range, h + 1, key, join)
            <4>1. updated.ok /\ Fits(join) /\ Fits(merged)
                BY <3>4
            <4>2. Inside(u, B, h) /\ Held(u, h) = {e \in Held(c, h) : e.key # key}
                BY <2>3, <4>1
            <4>3. CASE with < idx
                <5>1. idx > 1 /\ with = idx - 1 /\ with \in 1 .. n /\ with < n /\ with + 1 = idx /\ with # idx
                    BY <1>4, <2>4, <2>5, <4>3
                <5>2. merged = node_merge(sib, u) /\ join = node_replace_2_child(node, with, merged)
                    BY <4>3
                <5> HIDE DEF with, merged, join, u, c, idx
                <5>3. CanJoin(node, range, h, with, sib, u)
                    <6>1. Inside(u, Below(node, with + 1, range), h)
                        BY <4>2, <5>1
                    <6>2. Inside(sib, Below(node, with, range), h) /\ sib.kvs # <<>>
                        BY <1>6, <5>1
                    <6> HIDE DEF sib
                    <6> QED  BY <1>1, <1>2, <1>3, <5>1, <6>1, <6>2 DEF CanJoin, n
                <5>4. Joined(node, range, h, with, sib, u)
                    BY <5>3, JoinNode
                <5>5. /\ Inside(join, range, h + 1) /\ join.kvs # <<>>
                      /\ FirstKey(join) = IF with = 1 THEN FirstKey(merged) ELSE FirstKey(node)
                      /\ sib.kvs # <<>> => FirstKey(merged) = FirstKey(sib)
                      /\ \E R : /\ Held(join, h + 1) = (Held(sib, h) \cup Held(u, h)) \cup R
                                /\ Held(node, h + 1) = (Held(node.kvs[with].child, h) \cup Held(node.kvs[with + 1].child, h)) \cup R
                                /\ \A k \in Below(node, with, range) \cup Below(node, with + 1, range) : \A e \in R : e.key # k
                    BY <4>1, <5>2, <5>4 DEF Joined
                <5>6. PICK R : /\ Held(join, h + 1) = (Held(sib, h) \cup Held(u, h)) \cup R
                               /\ Held(node, h + 1) = (Held(node.kvs[with].child, h) \cup Held(node.kvs[with + 1].child, h)) \cup R
                               /\ \A k \in Below(node, with, range) \cup Below(node, with + 1, range) : \A e \in R : e.key # k
                    BY <5>5
                <5>7. key \in Below(node, with + 1, range) /\ node.kvs[with + 1].child = c
                    BY <1>4, <5>1 DEF c
                <5>8. \A e \in R : e.key # key
                    BY <5>6, <5>7
                <5>9. \A e \in Held(sib, h) : e.key # key
                    BY <1>7, <5>1
                <5>10. Held(join, h + 1) = {e \in held : e.key # key}
                    <6> DEFINE S == Held(sib, h)
                               C == Held(c, h)
                    <6> HIDE DEF S, C
                    <6>1. Held(join, h + 1) = (S \cup {e \in C : e.key # key}) \cup R
                        BY <4>2, <5>6 DEF S, C
                    <6>2. held = (S \cup C) \cup R
                        BY <5>6, <5>7 DEF S, C
                    <6>3. \A e \in S : e.key # key
                        BY <5>9 DEF S
                    <6> HIDE DEF held
                    <6> QED  BY <5>8, <6>1, <6>2, <6>3
                <5>11. FirstKey(node) = 0 => FirstKey(join) = 0
                    <6>1. with = 1 => FirstKey(merged) = FirstKey(node)
                        BY <1>6, <1>9, <5>1, <5>5
                    <6> QED  BY <5>5, <6>1
                <5> HIDE DEF sib
                <5> QED  BY <4>1, <5>5, <5>10, <5>11 DEF Removed
            <4>4. CASE ~(with < idx)
                <5>1. idx < n /\ with = idx + 1 /\ with \in 1 .. n /\ with # idx
                    BY <1>4, <2>4, <2>5, <4>4
                <5>2. merged = node_merge(u, sib) /\ join = node_replace_2_child(node, idx, merged)
                    BY <4>4
                <5> HIDE DEF with, merged, join, u, c, idx
                <5>3. CanJoin(node, range, h, idx, u, sib)
                    <6>1. Inside(u, Below(node, idx, range), h)
                        BY <4>2
                    <6>2. Inside(sib, Below(node, idx + 1, range), h) /\ sib.kvs # <<>>
                        BY <1>6, <5>1
                    <6> HIDE DEF sib
                    <6> QED  BY <1>1, <1>2, <1>3, <1>4, <5>1, <6>1, <6>2 DEF CanJoin, n
                <5>4. Joined(node, range, h, idx, u, sib)
                    BY <5>3, JoinNode
                <5>5. /\ Inside(join, range, h + 1) /\ join.kvs # <<>>
                      /\ FirstKey(join) = IF idx = 1 THEN FirstKey(merged) ELSE FirstKey(node)
                      /\ u.kvs # <<>> => FirstKey(merged) = FirstKey(u)
                      /\ \E R : /\ Held(join, h + 1) = (Held(u, h) \cup Held(sib, h)) \cup R
                                /\ Held(node, h + 1) = (Held(node.kvs[idx].child, h) \cup Held(node.kvs[idx + 1].child, h)) \cup R
                                /\ \A k \in Below(node, idx, range) \cup Below(node, idx + 1, range) : \A e \in R : e.key # k
                    BY <4>1, <5>2, <5>4 DEF Joined
                <5>6. PICK R : /\ Held(join, h + 1) = (Held(u, h) \cup Held(sib, h)) \cup R
                               /\ Held(node, h + 1) = (Held(node.kvs[idx].child, h) \cup Held(node.kvs[idx + 1].child, h)) \cup R
                               /\ \A k \in Below(node, idx, range) \cup Below(node, idx + 1, range) : \A e \in R : e.key # k
                    BY <5>5
                <5>7. key \in Below(node, idx, range) /\ node.kvs[idx].child = c /\ node.kvs[idx + 1].child = sib
                    BY <1>4, <5>1 DEF c
                <5>8. \A e \in R : e.key # key
                    BY <5>6, <5>7
                <5>9. \A e \in Held(sib, h) : e.key # key
                    BY <1>7, <5>1
                <5>10. Held(join, h + 1) = {e \in held : e.key # key}
                    <6> DEFINE S == Held(sib, h)
                               C == Held(c, h)
                    <6> HIDE DEF S, C
                    <6>1. Held(join, h + 1) = ({e \in C : e.key # key} \cup S) \cup R
                        BY <4>2, <5>6 DEF S, C
                    <6>2. held = (C \cup S) \cup R
                        BY <5>6, <5>7 DEF S, C
                    <6>3. \A e \in S : e.key # key
                        BY <5>9 DEF S
                    <6> HIDE DEF held
                    <6> QED  BY <5>8, <6>1, <6>2, <6>3
                <5>11. FirstKey(node) = 0 => FirstKey(join) = 0
                    <6>1. idx = 1 => FirstKey(c) = FirstKey(node)
                        BY <1>4, <1>6, <1>9 DEF c
                    <6> QED  BY <2>3, <4>1, <5>5, <6>1
                <5> HIDE DEF sib
                <5> QED  BY <4>1, <5>5, <5>10, <5>11 DEF Removed
            <4> QED  BY <4>3, <4>4
        <3> HIDE DEF good, r, join, result
        <3> QED  BY <2>2, <3>1, <3>3, <3>4 DEF Deleted
    <2>6. CASE with = 0 /\ u.kvs = <<>>
        <3> DEFINE new == Inner(<<>>)
                   news == updated.news
                   good == updated.ok /\ n = 1
                   r == Result(new, news, gone, good)
        <3>1. result = r
            BY <1>11, <2>6, Zenon DEF node_delete
        <3>2. Inside(new, range, h + 1) /\ Fits(new) /\ new # Nil /\ Held(new, h + 1) = {}
            BY <1>1, EmptyInner
        <3>3. r.node = new /\ (r.ok <=> good) /\ r # NotFound
            <4> HIDE DEF new, news, gone, good
            <4> QED  BY <3>2, ResultIs
        <3> HIDE DEF new, result, r
        <3>4. ASSUME good  PROVE Removed(node, range, h + 1, key, new)
            <4>1. updated.ok /\ idx = 1 /\ n = 1
                BY <1>4, <3>4
            <4>2. Held(u, h) = {}
                BY <1>1, <2>6, HoldsNothing
            <4>3. {e \in Held(c, h) : e.key # key} = {}
                BY <2>3, <4>1, <4>2
            <4>4. held = Held(c, h)
                <5>1. Own(node) = {node.kvs[i].child : i \in 1 .. n}
                    BY <1>5, OwnNode
                <5>2. 1 .. n = {1}
                    BY <4>1
                <5>3. Own(node) = {c}
                    BY <4>1, <5>1, <5>2
                <5> HIDE DEF c
                <5> QED  BY <1>8, <5>3
            <4>5. FirstKey(node) # 0
                <5>1. FirstKey(c) = FirstKey(node)
                    BY <1>4, <1>6, <1>9, <4>1
                <5> QED  BY <2>3, <2>6, <4>1, <5>1
            <4> HIDE DEF held, c
            <4>6. {e \in held : e.key # key} = {}
                BY <4>3, <4>4
            <4> QED  BY <3>2, <4>5, <4>6 DEF Removed, held
        <3> HIDE DEF good
        <3> QED  BY <2>2, <3>1, <3>3, <3>4 DEF Deleted
    <2>7. CASE with = 0 /\ u.kvs # <<>>
        <3> DEFINE news == updated.news \cup {u}
                   good == updated.ok /\ Fits(only)
                   r == Result(only, news, gone, good)
        <3>1. result = r
            BY <1>11, <2>7, Zenon DEF node_delete
        <3>2. only # Nil
            BY NodeNotNil DEF node_replace_child_n, replace_links, Inner
        <3>3. r.node = only /\ (r.ok <=> good) /\ r # NotFound
            <4> HIDE DEF only, news, gone, good
            <4> QED  BY <3>2, ResultIs
        <3>4. ASSUME good  PROVE Removed(node, range, h + 1, key, only)
            <4>1. /\ Fits(only) /\ Inside(u, B, h) /\ Fits(u) /\ Held(u, h) = {e \in Held(c, h) : e.key # key}
                  /\ FirstKey(c) = 0 => FirstKey(u) = 0
                BY <2>3, <3>4
            <4>2. only = replace_links(node, idx, 1, <<u>>)
                BY DEF node_replace_child_n
            <4>3. CanRelinkOne(node, range, h, idx, 1, u, B)
                <5>1. \A k \in B : k \in range /\ node.kvs[idx].key <= k /\ (idx + 1 <= n => k < node.kvs[idx + 1].key)
                    <6>1. idx + 1 <= n <=> idx < n
                        BY <1>4
                    <6> QED  BY <6>1 DEF Below
                <5>2. 1 \in 1 .. n + 1 - idx
                    BY <1>4
                <5> HIDE DEF idx, u, B
                <5> QED  BY <1>1, <1>2, <1>3, <1>4, <2>7, <4>1, <5>1, <5>2 DEF CanRelinkOne, n
            <4>4. RelinkedOne(node, range, h, idx, 1, u)
                BY <4>3, RelinkOne
            <4> HIDE DEF only, idx, u, c
            <4>5. /\ Inside(only, range, h + 1) /\ only.kvs # <<>>
                  /\ FirstKey(only) = IF idx = 1 THEN FirstKey(u) ELSE FirstKey(node)
                  /\ \E R : /\ Held(only, h + 1) = Held(u, h) \cup R
                            /\ Held(node, h + 1) = (UNION {Held(node.kvs[j].child, h) : j \in idx .. idx + 1 - 1}) \cup R
                            /\ \A i \in idx .. idx + 1 - 1 : \A k \in Below(node, i, range) : \A e \in R : e.key # k
                BY <4>2, <4>4 DEF RelinkedOne
            <4>6. PICK R : /\ Held(only, h + 1) = Held(u, h) \cup R
                           /\ Held(node, h + 1) = (UNION {Held(node.kvs[j].child, h) : j \in idx .. idx + 1 - 1}) \cup R
                           /\ \A i \in idx .. idx + 1 - 1 : \A k \in Below(node, i, range) : \A e \in R : e.key # k
                BY <4>5
            <4>7. idx .. idx + 1 - 1 = {idx}
                BY <1>4
            <4>8. \A e \in R : e.key # key
                BY <1>4, <4>6, <4>7
            <4>9. UNION {Held(node.kvs[j].child, h) : j \in idx .. idx + 1 - 1} = Held(c, h)
                BY <4>7 DEF c
            <4>10. Held(only, h + 1) = {e \in held : e.key # key}
                <5> DEFINE C == Held(c, h)
                <5> HIDE DEF C
                <5>1. Held(only, h + 1) = {e \in C : e.key # key} \cup R
                    BY <4>1, <4>6 DEF C
                <5>2. held = C \cup R
                    BY <4>6, <4>9 DEF C
                <5> HIDE DEF held
                <5> QED  BY <4>8, <5>1, <5>2
            <4>11. FirstKey(node) = 0 => FirstKey(only) = 0
                <5>1. idx = 1 => FirstKey(c) = FirstKey(node)
                    BY <1>4, <1>6, <1>9 DEF c
                <5> QED  BY <4>1, <4>5, <5>1
            <4> QED  BY <4>1, <4>5, <4>10, <4>11 DEF Removed
        <3> HIDE DEF good, r, only, result
        <3> QED  BY <2>2, <3>1, <3>3, <3>4 DEF Deleted
    <2> QED  BY <2>5, <2>6, <2>7
<1> QED  BY <1>10, <1>11

\* The loop of tree_delete.
DeleteLoop(f, tree, key, d, first, n) == f = [i \in 0 .. n |-> IF i = 0 THEN first ELSE node_delete(Visited(tree, key, d - i), key, f[i - 1])]

LEMMA DeleteLoops ==
    ASSUME NEW tree, NEW key, NEW d, NEW first, NEW n \in Nat
    PROVE  \E f : DeleteLoop(f, tree, key, d, first, n)
<1> DEFINE T == {m \in 0 .. n : ~ \E f : DeleteLoop(f, tree, key, d, first, m)}
           base == first
           pass(x, i) == node_delete(Visited(tree, key, d - i), key, x)
           Loop(f, m) == f = [i \in 0 .. m |-> IF i = 0 THEN base ELSE pass(f[i - 1], i)]
<1>0. \A f, m : DeleteLoop(f, tree, key, d, first, m) <=> Loop(f, m)
    BY DEF DeleteLoop
<1>1. \E f : DeleteLoop(f, tree, key, d, first, n)
    <2> HIDE DEF pass, base
    <2> SUFFICES ASSUME T # {}  PROVE FALSE
        <3>1. n \in 0 .. n
            OBVIOUS
        <3> QED  BY <3>1
    <2>1. 0 \notin T
        <3>1. Loop([i \in 0 .. 0 |-> base], 0)
            OBVIOUS
        <3> QED  BY <1>0, <3>1
    <2>2. PICK m \in T : m \in 1 .. n /\ m - 1 \in 0 .. n /\ m - 1 \notin T
        BY <2>1, FirstFailure
    <2>3. PICK f : Loop(f, m - 1)
        BY <1>0, <2>2
    <2> DEFINE g == [i \in 0 .. m |-> IF i = m THEN pass(f[m - 1], m) ELSE f[i]]
    <2>4. ASSUME NEW i \in 0 .. m  PROVE g[i] = IF i = 0 THEN base ELSE pass(g[i - 1], i)
        <3>1. CASE i = m
            BY <2>2, <3>1
        <3>2. CASE i # m
            <4>1. i \in 0 .. m - 1 /\ i - 1 # m /\ g[i] = f[i]
                BY <2>2, <3>2
            <4>2. f[i] = IF i = 0 THEN base ELSE pass(f[i - 1], i)
                BY <2>3, <4>1
            <4>3. i # 0 => g[i - 1] = f[i - 1]
                BY <2>2, <4>1
            <4> QED  BY <4>1, <4>2, <4>3
        <3> QED  BY <3>1, <3>2
    <2>5. Loop(g, m)
        BY <2>4
    <2> QED  BY <1>0, <2>2, <2>5
<1> QED  BY <1>1

\* All keys have the same size, and an empty node takes at most a quarter of a
\* page, as in the code it does.
EvenSizes == (\A a, b \in Keys : KeySize[a] = KeySize[b]) /\ 4 * Header <= PageSize

LEMMA KeyBytesEven ==
    ASSUME EvenSizes, NEW a \in AllKeys, NEW b \in AllKeys, b # 0
    PROVE  KeyBytes(a) \in Nat /\ KeyBytes(a) <= KeyBytes(b)
<1>1. KeyBytes(a) \in Nat /\ KeyBytes(b) \in Nat
    BY EntryAssumption DEF KeyBytes, AllKeys
<1>2. CASE a = 0
    BY <1>1, <1>2 DEF KeyBytes
<1>3. CASE a # 0
    <2>1. KeyBytes(a) = KeyBytes(b)
        BY <1>3 DEF KeyBytes, AllKeys, EvenSizes
    <2> QED  BY <1>1, <2>1
<1> QED  BY <1>2, <1>3

\* The first key of a node that is not empty.
LEMMA FirstKeyInside ==
    ASSUME NEW node, NEW range, NEW h \in Nat, Inside(node, range, h), node.kvs # <<>>
    PROVE  FirstKey(node) \in range /\ FirstKey(node) \in AllKeys
<1>1. Len(node.kvs) \in Nat /\ Len(node.kvs) > 0
    BY InsideFacts
<1>2. 1 \in 1 .. Len(node.kvs)
    BY <1>1
<1> QED  BY <1>2, InsideFacts DEF FirstKey

\* An empty node is merged with a neighbour, if there is one.
LEMMA EmptyMerges ==
    ASSUME EvenSizes, NEW node, NEW idx, NEW updated, NEW Child, updated \in NodeOf(Child), updated.kvs = <<>>,
           Len(node.kvs) \in Nat, idx \in 1 .. Len(node.kvs),
           \A j \in 1 .. Len(node.kvs) : Fits(node.kvs[j].child) /\ Bytes(node.kvs[j].child) \in Nat
    PROVE  should_merge(node, idx, updated) # 0 \/ Len(node.kvs) = 1
<1> DEFINE n == Len(node.kvs)
           b == Bytes(updated)
           room(i) == Bytes(node.kvs[i].child) + b - Header <= PageSize
<1>1. b = Header
    <2>1. Size(updated.kvs) = 0
        BY SizeOfNone
    <2> QED  BY <2>1, SizeOfNode, PageFacts
<1>2. ~(b > PageSize \div 4)
    BY <1>1, PageFacts DEF EvenSizes
<1>3. \A i \in 1 .. n : room(i)
    BY <1>1, PageFacts DEF Fits
<1>4. should_merge(node, idx, updated) =
            IF b > PageSize \div 4 THEN 0
            ELSE IF idx > 1 /\ room(idx - 1) THEN idx - 1
            ELSE IF idx < n /\ room(idx + 1) THEN idx + 1
            ELSE 0
    BY DEF should_merge
<1> HIDE DEF b, room, n
<1>5. CASE idx > 1
    <2>1. idx - 1 \in 1 .. n /\ idx - 1 # 0
        BY <1>5 DEF n
    <2> QED  BY <1>2, <1>3, <1>4, <1>5, <2>1
<1>6. CASE ~(idx > 1) /\ idx < n
    <2>1. idx + 1 \in 1 .. n /\ idx + 1 # 0
        BY <1>6 DEF n
    <2> QED  BY <1>2, <1>3, <1>4, <1>6, <2>1
<1>7. CASE ~(idx > 1) /\ ~(idx < n)
    <2>1. n \in Nat /\ idx \in 1 .. n
        BY DEF n
    <2>2. n = 1
        BY <1>7, <2>1
    <2> QED  BY <2>2 DEF n
<1> QED  BY <1>5, <1>6, <1>7

\* should_merge takes only a neighbour with room for both.
LEMMA MergeHasRoom ==
    ASSUME NEW node, NEW idx, NEW updated, should_merge(node, idx, updated) # 0
    PROVE  Bytes(node.kvs[should_merge(node, idx, updated)].child) + Bytes(updated) - Header <= PageSize
<1> DEFINE room(i) == Bytes(node.kvs[i].child) + Bytes(updated) - Header <= PageSize
           s == should_merge(node, idx, updated)
<1>1. s = IF Bytes(updated) > PageSize \div 4 THEN 0
          ELSE IF idx > 1 /\ room(idx - 1) THEN idx - 1
          ELSE IF idx < Len(node.kvs) /\ room(idx + 1) THEN idx + 1
          ELSE 0
    BY DEF should_merge
<1>2. s # 0
    OBVIOUS
<1> HIDE DEF s, room
<1>3. room(s)
    BY <1>1, <1>2
<1> QED  BY <1>3 DEF room, s

\* The parent fits its page with one link for the two neighbours that merge.
LEMMA JoinFits ==
    ASSUME EvenSizes, NEW node, NEW range, NEW h, NEW i, NEW left, NEW right,
           CanJoin(node, range, h, i, left, right), Fits(node)
    PROVE  Fits(node_replace_2_child(node, i, node_merge(left, right)))
<1> DEFINE x == node_merge(left, right)
           n == Len(node.kvs)
           A == Below(node, i, range)
           B == Below(node, i + 1, range)
           Child == Own(node) \cup {x}
<1>1. /\ h \in Nat /\ h + 1 \in Nat /\ Inside(node, range, h + 1) /\ range \in SUBSET AllKeys
      /\ i \in 1 .. n /\ i < n /\ Inside(left, A, h) /\ Inside(right, B, h)
      /\ left.kvs # <<>> \/ right.kvs # <<>>
    BY DEF CanJoin
<1>2. /\ n \in Nat /\ Ascending(node.kvs) /\ node \in NodeOf(Own(node))
      /\ \A j \in 1 .. n : node.kvs[j].key \in Nat /\ node.kvs[j].key \in AllKeys
    BY <1>1, InsideFacts
<1>3. \A a \in A, b \in B : a < b
    BY <1>1, <1>2, RangesApart
<1> HIDE DEF x
<1>4. x.kvs # <<>> /\ Inside(x, A \cup B, h)
    <2>1. A \subseteq AllKeys /\ B \subseteq AllKeys
        BY <1>1 DEF Below
    <2>2. Merged(left, right, A, B, h)
        <3> HIDE DEF A, B
        <3> QED  BY <1>1, <1>3, <2>1, MergeInside DEF CanMerge
    <2> HIDE DEF A, B
    <2> QED  BY <1>1, <2>2 DEF Merged, x
<1>5. FirstKey(x) \in AllKeys
    <2> HIDE DEF A, B
    <2> QED  BY <1>1, <1>4, FirstKeyInside
<1>6. i + 1 \in 1 .. n /\ node.kvs[i + 1].key # 0
    <2>1. i + 1 \in 1 .. n /\ node.kvs[i].key < node.kvs[i + 1].key
        BY <1>1, <1>2 DEF Ascending
    <2> QED  BY <1>1, <1>2, <2>1
<1>7. KeyBytes(FirstKey(x)) <= KeyBytes(node.kvs[i].key) + KeyBytes(node.kvs[i + 1].key)
    <2>1. KeyBytes(FirstKey(x)) \in Nat /\ KeyBytes(FirstKey(x)) <= KeyBytes(node.kvs[i + 1].key)
        BY <1>2, <1>5, <1>6, KeyBytesEven
    <2>2. KeyBytes(node.kvs[i].key) \in Nat /\ KeyBytes(node.kvs[i + 1].key) \in Nat
        BY <1>1, <1>2, <1>6, EntryAssumption DEF KeyBytes, AllKeys
    <2> QED  BY <2>1, <2>2
<1>8. node \in NodeOf(Child) /\ x \in Linkable(Child)
    <2>1. node \in NodeOf(Child)
        BY <1>2, OwnNode
    <2> QED  BY <1>5, <2>1 DEF Linkable, AllKeys
<1> HIDE DEF Child
<1>9. Fits(node_replace_2_child(node, i, x))
    BY <1>1, <1>7, <1>8, RemoveFits
<1> QED  BY <1>9 DEF x

\* No assertion of a call of tree_delete fails, if none did in the call it made.
LEMMA DeleteNodeOk ==
    ASSUME EvenSizes, NEW node, NEW range, NEW h, NEW key, NEW updated, WasDeleted(node, range, h, key, updated),
           updated # NotFound, updated.ok
    PROVE  node_delete(node, key, updated).ok
<1> DEFINE idx == node_lookup_le(node, key)
           n == Len(node.kvs)
           c == node.kvs[idx].child
           B == Below(node, idx, range)
           u == updated.node
           with == should_merge(node, idx, u)
           sib == node.kvs[with].child
           merged == IF with < idx THEN node_merge(sib, u) ELSE node_merge(u, sib)
           gone == updated.dels \cup {c}
           join == node_replace_2_child(node, IF with < idx THEN with ELSE idx, merged)
           only == node_replace_child_n(node, idx, <<u>>)
           result == node_delete(node, key, updated)
<1>1. /\ Among(node, range, h + 1, key) /\ h \in Nat /\ h + 1 \in Nat /\ key \in Keys
      /\ Deleted(c, B, h, key, updated)
    BY DEF WasDeleted
<1>2. range \in SUBSET AllKeys /\ IsTree(node, range, h + 1) /\ key \in range
    BY <1>1 DEF Among
<1>3. Inside(node, range, h + 1) /\ node.kvs # <<>> /\ Fits(node)
    BY <1>1, <1>2, TreeIs DEF Whole
<1>4. idx \in 1 .. n /\ n \in Nat /\ key \in B
    BY <1>1, LookupTree DEF LeadsOn
<1>5. /\ node \in NodeOf(Own(node)) /\ \A j \in 1 .. n : node.kvs[j].key \in AllKeys
    BY <1>1, <1>3, InsideFacts
<1>6. \A j \in 1 .. n : /\ Inside(node.kvs[j].child, Below(node, j, range), h)
                        /\ node.kvs[j].child.kvs # <<>> /\ FirstKey(node.kvs[j].child) = node.kvs[j].key
                        /\ Fits(node.kvs[j].child) /\ Bytes(node.kvs[j].child) \in Nat
    <2>1. ASSUME NEW x, NEW Q, Inside(x, Q, h)  PROVE Bytes(x) \in Nat
        <3>1. x \in NodeOf(Own(x))
            BY <2>1 DEF Inside
        <3> QED  BY <3>1, SizeOfNode, PageFacts
    <2> QED  BY <1>1, <1>3, <2>1, LinkedTree
<1>7. /\ Inside(u, B, h) /\ Fits(u) /\ u \in NodeOf(Own(u))
      /\ FirstKey(c) = 0 => u.kvs # <<>> /\ FirstKey(u) = 0
    <2>1. Inside(u, B, h) /\ Fits(u) /\ (FirstKey(c) = 0 => u.kvs # <<>> /\ FirstKey(u) = 0)
        BY <1>1 DEF Deleted, Removed
    <2> HIDE DEF u, B, c
    <2> QED  BY <1>1, <2>1, InsideFacts
<1>8. \/ with = 0
      \/ idx > 1 /\ with = idx - 1
      \/ idx < n /\ with = idx + 1
    BY ShouldMergeWith
<1>9. CASE with # 0
    <2> DEFINE news == updated.news \cup {merged}
               dels == gone \cup {sib}
               good == (updated.ok /\ Fits(join)) /\ Fits(merged)
               r == Result(join, news, dels, good)
    <2>1. result = r
        BY <1>9, Zenon DEF node_delete
    <2>2. r.ok <=> good
        <3> HIDE DEF join, news, dels, good
        <3> QED  BY ResultIs
    <2>3. with \in 1 .. n /\ with # idx
        BY <1>4, <1>8, <1>9
    <2>4. Inside(sib, Below(node, with, range), h) /\ sib.kvs # <<>> /\ Fits(sib)
        BY <1>6, <2>3
    <2>5. Fits(merged)
        <3>1. Bytes(sib) + Bytes(u) - Header <= PageSize
            BY <1>9, MergeHasRoom
        <3>2. Bytes(sib) \in Nat /\ Bytes(u) \in Nat
            BY <1>6, <1>7, <2>3, SizeOfNode, PageFacts
        <3>3. sib \in NodeOf(Own(sib))
            BY <2>4 DEF Inside
        <3>4. 1 \in 1 .. Len(sib.kvs)
            <4>1. Len(sib.kvs) \in Nat /\ Len(sib.kvs) > 0
                <5> HIDE DEF sib
                <5> QED  BY <1>1, <2>4, InsideFacts
            <4> QED  BY <4>1
        <3> DEFINE Child == Own(sib) \cup Own(u)
        <3>5. sib \in NodeOf(Child) /\ u \in NodeOf(Child)
            <4> HIDE DEF sib, u
            <4>1. Own(sib) \subseteq Child /\ Own(u) \subseteq Child
                OBVIOUS
            <4> HIDE DEF Child
            <4> QED  BY <1>7, <3>3, <4>1, OwnNode
        <3> HIDE DEF Child, sib, u
        <3>6. Bytes(u) + Bytes(sib) - Header <= PageSize
            BY <3>1, <3>2, PageFacts
        <3>7. Fits(node_merge(u, sib)) /\ Fits(node_merge(sib, u))
            BY <2>4, <3>4, <3>5, <3>6, RemoveFits
        <3> QED  BY <3>7
    <2>6. Fits(join)
        <3>1. CASE with < idx
            <4>1. with < n /\ with + 1 = idx
                BY <1>4, <1>8, <1>9, <3>1
            <4>2. CanJoin(node, range, h, with, sib, u)
                <5>1. Inside(u, Below(node, with + 1, range), h)
                    BY <1>7, <4>1
                <5> HIDE DEF sib, u, with
                <5> QED  BY <1>1, <1>2, <1>3, <2>3, <2>4, <4>1, <5>1 DEF CanJoin, n
            <4>3. Fits(node_replace_2_child(node, with, node_merge(sib, u)))
                BY <1>3, <4>2, JoinFits
            <4> QED  BY <3>1, <4>3
        <3>2. CASE ~(with < idx)
            <4>1. idx < n /\ with = idx + 1
                BY <1>4, <1>8, <1>9, <3>2
            <4>2. CanJoin(node, range, h, idx, u, sib)
                <5>1. Inside(sib, Below(node, idx + 1, range), h)
                    BY <2>4, <4>1
                <5> HIDE DEF sib, u, with, idx
                <5> QED  BY <1>1, <1>2, <1>3, <1>4, <1>7, <2>4, <4>1, <5>1 DEF CanJoin, n
            <4>3. Fits(node_replace_2_child(node, idx, node_merge(u, sib)))
                BY <1>3, <4>2, JoinFits
            <4> QED  BY <3>2, <4>3
        <3> QED  BY <3>1, <3>2
    <2> HIDE DEF r, join, merged
    <2> QED  BY <2>1, <2>2, <2>5, <2>6
<1>10. CASE with = 0 /\ u.kvs = <<>>
    <2> DEFINE new == Inner(<<>>)
               news == updated.news
               good == updated.ok /\ n = 1
               r == Result(new, news, gone, good)
    <2>1. result = r
        BY <1>10, Zenon DEF node_delete
    <2>2. r.ok <=> good
        <3> HIDE DEF new, news, gone, good
        <3> QED  BY ResultIs
    <2>3. n = 1
        <3> HIDE DEF u, idx
        <3> QED  BY <1>4, <1>6, <1>7, <1>10, EmptyMerges
    <2> HIDE DEF r
    <2> QED  BY <2>1, <2>2, <2>3
<1>11. CASE with = 0 /\ u.kvs # <<>>
    <2> DEFINE news == updated.news \cup {u}
               good == updated.ok /\ Fits(only)
               r == Result(only, news, gone, good)
    <2>1. result = r
        BY <1>11, Zenon DEF node_delete
    <2>2. r.ok <=> good
        <3> HIDE DEF only, news, gone, good
        <3> QED  BY ResultIs
    <2>3. FirstKey(u) \in AllKeys
        <3> HIDE DEF u, B
        <3> QED  BY <1>1, <1>7, <1>11, FirstKeyInside
    <2>4. KeyBytes(FirstKey(u)) <= KeyBytes(node.kvs[idx].key)
        <3>1. node.kvs[idx].key \in AllKeys
            BY <1>4, <1>5
        <3>2. CASE node.kvs[idx].key # 0
            BY <2>3, <3>1, <3>2, KeyBytesEven
        <3>3. CASE node.kvs[idx].key = 0
            <4>1. FirstKey(u) = 0
                BY <1>4, <1>6, <1>7, <3>3
            <4> QED  BY <3>3, <4>1 DEF KeyBytes
        <3> QED  BY <3>2, <3>3
    <2> DEFINE Child == Own(node) \cup {u}
    <2>5. node \in NodeOf(Child) /\ u \in Linkable(Child)
        <3>1. node \in NodeOf(Child)
            BY <1>5, OwnNode
        <3> QED  BY <2>3, <3>1 DEF Linkable, AllKeys
    <2> HIDE DEF Child, u, idx
    <2>6. Fits(node_replace_child_n(node, idx, <<u>>))
        BY <1>3, <1>4, <2>4, <2>5, RemoveFits
    <2> HIDE DEF r
    <2> QED  BY <2>1, <2>2, <2>6
<1> QED  BY <1>9, <1>10, <1>11

NeverFails(r) == EvenSizes /\ r # NotFound => r.ok

\* tree_delete takes the key's entry, and nothing else, out of what a tree
\* holds; it finds nothing only if the tree does not hold the key.
LEMMA DeleteTree ==
    ASSUME NEW tree, NEW range, NEW h, NEW key \in Keys, Among(tree, range, h, key)
    PROVE  Deleted(tree, range, h, key, tree_delete(tree, key)) /\ NeverFails(tree_delete(tree, key))
<1> DEFINE v(i) == Visited(tree, key, i)
           last == v(h)
           place == node_lookup_le(last, key)
           first == IF HasKeyAt(last, place, key) THEN Result(leaf_delete(last, place), {}, {}, last.leaf) ELSE NotFound
           Loop(f, n) == f = [i \in 0 .. n |-> IF i = 0 THEN first ELSE node_delete(v(h - i), key, f[i - 1])]
           result == CHOOSE f : Loop(f, h)
           Good(i) == \A Q : Among(v(h - i), Q, i, key) => Deleted(v(h - i), Q, i, key, result[i]) /\ NeverFails(result[i])
           T == {i \in 0 .. h : ~Good(i)}
<1>1. h \in Nat /\ IsTree(tree, range, h) /\ range \in SUBSET AllKeys /\ key \in range
    BY DEF Among
<1>2. Depth(tree, key) = h
    BY <1>1, DepthIs
<1>3. tree_delete(tree, key) = result[h]
    BY <1>2 DEF tree_delete
<1>4. Loop(result, h)
    <2>1. \E f : Loop(f, h)
        <3>1. \E f : DeleteLoop(f, tree, key, h, first, h)
            BY <1>1, DeleteLoops
        <3> QED  BY <3>1 DEF DeleteLoop
    <2> HIDE DEF Loop
    <2> QED  BY <2>1
<1>5. v(0) = tree /\ \A i \in Nat : v(i + 1) = v(i).kvs[node_lookup_le(v(i), key)].child
    BY VisitNext
<1>7. \A i \in 0 .. h : result[i] = IF i = 0 THEN first ELSE node_delete(v(h - i), key, result[i - 1])
    <2> HIDE DEF first, v, result
    <2>1. result = [i \in 0 .. h |-> IF i = 0 THEN first ELSE node_delete(v(h - i), key, result[i - 1])]
        BY <1>4
    <2> QED  BY <2>1
<1> HIDE DEF result, v
<1>8. 0 \notin T
    <2> SUFFICES ASSUME NEW Q, Among(v(h), Q, 0, key)
                 PROVE  Deleted(v(h), Q, 0, key, result[0]) /\ NeverFails(result[0])
        BY <1>1
    <2>1. Deleted(last, Q, 0, key, first)
        BY DeleteLeaf
    <2>2. 0 \in 0 .. h
        BY <1>1
    <2>4. NeverFails(first)
        <3>1. last.leaf
            <4>1. LeadsOn(v(h), Q, 0, key)
                BY LookupTree
            <4> QED  BY <4>1 DEF LeadsOn
        <3> DEFINE leaf == leaf_delete(last, place)
        <3>2. Result(leaf, {}, {}, last.leaf).ok <=> last.leaf
            <4> HIDE DEF leaf, last
            <4> QED  BY ResultIs
        <3> HIDE DEF last, place, leaf
        <3> QED  BY <3>1, <3>2 DEF NeverFails, leaf
    <2> HIDE DEF first
    <2>3. result[0] = first
        BY <1>7, <2>2
    <2> QED  BY <2>1, <2>3, <2>4
<1> HIDE DEF first, last
<1>9. ASSUME NEW i \in 1 .. h, Good(i - 1)  PROVE Good(i)
    <2> SUFFICES ASSUME NEW Q, Among(v(h - i), Q, i, key)
                 PROVE  Deleted(v(h - i), Q, i, key, result[i]) /\ NeverFails(result[i])
        OBVIOUS
    <2> DEFINE node == v(h - i)
               idx == node_lookup_le(node, key)
               B == Below(node, idx, Q)
    <2>1. i - 1 \in Nat /\ (i - 1) + 1 = i /\ h - i \in Nat /\ (h - i) + 1 = h - (i - 1) /\ i > 0 /\ i \in 0 .. h /\ i # 0
        BY <1>1
    <2>2. LeadsOn(node, Q, i, key)
        BY LookupTree
    <2>3. key \in B /\ IsTree(node.kvs[idx].child, B, i - 1)
        BY <2>1, <2>2 DEF LeadsOn
    <2>4. v(h - (i - 1)) = node.kvs[idx].child
        BY <1>5, <2>1
    <2>5. B \subseteq AllKeys
        BY DEF Among, Below
    <2>6. Among(v(h - (i - 1)), B, i - 1, key)
        BY <2>1, <2>3, <2>4, <2>5 DEF Among
    <2>7. Deleted(v(h - (i - 1)), B, i - 1, key, result[i - 1]) /\ NeverFails(result[i - 1])
        BY <1>9, <2>6
    <2>8. result[i] = node_delete(node, key, result[i - 1])
        BY <1>7, <2>1
    <2>9. WasDeleted(node, Q, i - 1, key, result[i - 1])
        BY <2>1, <2>4, <2>7 DEF WasDeleted
    <2>10. Deleted(node, Q, (i - 1) + 1, key, node_delete(node, key, result[i - 1]))
        BY <2>9, DeleteNode
    <2>11. NeverFails(node_delete(node, key, result[i - 1]))
        <3> SUFFICES ASSUME EvenSizes, node_delete(node, key, result[i - 1]) # NotFound
                     PROVE  node_delete(node, key, result[i - 1]).ok
            BY DEF NeverFails
        <3>1. result[i - 1] # NotFound
            BY DEF node_delete
        <3>2. result[i - 1].ok
            BY <2>7, <3>1 DEF NeverFails
        <3> QED  BY <2>9, <3>1, <3>2, DeleteNodeOk
    <2> QED  BY <2>1, <2>8, <2>10, <2>11
<1> HIDE DEF Good
<1>10. T = {}
    <2> SUFFICES ASSUME T # {}  PROVE FALSE
        OBVIOUS
    <2>1. PICK i \in T : i \in 1 .. h /\ i - 1 \in 0 .. h /\ i - 1 \notin T
        BY <1>1, <1>8, FirstFailure
    <2> QED  BY <1>9, <2>1
<1>11. Good(h)
    BY <1>1, <1>10
<1>12. h - h = 0
    BY <1>1
<1> QED  BY <1>3, <1>5, <1>11, <1>12 DEF Good

\* What remove returns for a tree that holds these entries.
RemovedFrom(held, key, r) ==
    \/ r = NotFound /\ \A e \in held : e.key # key
    \/ /\ r # NotFound /\ \E e \in held : e.key = key
       /\ r.ok => \E g \in Nat : Sound(r.node, g) /\ Held(r.node, g) = {e \in held : e.key # key}

LEMMA RemoveRoot ==
    ASSUME NEW tree, NEW h, Sound(tree, h), NEW key \in Keys
    PROVE  RemovedFrom(Held(tree, h), key, remove(tree, key)) /\ NeverFails(remove(tree, key))
<1> DEFINE updated == tree_delete(tree, key)
           u == updated.node
           one_child == ~u.leaf /\ Len(u.kvs) = 1
           c == u.kvs[1].child
           new_root == IF one_child THEN c ELSE u
           held == Held(tree, h)
           left == {e \in held : e.key # key}
           result == remove(tree, key)
<1>1. h \in Nat /\ tree # Nil /\ IsTree(tree, AllKeys, h) /\ Inside(tree, AllKeys, h) /\ Whole(tree, AllKeys)
    BY TreeIs DEF Sound
<1>2. FirstKey(tree) = 0
    <2>1. Len(tree.kvs) > 0 /\ Len(tree.kvs) \in Nat /\ \A i \in 1 .. Len(tree.kvs) : tree.kvs[i].key \in Nat
        BY <1>1, InsideFacts DEF Whole
    <2>2. FirstKey(tree) \in Nat
        <3>1. 1 \in 1 .. Len(tree.kvs)
            BY <2>1
        <3> QED  BY <2>1, <3>1 DEF FirstKey
    <2>3. FirstKey(tree) <= 0
        BY <1>1 DEF Whole, AllKeys
    <2> QED  BY <2>2, <2>3
<1>3. Deleted(tree, AllKeys, h, key, updated) /\ NeverFails(updated)
    <2>1. Among(tree, AllKeys, h, key)
        BY <1>1 DEF Among, AllKeys
    <2> QED  BY <2>1, DeleteTree
<1>4. CASE updated = NotFound
    <2>1. result = NotFound
        BY <1>4 DEF remove
    <2>2. \A e \in held : e.key # key
        BY <1>3, <1>4 DEF Deleted
    <2> QED  BY <2>1, <2>2 DEF RemovedFrom, NeverFails
<1>5. CASE updated # NotFound
    <2> DEFINE news == IF one_child THEN updated.news ELSE updated.news \cup {new_root}
               dels == updated.dels \cup {tree}
               good == updated.ok
               r == Result(new_root, news, dels, good)
    <2>1. result = r
        BY <1>1, <1>5, Zenon DEF remove, remove_root
    <2>2. r.node = new_root /\ (r.ok <=> good) /\ (new_root # Nil => r # NotFound)
        <3> HIDE DEF new_root, news, dels, good
        <3> QED  BY ResultIs
    <2>3. (\E e \in held : e.key = key) /\ (good => Removed(tree, AllKeys, h, key, u))
        BY <1>3, <1>5 DEF Deleted
    <2>4. ASSUME good  PROVE new_root # Nil /\ \E g \in Nat : Sound(new_root, g) /\ Held(new_root, g) = left
        <3>1. /\ Inside(u, AllKeys, h) /\ Fits(u) /\ Held(u, h) = left
              /\ u.kvs # <<>> /\ FirstKey(u) = 0
            BY <1>2, <2>3, <2>4 DEF Removed
        <3>2. CASE one_child
            <4>1. h # 0
                BY <3>1, <3>2 DEF Inside
            <4>2. h - 1 \in Nat /\ (h - 1) + 1 = h
                BY <1>1, <4>1
            <4>3. Inside(u, AllKeys, (h - 1) + 1) /\ 1 \in 1 .. Len(u.kvs)
                BY <3>1, <3>2, <4>2
            <4> HIDE DEF u
            <4>4. /\ Inside(c, Below(u, 1, AllKeys), h - 1) /\ c.kvs # <<>> /\ Fits(c)
                  /\ FirstKey(c) = u.kvs[1].key
                BY <4>2, <4>3, LinkedTree
            <4>5. u.kvs[1].key = 0
                BY <3>1 DEF FirstKey
            <4>6. Below(u, 1, AllKeys) = AllKeys
                <5>1. ~(1 < Len(u.kvs)) /\ \A k \in AllKeys : u.kvs[1].key <= k
                    BY <3>2, <4>5, KeysNat
                <5> QED  BY <5>1 DEF Below
            <4>7. Held(u, h) = Held(c, h - 1)
                <5>1. Held(u, (h - 1) + 1) = UNION {Held(x, h - 1) : x \in Own(u)}
                    BY <4>2, HeldNext
                <5>2. Own(u) = {u.kvs[i].child : i \in 1 .. Len(u.kvs)}
                    BY <1>1, <3>1, InsideFacts, OwnNode
                <5>3. 1 .. Len(u.kvs) = {1}
                    BY <3>2
                <5>4. Own(u) = {c}
                    BY <5>2, <5>3
                <5> HIDE DEF c
                <5>5. UNION {Held(x, h - 1) : x \in Own(u)} = Held(c, h - 1)
                    BY <5>4
                <5> QED  BY <4>2, <5>1, <5>5
            <4> HIDE DEF c
            <4>8. Whole(c, AllKeys)
                BY <4>4, <4>5, KeysNat DEF Whole
            <4>9. Sound(c, h - 1)
                BY <4>2, <4>4, <4>6, <4>8, SoundIs
            <4>10. new_root = c
                BY <3>2
            <4> HIDE DEF new_root, left
            <4>11. new_root # Nil
                BY <4>9, <4>10 DEF Sound
            <4> QED  BY <3>1, <4>2, <4>7, <4>9, <4>10, <4>11
        <3>3. CASE ~one_child
            <4>1. new_root = u
                BY <3>3
            <4> HIDE DEF new_root, u, left
            <4>2. Whole(u, AllKeys)
                BY <3>1, KeysNat DEF Whole
            <4>3. Sound(u, h)
                BY <1>1, <3>1, <4>2, SoundIs
            <4>4. new_root # Nil
                BY <4>1, <4>3 DEF Sound
            <4> QED  BY <1>1, <3>1, <4>1, <4>3, <4>4
        <3> QED  BY <3>2, <3>3
    <2>5. r # NotFound
        <3>1. NotFound.ok
            BY DEF NotFound, Result
        <3> HIDE DEF r, new_root, good
        <3> QED  BY <2>2, <2>4, <3>1
    <2>6. RemovedFrom(held, key, r)
        <3> HIDE DEF r, new_root, good, held
        <3> QED  BY <2>2, <2>3, <2>4, <2>5 DEF RemovedFrom
    <2>7. NeverFails(r)
        <3> HIDE DEF r
        <3> QED  BY <1>3, <1>5, <2>2 DEF NeverFails
    <2> HIDE DEF r
    <2> QED  BY <2>1, <2>6, <2>7
<1> QED  BY <1>4, <1>5

-----------------------------------------------------------------------------
(* Lookup *)

\* What of key is held below the node.
HeldOf(node, h, key) == {e \in Held(node, h) : e.key = key}

\* The node visited after i links holds what the tree holds of the key.
StillHeld(tree, h, key, i) ==
    \E Q : Among(Visited(tree, key, i), Q, h - i, key) /\ HeldOf(Visited(tree, key, i), h - i, key) = HeldOf(tree, h, key)

LEMMA HeldOnWay ==
    ASSUME NEW tree, NEW range, NEW h, NEW key, Among(tree, range, h, key)
    PROVE  \A i \in 0 .. h : StillHeld(tree, h, key, i)
<1> DEFINE v(i) == Visited(tree, key, i)
           T == {i \in 0 .. h : ~StillHeld(tree, h, key, i)}
<1>1. h \in Nat
    BY DEF Among
<1>2. v(0) = tree /\ \A i \in Nat : v(i + 1) = v(i).kvs[node_lookup_le(v(i), key)].child
    BY VisitNext
<1> SUFFICES ASSUME T # {}  PROVE FALSE
    OBVIOUS
<1>3. 0 \notin T
    <2>1. h - 0 = h
        BY <1>1
    <2> QED  BY <1>2, <2>1 DEF StillHeld
<1>4. PICK i \in T : i \in 1 .. h /\ i - 1 \in 0 .. h /\ i - 1 \notin T
    BY <1>1, <1>3, FirstFailure
<1> DEFINE u == v(i - 1)
           idx == node_lookup_le(u, key)
           c == u.kvs[idx].child
           g == h - i
<1>5. i - 1 \in Nat /\ (i - 1) + 1 = i /\ g \in Nat /\ h - (i - 1) = g + 1 /\ g + 1 > 0 /\ (g + 1) - 1 = g
    BY <1>1, <1>4
<1>6. PICK Q : Among(u, Q, g + 1, key) /\ HeldOf(u, g + 1, key) = HeldOf(tree, h, key)
    <2>1. PICK Q : Among(u, Q, h - (i - 1), key) /\ HeldOf(u, h - (i - 1), key) = HeldOf(tree, h, key)
        BY <1>4 DEF StillHeld
    <2> QED  BY <1>5, <2>1
<1> DEFINE B == Below(u, idx, Q)
<1>7. v(i) = c
    BY <1>2, <1>5
<1> HIDE DEF v, u, g
<1>8. /\ idx \in 1 .. Len(u.kvs) /\ Len(u.kvs) \in Nat /\ key \in B /\ IsTree(c, B, g)
    <2>1. LeadsOn(u, Q, g + 1, key)
        BY <1>6, LookupTree
    <2> QED  BY <1>5, <2>1 DEF LeadsOn
<1>9. Among(c, B, g, key)
    BY <1>5, <1>6, <1>8 DEF Among, Below
<1>10. Inside(u, Q, g + 1) /\ Q \subseteq AllKeys
    BY <1>5, <1>6, TreeIs DEF Among
<1>11. \A j \in 1 .. Len(u.kvs) : j # idx => \A e \in Held(u.kvs[j].child, g) : e.key # key
    BY <1>5, <1>8, <1>10, Elsewhere
<1>12. Held(u, g + 1) = UNION {Held(x, g) : x \in Own(u)} /\ Own(u) = {u.kvs[j].child : j \in 1 .. Len(u.kvs)}
    BY <1>5, <1>10, HeldNext, OwnNode, InsideFacts
<1>13. HeldOf(u, g + 1, key) = HeldOf(c, g, key)
    <2>1. \A e \in Held(u, g + 1) : e.key = key => e \in Held(c, g)
        BY <1>11, <1>12
    <2>2. Held(c, g) \subseteq Held(u, g + 1)
        BY <1>8, <1>12
    <2> HIDE DEF c
    <2> QED  BY <2>1, <2>2 DEF HeldOf
<1> HIDE DEF c, B
<1>14. StillHeld(tree, h, key, i)
    <2>1. Among(v(i), B, h - i, key) /\ HeldOf(v(i), h - i, key) = HeldOf(tree, h, key)
        BY <1>6, <1>7, <1>9, <1>13 DEF g
    <2> QED  BY <2>1 DEF StillHeld, v
<1> QED  BY <1>4, <1>14

\* get returns the value of the entry held of the key.
LEMMA GetHeld ==
    ASSUME NEW tree, NEW h, Sound(tree, h), NEW key \in Keys
    PROVE  get(tree, key) = {e.val : e \in HeldOf(tree, h, key)}
<1> DEFINE last == Visited(tree, key, h)
           idx == node_lookup_le(last, key)
           kvs == last.kvs
           n == Len(kvs)
           found_at == HasKeyAt(last, idx, key)
<1>1. h \in Nat /\ tree # Nil /\ IsTree(tree, AllKeys, h) /\ key \in AllKeys
    BY DEF Sound, AllKeys
<1>2. Depth(tree, key) = h
    BY <1>1, DepthIs
<1>3. get(tree, key) = IF found_at THEN {kvs[idx].val} ELSE {}
    BY <1>1, <1>2 DEF get
<1>4. PICK Q : Among(last, Q, 0, key) /\ HeldOf(last, 0, key) = HeldOf(tree, h, key)
    <2>1. StillHeld(tree, h, key, h)
        <3>1. Among(tree, AllKeys, h, key)
            BY <1>1 DEF Among
        <3>2. h \in 0 .. h
            BY <1>1
        <3> QED  BY <3>1, <3>2, HeldOnWay
    <2>2. h - h = 0
        BY <1>1
    <2> QED  BY <2>1, <2>2 DEF StillHeld
<1> HIDE DEF last
<1>5. Inside(last, Q, 0)
    BY <1>4, TreeIs DEF Among
<1>6. last \in NodeOf(Own(last)) /\ Ascending(kvs) /\ DOMAIN kvs = 1 .. n /\ n \in Nat
    BY <1>5, InsideFacts
<1>7. /\ idx \in 0 .. n
      /\ \A j \in 1 .. n : kvs[j].key \in Nat
      /\ \A j \in 1 .. idx - 1 : kvs[j].key < key
      /\ \A j \in idx + 1 .. n : key < kvs[j].key
      /\ found_at => idx > 0 /\ kvs[idx].key = key
      /\ ~found_at => (idx > 0 => kvs[idx].key < key)
    BY <1>6, HasKeyExact
<1>8. HeldOf(last, 0, key) = {e \in ToSet(kvs) : e.key = key}
    BY HeldNext DEF HeldOf
<1>9. ToSet(kvs) = {kvs[j] : j \in 1 .. n}
    BY <1>6 DEF ToSet
<1>10. key \in Nat
    BY EntryAssumption
<1> HIDE DEF idx, kvs, n, found_at
<1>11. \A j \in 1 .. n : kvs[j].key = key => j = idx
    <2> SUFFICES ASSUME NEW j \in 1 .. n, kvs[j].key = key, j # idx  PROVE FALSE
        OBVIOUS
    <2>1. j \in 1 .. idx - 1 \/ j \in idx + 1 .. n
        BY <1>6, <1>7
    <2>2. ~(key < key)
        BY <1>10
    <2> QED  BY <1>7, <2>1, <2>2
<1>12. CASE found_at
    <2>1. idx \in 1 .. n /\ kvs[idx].key = key
        BY <1>6, <1>7, <1>12
    <2>2. HeldOf(last, 0, key) = {kvs[idx]}
        BY <1>8, <1>9, <1>11, <2>1
    <2> QED  BY <1>3, <1>4, <1>12, <2>2
<1>13. CASE ~found_at
    <2>1. \A j \in 1 .. n : kvs[j].key # key
        <3> SUFFICES ASSUME NEW j \in 1 .. n, kvs[j].key = key  PROVE FALSE
            OBVIOUS
        <3>1. j = idx /\ idx > 0
            BY <1>6, <1>11
        <3> QED  BY <1>7, <1>10, <1>13, <3>1
    <2>2. HeldOf(last, 0, key) = {}
        BY <1>8, <1>9, <2>1
    <2> QED  BY <1>3, <1>4, <1>13, <2>2
<1> QED  BY <1>12, <1>13

-----------------------------------------------------------------------------
(* The map *)

Entries(m) == {Entry(k, m[k], Nil) : k \in DOMAIN m}

LEMMA EntriesKeys ==
    ASSUME NEW m, NEW k \in DOMAIN m
    PROVE  Entry(k, m[k], Nil).key = k /\ Entry(k, m[k], Nil).val = m[k]
BY DEF Entry

\* The map with one key set.
With(m, k, v) == [j \in DOMAIN m \cup {k} |-> IF j = k THEN v ELSE m[j]]

EntriesWith(m, k, v) == {e \in Entries(m) : e.key # k} \cup {Entry(k, v, Nil)}

LEMMA EntriesInserted ==
    ASSUME NEW m, NEW k, NEW v
    PROVE  /\ DOMAIN With(m, k, v) = DOMAIN m \cup {k}
           /\ Entries(With(m, k, v)) = EntriesWith(m, k, v)
<1> DEFINE new == With(m, k, v)
           D == DOMAIN m
           E(j, x) == Entry(j, x, Nil)
<1>1. DOMAIN new = D \cup {k} /\ new[k] = v /\ \A j \in D : j # k => new[j] = m[j]
    BY DEF With
<1>2. \A j \in D : E(j, m[j]).key = j
    BY EntriesKeys
<1>3. Entries(m) = {E(j, m[j]) : j \in D} /\ Entries(new) = {E(j, new[j]) : j \in D \cup {k}}
    BY <1>1 DEF Entries
<1> HIDE DEF new, D, E
<1>4. Entries(new) = {e \in Entries(m) : e.key # k} \cup {E(k, v)}
    <2>1. \A e \in Entries(new) : e = E(k, v) \/ (e \in Entries(m) /\ e.key # k)
        BY <1>1, <1>2, <1>3
    <2>2. \A e \in Entries(m) : e.key # k => e \in Entries(new)
        BY <1>1, <1>2, <1>3
    <2>3. E(k, v) \in Entries(new)
        BY <1>1, <1>3
    <2> QED  BY <2>1, <2>2, <2>3
<1> QED  BY <1>1, <1>4 DEF EntriesWith, new, D, E

LEMMA EntriesRemoved ==
    ASSUME NEW m, NEW k
    PROVE  /\ DOMAIN Restrict(m, DOMAIN m \ {k}) = DOMAIN m \ {k}
           /\ Entries(Restrict(m, DOMAIN m \ {k})) = {e \in Entries(m) : e.key # k}
<1> DEFINE new == Restrict(m, DOMAIN m \ {k})
           D == DOMAIN m
           E(j, x) == Entry(j, x, Nil)
<1>1. DOMAIN new = D \ {k} /\ \A j \in D \ {k} : new[j] = m[j]
    BY DEF Restrict
<1>2. \A j \in D : E(j, m[j]).key = j
    BY EntriesKeys
<1>3. Entries(m) = {E(j, m[j]) : j \in D} /\ Entries(new) = {E(j, new[j]) : j \in D \ {k}}
    BY <1>1 DEF Entries
<1> HIDE DEF new, D, E
<1>4. Entries(new) = {e \in Entries(m) : e.key # k}
    <2>1. \A e \in Entries(new) : e \in Entries(m) /\ e.key # k
        BY <1>1, <1>2, <1>3
    <2>2. \A e \in Entries(m) : e.key # k => e \in Entries(new)
        BY <1>1, <1>2, <1>3
    <2> QED  BY <2>1, <2>2
<1> QED  BY <1>1, <1>4 DEF new, D

\* The tree holds the map, and the sentinel, which is no key of the map.
HoldsAll(tree, m) ==
    /\ tree = Nil => DOMAIN m = {}
    /\ tree # Nil => \E h : Sound(tree, h) /\ {e \in Held(tree, h) : e.key # 0} = Entries(m)

Kept == DOMAIN map \subseteq Keys /\ (ok => removed = found /\ HoldsAll(root, map))

LEMMA SetKeeps ==
    ASSUME NEW key \in Keys, NEW val \in Vals, HoldsAll(root, map)
    PROVE  insert(root, key, val).ok /\ HoldsAll(insert(root, key, val).node, With(map, key, val))
<1> DEFINE r == insert(root, key, val)
           entry == Entry(key, val, Nil)
           m == With(map, key, val)
<1>1. entry.key = key /\ key # 0 /\ Entry(0, 0, Nil).key = 0
    BY EntryAssumption DEF Entry
<1>2. Entries(m) = {e \in Entries(map) : e.key # key} \cup {entry}
    <2>1. Entries(m) = EntriesWith(map, key, val)
        BY EntriesInserted, Zenon
    <2> QED  BY <2>1 DEF EntriesWith
<1>3. ASSUME NEW held, NEW h, InsertedInto(held, key, val, h, r), {e \in held : e.key # 0} = Entries(map)
      PROVE  r.ok /\ HoldsAll(r.node, m)
    <2>1. PICK g \in Nat : Sound(r.node, g) /\ Held(r.node, g) = {e \in held : e.key # key} \cup {entry}
        BY <1>3 DEF InsertedInto
    <2> HIDE DEF r, m, entry
    <2>2. {e \in Held(r.node, g) : e.key # 0} = Entries(m)
        BY <1>1, <1>2, <1>3, <2>1
    <2>3. r.node # Nil
        BY <2>1 DEF Sound
    <2> QED  BY <1>3, <2>1, <2>2, <2>3 DEF HoldsAll, InsertedInto
<1>4. CASE root = Nil
    <2>1. InsertedInto({Entry(0, 0, Nil)}, key, val, 0, r)
        BY <1>4, InsertFirst
    <2>2. Entries(map) = {}
        BY <1>4 DEF HoldsAll, Entries
    <2>3. {e \in {Entry(0, 0, Nil)} : e.key # 0} = Entries(map)
        BY <1>1, <2>2
    <2> HIDE DEF r, m
    <2>4. r.ok /\ HoldsAll(r.node, m)
        BY <1>3, <2>1, <2>3
    <2> QED  BY <2>4 DEF r, m
<1>5. CASE root # Nil
    <2>1. PICK h : Sound(root, h) /\ {e \in Held(root, h) : e.key # 0} = Entries(map)
        BY <1>5 DEF HoldsAll
    <2>2. InsertedInto(Held(root, h), key, val, h, r)
        BY <2>1, InsertRoot
    <2> HIDE DEF r, m
    <2>4. r.ok /\ HoldsAll(r.node, m)
        BY <1>3, <2>1, <2>2
    <2> QED  BY <2>4 DEF r, m
<1> QED  BY <1>4, <1>5

LEMMA DelKeeps ==
    ASSUME NEW key \in Keys, HoldsAll(root, map)
    PROVE  LET r == remove(root, key)
           IN  IF r = NotFound THEN key \notin DOMAIN map
               ELSE /\ key \in DOMAIN map /\ (EvenSizes => r.ok)
                    /\ r.ok => HoldsAll(r.node, Restrict(map, DOMAIN map \ {key}))
<1> DEFINE r == remove(root, key)
           m == Restrict(map, DOMAIN map \ {key})
<1>1. Entries(m) = {e \in Entries(map) : e.key # key}
    BY EntriesRemoved
<1>2. key # 0
    BY EntryAssumption
<1>3. key \in DOMAIN map <=> \E e \in Entries(map) : e.key = key
    BY EntriesKeys DEF Entries
<1>4. CASE root = Nil
    <2>1. r = NotFound
        BY <1>4 DEF remove
    <2>2. key \notin DOMAIN map
        BY <1>4 DEF HoldsAll
    <2> QED  BY <2>1, <2>2
<1>5. CASE root # Nil
    <2>1. PICK h : Sound(root, h) /\ {e \in Held(root, h) : e.key # 0} = Entries(map)
        BY <1>5 DEF HoldsAll
    <2>2. RemovedFrom(Held(root, h), key, r) /\ NeverFails(r)
        BY <2>1, RemoveRoot
    <2>3. (\E e \in Held(root, h) : e.key = key) <=> key \in DOMAIN map
        BY <1>2, <1>3, <2>1
    <2> HIDE DEF r, m
    <2>4. ASSUME r # NotFound, r.ok  PROVE HoldsAll(r.node, m)
        <3>1. PICK g \in Nat : Sound(r.node, g) /\ Held(r.node, g) = {e \in Held(root, h) : e.key # key}
            BY <2>2, <2>4 DEF RemovedFrom
        <3>2. {e \in Held(r.node, g) : e.key # 0} = Entries(m)
            BY <1>1, <2>1, <3>1
        <3>3. r.node # Nil
            BY <3>1 DEF Sound
        <3> QED  BY <3>1, <3>2, <3>3 DEF HoldsAll
    <2>5. IF r = NotFound THEN key \notin DOMAIN map ELSE key \in DOMAIN map /\ (EvenSizes => r.ok) /\ (r.ok => HoldsAll(r.node, m))
        BY <2>2, <2>3, <2>4 DEF RemovedFrom, NeverFails
    <2> QED  BY <2>5 DEF r, m
<1> QED  BY <1>4, <1>5

\* Every call leaves a tree that holds the map, until an assertion of the code
\* fails.
THEOREM TreeKept == Spec => []Kept
<1>1. Init => Kept
    <2>1. DOMAIN <<>> = {}
        OBVIOUS
    <2> QED  BY <2>1 DEF Init, Map!Init, Kept, HoldsAll
<1>2. Kept /\ [Next]_vars => Kept'
    <2> SUFFICES ASSUME Kept, [Next]_vars  PROVE Kept'
        OBVIOUS
    <2>1. ASSUME NEW key \in Keys, NEW val \in Vals, set(key, val)  PROVE Kept'
        <3>1. /\ ok /\ root' = insert(root, key, val).node /\ (ok' <=> insert(root, key, val).ok)
              /\ removed' = removed /\ found' = found /\ map' = With(map, key, val)
            BY <2>1 DEF set, Map!Insert, With
        <3>2. removed = found /\ HoldsAll(root, map) /\ DOMAIN map \subseteq Keys
            BY <3>1 DEF Kept
        <3>3. HoldsAll(root, map)'
            <4>1. HoldsAll(insert(root, key, val).node, With(map, key, val))
                BY <3>2, SetKeeps
            <4> QED  BY <3>1, <4>1 DEF HoldsAll
        <3>4. DOMAIN map' \subseteq Keys
            BY <3>1, <3>2 DEF With
        <3> QED  BY <3>1, <3>2, <3>3, <3>4 DEF Kept
    <2>2. ASSUME NEW key \in Keys, del(key)  PROVE Kept'
        <3> DEFINE r == remove(root, key)
        <3>1. /\ ok /\ found' = (key \in DOMAIN map) /\ map' = Restrict(map, DOMAIN map \ {key})
              /\ IF r = NotFound THEN removed' = FALSE /\ root' = root /\ ok' = ok
                 ELSE removed' = TRUE /\ root' = r.node /\ ok' = r.ok
            BY <2>2 DEF del, Map!Remove, Map!Restrict, Restrict
        <3>2. HoldsAll(root, map) /\ DOMAIN map \subseteq Keys
            BY <3>1 DEF Kept
        <3>3. IF r = NotFound THEN key \notin DOMAIN map
              ELSE key \in DOMAIN map /\ (r.ok => HoldsAll(r.node, Restrict(map, DOMAIN map \ {key})))
            BY <3>2, DelKeeps
        <3>4. DOMAIN map' = DOMAIN map \ {key} /\ Entries(map') = {e \in Entries(map) : e.key # key}
            BY <3>1, EntriesRemoved
        <3> HIDE DEF r
        <3>5. CASE r = NotFound
            <4>1. key \notin DOMAIN map /\ removed' = FALSE /\ root' = root
                BY <3>1, <3>3, <3>5
            <4>4. found' = FALSE
                <5>1. (key \in DOMAIN map) = FALSE
                    BY <4>1
                <5> QED  BY <3>1, <5>1, Zenon
            <4>2. Entries(map') = Entries(map)
                <5>1. \A e \in Entries(map) : e.key # key
                    BY <4>1, EntriesKeys DEF Entries
                <5> QED  BY <3>4, <5>1
            <4>3. HoldsAll(root', map')
                BY <3>2, <3>4, <4>1, <4>2 DEF HoldsAll
            <4> QED  BY <3>2, <3>4, <4>1, <4>3, <4>4 DEF Kept, HoldsAll
        <3>6. CASE r # NotFound
            <4>1. removed' = TRUE /\ found' = TRUE /\ root' = r.node /\ ok' = r.ok
                BY <3>1, <3>3, <3>6
            <4>2. r.ok => HoldsAll(r.node, map')
                BY <3>1, <3>3, <3>6
            <4>3. ok' => HoldsAll(root', map')
                BY <4>1, <4>2
            <4> QED  BY <3>2, <3>4, <4>1, <4>3 DEF Kept, HoldsAll
        <3> QED  BY <3>5, <3>6
    <2>3. CASE UNCHANGED vars
        BY <2>3 DEF vars, Kept, HoldsAll, Entries
    <2> QED  BY <2>1, <2>2, <2>3 DEF Next
<1> QED  BY <1>1, <1>2, PTL DEF Spec

LEMMA HeightIs ==
    ASSUME NEW tree, NEW h, Sound(tree, h)
    PROVE  Height(tree) = h
BY DepthIs DEF Sound, Height, AllKeys

\* Whatever calls were made, all leaves are equally deep, and insert, remove and
\* their splits, merges and moved links leave every node in order, on its page,
\* and with the keys that lookup finds there.
THEOREM TreeWellFormed == Spec => []WellFormed
<1>1. Kept => WellFormed
    BY HeightIs DEF Kept, HoldsAll, WellFormed, Sound, AllKeys
<1> QED  BY <1>1, TreeKept, PTL

\* The leaves hold the map that the calls of set and del made, and remove says
\* truly whether its key was there.
THEOREM TreeHoldsMap == Spec => []HoldsMap
<1>1. ASSUME Kept  PROVE HoldsMap
    <2>1. CASE root = Nil
        BY <1>1, <2>1 DEF Kept, HoldsAll, HoldsMap
    <2>2. CASE root # Nil
        <3>1. ok => \E h : Height(root) = h /\ {e \in Held(root, h) : e.key # 0} = Entries(map)
            BY <1>1, <2>2, HeightIs DEF Kept, HoldsAll
        <3> QED  BY <1>1, <2>2, <3>1 DEF Kept, HoldsMap, Entries
    <2> QED  BY <2>1, <2>2
<1> QED  BY <1>1, TreeKept, PTL

\* BTree::get returns what was last set for any key, and nothing after a remove.
THEOREM TreeGetFinds == Spec => []GetFinds
<1>1. ASSUME Kept, ok, NEW k \in Keys  PROVE get(root, k) = {map[j] : j \in DOMAIN map \cap {k}}
    <2>1. CASE root = Nil
        BY <1>1, <2>1 DEF Kept, HoldsAll, get
    <2>2. CASE root # Nil
        <3>1. PICK h : Sound(root, h) /\ {e \in Held(root, h) : e.key # 0} = Entries(map)
            BY <1>1, <2>2 DEF Kept, HoldsAll
        <3>2. get(root, k) = {e.val : e \in HeldOf(root, h, k)}
            BY <3>1, GetHeld
        <3>3. HeldOf(root, h, k) = {e \in Entries(map) : e.key = k}
            BY <3>1, EntryAssumption DEF HeldOf
        <3>4. {e.val : e \in {x \in Entries(map) : x.key = k}} = {map[j] : j \in DOMAIN map \cap {k}}
            BY EntriesKeys DEF Entries
        <3> QED  BY <3>2, <3>3, <3>4
    <2> QED  BY <2>1, <2>2
<1>2. Kept => GetFinds
    BY <1>1 DEF GetFinds
<1> QED  BY <1>2, TreeKept, PTL

\* As long as all keys have the same size, no assertion fails at all.
THEOREM EvenTreeNeverFails == EvenSizes => (Spec => []NoAssertFails)
<1> SUFFICES ASSUME EvenSizes  PROVE Spec => []NoAssertFails
    OBVIOUS
<1>1. Init => NoAssertFails
    BY DEF Init, NoAssertFails
<1>2. Kept /\ NoAssertFails /\ [Next]_vars => NoAssertFails'
    <2> SUFFICES ASSUME Kept, ok, [Next]_vars  PROVE ok'
        BY DEF NoAssertFails
    <2>1. HoldsAll(root, map)
        BY DEF Kept
    <2>2. ASSUME NEW key \in Keys, NEW val \in Vals, set(key, val)  PROVE ok'
        BY <2>1, <2>2, SetKeeps DEF set
    <2>3. ASSUME NEW key \in Keys, del(key)  PROVE ok'
        <3> DEFINE r == remove(root, key)
        <3>1. r # NotFound => r.ok
            BY <2>1, DelKeeps
        <3>2. IF r = NotFound THEN ok' = ok ELSE ok' = r.ok
            BY <2>3 DEF del
        <3> HIDE DEF r
        <3> QED  BY <3>1, <3>2
    <2>4. CASE UNCHANGED vars
        BY <2>4 DEF vars
    <2> QED  BY <2>2, <2>3, <2>4 DEF Next
<1> QED  BY <1>1, <1>2, TreeKept, PTL DEF Spec
=============================================================================
