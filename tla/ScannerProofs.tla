--------------------------- MODULE ScannerProofs ----------------------------
(***************************************************************************)
(* Proofs about encoded rows and the scans over them, for every size of a  *)
(* byte and of an integer, every table, every set of rows and every        *)
(* request: the order of the bytes is the order of the values, also of     *)
(* bounds with missing columns; values decode to what they were; the store *)
(* holds the rows, their index entries and nothing else of the table; a    *)
(* point query gives its row; and a scan gives the rows of its range. And  *)
(* about the query planner, for every list of comparisons: the range that  *)
(* ql_range plans is never narrower than the filter, and db_scan takes it  *)
(* unless the upper bound names more columns than the lower one.           *)
(***************************************************************************)
EXTENDS Scanner, QLRange, LeastNumber, SequenceTheorems, FiniteSetTheorems, TLAPS

-----------------------------------------------------------------------------
(* Numbers in bytes *)

LEMMA TopFacts == Top \in Nat /\ Top + 1 \in Nat \ {0} /\ Lead \in 3 .. Top - 1 /\ IntBytes \in Nat \ {0}
BY EncodingConstants DEF Lead

\* The loop of Pow.
PowLoop(f, n) == f = [i \in 0 .. n |-> IF i = 0 THEN 1 ELSE (Top + 1) * f[i - 1]]

\* The loop is well defined, and Pow is its result.
LEMMA PowLoops ==
    ASSUME NEW n \in Nat
    PROVE  \E f : PowLoop(f, n) /\ Pow(n) = f[n]
<1> DEFINE T == {m \in 0 .. n : ~ \E f : PowLoop(f, m)}
           pass(x) == (Top + 1) * x
           Loop(f, m) == f = [i \in 0 .. m |-> IF i = 0 THEN 1 ELSE pass(f[i - 1])]
<1>0. \A f, m : PowLoop(f, m) <=> Loop(f, m)
    BY DEF PowLoop
<1>1. \E f : PowLoop(f, n)
    <2> HIDE DEF pass
    <2> SUFFICES ASSUME T # {}  PROVE FALSE
        <3>1. n \in 0 .. n
            OBVIOUS
        <3> QED  BY <3>1
    <2>1. 0 \notin T
        <3>1. Loop([i \in 0 .. 0 |-> 1], 0)
            OBVIOUS
        <3> QED  BY <1>0, <3>1
    <2>2. PICK m \in T : m \in 1 .. n /\ m - 1 \in 0 .. n /\ m - 1 \notin T
        BY <2>1, FirstFailure
    <2>3. PICK f : Loop(f, m - 1)
        BY <1>0, <2>2
    <2> DEFINE g == [i \in 0 .. m |-> IF i = m THEN pass(f[m - 1]) ELSE f[i]]
    <2>4. ASSUME NEW i \in 0 .. m  PROVE g[i] = IF i = 0 THEN 1 ELSE pass(g[i - 1])
        <3>1. CASE i = m
            BY <2>2, <3>1
        <3>2. CASE i # m
            <4>1. i \in 0 .. m - 1 /\ i - 1 # m /\ g[i] = f[i]
                BY <2>2, <3>2
            <4>2. f[i] = IF i = 0 THEN 1 ELSE pass(f[i - 1])
                BY <2>3, <4>1
            <4>3. i # 0 => g[i - 1] = f[i - 1]
                BY <2>2, <4>1
            <4> QED  BY <4>1, <4>2, <4>3
        <3> QED  BY <3>1, <3>2
    <2>5. Loop(g, m)
        BY <2>4
    <2> QED  BY <1>0, <2>2, <2>5
<1>2. Pow(n) = (CHOOSE f : Loop(f, n))[n]
    BY DEF Pow
<1>3. Loop(CHOOSE f : Loop(f, n), n)
    <2> HIDE DEF Loop
    <2> QED  BY <1>0, <1>1
<1> QED  BY <1>0, <1>2, <1>3

\* Each byte more multiplies by the number of bytes.
LEMMA PowNext ==
    /\ Pow(0) = 1
    /\ \A n \in Nat : Pow(n) \in Nat \ {0} /\ Pow(n + 1) = (Top + 1) * Pow(n)
<1>1. ASSUME NEW n \in Nat, NEW f, PowLoop(f, n)
      PROVE  /\ f[0] = 1 /\ \A i \in 0 .. n : f[i] \in Nat \ {0}
             /\ \A i \in 1 .. n : f[i] = (Top + 1) * f[i - 1]
    <2>1. f[0] = 1 /\ \A i \in 1 .. n : f[i] = (Top + 1) * f[i - 1]
        BY <1>1 DEF PowLoop
    <2> DEFINE T == {i \in 0 .. n : f[i] \notin Nat \ {0}}
    <2>2. T = {}
        <3> SUFFICES ASSUME T # {}  PROVE FALSE
            OBVIOUS
        <3>1. PICK i \in T : i \in 1 .. n /\ i - 1 \in 0 .. n /\ i - 1 \notin T
            <4>1. 0 \notin T
                BY <2>1
            <4> QED  BY <4>1, FirstFailure
        <3>2. f[i - 1] \in Nat \ {0} /\ f[i] = (Top + 1) * f[i - 1]
            BY <2>1, <3>1
        <3>3. f[i] \in Nat \ {0}
            BY <3>2, TopFacts
        <3> QED  BY <3>1, <3>3
    <2> QED  BY <2>1, <2>2
<1>2. ASSUME NEW n \in Nat, NEW f, PowLoop(f, n), NEW g, PowLoop(g, n + 1)
      PROVE  \A i \in 0 .. n : f[i] = g[i]
    <2> DEFINE T == {i \in 0 .. n : f[i] # g[i]}
    <2> SUFFICES ASSUME T # {}  PROVE FALSE
        OBVIOUS
    <2>1. 0 \notin T
        BY <1>1, <1>2
    <2>2. PICK i \in T : i \in 1 .. n /\ i - 1 \in 0 .. n /\ i - 1 \notin T
        BY <2>1, FirstFailure
    <2>3. f[i] = (Top + 1) * f[i - 1] /\ g[i] = (Top + 1) * g[i - 1]
        BY <1>1, <1>2, <2>2
    <2> QED  BY <2>2, <2>3
<1>3. Pow(0) = 1
    BY <1>1, PowLoops
<1>4. ASSUME NEW n \in Nat  PROVE Pow(n) \in Nat \ {0} /\ Pow(n + 1) = (Top + 1) * Pow(n)
    <2>1. PICK f : PowLoop(f, n) /\ Pow(n) = f[n]
        BY PowLoops
    <2>2. PICK g : PowLoop(g, n + 1) /\ Pow(n + 1) = g[n + 1]
        BY PowLoops
    <2>3. f[n] = g[n]
        BY <1>2, <2>1, <2>2
    <2>4. f[n] \in Nat \ {0}
        BY <1>1, <2>1
    <2>5. g[n + 1] = (Top + 1) * g[n]
        <3>1. n + 1 \in 1 .. n + 1 /\ (n + 1) - 1 = n
            OBVIOUS
        <3> QED  BY <1>1, <2>2, <3>1
    <2> QED  BY <2>1, <2>2, <2>3, <2>4, <2>5
<1> QED  BY <1>3, <1>4

\* Division with remainder.
LEMMA DivMod ==
    ASSUME NEW p \in Nat \ {0}, NEW u \in Nat
    PROVE  u = (u \div p) * p + (u % p) /\ u % p \in 0 .. p - 1 /\ u \div p \in Nat
OBVIOUS

LEMMA DivMonotonic ==
    ASSUME NEW p \in Nat \ {0}, NEW u \in Nat, NEW v \in Nat, u <= v
    PROVE  u \div p <= v \div p
OBVIOUS

LEMMA DivDiv ==
    ASSUME NEW p \in Nat \ {0}, NEW b \in Nat \ {0}, NEW u \in Nat
    PROVE  u \div (b * p) = (u \div p) \div b
OBVIOUS

\* The number that the first i of n bytes make, and the byte after it.
Shifted(n, u, i) == u \div Pow(n - i)

LEMMA ShiftedNext ==
    ASSUME NEW n \in Nat, NEW u \in 0 .. Pow(n) - 1
    PROVE  /\ Shifted(n, u, 0) = 0 /\ Shifted(n, u, n) = u
           /\ \A i \in 0 .. n : Shifted(n, u, i) \in Nat
           /\ \A i \in 1 .. n : /\ BigEndian(n, u)[i] \in 0 .. Top
                                /\ Shifted(n, u, i) = Shifted(n, u, i - 1) * (Top + 1) + BigEndian(n, u)[i]
<1>1. Pow(n) \in Nat \ {0} /\ u \in Nat /\ n - 0 = n /\ n - n = 0
    BY PowNext
<1>2. Shifted(n, u, 0) = 0
    <2>1. u \div Pow(n) = 0
        BY <1>1
    <2> QED  BY <1>1, <2>1 DEF Shifted
<1>3. Shifted(n, u, n) = u
    BY <1>1, PowNext DEF Shifted
<1>4. ASSUME NEW i \in 0 .. n  PROVE Pow(n - i) \in Nat \ {0} /\ Shifted(n, u, i) \in Nat
    <2>1. n - i \in Nat
        OBVIOUS
    <2>2. Pow(n - i) \in Nat \ {0}
        BY <2>1, PowNext
    <2> QED  BY <1>1, <2>2, DivMod DEF Shifted
<1>5. ASSUME NEW i \in 1 .. n
      PROVE  /\ BigEndian(n, u)[i] \in 0 .. Top
             /\ Shifted(n, u, i) = Shifted(n, u, i - 1) * (Top + 1) + BigEndian(n, u)[i]
    <2> DEFINE q == Shifted(n, u, i)
    <2>1. i \in 0 .. n /\ i - 1 \in 0 .. n /\ n - i \in Nat /\ n - (i - 1) = (n - i) + 1
        OBVIOUS
    <2>2. Shifted(n, u, i - 1) = u \div ((Top + 1) * Pow(n - i))
        BY <2>1, PowNext DEF Shifted
    <2>3. Shifted(n, u, i - 1) = q \div (Top + 1)
        BY <1>1, <1>4, <2>1, <2>2, TopFacts, DivDiv DEF Shifted
    <2>4. BigEndian(n, u)[i] = q % (Top + 1)
        BY DEF BigEndian, Shifted
    <2>5. q \in Nat
        BY <1>4, <2>1
    <2> HIDE DEF q
    <2>6. q = (q \div (Top + 1)) * (Top + 1) + (q % (Top + 1)) /\ q % (Top + 1) \in 0 .. (Top + 1) - 1
        BY <2>5, TopFacts, DivMod
    <2>7. (Top + 1) - 1 = Top
        BY TopFacts
    <2> QED  BY <2>3, <2>4, <2>6, <2>7 DEF q
<1> QED  BY <1>2, <1>3, <1>4, <1>5

-----------------------------------------------------------------------------
(* Sequences that differ at a byte both have *)

Below(s, t) ==
    \E i \in DOMAIN s \cap DOMAIN t : s[i] < t[i] /\ \A j \in 1 .. i - 1 : s[j] = t[j]

\* What comes after does not matter.
LEMMA BelowConcat ==
    ASSUME NEW s \in Seq(Byte), NEW t \in Seq(Byte), NEW x \in Seq(Byte), NEW y \in Seq(Byte), Below(s, t)
    PROVE  Below(s \o x, t \o y)
<1>1. PICK i \in DOMAIN s \cap DOMAIN t : s[i] < t[i] /\ \A j \in 1 .. i - 1 : s[j] = t[j]
    BY DEF Below
<1>2. /\ Len(s) \in Nat /\ DOMAIN s = 1 .. Len(s) /\ Len(t) \in Nat /\ DOMAIN t = 1 .. Len(t)
      /\ Len(x) \in Nat /\ Len(y) \in Nat
    BY LenProperties
<1>3. /\ s \o x \in Seq(Byte) /\ Len(s \o x) = Len(s) + Len(x)
      /\ t \o y \in Seq(Byte) /\ Len(t \o y) = Len(t) + Len(y)
      /\ \A j \in 1 .. Len(s) : (s \o x)[j] = s[j]
      /\ \A j \in 1 .. Len(t) : (t \o y)[j] = t[j]
    <2>1. /\ s \o x \in Seq(Byte) /\ Len(s \o x) = Len(s) + Len(x)
          /\ \A j \in 1 .. Len(s) + Len(x) : (s \o x)[j] = IF j <= Len(s) THEN s[j] ELSE x[j - Len(s)]
        BY ConcatProperties
    <2>2. /\ t \o y \in Seq(Byte) /\ Len(t \o y) = Len(t) + Len(y)
          /\ \A j \in 1 .. Len(t) + Len(y) : (t \o y)[j] = IF j <= Len(t) THEN t[j] ELSE y[j - Len(t)]
        BY ConcatProperties
    <2> QED  BY <1>2, <2>1, <2>2
<1>4. DOMAIN (s \o x) = 1 .. Len(s) + Len(x) /\ DOMAIN (t \o y) = 1 .. Len(t) + Len(y)
    BY <1>3, LenProperties
<1> DEFINE a == s \o x
           b == t \o y
<1>5. i \in DOMAIN a \cap DOMAIN b /\ a[i] = s[i] /\ b[i] = t[i]
    BY <1>1, <1>2, <1>3, <1>4
<1>6. \A j \in 1 .. i - 1 : a[j] = b[j]
    <2> TAKE j \in 1 .. i - 1
    <2>1. j \in 1 .. Len(s) /\ j \in 1 .. Len(t) /\ s[j] = t[j]
        BY <1>1, <1>2
    <2> QED  BY <1>3, <2>1
<1>7. a[i] < b[i]
    BY <1>1, <1>5
<1> HIDE DEF a, b
<1>8. Below(a, b)
    BY <1>5, <1>6, <1>7 DEF Below
<1> QED  BY <1>8 DEF a, b

\* A common start does not matter.
LEMMA BelowAfter ==
    ASSUME NEW c \in Seq(Byte), NEW s \in Seq(Byte), NEW t \in Seq(Byte), Below(s, t)
    PROVE  Below(c \o s, c \o t)
<1>1. PICK i \in DOMAIN s \cap DOMAIN t : s[i] < t[i] /\ \A j \in 1 .. i - 1 : s[j] = t[j]
    BY DEF Below
<1> DEFINE n == Len(c)
           a == c \o s
           b == c \o t
<1>2. /\ n \in Nat /\ Len(s) \in Nat /\ DOMAIN s = 1 .. Len(s) /\ Len(t) \in Nat /\ DOMAIN t = 1 .. Len(t)
    BY LenProperties
<1>3. /\ a \in Seq(Byte) /\ Len(a) = n + Len(s)
      /\ \A j \in 1 .. n + Len(s) : a[j] = IF j <= n THEN c[j] ELSE s[j - n]
    BY ConcatProperties
<1>4. /\ b \in Seq(Byte) /\ Len(b) = n + Len(t)
      /\ \A j \in 1 .. n + Len(t) : b[j] = IF j <= n THEN c[j] ELSE t[j - n]
    BY ConcatProperties
<1> HIDE DEF n, a, b
<1>5. DOMAIN a = 1 .. n + Len(s) /\ DOMAIN b = 1 .. n + Len(t)
    BY <1>3, <1>4, LenProperties
<1>6. /\ n + i \in DOMAIN a \cap DOMAIN b /\ a[n + i] = s[i] /\ b[n + i] = t[i]
    <2>1. n + i \in 1 .. n + Len(s) /\ n + i \in 1 .. n + Len(t) /\ ~(n + i <= n) /\ (n + i) - n = i
        BY <1>2
    <2> QED  BY <1>3, <1>4, <1>5, <2>1
<1>7. \A j \in 1 .. (n + i) - 1 : a[j] = b[j]
    <2> TAKE j \in 1 .. (n + i) - 1
    <2>1. j \in 1 .. n + Len(s) /\ j \in 1 .. n + Len(t)
        BY <1>2
    <2>2. ~(j <= n) => j - n \in 1 .. i - 1
        BY <1>2
    <2> QED  BY <1>1, <1>3, <1>4, <2>1, <2>2
<1>8. Below(a, b)
    BY <1>1, <1>6, <1>7 DEF Below
<1> QED  BY <1>8 DEF a, b

\* Below is a strict order as far as it is needed, and says what BytesLess says.
LEMMA BelowLess ==
    ASSUME NEW s \in Seq(Byte), NEW t \in Seq(Byte), Below(s, t)
    PROVE  BytesLess(s, t) /\ ~BytesLess(t, s) /\ s # t
<1>1. PICK i \in DOMAIN s \cap DOMAIN t : s[i] < t[i] /\ \A j \in 1 .. i - 1 : s[j] = t[j]
    BY DEF Below
<1>2. /\ Len(s) \in Nat /\ DOMAIN s = 1 .. Len(s) /\ Len(t) \in Nat /\ DOMAIN t = 1 .. Len(t)
      /\ \A j \in 1 .. Len(s) : s[j] \in Int
      /\ \A j \in 1 .. Len(t) : t[j] \in Int
    BY LenProperties, ElementOfSeq, TopFacts DEF Byte
<1>3. BytesLess(s, t)
    BY <1>1 DEF BytesLess
<1>4. ~IsPrefix(t, s)
    <2> SUFFICES ASSUME IsPrefix(t, s)  PROVE FALSE
        OBVIOUS
    <2>1. Len(t) <= Len(s) /\ SubSeq(t, 1, Len(t)) = SubSeq(s, 1, Len(t))
        BY DEF IsPrefix
    <2>2. SubSeq(t, 1, Len(t))[i] = t[i] /\ SubSeq(s, 1, Len(t))[i] = s[i]
        BY <1>1, <1>2, <2>1
    <2> QED  BY <1>1, <1>2, <2>1, <2>2
<1>5. ASSUME NEW k \in DOMAIN t \cap DOMAIN s, t[k] < s[k], \A j \in 1 .. k - 1 : t[j] = s[j]
      PROVE  FALSE
    <2>1. k \in Nat /\ i \in Nat
        BY <1>2
    <2>2. CASE k < i
        <3>1. k \in 1 .. i - 1
            BY <1>2, <2>1, <2>2
        <3> QED  BY <1>1, <1>2, <1>5, <3>1
    <2>3. CASE i < k
        <3>1. i \in 1 .. k - 1
            BY <1>2, <2>1, <2>3
        <3> QED  BY <1>1, <1>2, <1>5, <3>1
    <2>4. CASE k = i
        BY <1>1, <1>2, <1>5, <2>4
    <2> QED  BY <2>1, <2>2, <2>3, <2>4
<1>6. ~BytesLess(t, s)
    BY <1>4, <1>5 DEF BytesLess, IsStrictPrefix
<1>7. s # t
    BY <1>1, <1>2
<1> QED  BY <1>3, <1>6, <1>7

\* The bytes of a number, and that they are ordered like the numbers.
LEMMA BytesOf ==
    ASSUME NEW n \in Nat, NEW u \in 0 .. Pow(n) - 1
    PROVE  BigEndian(n, u) \in Seq(Byte) /\ Len(BigEndian(n, u)) = n /\ DOMAIN BigEndian(n, u) = 1 .. n
<1>1. BigEndian(n, u) \in [1 .. n -> Byte]
    <2>1. \A i \in 1 .. n : BigEndian(n, u)[i] \in Byte
        BY ShiftedNext DEF Byte
    <2> QED  BY <2>1 DEF BigEndian
<1> QED  BY <1>1

LEMMA BytesOrder ==
    ASSUME NEW n \in Nat, NEW u \in 0 .. Pow(n) - 1, NEW v \in 0 .. Pow(n) - 1, u < v
    PROVE  Below(BigEndian(n, u), BigEndian(n, v))
<1> DEFINE a == BigEndian(n, u)
           b == BigEndian(n, v)
           q(i) == Shifted(n, u, i)
           r(i) == Shifted(n, v, i)
           T == {i \in 0 .. n : q(i) # r(i)}
<1>0. Pow(n) \in Nat /\ u \in Nat /\ v \in Nat
    BY PowNext
<1>1. /\ q(0) = 0 /\ q(n) = u /\ \A i \in 0 .. n : q(i) \in Nat
      /\ \A i \in 1 .. n : a[i] \in 0 .. Top /\ q(i) = q(i - 1) * (Top + 1) + a[i]
    BY ShiftedNext
<1>2. /\ r(0) = 0 /\ r(n) = v /\ \A i \in 0 .. n : r(i) \in Nat
      /\ \A i \in 1 .. n : b[i] \in 0 .. Top /\ r(i) = r(i - 1) * (Top + 1) + b[i]
    BY ShiftedNext
<1>3. DOMAIN a = 1 .. n /\ DOMAIN b = 1 .. n
    BY BytesOf
<1>4. \A i \in 0 .. n : q(i) <= r(i)
    <2> TAKE i \in 0 .. n
    <2>1. Pow(n - i) \in Nat \ {0}
        BY PowNext
    <2> QED  BY <1>0, <2>1, DivMonotonic DEF Shifted
<1> HIDE DEF q, r, a, b
<1>5. T # {} /\ T \in SUBSET (0 .. n)
    <2>1. n \in T
        BY <1>0, <1>1, <1>2
    <2> QED  BY <2>1
<1>6. PICK i \in T : \A m \in T : i <= m
    <2>1. T \in SUBSET Nat
        OBVIOUS
    <2> HIDE DEF T
    <2> QED  BY <1>5, <2>1, Least
<1>7. i \in 1 .. n /\ \A j \in 0 .. i - 1 : q(j) = r(j)
    <2>1. i \in 0 .. n /\ i # 0
        BY <1>1, <1>2, <1>6
    <2>2. ASSUME NEW j \in 0 .. i - 1  PROVE q(j) = r(j)
        <3>1. j \in 0 .. n /\ ~(i <= j)
            BY <2>1
        <3> QED  BY <1>6, <3>1
    <2> QED  BY <2>1, <2>2
<1>8. a[i] < b[i]
    <2>1. q(i) # r(i) /\ q(i) <= r(i) /\ q(i - 1) = r(i - 1) /\ q(i - 1) \in Nat
        <3>1. i - 1 \in 0 .. i - 1 /\ i - 1 \in 0 .. n
            BY <1>7
        <3> QED  BY <1>1, <1>4, <1>6, <1>7, <3>1
    <2>2. q(i) = q(i - 1) * (Top + 1) + a[i] /\ r(i) = q(i - 1) * (Top + 1) + b[i]
          /\ a[i] \in Int /\ b[i] \in Int
        BY <1>1, <1>2, <1>7, <2>1, TopFacts
    <2>3. q(i - 1) * (Top + 1) \in Int
        BY <2>1, TopFacts
    <2> DEFINE m == q(i - 1) * (Top + 1)
    <2> HIDE DEF m
    <2>4. q(i) = m + a[i] /\ r(i) = m + b[i] /\ m \in Int
        BY <2>2, <2>3 DEF m
    <2> QED  BY <2>1, <2>2, <2>4
<1>9. \A j \in 1 .. i - 1 : a[j] = b[j]
    <2> TAKE j \in 1 .. i - 1
    <2>1. j \in 1 .. n /\ j \in 0 .. i - 1 /\ j - 1 \in 0 .. i - 1 /\ j - 1 \in 0 .. n
        BY <1>7
    <2>2. q(j) = r(j) /\ q(j - 1) = r(j - 1) /\ q(j - 1) \in Nat
        BY <1>1, <1>7, <2>1
    <2> DEFINE m == q(j - 1) * (Top + 1)
    <2>3. m \in Int /\ a[j] \in Int /\ b[j] \in Int
        BY <1>1, <1>2, <2>1, <2>2, TopFacts
    <2>4. q(j) = m + a[j] /\ r(j) = m + b[j]
        BY <1>1, <1>2, <2>1, <2>2
    <2> HIDE DEF m
    <2>5. m + a[j] = m + b[j]
        BY <2>2, <2>4
    <2>6. \A x, y, z \in Int : z + x = z + y => x = y
        OBVIOUS
    <2> QED  BY <2>3, <2>5, <2>6, Zenon
<1> QED  BY <1>3, <1>7, <1>8, <1>9 DEF Below, a, b

-----------------------------------------------------------------------------
(* FlattenSeq: what a loop that appends to a string gives *)

\* f[i] is the string after i parts.
Appends(f, parts, S) ==
    /\ f \in [0 .. Len(parts) -> Seq(S)] /\ f[0] = <<>>
    /\ \A i \in 1 .. Len(parts) : f[i] = f[i - 1] \o parts[i]

\* There is such a loop.
LEMMA AppendsExist ==
    ASSUME NEW S, NEW parts \in Seq(Seq(S))
    PROVE  \E f : Appends(f, parts, S)
<1> DEFINE N == Len(parts)
           Loop(f, n) == /\ f \in [0 .. n -> Seq(S)] /\ f[0] = <<>>
                         /\ \A i \in 1 .. n : f[i] = f[i - 1] \o parts[i]
           T == {n \in 0 .. N : ~ \E f : Loop(f, n)}
<1>1. N \in Nat /\ \A i \in 1 .. N : parts[i] \in Seq(S)
    BY LenProperties, ElementOfSeq
<1>2. T = {}
    <2> SUFFICES ASSUME T # {}  PROVE FALSE
        OBVIOUS
    <2>1. 0 \notin T
        <3>1. Loop([i \in 0 .. 0 |-> <<>>], 0)
            <4>1. <<>> \in Seq(S)
                OBVIOUS
            <4> QED  BY <4>1
        <3> QED  BY <3>1
    <2>2. PICK n \in T : n \in 1 .. N /\ n - 1 \in 0 .. N /\ n - 1 \notin T
        BY <1>1, <2>1, FirstFailure
    <2>3. PICK f : Loop(f, n - 1)
        BY <2>2
    <2> DEFINE e == f[n - 1] \o parts[n]
               g == [i \in 0 .. n |-> IF i = n THEN e ELSE f[i]]
    <2>4. e \in Seq(S) /\ \A i \in 0 .. n - 1 : f[i] \in Seq(S)
        <3>1. f[n - 1] \in Seq(S) /\ parts[n] \in Seq(S)
            BY <1>1, <2>2, <2>3
        <3> QED  BY <2>3, <3>1, ConcatProperties
    <2>5. /\ g[n] = e /\ \A i \in 0 .. n - 1 : g[i] = f[i]
        <3> HIDE DEF e
        <3> QED  BY <2>2
    <2>6. g \in [0 .. n -> Seq(S)]
        <3>1. \A i \in 0 .. n : i = n \/ i \in 0 .. n - 1
            BY <2>2
        <3> HIDE DEF e
        <3> QED  BY <2>4, <3>1
    <2>7. g[0] = <<>>
        <3>1. 0 \in 0 .. n - 1
            BY <2>2
        <3> QED  BY <2>3, <2>5, <3>1
    <2>8. ASSUME NEW i \in 1 .. n  PROVE g[i] = g[i - 1] \o parts[i]
        <3>1. i - 1 \in 0 .. n - 1 /\ (i = n \/ i \in 1 .. n - 1)
            BY <2>2
        <3>2. g[i - 1] = f[i - 1]
            BY <2>5, <3>1
        <3>3. CASE i = n
            BY <2>5, <3>2, <3>3
        <3>4. CASE i \in 1 .. n - 1
            <4>1. i \in 0 .. n - 1
                BY <3>4
            <4>2. g[i] = f[i]
                BY <2>5, <4>1, Zenon
            <4>3. f[i] = f[i - 1] \o parts[i]
                BY <2>3, <3>4, Zenon
            <4> QED  BY <3>2, <4>2, <4>3
        <3> QED  BY <3>1, <3>3, <3>4
    <2> HIDE DEF g
    <2>9. Loop(g, n)
        BY <2>6, <2>7, <2>8
    <2> QED  BY <2>2, <2>9
<1>3. \E f : Loop(f, N)
    <2>1. N \in 0 .. N
        BY <1>1
    <2> HIDE DEF Loop
    <2> QED  BY <1>2, <2>1
<1> QED  BY <1>3 DEF Appends

\* And FlattenSeq is its result.
LEMMA Flattens ==
    ASSUME NEW S, NEW parts \in Seq(Seq(S))
    PROVE  \E f : Appends(f, parts, S) /\ FlattenSeq(parts) = f[Len(parts)]
<1> DEFINE N == Len(parts)
           Loop(h) == h = [i \in 1 .. N |-> IF i = 1 THEN parts[i] ELSE h[i - 1] \o parts[i]]
<1>1. N \in Nat /\ \A i \in 1 .. N : parts[i] \in Seq(S)
    BY LenProperties, ElementOfSeq
<1>2. PICK f : Appends(f, parts, S)
    BY AppendsExist
<1>3. /\ f[0] = <<>> /\ \A i \in 1 .. N : f[i] = f[i - 1] \o parts[i]
      /\ f \in [0 .. N -> Seq(S)]
    BY <1>2 DEF Appends
<1>4. CASE N = 0
    <2>1. parts = <<>>
        BY <1>4, EmptySeq
    <2>2. FlattenSeq(parts) = parts
        BY <1>4 DEF FlattenSeq
    <2> QED  BY <1>2, <1>3, <1>4, <2>1, <2>2
<1>5. CASE N # 0
    <2>1. f[1] = parts[1]
        <3>1. 1 \in 1 .. N /\ 1 - 1 = 0 /\ parts[1] \in Seq(S)
            BY <1>1, <1>5
        <3>2. f[1] = <<>> \o parts[1]
            BY <1>3, <3>1
        <3> QED  BY <3>1, <3>2, ConcatEmptySeq
    <2> DEFINE g == [i \in 1 .. N |-> f[i]]
    <2>2. Loop(g)
        <3>1. ASSUME NEW i \in 1 .. N
              PROVE  g[i] = IF i = 1 THEN parts[i] ELSE g[i - 1] \o parts[i]
            <4>1. i # 1 => i - 1 \in 1 .. N
                BY <1>1
            <4> QED  BY <1>3, <2>1, <4>1
        <3> QED  BY <3>1
    <2>3. FlattenSeq(parts) = (CHOOSE h : Loop(h))[N]
        BY <1>5 DEF FlattenSeq
    <2> DEFINE h == CHOOSE h : Loop(h)
    <2>4. Loop(h)
        <3> HIDE DEF Loop
        <3> QED  BY <2>2
    <2> HIDE DEF h
    <2>5. \A i \in 1 .. N : h[i] = IF i = 1 THEN parts[i] ELSE h[i - 1] \o parts[i]
        BY <2>4
    <2> DEFINE T == {i \in 0 .. N : i # 0 /\ h[i] # f[i]}
    <2>6. T = {}
        <3> SUFFICES ASSUME T # {}  PROVE FALSE
            OBVIOUS
        <3>1. PICK i \in T : i \in 1 .. N /\ i - 1 \in 0 .. N /\ i - 1 \notin T
            <4>1. 0 \notin T
                OBVIOUS
            <4> QED  BY <1>1, <4>1, FirstFailure
        <3>2. h[i] = f[i]
            <4>1. CASE i = 1
                BY <2>1, <2>5, <3>1, <4>1
            <4>2. CASE i # 1
                <5>1. h[i - 1] = f[i - 1]
                    BY <3>1, <4>2
                <5> QED  BY <1>3, <2>5, <3>1, <4>2, <5>1
            <4> QED  BY <4>1, <4>2
        <3> QED  BY <3>1, <3>2
    <2>7. h[N] = f[N]
        <3>1. N \in 0 .. N
            BY <1>1
        <3> QED  BY <1>5, <2>6, <3>1
    <2> QED  BY <1>2, <2>3, <2>7 DEF h
<1> QED  BY <1>4, <1>5

\* Two such loops over the same parts go the same way.
LEMMA AppendsSame ==
    ASSUME NEW S, NEW p \in Seq(Seq(S)), NEW q \in Seq(Seq(S)), NEW f, NEW g,
           Appends(f, p, S), Appends(g, q, S), Len(p) <= Len(q),
           \A i \in 1 .. Len(p) : p[i] = q[i]
    PROVE  f[Len(p)] = g[Len(p)]
<1> DEFINE N == Len(p)
           T == {i \in 0 .. N : f[i] # g[i]}
<1>1. N \in Nat /\ Len(q) \in Nat
    BY LenProperties
<1>2. T = {}
    <2> SUFFICES ASSUME T # {}  PROVE FALSE
        OBVIOUS
    <2>1. 0 \notin T
        BY DEF Appends
    <2>2. PICK i \in T : i \in 1 .. N /\ i - 1 \in 0 .. N /\ i - 1 \notin T
        BY <1>1, <2>1, FirstFailure
    <2>3. f[i] = f[i - 1] \o p[i] /\ g[i] = g[i - 1] \o q[i]
        <3>1. i \in 1 .. Len(p) /\ i \in 1 .. Len(q)
            BY <1>1, <2>2
        <3> QED  BY <3>1, Zenon DEF Appends
    <2> QED  BY <2>2, <2>3
<1> QED  BY <1>1, <1>2

LEMMA FlattenType ==
    ASSUME NEW S, NEW parts \in Seq(Seq(S))
    PROVE  FlattenSeq(parts) \in Seq(S)
<1>1. Len(parts) \in 0 .. Len(parts)
    BY LenProperties
<1>2. PICK f : Appends(f, parts, S) /\ FlattenSeq(parts) = f[Len(parts)]
    BY Flattens
<1>3. f \in [0 .. Len(parts) -> Seq(S)]
    BY <1>2, Zenon DEF Appends
<1> QED  BY <1>1, <1>2, <1>3

LEMMA FlattenEmpty == FlattenSeq(<<>>) = <<>>
BY DEF FlattenSeq

LEMMA FlattenOne ==
    ASSUME NEW S, NEW s \in Seq(S)
    PROVE  FlattenSeq(<<s>>) = s
<1>1. <<s>> \in Seq(Seq(S)) /\ Len(<<s>>) = 1 /\ <<s>>[1] = s
    OBVIOUS
<1>2. PICK f : Appends(f, <<s>>, S) /\ FlattenSeq(<<s>>) = f[1]
    BY <1>1, Flattens
<1>3. f[1] = <<>> \o s
    <2>1. 1 \in 1 .. Len(<<s>>) /\ 1 - 1 = 0
        BY <1>1
    <2>2. f[1] = f[1 - 1] \o <<s>>[1] /\ f[0] = <<>>
        BY <1>2, <2>1, Zenon DEF Appends
    <2> QED  BY <1>1, <2>1, <2>2
<1> QED  BY <1>2, <1>3, ConcatEmptySeq

\* Appending the parts of two sequences.
LEMMA FlattenConcat ==
    ASSUME NEW S, NEW p \in Seq(Seq(S)), NEW q \in Seq(Seq(S))
    PROVE  FlattenSeq(p \o q) = FlattenSeq(p) \o FlattenSeq(q)
<1> DEFINE m == Len(p)
           n == Len(q)
           r == p \o q
<1>1. /\ m \in Nat /\ n \in Nat /\ r \in Seq(Seq(S)) /\ Len(r) = m + n
      /\ \A i \in 1 .. m + n : r[i] = IF i <= m THEN p[i] ELSE q[i - m]
    BY LenProperties, ConcatProperties
<1>2. PICK f : Appends(f, p, S) /\ FlattenSeq(p) = f[m]
    BY Flattens
<1>3. PICK g : Appends(g, q, S) /\ FlattenSeq(q) = g[n]
    BY Flattens
<1> HIDE DEF r
<1>4. PICK h : Appends(h, r, S) /\ FlattenSeq(r) = h[m + n]
    BY <1>1, Flattens
<1> HIDE DEF m, n
<1>5. h[m] = f[m]
    <2>1. Len(p) <= Len(r) /\ \A i \in 1 .. Len(p) : p[i] = r[i]
        BY <1>1 DEF m
    <2>2. f[Len(p)] = h[Len(p)]
        <3>1. r \in Seq(Seq(S)) /\ Appends(f, p, S) /\ Appends(h, r, S)
            BY <1>1, <1>2, <1>4
        <3> QED  BY <2>1, <3>1, AppendsSame
    <2> QED  BY <2>2 DEF m
<1> DEFINE T == {i \in 0 .. n : h[m + i] # f[m] \o g[i]}
<1>6. f[m] \in Seq(S) /\ \A i \in 0 .. n : g[i] \in Seq(S)
    <2>1. f \in [0 .. m -> Seq(S)] /\ g \in [0 .. n -> Seq(S)]
        BY <1>2, <1>3, Zenon DEF Appends, m, n
    <2>2. m \in 0 .. m
        BY <1>1
    <2> QED  BY <2>1, <2>2
<1>7. T = {}
    <2> SUFFICES ASSUME T # {}  PROVE FALSE
        OBVIOUS
    <2>1. 0 \notin T
        <3>1. g[0] = <<>> /\ m + 0 = m
            BY <1>1, <1>3 DEF Appends
        <3>2. f[m] \o <<>> = f[m]
            BY <1>6, ConcatEmptySeq
        <3> QED  BY <1>5, <3>1, <3>2
    <2>2. PICK i \in T : i \in 1 .. n /\ i - 1 \in 0 .. n /\ i - 1 \notin T
        BY <1>1, <2>1, FirstFailure
    <2>3. h[m + i] = h[m + (i - 1)] \o r[m + i]
        <3>1. m + i \in 1 .. Len(r) /\ (m + i) - 1 = m + (i - 1)
            BY <1>1, <2>2
        <3> QED  BY <1>4, <3>1 DEF Appends
    <2>4. r[m + i] = q[i]
        <3>1. m + i \in 1 .. m + n /\ ~(m + i <= m) /\ (m + i) - m = i
            BY <1>1, <2>2
        <3> QED  BY <1>1, <3>1
    <2>5. h[m + (i - 1)] = f[m] \o g[i - 1]
        BY <2>2
    <2>6. g[i] = g[i - 1] \o q[i] /\ q[i] \in Seq(S)
        BY <1>3, <2>2, ElementOfSeq DEF Appends, n
    <2>7. (f[m] \o g[i - 1]) \o q[i] = f[m] \o (g[i - 1] \o q[i])
        <3>1. g[i - 1] \in Seq(S)
            BY <1>6, <2>2
        <3>2. \A a, b, c \in Seq(S) : (a \o b) \o c = a \o (b \o c)
            BY ConcatAssociative
        <3> QED  BY <1>6, <2>6, <3>1, <3>2, Zenon
    <2>8. h[m + i] = f[m] \o g[i]
        BY <2>3, <2>4, <2>5, <2>6, <2>7, Zenon
    <2> QED  BY <2>2, <2>8
<1>8. h[m + n] = f[m] \o g[n]
    <2>1. n \in 0 .. n
        BY <1>1
    <2> QED  BY <1>7, <2>1
<1> QED  BY <1>2, <1>3, <1>4, <1>8 DEF r

\* The parts before, at and after a place.
LEMMA FlattenCut ==
    ASSUME NEW S, NEW p \in Seq(Seq(S)), NEW i \in 1 .. Len(p)
    PROVE  LET before == FlattenSeq(SubSeq(p, 1, i - 1))
               after == FlattenSeq(SubSeq(p, i + 1, Len(p)))
           IN  /\ before \in Seq(S) /\ p[i] \in Seq(S) /\ after \in Seq(S)
               /\ FlattenSeq(p) = before \o (p[i] \o after)
<1> DEFINE n == Len(p)
           a == SubSeq(p, 1, i - 1)
           b == SubSeq(p, i, n)
           c == SubSeq(p, i + 1, n)
<1>1. n \in Nat /\ p[i] \in Seq(S)
    BY LenProperties, ElementOfSeq
<1>2. a \in Seq(Seq(S)) /\ b \in Seq(Seq(S)) /\ c \in Seq(Seq(S))
    <2>1. \A j \in 1 .. n : p[j] \in Seq(S)
        BY ElementOfSeq
    <2>2. /\ i - 1 \in Int /\ i + 1 \in Int /\ i \in Int /\ n \in Int /\ 1 \in Int
          /\ \A j \in 1 .. i - 1 : p[j] \in Seq(S)
          /\ \A j \in i .. n : p[j] \in Seq(S)
          /\ \A j \in i + 1 .. n : p[j] \in Seq(S)
        BY <1>1, <2>1
    <2> HIDE DEF n
    <2> QED  BY <2>2, SubSeqProperties
<1>3. p = a \o b
    <2>1. 1 \in 1 .. n + 1 /\ i - 1 \in 1 - 1 .. n /\ n \in i - 1 .. n /\ (i - 1) + 1 = i
        BY <1>1
    <2>2. SubSeq(p, 1, i - 1) \o SubSeq(p, (i - 1) + 1, n) = SubSeq(p, 1, n)
        BY <2>1, ConcatAdjacentSubSeq
    <2>3. SubSeq(p, 1, n) = p
        BY SubSeqFull
    <2> QED  BY <2>1, <2>2, <2>3
<1>4. b = <<p[i]>> \o c
    <2>1. n \in i .. n
        BY <1>1
    <2> QED  BY <2>1, SubSeqRecursiveFirst
<1>5. <<p[i]>> \in Seq(Seq(S))
    BY <1>1
<1> HIDE DEF a, b, c, n
<1>6. FlattenSeq(p) = FlattenSeq(a) \o FlattenSeq(b)
    BY <1>2, <1>3, FlattenConcat
<1>7. FlattenSeq(b) = FlattenSeq(<<p[i]>>) \o FlattenSeq(c)
    BY <1>2, <1>4, <1>5, FlattenConcat
<1>8. FlattenSeq(<<p[i]>>) = p[i]
    BY <1>1, FlattenOne
<1>9. FlattenSeq(a) \in Seq(S) /\ FlattenSeq(c) \in Seq(S)
    BY <1>2, FlattenType
<1> QED  BY <1>1, <1>6, <1>7, <1>8, <1>9 DEF a, c, n

\* Strings are below when the first of their parts that differ are.
LEMMA FlattenBelow ==
    ASSUME NEW p \in Seq(Seq(Byte)), NEW q \in Seq(Seq(Byte)),
           NEW i \in 1 .. Len(p), i \in 1 .. Len(q),
           \A j \in 1 .. i - 1 : p[j] = q[j], Below(p[i], q[i])
    PROVE  Below(FlattenSeq(p), FlattenSeq(q))
<1>1. SubSeq(p, 1, i - 1) = SubSeq(q, 1, i - 1)
    <2> DEFINE S == Seq(Byte)
               a == SubSeq(p, 1, i - 1)
               b == SubSeq(q, 1, i - 1)
    <2>1. /\ i - 1 \in Int /\ 1 \in Int /\ (i - 1) - 1 + 1 = i - 1
          /\ \A j \in 1 .. i - 1 : p[j] \in S /\ q[j] \in S
        <3>1. \A j \in 1 .. i - 1 : j \in 1 .. Len(p) /\ j \in 1 .. Len(q)
            BY LenProperties
        <3> QED  BY <3>1, ElementOfSeq
    <2> HIDE DEF S
    <2>2. /\ a \in Seq(S) /\ Len(a) = IF 1 <= i - 1 THEN (i - 1) - 1 + 1 ELSE 0
          /\ \A j \in 1 .. (i - 1) - 1 + 1 : a[j] = p[1 + j - 1]
          /\ b \in Seq(S) /\ Len(b) = IF 1 <= i - 1 THEN (i - 1) - 1 + 1 ELSE 0
          /\ \A j \in 1 .. (i - 1) - 1 + 1 : b[j] = q[1 + j - 1]
        BY <2>1, SubSeqProperties
    <2>3. \A j \in 1 .. Len(a) : j \in 1 .. i - 1 /\ j \in 1 .. (i - 1) - 1 + 1 /\ 1 + j - 1 = j
        BY <2>2
    <2>4. \A j \in 1 .. Len(a) : a[j] = b[j]
        <3> HIDE DEF a, b
        <3> TAKE j \in 1 .. Len(a)
        <3>1. j \in 1 .. i - 1 /\ a[j] = p[j] /\ b[j] = q[j]
            BY <2>2, <2>3
        <3> QED  BY <3>1
    <2> HIDE DEF a, b
    <2>5. a = b
        BY <2>2, <2>4, SeqEqual
    <2> QED  BY <2>5 DEF a, b
<1> DEFINE c == FlattenSeq(SubSeq(p, 1, i - 1))
           x == FlattenSeq(SubSeq(p, i + 1, Len(p)))
           y == FlattenSeq(SubSeq(q, i + 1, Len(q)))
<1>2. /\ c \in Seq(Byte) /\ p[i] \in Seq(Byte) /\ x \in Seq(Byte)
      /\ FlattenSeq(p) = c \o (p[i] \o x)
    BY FlattenCut
<1>3. q[i] \in Seq(Byte) /\ y \in Seq(Byte) /\ FlattenSeq(q) = c \o (q[i] \o y)
    BY <1>1, FlattenCut
<1> HIDE DEF c, x, y
<1>4. Below(p[i] \o x, q[i] \o y)
    BY <1>2, <1>3, BelowConcat
<1>5. p[i] \o x \in Seq(Byte) /\ q[i] \o y \in Seq(Byte)
    BY <1>2, <1>3, ConcatProperties
<1>6. Below(c \o (p[i] \o x), c \o (q[i] \o y))
    BY <1>2, <1>4, <1>5, BelowAfter
<1> QED  BY <1>2, <1>3, <1>6

-----------------------------------------------------------------------------
(* The encoding of a value *)

LEMMA EscapedByte ==
    ASSUME NEW c \in Byte
    PROVE  /\ Escaped(c) \in Seq(Byte) /\ Escaped(c) # <<>> /\ 1 \in DOMAIN Escaped(c)
           /\ Escaped(c)[1] = IF c <= 1 THEN 1 ELSE c
           /\ c <= 1 => Len(Escaped(c)) = 2 /\ Escaped(c)[2] = c + 1
           /\ c > 1 => Len(Escaped(c)) = 1
<1>1. Top \in Nat /\ Top >= 4
    BY EncodingConstants
<1>2. CASE c <= 1
    <2>1. Escaped(c) = <<1, c + 1>> /\ 1 \in Byte /\ c + 1 \in Byte
        BY <1>1, <1>2 DEF Escaped, Byte
    <2> QED  BY <1>1, <1>2, <2>1 DEF Byte
<1>3. CASE ~(c <= 1)
    <2>1. Escaped(c) = <<c>> /\ ~(c <= 1) /\ c > 1
        BY <1>1, <1>3 DEF Escaped, Byte
    <2> QED  BY <2>1
<1> QED  BY <1>2, <1>3

LEMMA EscapedOrder ==
    ASSUME NEW a \in Byte, NEW b \in Byte, a < b
    PROVE  Below(Escaped(a), Escaped(b))
<1>1. a \in Int /\ b \in Int /\ a >= 0
    BY TopFacts DEF Byte
<1> DEFINE s == Escaped(a)
           t == Escaped(b)
<1>2. s \in Seq(Byte) /\ t \in Seq(Byte)
    BY EscapedByte
<1>3. DOMAIN s = 1 .. Len(s) /\ DOMAIN t = 1 .. Len(t)
    BY <1>2, LenProperties
<1>4. /\ s[1] = IF a <= 1 THEN 1 ELSE a
      /\ t[1] = IF b <= 1 THEN 1 ELSE b
      /\ 1 \in DOMAIN s /\ 1 \in DOMAIN t
      /\ a <= 1 => Len(s) = 2 /\ s[2] = a + 1
      /\ b <= 1 => Len(t) = 2 /\ t[2] = b + 1
    BY EscapedByte
<1> HIDE DEF s, t
<1>5. CASE b <= 1
    <2>1. 2 \in DOMAIN s \cap DOMAIN t /\ s[2] < t[2] /\ \A j \in 1 .. 2 - 1 : s[j] = t[j]
        BY <1>1, <1>3, <1>4, <1>5
    <2> QED  BY <2>1 DEF Below, s, t
<1>6. CASE ~(b <= 1)
    <2>1. 1 \in DOMAIN s \cap DOMAIN t /\ s[1] < t[1] /\ \A j \in 1 .. 1 - 1 : s[j] = t[j]
        BY <1>1, <1>3, <1>4, <1>6
    <2> QED  BY <2>1 DEF Below, s, t
<1> QED  BY <1>5, <1>6

\* A string is encoded piece by piece: the mark, each byte, and the end.
Mark(s) == IF s # <<>> /\ s[1] >= Lead THEN <<Lead>> ELSE <<>>

EscapedBytes(s) == [i \in DOMAIN s |-> Escaped(s[i])]

Pieces(s) == (<<Mark(s)>> \o EscapedBytes(s)) \o << <<0>> >>

LEMMA PieceFacts ==
    ASSUME NEW s \in Seq(Byte)
    PROVE  /\ Mark(s) \in Seq(Byte) /\ <<0>> \in Seq(Byte)
           /\ EscapedBytes(s) \in Seq(Seq(Byte)) /\ Len(EscapedBytes(s)) = Len(s)
           /\ Pieces(s) \in Seq(Seq(Byte)) /\ Len(Pieces(s)) = Len(s) + 2
           /\ Pieces(s)[1] = Mark(s) /\ Pieces(s)[Len(s) + 2] = <<0>>
           /\ \A i \in 1 .. Len(s) : Pieces(s)[i + 1] = Escaped(s[i])
<1> DEFINE S == Seq(Byte)
           n == Len(s)
           m == <<Mark(s)>>
           e == EscapedBytes(s)
           z == << <<0>> >>
<1>1. n \in Nat /\ DOMAIN s = 1 .. n /\ \A i \in 1 .. n : s[i] \in Byte
    BY LenProperties, ElementOfSeq
<1>2. Mark(s) \in S /\ <<0>> \in S
    <2>1. 0 \in Byte /\ Lead \in Byte
        BY TopFacts DEF Byte
    <2> QED  BY <2>1 DEF Mark
<1>3. e \in Seq(S) /\ Len(e) = n /\ \A i \in 1 .. n : e[i] = Escaped(s[i])
    <2>1. \A i \in 1 .. n : Escaped(s[i]) \in S
        BY <1>1, EscapedByte
    <2>2. e \in [1 .. n -> S] /\ \A i \in 1 .. n : e[i] = Escaped(s[i])
        BY <1>1, <2>1 DEF EscapedBytes
    <2> HIDE DEF S, e
    <2> QED  BY <1>1, <2>2
<1>4. m \in Seq(S) /\ Len(m) = 1 /\ m[1] = Mark(s) /\ z \in Seq(S) /\ Len(z) = 1 /\ z[1] = <<0>>
    <2> HIDE DEF S
    <2> QED  BY <1>2
<1> HIDE DEF S, m, e, z
<1>5. /\ m \o e \in Seq(S) /\ Len(m \o e) = 1 + n
      /\ \A i \in 1 .. 1 + n : (m \o e)[i] = IF i <= 1 THEN m[i] ELSE e[i - 1]
    BY <1>3, <1>4, ConcatProperties
<1> DEFINE a == m \o e
           p == a \o z
<1>6. a \in Seq(S) /\ Len(a) = 1 + n /\ \A i \in 1 .. 1 + n : a[i] = IF i <= 1 THEN m[i] ELSE e[i - 1]
    BY <1>5
<1> HIDE DEF a
<1>7. /\ p \in Seq(S) /\ Len(p) = (1 + n) + 1
      /\ \A i \in 1 .. (1 + n) + 1 : p[i] = IF i <= 1 + n THEN a[i] ELSE z[i - (1 + n)]
    <2>1. /\ p \in Seq(S) /\ Len(p) = Len(a) + Len(z)
          /\ \A i \in 1 .. Len(a) + Len(z) : p[i] = IF i <= Len(a) THEN a[i] ELSE z[i - Len(a)]
        BY <1>4, <1>6, ConcatProperties
    <2> QED  BY <1>4, <1>6, <2>1, Zenon
<1> HIDE DEF p
<1>8. Len(p) = n + 2 /\ p[1] = m[1] /\ p[n + 2] = z[1]
    <2>1. /\ (1 + n) + 1 = n + 2 /\ 1 \in 1 .. (1 + n) + 1 /\ 1 \in 1 .. 1 + n /\ 1 <= 1 + n
          /\ n + 2 \in 1 .. (1 + n) + 1 /\ ~(n + 2 <= 1 + n) /\ (n + 2) - (1 + n) = 1
        BY <1>1
    <2> QED  BY <1>6, <1>7, <2>1
<1>9. ASSUME NEW i \in 1 .. n  PROVE p[i + 1] = e[i]
    <2>1. /\ i + 1 \in 1 .. (1 + n) + 1 /\ i + 1 <= 1 + n /\ i + 1 \in 1 .. 1 + n
          /\ ~(i + 1 <= 1) /\ (i + 1) - 1 = i
        BY <1>1
    <2> QED  BY <1>6, <1>7, <2>1
<1>10. p = Pieces(s)
    BY Zenon DEF p, a, m, e, z, Pieces
<1> QED  BY <1>2, <1>3, <1>4, <1>7, <1>8, <1>9, <1>10 DEF S, e

LEMMA EncodedPieces ==
    ASSUME NEW s \in Seq(Byte)
    PROVE  /\ encode_bytes(s) = FlattenSeq(Pieces(s)) /\ encode_bytes(s) \in Seq(Byte)
           /\ escape_string(s) = Mark(s) \o FlattenSeq(EscapedBytes(s)) /\ escape_string(s) \in Seq(Byte)
<1> DEFINE S == Seq(Byte)
           m == <<Mark(s)>>
           e == EscapedBytes(s)
           z == << <<0>> >>
<1>1. Mark(s) \in S /\ <<0>> \in S /\ e \in Seq(S) /\ Pieces(s) \in Seq(S)
    BY PieceFacts
<1>2. m \in Seq(S) /\ z \in Seq(S)
    <2> HIDE DEF S
    <2> QED  BY <1>1
<1>3. m \o e \in Seq(S)
    <2> HIDE DEF S, m, e
    <2> QED  BY <1>1, <1>2, ConcatProperties
<1>4. FlattenSeq(Pieces(s)) = FlattenSeq(m \o e) \o FlattenSeq(z)
    <2> DEFINE a == m \o e
    <2>1. a \in Seq(S)
        BY <1>3
    <2> HIDE DEF a, z
    <2>2. FlattenSeq(a \o z) = FlattenSeq(a) \o FlattenSeq(z)
        BY <1>2, <2>1, FlattenConcat
    <2>3. Pieces(s) = a \o z
        BY Zenon DEF Pieces, a, z
    <2> QED  BY <2>2, <2>3 DEF a
<1>5. FlattenSeq(m \o e) = FlattenSeq(m) \o FlattenSeq(e)
    <2> HIDE DEF m, e
    <2> QED  BY <1>1, <1>2, FlattenConcat
<1>6. FlattenSeq(m) = Mark(s) /\ FlattenSeq(z) = <<0>>
    BY <1>1, FlattenOne
<1>7. escape_string(s) = Mark(s) \o FlattenSeq(e)
    BY Zenon DEF escape_string, Mark, EscapedBytes
<1>8. encode_bytes(s) = FlattenSeq(Pieces(s))
    BY <1>4, <1>5, <1>6, <1>7, Zenon DEF encode_bytes
<1>9. FlattenSeq(Pieces(s)) \in Seq(Byte)
    BY <1>1, FlattenType
<1>10. escape_string(s) \in Seq(Byte)
    <2>1. FlattenSeq(e) \in Seq(Byte)
        <3> HIDE DEF e
        <3> QED  BY <1>1, FlattenType
    <2> HIDE DEF e
    <2> QED  BY <1>1, <1>7, <2>1, ConcatProperties
<1> QED  BY <1>7, <1>8, <1>9, <1>10

\* The first byte of an encoded string is at most 0xfe.
LEMMA FirstByte ==
    ASSUME NEW s \in Seq(Byte)
    PROVE  /\ 1 \in DOMAIN encode_bytes(s)
           /\ encode_bytes(s)[1] = IF s = <<>> THEN 0
                                   ELSE IF s[1] >= Lead THEN Lead ELSE Escaped(s[1])[1]
<1> DEFINE p == Pieces(s)
           n == Len(s)
           e == encode_bytes(s)
<1>1. /\ n \in Nat /\ p \in Seq(Seq(Byte)) /\ Len(p) = n + 2 /\ p[1] = Mark(s) /\ p[n + 2] = <<0>>
      /\ \A i \in 1 .. n : p[i + 1] = Escaped(s[i])
    BY PieceFacts, LenProperties
<1>2. e = FlattenSeq(p)
    BY EncodedPieces
<1> HIDE DEF p, e
<1>3. ASSUME NEW i \in 1 .. Len(p), \A j \in 1 .. i - 1 : p[j] = <<>>, p[i] # <<>>
      PROVE  1 \in DOMAIN e /\ e[1] = p[i][1]
    <2> DEFINE a == SubSeq(p, 1, i - 1)
               x == FlattenSeq(SubSeq(p, i + 1, Len(p)))
    <2>1. FlattenSeq(a) \in Seq(Byte) /\ p[i] \in Seq(Byte) /\ x \in Seq(Byte) /\ e = FlattenSeq(a) \o (p[i] \o x)
        BY <1>1, <1>2, FlattenCut
    <2>2. FlattenSeq(a) = <<>>
        <3>1. a \in Seq({<<>>})
            <4>1. \A j \in 1 .. i - 1 : p[j] \in {<<>>}
                BY <1>3
            <4> QED  BY <4>1, SubSeqProperties
        <3>2. a \in Seq(Seq({}))
            <4>1. {<<>>} \subseteq Seq({})
                OBVIOUS
            <4> HIDE DEF a
            <4> QED  BY <3>1, <4>1, SeqMonotonic
        <3>3. FlattenSeq(a) \in Seq({})
            <4> HIDE DEF a
            <4> QED  BY <3>2, FlattenType
        <3> HIDE DEF a
        <3>4. Len(FlattenSeq(a)) = 0
            <4>1. ~(1 \in 1 .. Len(FlattenSeq(a)))
                BY <3>3, ElementOfSeq
            <4> QED  BY <3>3, <4>1, LenProperties
        <3> QED  BY <3>3, <3>4, EmptySeq
    <2> DEFINE w == p[i] \o x
    <2>3. /\ w \in Seq(Byte) /\ Len(w) = Len(p[i]) + Len(x)
          /\ \A j \in 1 .. Len(p[i]) + Len(x) : w[j] = IF j <= Len(p[i]) THEN p[i][j] ELSE x[j - Len(p[i])]
        BY <2>1, ConcatProperties
    <2>4. e = w
        <3> HIDE DEF a, x, w
        <3>1. e = <<>> \o w
            BY <2>1, <2>2 DEF w
        <3> QED  BY <2>3, <3>1, ConcatEmptySeq
    <2>5. Len(p[i]) \in Nat /\ Len(x) \in Nat /\ 1 <= Len(p[i])
        <3> HIDE DEF x
        <3> QED  BY <1>3, <2>1, LenProperties, EmptySeq
    <2> HIDE DEF w, x
    <2>6. DOMAIN w = 1 .. Len(p[i]) + Len(x)
        BY <2>3, LenProperties
    <2> QED  BY <2>3, <2>4, <2>5, <2>6
<1>4. CASE s = <<>>
    <2>1. n = 0 /\ Mark(s) = <<>>
        BY <1>4 DEF Mark
    <2>2. p[1] = <<>> /\ p[2] = <<0>> /\ 2 \in 1 .. Len(p)
        BY <1>1, <2>1
    <2>3. (\A j \in 1 .. 2 - 1 : p[j] = <<>>) /\ <<0>> # <<>> /\ <<0>>[1] = 0
        BY <2>2
    <2>4. 1 \in DOMAIN e /\ e[1] = p[2][1]
        BY <1>3, <2>2, <2>3
    <2> QED  BY <1>4, <2>2, <2>3, <2>4 DEF e
<1>5. CASE s # <<>>
    <2>1. 1 \in 1 .. n /\ s[1] \in Byte
        BY <1>5, EmptySeq, ElementOfSeq
    <2>2. CASE s[1] >= Lead
        <3>1. p[1] = <<Lead>> /\ 1 \in 1 .. Len(p) /\ p[1][1] = Lead /\ p[1] # <<>>
            BY <1>1, <1>5, <2>2 DEF Mark
        <3>2. 1 \in DOMAIN e /\ e[1] = p[1][1]
            <4>1. \A j \in 1 .. 1 - 1 : p[j] = <<>>
                OBVIOUS
            <4> QED  BY <1>3, <3>1, <4>1
        <3> QED  BY <1>5, <2>2, <3>1, <3>2 DEF e
    <2>3. CASE ~(s[1] >= Lead)
        <3>1. p[1] = <<>> /\ p[2] = Escaped(s[1]) /\ 2 \in 1 .. Len(p)
            BY <1>1, <2>1, <2>3 DEF Mark
        <3>2. (\A j \in 1 .. 2 - 1 : p[j] = <<>>) /\ Escaped(s[1]) # <<>>
            BY <2>1, <3>1, EscapedByte
        <3>3. 1 \in DOMAIN e /\ e[1] = p[2][1]
            BY <1>3, <3>1, <3>2
        <3> QED  BY <1>5, <2>3, <3>1, <3>3 DEF e
    <2> QED  BY <2>2, <2>3
<1> QED  BY <1>4, <1>5

\* Encoded strings are ordered like the strings, and none starts another.
LEMMA StringsOrder ==
    ASSUME NEW s \in Seq(Byte), NEW t \in Seq(Byte), BytesLess(s, t)
    PROVE  Below(encode_bytes(s), encode_bytes(t))
<1> DEFINE m == Len(s)
           n == Len(t)
           p == Pieces(s)
           q == Pieces(t)
<1>1. /\ m \in Nat /\ DOMAIN s = 1 .. m /\ n \in Nat /\ DOMAIN t = 1 .. n
      /\ \A i \in 1 .. m : s[i] \in Byte
      /\ \A i \in 1 .. n : t[i] \in Byte
    BY LenProperties, ElementOfSeq
<1>2. /\ p \in Seq(Seq(Byte)) /\ Len(p) = m + 2 /\ p[1] = Mark(s) /\ p[m + 2] = <<0>>
      /\ \A i \in 1 .. m : p[i + 1] = Escaped(s[i])
    BY PieceFacts
<1>3. /\ q \in Seq(Seq(Byte)) /\ Len(q) = n + 2 /\ q[1] = Mark(t)
      /\ \A i \in 1 .. n : q[i + 1] = Escaped(t[i])
    BY PieceFacts
<1>4. encode_bytes(s) = FlattenSeq(p) /\ encode_bytes(t) = FlattenSeq(q)
    BY EncodedPieces
<1> HIDE DEF p, q
\* The first place where the strings differ: one byte is less, or s is over.
<1>5. PICK k \in 1 .. n : /\ \A j \in 1 .. k - 1 : j \in 1 .. m /\ s[j] = t[j]
                          /\ k = m + 1 \/ (k \in 1 .. m /\ s[k] < t[k])
    <2>1. CASE IsStrictPrefix(s, t)
        <3>1. m <= n /\ SubSeq(s, 1, m) = SubSeq(t, 1, m) /\ s # t
            BY <2>1 DEF IsStrictPrefix, IsPrefix
        <3>2. \A j \in 1 .. m : s[j] = t[j]
            <4> TAKE j \in 1 .. m
            <4>1. SubSeq(s, 1, m)[j] = s[j] /\ SubSeq(t, 1, m)[j] = t[j]
                BY <1>1, <3>1
            <4> QED  BY <3>1, <4>1
        <3>3. m # n
            <4> SUFFICES ASSUME m = n  PROVE s = t
                BY <3>1
            <4>1. Len(s) = Len(t) /\ \A j \in 1 .. Len(s) : s[j] = t[j]
                BY <3>2
            <4> QED  BY <4>1, SeqEqual
        <3>4. m + 1 \in 1 .. n /\ \A j \in 1 .. (m + 1) - 1 : j \in 1 .. m
            <4>1. m \in Nat /\ n \in Nat /\ m <= n /\ m # n
                BY <1>1, <3>1, <3>3
            <4> HIDE DEF m, n
            <4> QED  BY <4>1
        <3> QED  BY <3>2, <3>4
    <2>2. CASE \E i \in DOMAIN s \cap DOMAIN t : s[i] < t[i] /\ \A j \in 1 .. i - 1 : s[j] = t[j]
        <3>1. PICK i \in DOMAIN s \cap DOMAIN t : s[i] < t[i] /\ \A j \in 1 .. i - 1 : s[j] = t[j]
            BY <2>2
        <3>2. i \in 1 .. m /\ i \in 1 .. n /\ \A j \in 1 .. i - 1 : j \in 1 .. m
            BY <1>1
        <3> QED  BY <3>1, <3>2
    <2> QED  BY <2>1, <2>2 DEF BytesLess
<1>6. /\ k \in 1 .. n /\ \A j \in 1 .. k - 1 : j \in 1 .. m /\ j \in 1 .. n /\ s[j] = t[j]
      /\ t[k] \in Byte /\ k \in Nat
    BY <1>1, <1>5
<1>7. CASE Mark(s) = Mark(t)
    <2>1. k + 1 \in 1 .. Len(p) /\ k + 1 \in 1 .. Len(q) /\ q[k + 1] = Escaped(t[k])
        <3>1. k <= m + 1
            BY <1>1, <1>5
        <3> QED  BY <1>1, <1>2, <1>3, <1>6, <3>1
    <2>2. \A j \in 1 .. (k + 1) - 1 : p[j] = q[j]
        <3> TAKE j \in 1 .. (k + 1) - 1
        <3>1. CASE j = 1
            BY <1>2, <1>3, <1>7, <3>1
        <3>2. CASE j # 1
            <4> DEFINE h == j - 1
            <4>1. h \in 1 .. k - 1 /\ h + 1 = j
                BY <1>6, <3>2
            <4> HIDE DEF h
            <4>2. h \in 1 .. m /\ h \in 1 .. n /\ s[h] = t[h]
                BY <1>6, <4>1
            <4>3. p[h + 1] = Escaped(s[h]) /\ q[h + 1] = Escaped(t[h])
                BY <1>2, <1>3, <4>2
            <4> QED  BY <4>1, <4>2, <4>3
        <3> QED  BY <3>1, <3>2
    <2>3. Below(p[k + 1], q[k + 1])
        <3>1. CASE k \in 1 .. m /\ s[k] < t[k]
            <4>1. p[k + 1] = Escaped(s[k]) /\ s[k] \in Byte
                BY <1>1, <1>2, <3>1
            <4> QED  BY <1>6, <2>1, <3>1, <4>1, EscapedOrder
        <3>2. CASE k = m + 1
            <4> DEFINE e == Escaped(t[k])
            <4>1. p[k + 1] = <<0>>
                <5>1. k + 1 = m + 2
                    BY <1>1, <3>2
                <5> QED  BY <1>2, <5>1
            <4>2. 1 \in DOMAIN e /\ e[1] = IF t[k] <= 1 THEN 1 ELSE t[k]
                BY <1>6, EscapedByte
            <4> HIDE DEF e
            <4>3. 0 < e[1]
                BY <1>6, <4>2, TopFacts DEF Byte
            <4>4. 1 \in DOMAIN <<0>> \cap DOMAIN e /\ <<0>>[1] = 0
                BY <4>2
            <4>5. \A j \in 1 .. 1 - 1 : <<0>>[j] = e[j]
                OBVIOUS
            <4>6. Below(<<0>>, e)
                BY <4>3, <4>4, <4>5 DEF Below
            <4> QED  BY <2>1, <4>1, <4>6 DEF e
        <3> QED  BY <1>5, <3>1, <3>2
    <2>4. Below(FlattenSeq(p), FlattenSeq(q))
        BY <1>2, <1>3, <2>1, <2>2, <2>3, FlattenBelow
    <2> QED  BY <1>4, <2>4
<1>8. CASE Mark(s) # Mark(t)
    <2> DEFINE a == encode_bytes(s)
               b == encode_bytes(t)
    <2>1. t # <<>> /\ 1 \in 1 .. n
        <3>1. 1 \in 1 .. n
            BY <1>1, <1>6
        <3>2. Len(<<>>) = 0
            OBVIOUS
        <3> QED  BY <1>1, <3>1, <3>2
    <2>2. s # <<>> => 1 \in 1 .. m
        BY <1>1, EmptySeq
    <2>3. k = 1
        <3> SUFFICES ASSUME k # 1  PROVE FALSE
            OBVIOUS
        <3>1. 1 \in 1 .. k - 1
            BY <1>6
        <3>2. s[1] = t[1] /\ 1 \in 1 .. m
            BY <1>6, <3>1
        <3>3. s # <<>>
            <4>1. Len(<<>>) = 0
                OBVIOUS
            <4> QED  BY <3>2, <4>1
        <3> QED  BY <1>8, <2>1, <3>2, <3>3 DEF Mark
    <2>4. s # <<>> => s[1] \in Byte /\ s[1] < t[1]
        <3>1. s # <<>> => 1 # m + 1
            BY <1>1, <2>2
        <3> QED  BY <1>1, <1>5, <2>2, <2>3, <3>1
    <2>5. t[1] \in Byte /\ t[1] >= Lead /\ (s # <<>> => ~(s[1] >= Lead))
        <3>1. t[1] \in Byte
            BY <1>6, <2>3
        <3>2. \A x, y \in Byte : x < y /\ x >= Lead => y >= Lead
            BY TopFacts DEF Byte
        <3> QED  BY <1>8, <2>1, <2>4, <3>1, <3>2 DEF Mark
    <2>6. 1 \in DOMAIN b /\ b[1] = Lead
        BY <2>1, <2>5, FirstByte
    <2>7. 1 \in DOMAIN a /\ a[1] = IF s = <<>> THEN 0 ELSE Escaped(s[1])[1]
        BY <2>5, FirstByte
    <2> HIDE DEF a, b
    <2>8. a[1] < Lead
        <3>1. CASE s = <<>>
            BY <2>7, <3>1, TopFacts
        <3>2. CASE s # <<>>
            <4>1. a[1] = IF s[1] <= 1 THEN 1 ELSE s[1]
                BY <2>4, <2>7, <3>2, EscapedByte
            <4>2. s[1] \in Byte /\ ~(s[1] >= Lead)
                BY <2>4, <2>5, <3>2
            <4> QED  BY <4>1, <4>2, TopFacts DEF Byte
        <3> QED  BY <3>1, <3>2
    <2>9. 1 \in DOMAIN a \cap DOMAIN b /\ a[1] < b[1] /\ \A j \in 1 .. 1 - 1 : a[j] = b[j]
        BY <2>6, <2>7, <2>8
    <2> QED  BY <2>9 DEF Below, a, b
<1> QED  BY <1>7, <1>8

LEMMA IntFacts ==
    ASSUME NEW x \in Int64
    PROVE  /\ x \in Int /\ x + SIGN_BIT \in 0 .. Pow(IntBytes) - 1 /\ SIGN_BIT \in Nat
           /\ encode_int64(x) = BigEndian(IntBytes, x + SIGN_BIT)
<1>1. Wrap \in Nat \ {0} /\ Wrap = Pow(IntBytes)
    BY TopFacts, PowNext DEF Wrap
<1>2. SIGN_BIT \in Nat
    BY <1>1 DEF SIGN_BIT
<1>3. x \in Int /\ x + SIGN_BIT \in 0 .. Wrap - 1
    BY <1>1, <1>2 DEF Int64
<1>4. \A u \in 0 .. Wrap - 1 : u % Wrap = u
    BY <1>1
<1> QED  BY <1>1, <1>2, <1>3, <1>4 DEF encode_int64

LEMMA ValueCases ==
    ASSUME NEW v \in Value
    PROVE  \/ v.type = "INT_64" /\ v.int64 \in Int64 /\ v = [type |-> "INT_64", int64 |-> v.int64]
           \/ v.type = "BYTES" /\ v.str \in Seq(Byte) /\ v = [type |-> "BYTES", str |-> v.str]
<1>1. CASE v \in [type : {"INT_64"}, int64 : Int64]
    BY <1>1
<1>2. CASE v \in [type : {"BYTES"}, str : Seq(Byte)]
    BY <1>2
<1> QED  BY <1>1, <1>2 DEF Value

\* The bytes of one value.
encode_value(v) == IF v.type = "INT_64" THEN encode_int64(v.int64) ELSE encode_bytes(v.str)

LEMMA EncodedValue ==
    ASSUME NEW v \in Value
    PROVE  /\ encode_value(v) \in Seq(Byte)
           /\ v.type = "INT_64" => Len(encode_value(v)) = IntBytes
<1>1. CASE v.type = "INT_64" /\ v.int64 \in Int64
    BY <1>1, IntFacts, BytesOf, TopFacts DEF encode_value
<1>2. CASE v.type = "BYTES" /\ v.str \in Seq(Byte)
    <2>1. encode_value(v) = encode_bytes(v.str) /\ v.type # "INT_64"
        BY <1>2 DEF encode_value
    <2> QED  BY <1>2, <2>1, EncodedPieces
<1> QED  BY <1>1, <1>2, ValueCases

LEMMA ValuesOrder ==
    ASSUME NEW u \in Value, NEW v \in Value, u.type = v.type, value_less(u, v)
    PROVE  Below(encode_value(u), encode_value(v))
<1>1. CASE u.type = "INT_64"
    <2>1. u.int64 \in Int64 /\ v.int64 \in Int64 /\ v.type = "INT_64"
        BY <1>1, ValueCases
    <2> DEFINE a == u.int64
               b == v.int64
    <2>2. a < b
        BY <1>1 DEF value_less
    <2>3. encode_value(u) = encode_int64(a) /\ encode_value(v) = encode_int64(b)
        BY <1>1, <2>1 DEF encode_value
    <2> HIDE DEF a, b
    <2>4. /\ a \in Int /\ a + SIGN_BIT \in 0 .. Pow(IntBytes) - 1 /\ SIGN_BIT \in Nat
          /\ encode_int64(a) = BigEndian(IntBytes, a + SIGN_BIT)
          /\ b \in Int /\ b + SIGN_BIT \in 0 .. Pow(IntBytes) - 1
          /\ encode_int64(b) = BigEndian(IntBytes, b + SIGN_BIT)
        BY <2>1, IntFacts DEF a, b
    <2>5. a + SIGN_BIT < b + SIGN_BIT
        BY <2>2, <2>4
    <2>6. IntBytes \in Nat
        BY TopFacts
    <2> QED  BY <2>3, <2>4, <2>5, <2>6, BytesOrder
<1>2. CASE u.type # "INT_64"
    <2>1. u.str \in Seq(Byte) /\ v.str \in Seq(Byte) /\ v.type # "INT_64"
        BY <1>2, ValueCases
    <2>2. BytesLess(u.str, v.str)
        BY <1>2 DEF value_less
    <2>3. encode_value(u) = encode_bytes(u.str) /\ encode_value(v) = encode_bytes(v.str)
        BY <1>2, <2>1 DEF encode_value
    <2> QED  BY <2>1, <2>2, <2>3, StringsOrder
<1> QED  BY <1>1, <1>2

\* Two strings are equal or one is less.
LEMMA StringsTotal ==
    ASSUME NEW s \in Seq(Byte), NEW t \in Seq(Byte)
    PROVE  s = t \/ BytesLess(s, t) \/ BytesLess(t, s)
<1> DEFINE T == {i \in 1 .. Len(s) : i \in 1 .. Len(t) /\ s[i] # t[i]}
<1>1. /\ Len(s) \in Nat /\ DOMAIN s = 1 .. Len(s) /\ Len(t) \in Nat /\ DOMAIN t = 1 .. Len(t)
      /\ \A i \in 1 .. Len(s) : s[i] \in Byte
      /\ \A i \in 1 .. Len(t) : t[i] \in Byte
    BY LenProperties, ElementOfSeq
<1>2. CASE T # {}
    <2>1. PICK i \in T : \A j \in T : i <= j
        <3>1. T \in SUBSET Nat
            OBVIOUS
        <3> HIDE DEF T
        <3> QED  BY <1>2, <3>1, Least
    <2>2. /\ i \in DOMAIN s \cap DOMAIN t /\ i \in DOMAIN t \cap DOMAIN s
          /\ s[i] < t[i] \/ t[i] < s[i]
        <3>1. s[i] \in Byte /\ t[i] \in Byte /\ s[i] # t[i]
            BY <1>1
        <3>2. s[i] < t[i] \/ t[i] < s[i]
            BY <3>1, TopFacts DEF Byte
        <3> QED  BY <1>1, <3>2
    <2>3. \A j \in 1 .. i - 1 : s[j] = t[j] /\ t[j] = s[j]
        <3> TAKE j \in 1 .. i - 1
        <3>1. j \in 1 .. Len(s) /\ j \in 1 .. Len(t) /\ ~(i <= j)
            BY <1>1
        <3> QED  BY <2>1, <3>1
    <2> QED  BY <2>2, <2>3 DEF BytesLess
<1>3. CASE T = {}
    <2>1. \A i \in 1 .. Len(s) : i \in 1 .. Len(t) => s[i] = t[i]
        BY <1>3
    <2>2. CASE Len(s) = Len(t)
        BY <2>1, <2>2, SeqEqual
    <2>3. CASE Len(s) < Len(t)
        <3>1. SubSeq(s, 1, Len(s)) = SubSeq(t, 1, Len(s))
            BY <1>1, <2>1, <2>3
        <3> QED  BY <2>3, <3>1 DEF BytesLess, IsStrictPrefix, IsPrefix
    <2>4. CASE Len(t) < Len(s)
        <3>1. SubSeq(t, 1, Len(t)) = SubSeq(s, 1, Len(t))
            BY <1>1, <2>1, <2>4
        <3> QED  BY <2>4, <3>1 DEF BytesLess, IsStrictPrefix, IsPrefix
    <2>5. Len(s) = Len(t) \/ Len(s) < Len(t) \/ Len(t) < Len(s)
        <3>1. \A x, y \in Nat : x = y \/ x < y \/ y < x
            OBVIOUS
        <3>2. Len(s) \in Nat /\ Len(t) \in Nat
            BY <1>1
        <3> QED  BY <3>1, <3>2, Zenon
    <2> QED  BY <2>2, <2>3, <2>4, <2>5
<1> QED  BY <1>2, <1>3

LEMMA ValuesTotal ==
    ASSUME NEW u \in Value, NEW v \in Value, u.type = v.type
    PROVE  u = v \/ value_less(u, v) \/ value_less(v, u)
<1>1. CASE u.type = "INT_64"
    <2>1. /\ u.int64 \in Int64 /\ v.int64 \in Int64 /\ v.type = "INT_64"
          /\ u = [type |-> "INT_64", int64 |-> u.int64] /\ v = [type |-> "INT_64", int64 |-> v.int64]
        BY <1>1, ValueCases
    <2>2. u.int64 = v.int64 \/ u.int64 < v.int64 \/ v.int64 < u.int64
        BY <2>1, IntFacts
    <2> QED  BY <1>1, <2>1, <2>2 DEF value_less
<1>2. CASE u.type # "INT_64"
    <2>1. /\ u.str \in Seq(Byte) /\ v.str \in Seq(Byte) /\ v.type # "INT_64"
          /\ u = [type |-> "BYTES", str |-> u.str] /\ v = [type |-> "BYTES", str |-> v.str]
        BY <1>2, ValueCases
    <2>2. u.str = v.str \/ BytesLess(u.str, v.str) \/ BytesLess(v.str, u.str)
        BY <2>1, StringsTotal
    <2> QED  BY <1>2, <2>1, <2>2 DEF value_less
<1> QED  BY <1>1, <1>2

-----------------------------------------------------------------------------
(* The encoding of a tuple of values *)

\* Tuples of the same columns.
SameTypes(u, v) == Len(u) = Len(v) /\ \A i \in 1 .. Len(u) : u[i].type = v[i].type

Encoded(vals) == [i \in DOMAIN vals |-> encode_value(vals[i])]

LEMMA EncodedTuple ==
    ASSUME NEW vals \in Seq(Value)
    PROVE  /\ Encoded(vals) \in Seq(Seq(Byte)) /\ Len(Encoded(vals)) = Len(vals)
           /\ \A i \in 1 .. Len(vals) : Encoded(vals)[i] = encode_value(vals[i])
           /\ encode_values(vals) = FlattenSeq(Encoded(vals)) /\ encode_values(vals) \in Seq(Byte)
<1> DEFINE n == Len(vals)
           S == Seq(Byte)
           e == Encoded(vals)
<1>1. n \in Nat /\ DOMAIN vals = 1 .. n /\ \A i \in 1 .. n : encode_value(vals[i]) \in S
    BY LenProperties, ElementOfSeq, EncodedValue
<1>2. e \in [1 .. n -> S] /\ \A i \in 1 .. n : e[i] = encode_value(vals[i])
    BY <1>1 DEF Encoded
<1>3. e \in Seq(S) /\ Len(e) = n
    <2> HIDE DEF e, S
    <2> QED  BY <1>1, <1>2
<1>4. encode_values(vals) = FlattenSeq(e)
    BY DEF encode_values, Encoded, encode_value
<1>5. FlattenSeq(e) \in Seq(Byte)
    <2> HIDE DEF e
    <2> QED  BY <1>3, FlattenType
<1> QED  BY <1>2, <1>3, <1>4, <1>5

LEMMA TuplesOrder ==
    ASSUME NEW u \in Seq(Value), NEW v \in Seq(Value), SameTypes(u, v), TupleLess(u, v)
    PROVE  Below(encode_values(u), encode_values(v))
<1>1. PICK i \in DOMAIN u : value_less(u[i], v[i]) /\ \A j \in 1 .. i - 1 : u[j] = v[j]
    BY DEF TupleLess
<1>2. /\ i \in 1 .. Len(u) /\ i \in 1 .. Len(v) /\ Len(u) \in Nat /\ Len(u) = Len(v)
      /\ u[i] \in Value /\ v[i] \in Value /\ u[i].type = v[i].type
    BY LenProperties, ElementOfSeq DEF SameTypes
<1> DEFINE p == Encoded(u)
           q == Encoded(v)
<1>3. /\ p \in Seq(Seq(Byte)) /\ Len(p) = Len(u) /\ \A k \in 1 .. Len(u) : p[k] = encode_value(u[k])
      /\ q \in Seq(Seq(Byte)) /\ Len(q) = Len(v) /\ \A k \in 1 .. Len(v) : q[k] = encode_value(v[k])
      /\ encode_values(u) = FlattenSeq(p) /\ encode_values(v) = FlattenSeq(q)
    BY EncodedTuple
<1> HIDE DEF p, q
<1>4. Below(p[i], q[i])
    BY <1>1, <1>2, <1>3, ValuesOrder
<1>5. \A j \in 1 .. i - 1 : p[j] = q[j]
    <2> TAKE j \in 1 .. i - 1
    <2>1. j \in 1 .. Len(u) /\ j \in 1 .. Len(v)
        BY <1>2
    <2> QED  BY <1>1, <1>3, <2>1
<1>6. i \in 1 .. Len(p) /\ i \in 1 .. Len(q)
    BY <1>2, <1>3
<1>7. Below(FlattenSeq(p), FlattenSeq(q))
    BY <1>3, <1>4, <1>5, <1>6, FlattenBelow
<1> QED  BY <1>3, <1>7

LEMMA TuplesTotal ==
    ASSUME NEW u \in Seq(Value), NEW v \in Seq(Value), SameTypes(u, v)
    PROVE  u = v \/ TupleLess(u, v) \/ TupleLess(v, u)
<1> DEFINE n == Len(u)
           T == {i \in 1 .. n : u[i] # v[i]}
<1>1. /\ n \in Nat /\ Len(v) = n /\ DOMAIN u = 1 .. n /\ DOMAIN v = 1 .. n
      /\ \A i \in 1 .. n : u[i] \in Value /\ v[i] \in Value /\ u[i].type = v[i].type
    BY LenProperties, ElementOfSeq DEF SameTypes
<1>2. CASE T = {}
    <2>1. \A i \in 1 .. Len(u) : u[i] = v[i]
        BY <1>2
    <2> QED  BY <1>1, <2>1, SeqEqual
<1>3. CASE T # {}
    <2>1. PICK i \in T : \A j \in T : i <= j
        <3>1. T \in SUBSET Nat
            OBVIOUS
        <3> HIDE DEF T
        <3> QED  BY <1>3, <3>1, Least
    <2>2. i \in 1 .. n /\ (value_less(u[i], v[i]) \/ value_less(v[i], u[i]))
        BY <1>1, ValuesTotal
    <2>3. \A j \in 1 .. i - 1 : u[j] = v[j] /\ v[j] = u[j]
        <3> TAKE j \in 1 .. i - 1
        <3>1. j \in 1 .. n /\ ~(i <= j)
            BY <1>1, <2>2
        <3> QED  BY <2>1, <3>1
    <2> QED  BY <1>1, <2>2, <2>3 DEF TupleLess
<1> QED  BY <1>2, <1>3

\* order_preserving.cpp: whatever the integers and whatever bytes the strings
\* hold, encoded tuples of the same columns are ordered, byte by byte, as the
\* tuples are, and are equal only if the tuples are.
THEOREM OrderPreserved ==
    ASSUME NEW u \in Seq(Value), NEW v \in Seq(Value), SameTypes(u, v)
    PROVE  /\ BytesLess(encode_values(u), encode_values(v)) <=> TupleLess(u, v)
           /\ encode_values(u) = encode_values(v) <=> u = v
<1> DEFINE a == encode_values(u)
           b == encode_values(v)
<1>1. a \in Seq(Byte) /\ b \in Seq(Byte)
    BY EncodedTuple
<1>2. SameTypes(v, u)
    BY DEF SameTypes
<1>3. CASE u = v
    <2>1. ~BytesLess(a, a)
        <3>1. \A i \in DOMAIN a : ~(a[i] < a[i])
            <4>1. \A i \in DOMAIN a : a[i] \in Int
                BY <1>1, LenProperties, ElementOfSeq, TopFacts DEF Byte
            <4> QED  BY <4>1
        <3> QED  BY <3>1 DEF BytesLess, IsStrictPrefix
    <2>2. ~TupleLess(u, u)
        <3>1. ASSUME TupleLess(u, u)  PROVE FALSE
            <4>1. SameTypes(u, u)
                BY DEF SameTypes
            <4>2. Below(a, a)
                BY <3>1, <4>1, TuplesOrder
            <4> QED  BY <1>1, <4>2, BelowLess
        <3> QED  BY <3>1
    <2> QED  BY <1>3, <2>1, <2>2
<1>4. CASE TupleLess(u, v)
    <2>1. Below(a, b)
        BY <1>4, TuplesOrder
    <2>2. BytesLess(a, b) /\ a # b
        BY <1>1, <2>1, BelowLess
    <2> QED  BY <1>4, <2>2
<1>5. CASE TupleLess(v, u)
    <2>1. Below(b, a)
        BY <1>2, <1>5, TuplesOrder
    <2>2. ~BytesLess(a, b) /\ a # b
        BY <1>1, <2>1, BelowLess
    <2>3. ~TupleLess(u, v)
        <3>1. ASSUME TupleLess(u, v)  PROVE FALSE
            <4>1. Below(a, b)
                BY <3>1, TuplesOrder
            <4> QED  BY <1>1, <2>2, <4>1, BelowLess
        <3> QED  BY <3>1
    <2> QED  BY <2>2, <2>3
<1> QED  BY <1>3, <1>4, <1>5, TuplesTotal

-----------------------------------------------------------------------------
(* Strings that start alike *)

\* No string is less than itself, or than what it continues.
LEMMA NoPrefixAbove ==
    ASSUME NEW s \in Seq(Byte), NEW x \in Seq(Byte)
    PROVE  ~BytesLess(s \o x, s)
<1> DEFINE a == s \o x
           n == Len(s)
<1>1. /\ n \in Nat /\ DOMAIN s = 1 .. n /\ Len(x) \in Nat
      /\ \A i \in 1 .. n : s[i] \in Int
    BY LenProperties, ElementOfSeq, TopFacts DEF Byte
<1>2. a \in Seq(Byte) /\ Len(a) = n + Len(x) /\ \A i \in 1 .. n : a[i] = s[i]
    <2>1. /\ a \in Seq(Byte) /\ Len(a) = n + Len(x)
          /\ \A j \in 1 .. n + Len(x) : a[j] = IF j <= n THEN s[j] ELSE x[j - n]
        BY ConcatProperties
    <2> HIDE DEF a
    <2> QED  BY <1>1, <2>1
<1> HIDE DEF a
<1>3. ~IsStrictPrefix(a, s)
    <2>1. ASSUME IsPrefix(a, s)  PROVE a = s
        <3>1. Len(a) = n
            <4>1. Len(a) <= n
                BY <2>1 DEF IsPrefix
            <4>2. \A y, z \in Nat : y + z <= y => y + z = y
                OBVIOUS
            <4> QED  BY <1>1, <1>2, <4>1, <4>2, Zenon
        <3> QED  BY <1>2, <3>1, SeqEqual
    <2> QED  BY <2>1 DEF IsStrictPrefix
<1>4. \A i \in DOMAIN a \cap DOMAIN s : ~(a[i] < s[i])
    BY <1>1, <1>2
<1>5. ~BytesLess(a, s)
    BY <1>3, <1>4 DEF BytesLess
<1> QED  BY <1>5 DEF a

\* A common start does not matter.
LEMMA LessAfter ==
    ASSUME NEW c \in Seq(Byte), NEW s \in Seq(Byte), NEW t \in Seq(Byte)
    PROVE  BytesLess(c \o s, c \o t) => BytesLess(s, t)
<1> DEFINE n == Len(c)
           a == c \o s
           b == c \o t
<1>1. s = t \/ BytesLess(s, t) \/ BytesLess(t, s)
    BY StringsTotal
<1>2. CASE s = t
    <2>1. a \in Seq(Byte) /\ a \o <<>> = a
        <3>1. a \in Seq(Byte)
            BY ConcatProperties
        <3> QED  BY <3>1, ConcatEmptySeq
    <2>2. <<>> \in Seq(Byte)
        OBVIOUS
    <2>3. ~BytesLess(a \o <<>>, a)
        BY <2>1, <2>2, NoPrefixAbove
    <2> QED  BY <1>2, <2>1, <2>3
<1>3. CASE BytesLess(t, s)
    <2>1. CASE Below(t, s)
        <3>1. Below(b, a) /\ a \in Seq(Byte) /\ b \in Seq(Byte)
            BY <2>1, BelowAfter, ConcatProperties
        <3> QED  BY <3>1, BelowLess
    <2>2. CASE IsStrictPrefix(t, s)
        <3>1. PICK x \in Seq(Byte) : s = t \o x
            <4> DEFINE x == SubSeq(s, Len(t) + 1, Len(s))
            <4>1. Len(t) \in Nat /\ Len(s) \in Nat /\ Len(t) <= Len(s) /\ SubSeq(t, 1, Len(t)) = SubSeq(s, 1, Len(t))
                BY <2>2, LenProperties DEF IsStrictPrefix, IsPrefix
            <4>2. SubSeq(s, 1, Len(t)) \o x = SubSeq(s, 1, Len(s))
                <5>1. 1 \in 1 .. Len(s) + 1 /\ Len(t) \in 1 - 1 .. Len(s) /\ Len(s) \in Len(t) .. Len(s)
                    BY <4>1
                <5> QED  BY <5>1, ConcatAdjacentSubSeq
            <4>3. SubSeq(s, 1, Len(s)) = s /\ SubSeq(t, 1, Len(t)) = t
                BY SubSeqFull
            <4>4. x \in Seq(Byte)
                <5>1. \A i \in Len(t) + 1 .. Len(s) : s[i] \in Byte
                    BY <4>1, ElementOfSeq
                <5> QED  BY <4>1, <5>1, SubSeqProperties
            <4> QED  BY <4>1, <4>2, <4>3, <4>4
        <3>2. a = b \o x
            BY <3>1, ConcatAssociative
        <3>3. ~BytesLess(b \o x, b)
            <4>1. b \in Seq(Byte)
                BY ConcatProperties
            <4> QED  BY <3>1, <4>1, NoPrefixAbove
        <3> QED  BY <3>2, <3>3
    <2> QED  BY <1>3, <2>1, <2>2 DEF BytesLess, Below
<1> QED  BY <1>1, <1>2, <1>3

\* Parts of one size.
LEMMA FlattenLength ==
    ASSUME NEW S, NEW parts \in Seq(Seq(S)), NEW k \in Nat,
           \A i \in 1 .. Len(parts) : Len(parts[i]) = k
    PROVE  Len(FlattenSeq(parts)) = Len(parts) * k
<1> DEFINE N == Len(parts)
<1>1. N \in Nat /\ \A i \in 1 .. N : parts[i] \in Seq(S)
    BY LenProperties, ElementOfSeq
<1>2. PICK f : Appends(f, parts, S) /\ FlattenSeq(parts) = f[N]
    BY Flattens
<1>3. /\ \A i \in 0 .. N : f[i] \in Seq(S)
      /\ f[0] = <<>> /\ \A i \in 1 .. N : f[i] = f[i - 1] \o parts[i]
    BY <1>2 DEF Appends
<1> DEFINE T == {i \in 0 .. N : Len(f[i]) # i * k}
<1>4. T = {}
    <2>1. ASSUME T # {}  PROVE FALSE
        <3>1. 0 \notin T
            BY <1>3
        <3>2. PICK i \in T : i \in 1 .. N /\ i - 1 \in 0 .. N /\ i - 1 \notin T
            <4>1. T \in SUBSET (0 .. N)
                OBVIOUS
            <4> HIDE DEF T
            <4> QED  BY <1>1, <2>1, <3>1, <4>1, FirstFailure
        <3>3. Len(f[i - 1]) = (i - 1) * k
            BY <3>2
        <3>4. Len(f[i]) = Len(f[i - 1]) + k
            <4>1. f[i - 1] \in Seq(S) /\ parts[i] \in Seq(S) /\ Len(parts[i]) = k /\ f[i] = f[i - 1] \o parts[i]
                BY <1>1, <1>3, <3>2
            <4>2. Len(f[i - 1] \o parts[i]) = Len(f[i - 1]) + Len(parts[i])
                BY <4>1, ConcatProperties
            <4> QED  BY <4>1, <4>2
        <3>5. (i - 1) * k + k = i * k
            <4>1. \A x \in Int : (x - 1) * k + k = x * k
                OBVIOUS
            <4> QED  BY <3>2, <4>1
        <3> QED  BY <3>2, <3>3, <3>4, <3>5
    <2> QED  BY <2>1
<1>5. N \in 0 .. N
    BY <1>1
<1> QED  BY <1>2, <1>4, <1>5

-----------------------------------------------------------------------------
(* Keys and bounds (row_codec.cpp) *)

\* The encoding of the first columns, and then of the others.
LEMMA EncodedConcat ==
    ASSUME NEW u \in Seq(Value), NEW v \in Seq(Value)
    PROVE  encode_values(u \o v) = encode_values(u) \o encode_values(v)
<1> DEFINE m == Len(u)
           n == Len(v)
           w == u \o v
           p == Encoded(u)
           q == Encoded(v)
           r == Encoded(w)
<1>1. /\ m \in Nat /\ n \in Nat /\ w \in Seq(Value) /\ Len(w) = m + n
      /\ \A i \in 1 .. m + n : w[i] = IF i <= m THEN u[i] ELSE v[i - m]
    BY LenProperties, ConcatProperties
<1>2. /\ p \in Seq(Seq(Byte)) /\ Len(p) = m /\ \A i \in 1 .. m : p[i] = encode_value(u[i])
      /\ encode_values(u) = FlattenSeq(p)
    BY EncodedTuple
<1>3. /\ q \in Seq(Seq(Byte)) /\ Len(q) = n /\ \A i \in 1 .. n : q[i] = encode_value(v[i])
      /\ encode_values(v) = FlattenSeq(q)
    BY EncodedTuple
<1> HIDE DEF w
<1>4. /\ r \in Seq(Seq(Byte)) /\ Len(r) = m + n /\ \A i \in 1 .. m + n : r[i] = encode_value(w[i])
      /\ encode_values(w) = FlattenSeq(r)
    BY <1>1, EncodedTuple
<1> HIDE DEF p, q, r, m, n
<1>5. /\ p \o q \in Seq(Seq(Byte)) /\ Len(p \o q) = m + n
      /\ \A i \in 1 .. m + n : (p \o q)[i] = IF i <= m THEN p[i] ELSE q[i - m]
    BY <1>2, <1>3, ConcatProperties
<1>6. r = p \o q
    <2> DEFINE x == p \o q
    <2>1. \A i \in 1 .. m + n : r[i] = x[i]
        <3> TAKE i \in 1 .. m + n
        <3>1. CASE i <= m
            <4>1. i \in 1 .. m
                BY <1>1, <3>1
            <4> QED  BY <1>1, <1>2, <1>4, <1>5, <3>1, <4>1
        <3>2. CASE ~(i <= m)
            <4>1. i - m \in 1 .. n
                BY <1>1, <3>2
            <4> QED  BY <1>1, <1>3, <1>4, <1>5, <3>2, <4>1
        <3> QED  BY <3>1, <3>2
    <2>2. x \in Seq(Seq(Byte)) /\ Len(x) = m + n
        BY <1>5
    <2> HIDE DEF x
    <2>3. r = x
        BY <1>4, <2>1, <2>2, SeqEqual
    <2> QED  BY <2>3 DEF x
<1>7. FlattenSeq(p \o q) = FlattenSeq(p) \o FlattenSeq(q)
    BY <1>2, <1>3, FlattenConcat
<1> QED  BY <1>2, <1>3, <1>4, <1>6, <1>7 DEF w

\* The values of the first columns of cols, with the columns' types.
OfColumns(vals, cols) ==
    Len(vals) <= Len(cols) /\ \A i \in 1 .. Len(vals) : vals[i].type = Def.types[cols[i]]

\* The first index that a test picks.
LEMMA FirstString ==
    ASSUME NEW types, Len(types) \in Nat
    PROVE  LET k == SelectInSeq(types, LAMBDA type : type = "BYTES")
           IN  \/ k = 0 /\ \A i \in 1 .. Len(types) : types[i] # "BYTES"
               \/ /\ k \in 1 .. Len(types) /\ types[k] = "BYTES"
                  /\ \A i \in 1 .. k - 1 : types[i] # "BYTES"
<1> DEFINE I == {i \in 1 .. Len(types) : types[i] = "BYTES"}
           k == SelectInSeq(types, LAMBDA type : type = "BYTES")
<1>1. k = IF I # {} THEN Min(I) ELSE 0
    BY DEF SelectInSeq
<1>2. CASE I = {}
    BY <1>1, <1>2
<1>3. CASE I # {}
    <2>1. I \in SUBSET Nat
        OBVIOUS
    <2>2. \E i \in I : \A j \in I : i <= j
        <3> HIDE DEF I
        <3> QED  BY <1>3, <2>1, Least
    <2>3. k \in I /\ \A j \in I : k <= j
        <3> HIDE DEF I, k
        <3> QED  BY <1>1, <1>3, <2>2 DEF Min
    <2> HIDE DEF k
    <2>4. k \in 1 .. Len(types) /\ types[k] = "BYTES"
        BY <2>3
    <2>5. \A i \in 1 .. k - 1 : types[i] # "BYTES"
        <3> TAKE i \in 1 .. k - 1
        <3>1. i \in 1 .. Len(types) /\ ~(k <= i)
            BY <2>4
        <3> QED  BY <2>3, <3>1
    <2> QED  BY <2>4, <2>5 DEF k
<1> QED  BY <1>2, <1>3

\* What encode_key_partial appends for the missing columns.
Padding(missing) ==
    LET bytes == SelectInSeq(missing, LAMBDA type : type = "BYTES")
        ints == IF bytes = 0 THEN Len(missing) ELSE bytes - 1
    IN  [i \in 1 .. ints * IntBytes + (IF bytes = 0 THEN 0 ELSE 1) |-> Top]

\* A string of the largest byte is not less than one that it is as long as, or
\* that has a smaller byte at its end.
LEMMA TopsAbove ==
    ASSUME NEW n \in Nat, NEW s \in Seq(Byte),
           Len(s) <= n \/ (n \in 1 .. Len(s) /\ s[n] < Top)
    PROVE  LET pad == [i \in 1 .. n |-> Top] IN pad \in Seq(Byte) /\ ~BytesLess(pad, s)
<1> DEFINE pad == [i \in 1 .. n |-> Top]
<1>1. /\ pad \in Seq(Byte) /\ Len(pad) = n /\ DOMAIN pad = 1 .. n /\ \A i \in 1 .. n : pad[i] = Top
    BY TopFacts DEF Byte
<1>2. Len(s) \in Nat /\ DOMAIN s = 1 .. Len(s) /\ \A i \in 1 .. Len(s) : s[i] \in Byte
    BY LenProperties, ElementOfSeq
<1> HIDE DEF pad
<1>3. \A i \in DOMAIN pad \cap DOMAIN s : ~(pad[i] < s[i])
    BY <1>1, <1>2, TopFacts DEF Byte
<1>4. ASSUME IsStrictPrefix(pad, s)  PROVE FALSE
    <2>1. Len(pad) <= Len(s) /\ SubSeq(pad, 1, n) = SubSeq(s, 1, n) /\ pad # s
        BY <1>1, <1>4 DEF IsStrictPrefix, IsPrefix
    <2>2. \A i \in 1 .. n : pad[i] = s[i]
        <3>1. SubSeq(pad, 1, n) = pad
            BY <1>1, SubSeqFull
        <3>2. \A i \in 1 .. n : SubSeq(s, 1, n)[i] = s[i]
            <4>1. \A i \in 1 .. n : s[i] \in Byte
                BY <1>1, <1>2, <2>1
            <4>2. \A i \in 1 .. n - 1 + 1 : SubSeq(s, 1, n)[i] = s[1 + i - 1]
                BY <4>1, SubSeqProperties
            <4>3. n - 1 + 1 = n /\ \A i \in 1 .. n : 1 + i - 1 = i
                OBVIOUS
            <4> QED  BY <4>2, <4>3
        <3> QED  BY <2>1, <3>1, <3>2
    <2>3. CASE Len(s) <= n
        <3>1. Len(s) = Len(pad)
            <4>1. \A x, y \in Nat : x <= y /\ y <= x => x = y
                OBVIOUS
            <4>2. Len(pad) \in Nat /\ Len(s) <= Len(pad)
                BY <1>1, <2>3, Zenon
            <4> QED  BY <1>2, <2>1, <4>1, <4>2, Zenon
        <3> QED  BY <1>1, <2>1, <2>2, <3>1, SeqEqual
    <2>4. CASE n \in 1 .. Len(s) /\ s[n] < Top
        <3>1. n \in 1 .. n
            BY <2>4
        <3> QED  BY <1>1, <2>2, <2>4, <3>1, TopFacts
    <2> QED  BY <2>3, <2>4
<1>5. ~BytesLess(pad, s)
    BY <1>3, <1>4 DEF BytesLess
<1> QED  BY <1>1, <1>5 DEF pad

\* No values of the missing columns are above the padding: all bytes of an
\* integer may be 0xff, and the first byte of a string never is.
LEMMA PaddingAbove ==
    ASSUME NEW r \in Seq(Value), NEW types, Len(types) = Len(r),
           \A i \in 1 .. Len(r) : r[i].type = types[i]
    PROVE  Padding(types) \in Seq(Byte) /\ ~BytesLess(Padding(types), encode_values(r))
<1> DEFINE k == SelectInSeq(types, LAMBDA type : type = "BYTES")
           N == Len(r)
           e == encode_values(r)
           p == Encoded(r)
<1>1. N \in Nat /\ \A i \in 1 .. N : r[i] \in Value
    BY LenProperties, ElementOfSeq
<1>2. /\ p \in Seq(Seq(Byte)) /\ Len(p) = N /\ \A i \in 1 .. N : p[i] = encode_value(r[i])
      /\ e = FlattenSeq(p) /\ e \in Seq(Byte)
    BY EncodedTuple
<1>3. \/ k = 0 /\ \A i \in 1 .. N : types[i] # "BYTES"
      \/ /\ k \in 1 .. N /\ types[k] = "BYTES"
         /\ \A i \in 1 .. k - 1 : types[i] # "BYTES"
    BY <1>1, FirstString
<1>4. \A i \in 1 .. N : types[i] # "BYTES" => Len(p[i]) = IntBytes
    <2> TAKE i \in 1 .. N
    <2>1. ASSUME types[i] # "BYTES"  PROVE r[i].type = "INT_64"
        BY <1>1, <2>1, ValueCases
    <2> QED  BY <1>1, <1>2, <2>1, EncodedValue
<1>5. Padding(types) = [i \in 1 .. (IF k = 0 THEN N * IntBytes ELSE (k - 1) * IntBytes + 1) |-> Top]
    <2>1. N * IntBytes + 0 = N * IntBytes
        BY <1>1, TopFacts
    <2> QED  BY <2>1 DEF Padding
<1> HIDE DEF k, e, p
<1>6. CASE k = 0
    <2>1. \A i \in 1 .. N : Len(p[i]) = IntBytes
        BY <1>3, <1>4, <1>6
    <2>2. Len(e) = N * IntBytes
        BY <1>2, <2>1, TopFacts, FlattenLength
    <2>3. N * IntBytes \in Nat /\ Len(e) <= N * IntBytes
        BY <1>1, <2>2, TopFacts
    <2>4. Padding(types) = [i \in 1 .. N * IntBytes |-> Top]
        BY <1>5, <1>6
    <2> HIDE DEF N
    <2> QED  BY <1>2, <2>3, <2>4, TopsAbove DEF e
<1>7. CASE k \in 1 .. N /\ types[k] = "BYTES" /\ \A i \in 1 .. k - 1 : types[i] # "BYTES"
    <2> DEFINE a == FlattenSeq(SubSeq(p, 1, k - 1))
               z == FlattenSeq(SubSeq(p, k + 1, Len(p)))
               n == (k - 1) * IntBytes + 1
    <2>1. a \in Seq(Byte) /\ p[k] \in Seq(Byte) /\ z \in Seq(Byte) /\ e = a \o (p[k] \o z)
        BY <1>2, <1>7, FlattenCut
    <2>2. Len(a) = (k - 1) * IntBytes
        <3> DEFINE q == SubSeq(p, 1, k - 1)
        <3>1. /\ q \in Seq(Seq(Byte)) /\ Len(q) = k - 1
              /\ \A i \in 1 .. k - 1 : q[i] = p[i]
            <4>1. \A i \in 1 .. k - 1 : p[i] \in Seq(Byte)
                BY <1>1, <1>2, <1>7, ElementOfSeq
            <4>2. 1 \in Int /\ k - 1 \in Int /\ k \in Int
                BY <1>1, <1>7
            <4>3. /\ q \in Seq(Seq(Byte)) /\ Len(q) = IF 1 <= k - 1 THEN k - 1 - 1 + 1 ELSE 0
                  /\ \A i \in 1 .. k - 1 - 1 + 1 : q[i] = p[1 + i - 1]
                BY <4>1, <4>2, SubSeqProperties
            <4> HIDE DEF q
            <4> QED  BY <1>1, <1>7, <4>3
        <3>2. \A i \in 1 .. Len(q) : Len(q[i]) = IntBytes
            <4> HIDE DEF q
            <4> TAKE i \in 1 .. Len(q)
            <4>1. i \in 1 .. k - 1 /\ i \in 1 .. N
                BY <1>1, <1>7, <3>1
            <4> QED  BY <1>4, <1>7, <3>1, <4>1
        <3> HIDE DEF q
        <3>3. Len(FlattenSeq(q)) = Len(q) * IntBytes
            BY <3>1, <3>2, TopFacts, FlattenLength
        <3> QED  BY <3>1, <3>3 DEF q
    <2>3. 1 \in 1 .. Len(p[k]) /\ p[k][1] < Top
        <3>1. r[k].str \in Seq(Byte) /\ p[k] = encode_bytes(r[k].str)
            BY <1>1, <1>2, <1>7, ValueCases DEF encode_value
        <3> DEFINE s == r[k].str
        <3>2. /\ 1 \in DOMAIN p[k]
              /\ p[k][1] = IF s = <<>> THEN 0 ELSE IF s[1] >= Lead THEN Lead ELSE Escaped(s[1])[1]
            BY <3>1, FirstByte
        <3>3. ASSUME s # <<>>, ~(s[1] >= Lead)  PROVE Escaped(s[1])[1] < Top
            <4>1. s[1] \in Byte
                BY <3>1, <3>3, EmptySeq, ElementOfSeq
            <4> HIDE DEF s
            <4>2. Escaped(s[1])[1] = IF s[1] <= 1 THEN 1 ELSE s[1]
                BY <4>1, EscapedByte
            <4> QED  BY <3>3, <4>1, <4>2, TopFacts DEF Byte
        <3> HIDE DEF s
        <3>4. p[k][1] < Top
            BY <3>2, <3>3, TopFacts
        <3> QED  BY <2>1, <3>2, <3>4, LenProperties
    <2> HIDE DEF a, z
    <2>4. p[k] \o z \in Seq(Byte) /\ 1 \in 1 .. Len(p[k] \o z) /\ (p[k] \o z)[1] = p[k][1]
        <3>1. /\ p[k] \o z \in Seq(Byte) /\ Len(p[k] \o z) = Len(p[k]) + Len(z)
              /\ \A i \in 1 .. Len(p[k]) + Len(z) : (p[k] \o z)[i] = IF i <= Len(p[k]) THEN p[k][i] ELSE z[i - Len(p[k])]
            BY <2>1, ConcatProperties
        <3>2. Len(p[k]) \in Nat /\ Len(z) \in Nat
            BY <2>1, LenProperties
        <3>3. 1 \in 1 .. Len(p[k]) + Len(z) /\ 1 <= Len(p[k])
            BY <2>3, <3>2
        <3> QED  BY <3>1, <3>3
    <2>5. n \in 1 .. Len(e) /\ e[n] = p[k][1]
        <3> DEFINE y == p[k] \o z
        <3>1. e = a \o y /\ n = Len(a) + 1 /\ y[1] = p[k][1] /\ y \in Seq(Byte) /\ 1 \in 1 .. Len(y)
            BY <2>1, <2>2, <2>4
        <3> HIDE DEF y, n
        <3>2. /\ Len(a \o y) = Len(a) + Len(y)
              /\ \A i \in 1 .. Len(a) + Len(y) : (a \o y)[i] = IF i <= Len(a) THEN a[i] ELSE y[i - Len(a)]
            BY <2>1, <3>1, ConcatProperties
        <3>3. Len(a) \in Nat /\ Len(y) \in Nat /\ 1 <= Len(y)
            BY <2>1, <3>1, LenProperties
        <3>4. n \in 1 .. Len(a) + Len(y) /\ ~(n <= Len(a)) /\ n - Len(a) = 1
            <4>1. \A i, j \in Nat : 1 <= j => i + 1 \in 1 .. i + j /\ ~(i + 1 <= i) /\ (i + 1) - i = 1
                OBVIOUS
            <4> QED  BY <3>3, <3>1, <4>1, Zenon
        <3> QED  BY <3>2, <3>1, <3>4
    <2>6. n \in Nat
        BY <1>2, <2>5, LenProperties
    <2>7. Padding(types) = [i \in 1 .. n |-> Top]
        <3>1. k # 0
            BY <1>7
        <3> QED  BY <1>5, <3>1
    <2> HIDE DEF n
    <2> QED  BY <1>2, <2>3, <2>5, <2>6, <2>7, TopsAbove DEF e
<1> QED  BY <1>3, <1>6, <1>7

LEMMA TupleIrreflexive ==
    ASSUME NEW u \in Seq(Value)
    PROVE  ~TupleLess(u, u)
<1>1. SameTypes(u, u)
    BY DEF SameTypes
<1>2. encode_values(u) \in Seq(Byte)
    BY EncodedTuple
<1>3. ~Below(encode_values(u), encode_values(u))
    BY <1>2, BelowLess
<1> QED  BY <1>1, <1>3, TuplesOrder

LEMMA TupleAsymmetric ==
    ASSUME NEW u \in Seq(Value), NEW v \in Seq(Value), SameTypes(u, v), TupleLess(u, v)
    PROVE  ~TupleLess(v, u)
<1>1. SameTypes(v, u)
    BY DEF SameTypes
<1>2. encode_values(u) \in Seq(Byte) /\ encode_values(v) \in Seq(Byte)
    BY EncodedTuple
<1>3. Below(encode_values(u), encode_values(v))
    BY TuplesOrder
<1>4. ~Below(encode_values(v), encode_values(u))
    BY <1>2, <1>3, BelowLess
<1> QED  BY <1>1, <1>4, TuplesOrder

\* The values of the bound's columns and those of the others.
LEMMA SplitTuple ==
    ASSUME NEW w \in Seq(Value), NEW m \in 0 .. Len(w)
    PROVE  LET v == SubSeq(w, 1, m)
               r == SubSeq(w, m + 1, Len(w))
           IN  /\ v \in Seq(Value) /\ Len(v) = m /\ \A i \in 1 .. m : v[i] = w[i]
               /\ r \in Seq(Value) /\ Len(r) = Len(w) - m /\ \A i \in 1 .. Len(w) - m : r[i] = w[m + i]
               /\ w = v \o r /\ encode_values(w) = encode_values(v) \o encode_values(r)
<1> DEFINE n == Len(w)
           v == SubSeq(w, 1, m)
           r == SubSeq(w, m + 1, n)
<1>1. n \in Nat /\ \A i \in 1 .. n : w[i] \in Value
    BY LenProperties, ElementOfSeq
<1>2. m \in Nat /\ m \in Int /\ m + 1 \in Int /\ n \in Int
    BY <1>1
<1>3. v \in Seq(Value) /\ Len(v) = m /\ \A i \in 1 .. m : v[i] = w[i]
    <2>1. \A i \in 1 .. m : w[i] \in Value
        BY <1>1
    <2>2. /\ v \in Seq(Value) /\ Len(v) = IF 1 <= m THEN m - 1 + 1 ELSE 0
          /\ \A i \in 1 .. m - 1 + 1 : v[i] = w[1 + i - 1]
        BY <1>2, <2>1, SubSeqProperties
    <2> HIDE DEF v
    <2> QED  BY <1>2, <2>2
<1>4. r \in Seq(Value) /\ Len(r) = n - m /\ \A i \in 1 .. n - m : r[i] = w[m + i]
    <2>1. \A i \in m + 1 .. n : w[i] \in Value
        BY <1>1, <1>2
    <2>2. /\ r \in Seq(Value) /\ Len(r) = IF m + 1 <= n THEN n - (m + 1) + 1 ELSE 0
          /\ \A i \in 1 .. n - (m + 1) + 1 : r[i] = w[(m + 1) + i - 1]
        BY <1>2, <2>1, SubSeqProperties
    <2> HIDE DEF r, n
    <2>3. n - (m + 1) + 1 = n - m /\ m <= n
        BY <1>1, <1>2 DEF n
    <2>4. Len(r) = n - m
        BY <1>1, <1>2, <2>2, <2>3
    <2>5. \A i \in 1 .. n - m : (m + 1) + i - 1 = m + i
        BY <1>2
    <2> QED  BY <2>2, <2>3, <2>4, <2>5
<1>5. w = v \o r
    <2>1. 1 \in 1 .. n + 1 /\ m \in 1 - 1 .. n /\ n \in m .. n
        BY <1>1
    <2>2. SubSeq(w, 1, m) \o SubSeq(w, m + 1, n) = SubSeq(w, 1, n)
        BY <2>1, ConcatAdjacentSubSeq
    <2> QED  BY <2>2, SubSeqFull
<1>6. encode_values(v \o r) = encode_values(v) \o encode_values(r)
    <2> HIDE DEF v, r
    <2> QED  BY <1>3, <1>4, EncodedConcat
<1> QED  BY <1>3, <1>4, <1>5, <1>6

\* How the key of w compares with a bound, padded or not.
LEMMA BoundCompares ==
    ASSUME NEW c \in Seq(Byte), NEW w \in Seq(Value), NEW vals \in Seq(Value), NEW pad \in Seq(Byte),
           Len(vals) <= Len(w), \A i \in 1 .. Len(vals) : vals[i].type = w[i].type
    PROVE  LET key == c \o encode_values(w)
               ref == (c \o encode_values(vals)) \o pad
               v == SubSeq(w, 1, Len(vals))
               r == SubSeq(w, Len(vals) + 1, Len(w))
           IN  /\ TupleLess(v, vals) => BytesLess(key, ref) /\ ~BytesLess(ref, key) /\ ~TupleLess(vals, v)
               /\ TupleLess(vals, v) => BytesLess(ref, key) /\ ~BytesLess(key, ref) /\ ~TupleLess(v, vals)
               /\ ~TupleLess(v, vals) /\ ~TupleLess(vals, v) =>
                     /\ BytesLess(ref, key) => BytesLess(pad, encode_values(r))
                     /\ pad = <<>> => ~BytesLess(key, ref)
<1> DEFINE m == Len(vals)
           v == SubSeq(w, 1, m)
           r == SubSeq(w, m + 1, Len(w))
           a == encode_values(v)
           b == encode_values(vals)
           x == encode_values(r)
           key == c \o encode_values(w)
           ref == (c \o b) \o pad
<1>1. m \in 0 .. Len(w)
    BY LenProperties
<1>2. /\ v \in Seq(Value) /\ Len(v) = m /\ \A i \in 1 .. m : v[i] = w[i]
      /\ r \in Seq(Value) /\ encode_values(w) = a \o x
    BY <1>1, SplitTuple
<1>3. SameTypes(v, vals) /\ SameTypes(vals, v)
    <2> HIDE DEF v
    <2> QED  BY <1>2 DEF SameTypes
<1> HIDE DEF v, r, m
<1>4. a \in Seq(Byte) /\ b \in Seq(Byte) /\ x \in Seq(Byte)
    BY <1>2, EncodedTuple
<1> HIDE DEF a, b, x
<1>5. /\ a \o x \in Seq(Byte) /\ b \o pad \in Seq(Byte)
      /\ c \o (a \o x) \in Seq(Byte) /\ c \o (b \o pad) \in Seq(Byte)
    <2>1. \A s, t \in Seq(Byte) : s \o t \in Seq(Byte)
        BY ConcatProperties
    <2> QED  BY <1>4, <2>1, Zenon
<1>6. key = c \o (a \o x) /\ ref = c \o (b \o pad)
    <2>1. (c \o b) \o pad = c \o (b \o pad)
        BY <1>4, ConcatAssociative
    <2> QED  BY <1>2, <2>1, Zenon DEF a, x, b
<1> HIDE DEF key, ref
<1>7. ASSUME TupleLess(v, vals)
      PROVE  BytesLess(key, ref) /\ ~BytesLess(ref, key) /\ ~TupleLess(vals, v)
    <2>1. Below(a, b)
        BY <1>2, <1>3, <1>7, TuplesOrder DEF a, b
    <2>2. Below(a \o x, b \o pad)
        BY <1>4, <2>1, BelowConcat
    <2>3. Below(c \o (a \o x), c \o (b \o pad))
        BY <1>5, <2>2, BelowAfter
    <2>4. ~TupleLess(vals, v)
        BY <1>2, <1>3, <1>7, TupleAsymmetric
    <2> QED  BY <1>5, <1>6, <2>3, <2>4, BelowLess
<1>8. ASSUME TupleLess(vals, v)
      PROVE  BytesLess(ref, key) /\ ~BytesLess(key, ref) /\ ~TupleLess(v, vals)
    <2>1. Below(b, a)
        BY <1>2, <1>3, <1>8, TuplesOrder DEF a, b
    <2>2. Below(b \o pad, a \o x)
        BY <1>4, <2>1, BelowConcat
    <2>3. Below(c \o (b \o pad), c \o (a \o x))
        BY <1>5, <2>2, BelowAfter
    <2>4. ~TupleLess(v, vals)
        BY <1>2, <1>3, <1>8, TupleAsymmetric
    <2> QED  BY <1>5, <1>6, <2>3, <2>4, BelowLess
<1>9. ASSUME ~TupleLess(v, vals), ~TupleLess(vals, v)
      PROVE  /\ BytesLess(ref, key) => BytesLess(pad, x)
             /\ pad = <<>> => ~BytesLess(key, ref)
    <2>1. v = vals
        BY <1>2, <1>3, <1>9, TuplesTotal
    <2>2. a = b
        BY <2>1 DEF a, b
    <2>3. /\ c \o b \in Seq(Byte) /\ ref = (c \o b) \o pad /\ key = (c \o b) \o x
        <3>1. c \o b \in Seq(Byte)
            BY <1>4, ConcatProperties
        <3>2. (c \o b) \o pad = c \o (b \o pad)
            BY <1>4, ConcatAssociative
        <3>3. (c \o b) \o x = c \o (b \o x)
            <4>1. x \in Seq(Byte) /\ b \in Seq(Byte)
                BY <1>4
            <4> QED  BY <4>1, ConcatAssociative
        <3> QED  BY <1>6, <2>2, <3>1, <3>2, <3>3, Zenon
    <2>4. ASSUME BytesLess(ref, key)  PROVE BytesLess(pad, x)
        BY <1>4, <2>3, <2>4, LessAfter
    <2>5. ASSUME pad = <<>>  PROVE ~BytesLess(key, ref)
        <3>1. ref = c \o b
            BY <2>3, <2>5, ConcatEmptySeq
        <3> QED  BY <1>4, <2>3, <3>1, NoPrefixAbove
    <2> QED  BY <2>4, <2>5
<1> QED  BY <1>7, <1>8, <1>9 DEF key, ref, v, r, x, m, b

\* row_codec.cpp and scanner.cpp: comparing the bytes of a key with the bytes of
\* a bound says what comparing the values says, for every comparison and
\* whichever last columns the bound leaves out, of whatever types. So a scan
\* from a bound neither skips a row of its range nor gives one outside it.
THEOREM BoundExact ==
    ASSUME NEW prefix \in 0 .. Pow(PrefixBytes) - 1,
           NEW cols, Len(cols) \in Nat, NEW w \in Seq(Value), Len(w) = Len(cols), OfColumns(w, cols),
           NEW vals \in Seq(Value), OfColumns(vals, cols), NEW cmp \in {"GE", "GT", "LE", "LT"}
    PROVE  cmp_ok(encode_key(prefix, w), cmp, encode_key_partial(prefix, vals, cols, cmp))
               <=> Satisfies(w, cmp, vals)
<1> DEFINE c == BigEndian(PrefixBytes, prefix)
           m == Len(vals)
           v == SubSeq(w, 1, m)
           r == SubSeq(w, m + 1, Len(w))
           missing == Types(SubSeq(cols, m + 1, Len(cols)))
           pad == IF cmp \in {"GT", "LE"} THEN Padding(missing) ELSE <<>>
           key == c \o encode_values(w)
           ref == (c \o encode_values(vals)) \o pad
<1>1. c \in Seq(Byte)
    BY BytesOf, PrefixAssumption
<1>2. /\ m \in 0 .. Len(w) /\ m \in Nat /\ Len(w) \in Nat
      /\ \A i \in 1 .. m : vals[i].type = w[i].type
    <2>1. m \in Nat /\ Len(w) \in Nat /\ m <= Len(w)
        BY LenProperties DEF OfColumns
    <2> QED  BY <2>1 DEF OfColumns
<1>3. /\ r \in Seq(Value) /\ Len(r) = Len(w) - m /\ \A i \in 1 .. Len(w) - m : r[i] = w[m + i]
      /\ v \in Seq(Value)
    BY <1>2, SplitTuple
<1>4. /\ Len(missing) = Len(r)
      /\ \A i \in 1 .. Len(r) : r[i].type = missing[i]
    <2> DEFINE n == Len(cols)
               sub == SubSeq(cols, m + 1, n)
    <2>1. Len(r) = n - m /\ n - m \in Nat /\ n \in Nat /\ n - (m + 1) + 1 = n - m
        BY <1>2, <1>3
    <2>2. /\ Len(sub) = n - m /\ DOMAIN sub = 1 .. n - m /\ sub \in Seq({cols[i] : i \in m + 1 .. n})
          /\ \A i \in 1 .. n - m : sub[i] = cols[m + i]
        <3> DEFINE S == {cols[i] : i \in m + 1 .. n}
        <3>1. /\ sub \in Seq(S) /\ Len(sub) = IF m + 1 <= n THEN n - (m + 1) + 1 ELSE 0
              /\ \A i \in 1 .. n - (m + 1) + 1 : sub[i] = cols[(m + 1) + i - 1]
            <4>1. \A i \in m + 1 .. n : cols[i] \in S
                OBVIOUS
            <4>2. m + 1 \in Int /\ n \in Int
                BY <1>2, <2>1
            <4> HIDE DEF S
            <4> QED  BY <4>1, <4>2, SubSeqProperties
        <3> HIDE DEF sub, S, n, m
        <3>2. DOMAIN sub = 1 .. Len(sub)
            BY <3>1, LenProperties
        <3>3. Len(sub) = n - m
            BY <1>2, <2>1, <3>1
        <3>4. \A i \in 1 .. n - m : (m + 1) + i - 1 = m + i
            BY <1>2
        <3> QED  BY <2>1, <3>1, <3>2, <3>3, <3>4 DEF S
    <2>3. missing = [i \in 1 .. n - m |-> Def.types[sub[i]]]
        BY <2>2 DEF Types
    <2>4. Len(missing) = n - m
        <3> HIDE DEF missing, sub
        <3> QED  BY <2>1, <2>3
    <2>5. \A i \in 1 .. n - m : r[i].type = missing[i]
        <3> TAKE i \in 1 .. n - m
        <3>1. m + i \in 1 .. Len(w)
            BY <1>2, <2>1
        <3>2. r[i] = w[m + i] /\ w[m + i].type = Def.types[cols[m + i]]
            BY <1>3, <3>1 DEF OfColumns
        <3> HIDE DEF missing, sub, r
        <3> QED  BY <2>2, <2>3, <3>2
    <2> QED  BY <2>1, <2>4, <2>5
<1>5. Padding(missing) \in Seq(Byte) /\ ~BytesLess(Padding(missing), encode_values(r))
    <2> HIDE DEF missing, r
    <2> QED  BY <1>3, <1>4, PaddingAbove
<1>6. encode_key(prefix, w) = key
    BY DEF encode_key
<1>7. encode_key_partial(prefix, vals, cols, cmp) = ref
    <2>1. c \o encode_values(vals) \in Seq(Byte)
        BY <1>1, EncodedTuple, ConcatProperties
    <2>2. (c \o encode_values(vals)) \o <<>> = c \o encode_values(vals)
        BY <2>1, ConcatEmptySeq
    <2> QED  BY <2>2 DEF encode_key_partial, encode_key, Padding
<1>8. pad \in Seq(Byte)
    BY <1>5, EmptySeq
<1> HIDE DEF missing, pad
<1>9. /\ TupleLess(v, vals) => BytesLess(key, ref) /\ ~BytesLess(ref, key) /\ ~TupleLess(vals, v)
      /\ TupleLess(vals, v) => BytesLess(ref, key) /\ ~BytesLess(key, ref) /\ ~TupleLess(v, vals)
      /\ ~TupleLess(v, vals) /\ ~TupleLess(vals, v) =>
            /\ BytesLess(ref, key) => BytesLess(pad, encode_values(r))
            /\ pad = <<>> => ~BytesLess(key, ref)
    BY <1>1, <1>2, <1>8, BoundCompares
<1> HIDE DEF key, ref, v, r
<1>10. CASE cmp \in {"GT", "LE"}
    <2>1. pad = Padding(missing)
        BY <1>10 DEF pad
    <2>2. BytesLess(ref, key) <=> TupleLess(vals, v)
        BY <1>5, <1>9, <2>1
    <2> QED  BY <1>6, <1>7, <1>10, <2>2 DEF cmp_ok, Satisfies, v, m
<1>11. CASE cmp \in {"GE", "LT"}
    <2>1. pad = <<>>
        BY <1>11 DEF pad
    <2>2. BytesLess(key, ref) <=> TupleLess(v, vals)
        BY <1>9, <2>1
    <2> QED  BY <1>6, <1>7, <1>11, <2>2 DEF cmp_ok, Satisfies, v, m
<1> QED  BY <1>10, <1>11

-----------------------------------------------------------------------------
(* Decoding *)

\* What lies between two strings.
LEMMA Middle ==
    ASSUME NEW a \in Seq(Byte), NEW b \in Seq(Byte), NEW z \in Seq(Byte)
    PROVE  LET data == a \o (b \o z)
           IN  /\ data \in Seq(Byte) /\ Len(data) = Len(a) + (Len(b) + Len(z))
               /\ Len(a) \in Nat /\ Len(b) \in Nat /\ Len(z) \in Nat
               /\ \A i \in 1 .. Len(b) : data[Len(a) + i] = b[i]
<1> DEFINE y == b \o z
           data == a \o y
           k == Len(a)
           m == Len(b)
           n == Len(z)
<1>1. k \in Nat /\ m \in Nat /\ n \in Nat
    BY LenProperties
<1>2. /\ y \in Seq(Byte) /\ Len(y) = m + n
      /\ \A i \in 1 .. m + n : y[i] = IF i <= m THEN b[i] ELSE z[i - m]
    BY ConcatProperties
<1> HIDE DEF y
<1>3. /\ data \in Seq(Byte) /\ Len(data) = k + Len(y)
      /\ \A i \in 1 .. k + Len(y) : data[i] = IF i <= k THEN a[i] ELSE y[i - k]
    <2>1. y \in Seq(Byte)
        BY <1>2
    <2> QED  BY <2>1, ConcatProperties DEF data, k
<1> HIDE DEF data, k, m, n
<1>4. ASSUME NEW i \in 1 .. m  PROVE data[k + i] = b[i]
    <2>1. /\ k + i \in 1 .. k + (m + n) /\ ~(k + i <= k) /\ (k + i) - k = i
          /\ i \in 1 .. m + n /\ i <= m
        BY <1>1
    <2>2. data[k + i] = y[(k + i) - k]
        BY <1>2, <1>3, <2>1, Zenon
    <2>3. y[i] = b[i]
        BY <1>2, <2>1
    <2> QED  BY <2>1, <2>2, <2>3
<1>5. Len(data) = k + (m + n)
    BY <1>2, <1>3
<1> QED  BY <1>1, <1>3, <1>4, <1>5 DEF data, k, m, n, y

\* decode_int64 gives the integer that was encoded.
LEMMA DecodedInt ==
    ASSUME NEW x \in Int64, NEW a \in Seq(Byte), NEW z \in Seq(Byte), NEW us
    PROVE  decode_int64(a \o (encode_int64(x) \o z), [ok |-> TRUE, pos |-> Len(a), vals |-> us])
               = [ok |-> TRUE, pos |-> Len(a) + Len(encode_int64(x)), vals |-> Append(us, make_int64(x))]
<1> DEFINE n == IntBytes
           b == encode_int64(x)
           data == a \o (b \o z)
           k == Len(a)
           y == x + SIGN_BIT
           g == [i \in 0 .. n |-> Shifted(n, y, i)]
           Loop(f) == f = [i \in 0 .. n |-> IF i = 0 THEN 0 ELSE f[i - 1] * (Top + 1) + data[k + i]]
           u == CHOOSE f : Loop(f)
<1>1. /\ x \in Int /\ y \in 0 .. Pow(n) - 1 /\ SIGN_BIT \in Nat /\ n \in Nat /\ b = BigEndian(n, y)
    BY IntFacts, TopFacts
<1>2. b \in Seq(Byte) /\ Len(b) = n
    BY <1>1, BytesOf
<1>3. /\ Shifted(n, y, 0) = 0 /\ Shifted(n, y, n) = y
      /\ \A i \in 1 .. n : Shifted(n, y, i) = Shifted(n, y, i - 1) * (Top + 1) + b[i]
    BY <1>1, ShiftedNext
<1> HIDE DEF b, y, n
<1>4. /\ Len(data) = k + (n + Len(z)) /\ k \in Nat /\ Len(z) \in Nat
      /\ \A i \in 1 .. n : data[k + i] = b[i]
    BY <1>2, Middle
<1> HIDE DEF data, k
<1>5. Loop(g)
    <2>1. ASSUME NEW i \in 0 .. n
          PROVE  g[i] = IF i = 0 THEN 0 ELSE g[i - 1] * (Top + 1) + data[k + i]
        <3>1. CASE i = 0
            BY <1>3, <3>1
        <3>2. CASE i # 0
            <4>1. i \in 1 .. n /\ i - 1 \in 0 .. n
                BY <1>1, <3>2
            <4>2. g[i] = Shifted(n, y, i) /\ g[i - 1] = Shifted(n, y, i - 1)
                BY <4>1
            <4> QED  BY <1>3, <1>4, <3>2, <4>1, <4>2, Zenon
        <3> QED  BY <3>1, <3>2
    <2> HIDE DEF g
    <2>2. g = [i \in 0 .. n |-> g[i]]
        BY DEF g
    <2> QED  BY <2>1, <2>2
<1>6. Loop(u)
    <2> HIDE DEF Loop, g
    <2> QED  BY <1>5
<1> HIDE DEF u
<1>7. u[n] = y
    <2> DEFINE T == {i \in 0 .. n : u[i] # g[i]}
    <2>1. T = {}
        <3> SUFFICES ASSUME T # {}  PROVE FALSE
            OBVIOUS
        <3>1. u[0] = 0 /\ g[0] = 0
            BY <1>1, <1>3, <1>6
        <3>2. PICK i \in T : i \in 1 .. n /\ i - 1 \in 0 .. n /\ i - 1 \notin T
            <4>1. 0 \notin T
                BY <3>1
            <4> QED  BY <1>1, <4>1, FirstFailure
        <3> HIDE DEF g
        <3>3. i # 0 /\ i \in 0 .. n
            BY <3>2
        <3>4. u[i] = u[i - 1] * (Top + 1) + data[k + i]
            BY <1>6, <3>3
        <3>5. g[i] = g[i - 1] * (Top + 1) + data[k + i]
            BY <1>5, <3>3
        <3>6. u[i - 1] = g[i - 1] /\ u[i] # g[i]
            BY <3>2
        <3> QED  BY <3>4, <3>5, <3>6
    <2>2. n \in 0 .. n
        BY <1>1
    <2> QED  BY <1>3, <2>1, <2>2
<1>8. ~(k + n > Len(data)) /\ u[n] - SIGN_BIT = x
    <2>1. ~(k + n > Len(data))
        BY <1>1, <1>4
    <2>2. u[n] - SIGN_BIT = x
        BY <1>1, <1>7 DEF y
    <2> QED  BY <2>1, <2>2
<1> DEFINE d == [ok |-> TRUE, pos |-> k, vals |-> us]
<1>9. decode_int64(data, d)
        = IF d.pos + n > Len(data) THEN Thrown
          ELSE [ok |-> TRUE, pos |-> d.pos + n, vals |-> Append(d.vals, make_int64(u[n] - SIGN_BIT))]
    BY DEF decode_int64, u, n
<1>10. decode_int64(data, d) = [ok |-> TRUE, pos |-> k + n, vals |-> Append(us, make_int64(x))]
    BY <1>8, <1>9
<1> QED  BY <1>2, <1>10 DEF data, b, k, n

\* What the first parts give.
UpTo(parts, i) == FlattenSeq(SubSeq(parts, 1, i))

LEMMA FlattenUpTo ==
    ASSUME NEW S, NEW parts \in Seq(Seq(S))
    PROVE  /\ UpTo(parts, 0) = <<>> /\ UpTo(parts, Len(parts)) = FlattenSeq(parts)
           /\ \A i \in 0 .. Len(parts) : UpTo(parts, i) \in Seq(S)
           /\ \A i \in 1 .. Len(parts) : UpTo(parts, i) = UpTo(parts, i - 1) \o parts[i]
           /\ \A i \in 1 .. Len(parts) : \E z \in Seq(S) :
                 FlattenSeq(parts) = UpTo(parts, i - 1) \o (parts[i] \o z)
<1> DEFINE n == Len(parts)
<1>1. n \in Nat /\ \A i \in 1 .. n : parts[i] \in Seq(S)
    BY LenProperties, ElementOfSeq
<1>2. UpTo(parts, 0) = <<>>
    <2>1. SubSeq(parts, 1, 0) = <<>>
        BY SubSeqEmpty
    <2> QED  BY <2>1, FlattenEmpty DEF UpTo
<1>3. UpTo(parts, n) = FlattenSeq(parts)
    BY SubSeqFull DEF UpTo
<1>4. ASSUME NEW i \in 0 .. n  PROVE SubSeq(parts, 1, i) \in Seq(Seq(S)) /\ UpTo(parts, i) \in Seq(S)
    <2>1. \A j \in 1 .. i : parts[j] \in Seq(S)
        BY <1>1
    <2>2. SubSeq(parts, 1, i) \in Seq(Seq(S))
        BY <2>1, SubSeqProperties
    <2> QED  BY <2>2, FlattenType DEF UpTo
<1>5. ASSUME NEW i \in 1 .. n  PROVE UpTo(parts, i) = UpTo(parts, i - 1) \o parts[i]
    <2> DEFINE a == SubSeq(parts, 1, i - 1)
    <2>1. 1 \in 1 .. n /\ i \in 1 .. n /\ i - 1 \in 0 .. n
        BY <1>1
    <2>2. SubSeq(parts, 1, i) = a \o <<parts[i]>>
        BY <2>1, SubSeqRecursiveSecond
    <2>3. a \in Seq(Seq(S)) /\ parts[i] \in Seq(S) /\ <<parts[i]>> \in Seq(Seq(S))
        <3>1. parts[i] \in Seq(S)
            BY <1>1
        <3> DEFINE B == Seq(S)
        <3> HIDE DEF B
        <3>2. \A x \in B : <<x>> \in Seq(B)
            OBVIOUS
        <3> QED  BY <1>4, <2>1, <3>1, <3>2 DEF B
    <2> HIDE DEF a
    <2>4. FlattenSeq(a \o <<parts[i]>>) = FlattenSeq(a) \o FlattenSeq(<<parts[i]>>)
        BY <2>3, FlattenConcat
    <2>5. FlattenSeq(<<parts[i]>>) = parts[i]
        BY <2>3, FlattenOne
    <2> QED  BY <2>2, <2>4, <2>5 DEF UpTo, a
<1>6. ASSUME NEW i \in 1 .. n
      PROVE  \E z \in Seq(S) : FlattenSeq(parts) = UpTo(parts, i - 1) \o (parts[i] \o z)
    BY FlattenCut DEF UpTo
<1> QED  BY <1>2, <1>3, <1>4, <1>5, <1>6

\* The bytes of an escaped string, and where each byte of the string is in it.
LEMMA EscapedAt ==
    ASSUME NEW s \in Seq(Byte)
    PROVE  LET e == escape_string(s)
               p == EscapedBytes(s)
               first == Len(Mark(s))
               at(k) == first + Len(UpTo(p, k))
           IN  /\ e \in Seq(Byte) /\ first \in {0, 1} /\ at(0) = first /\ at(Len(s)) = Len(e)
               /\ \A i \in 1 .. Len(e) : e[i] # 0
               /\ \A k \in 0 .. Len(s) : at(k) \in first .. Len(e)
               /\ \A k \in 1 .. Len(s) : at(k) = at(k - 1) + Len(Escaped(s[k]))
               /\ \A k \in 1 .. Len(s) : \A j \in 1 .. Len(Escaped(s[k])) : e[at(k - 1) + j] = Escaped(s[k])[j]
<1> DEFINE e == escape_string(s)
           p == EscapedBytes(s)
           mk == Mark(s)
           h == FlattenSeq(p)
           first == Len(mk)
           at(k) == first + Len(UpTo(p, k))
           N == Len(s)
<1>1. /\ N \in Nat /\ DOMAIN s = 1 .. N
      /\ \A k \in 1 .. N : s[k] \in Byte /\ Escaped(s[k]) \in Seq(Byte) /\ Len(Escaped(s[k])) \in Nat
    BY LenProperties, ElementOfSeq, EscapedByte
<1>2. p \in Seq(Seq(Byte)) /\ Len(p) = N /\ \A k \in 1 .. N : p[k] = Escaped(s[k])
    BY <1>1, PieceFacts DEF EscapedBytes
<1>3. e = mk \o h /\ e \in Seq(Byte) /\ mk \in Seq(Byte)
    BY EncodedPieces, PieceFacts
<1>4. first \in {0, 1}
    BY DEF Mark
<1> HIDE DEF e, p, mk, first
<1>5. /\ UpTo(p, 0) = <<>> /\ UpTo(p, N) = h
      /\ \A k \in 0 .. N : UpTo(p, k) \in Seq(Byte)
      /\ \A k \in 1 .. N : UpTo(p, k) = UpTo(p, k - 1) \o p[k]
      /\ \A k \in 1 .. N : \E z \in Seq(Byte) : h = UpTo(p, k - 1) \o (p[k] \o z)
    BY <1>2, FlattenUpTo
<1>6. h \in Seq(Byte)
    BY <1>2, FlattenType
<1> HIDE DEF h
<1>7. /\ Len(e) = first + Len(h) /\ Len(h) \in Nat
      /\ \A i \in 1 .. Len(h) : e[first + i] = h[i]
    <2>1. /\ Len(mk \o h) = first + Len(h)
          /\ \A i \in 1 .. first + Len(h) : (mk \o h)[i] = IF i <= first THEN mk[i] ELSE h[i - first]
        BY <1>3, <1>6, ConcatProperties DEF first
    <2>2. Len(h) \in Nat
        BY <1>6, LenProperties
    <2>3. ASSUME NEW i \in 1 .. Len(h)  PROVE e[first + i] = h[i]
        <3>1. first + i \in 1 .. first + Len(h) /\ ~(first + i <= first) /\ (first + i) - first = i
            BY <1>4, <2>2
        <3> QED  BY <1>3, <2>1, <3>1
    <2> QED  BY <1>3, <2>1, <2>2, <2>3
<1>8. \A i \in 1 .. Len(e) : e[i] # 0
    <2> DEFINE B == 1 .. Top
    <2>1. p \in Seq(Seq(B))
        <3>1. ASSUME NEW k \in 1 .. N  PROVE p[k] \in Seq(B)
            <4>1. s[k] \in Byte /\ p[k] = Escaped(s[k])
                BY <1>1, <1>2
            <4>2. CASE s[k] <= 1
                <5>1. 1 \in B /\ s[k] + 1 \in B
                    BY <4>1, <4>2, TopFacts DEF Byte
                <5> HIDE DEF B
                <5> QED  BY <4>1, <4>2, <5>1 DEF Escaped
            <4>3. CASE ~(s[k] <= 1)
                <5>1. s[k] \in B
                    BY <4>1, <4>3, TopFacts DEF Byte
                <5> HIDE DEF B
                <5> QED  BY <4>1, <4>3, <5>1 DEF Escaped
            <4> QED  BY <4>2, <4>3
        <3>2. p = [k \in 1 .. N |-> p[k]]
            BY <1>1 DEF p, EscapedBytes
        <3> DEFINE C == Seq(B)
        <3> HIDE DEF C, p
        <3>3. \A k \in 1 .. N : p[k] \in C
            BY <3>1 DEF C
        <3>4. p \in [1 .. N -> C]
            BY <3>2, <3>3
        <3> QED  BY <1>1, <3>4, SeqDef DEF C
    <2>2. mk \in Seq(B)
        <3>1. Lead \in B
            BY TopFacts
        <3> HIDE DEF B
        <3> QED  BY <3>1 DEF mk, Mark
    <2> HIDE DEF B
    <2>3. h \in Seq(B)
        BY <2>1, FlattenType DEF h
    <2>4. e \in Seq(B)
        BY <1>3, <2>2, <2>3, ConcatProperties
    <2>5. \A i \in 1 .. Len(e) : e[i] \in B
        BY <2>4, ElementOfSeq
    <2> QED  BY <2>5 DEF B
<1>9. ASSUME NEW k \in 1 .. N  PROVE at(k) = at(k - 1) + Len(Escaped(s[k]))
    <2>1. k - 1 \in 0 .. N
        BY <1>1
    <2>2. UpTo(p, k - 1) \in Seq(Byte) /\ Len(UpTo(p, k - 1)) \in Nat
        BY <1>5, <2>1, LenProperties
    <2>3. Len(UpTo(p, k)) = Len(UpTo(p, k - 1)) + Len(Escaped(s[k]))
        <3>1. UpTo(p, k) = UpTo(p, k - 1) \o Escaped(s[k]) /\ Escaped(s[k]) \in Seq(Byte)
            BY <1>1, <1>2, <1>5
        <3> QED  BY <2>2, <3>1, ConcatProperties
    <2> QED  BY <1>1, <1>4, <2>2, <2>3
<1>10. ASSUME NEW k \in 1 .. N, NEW j \in 1 .. Len(Escaped(s[k]))
       PROVE  e[at(k - 1) + j] = Escaped(s[k])[j]
    <2> DEFINE a == UpTo(p, k - 1)
               b == Escaped(s[k])
    <2>1. k - 1 \in 0 .. N
        BY <1>1
    <2>2. a \in Seq(Byte) /\ b \in Seq(Byte)
        BY <1>1, <1>5, <2>1
    <2>3. PICK z \in Seq(Byte) : h = a \o (b \o z)
        BY <1>2, <1>5
    <2> HIDE DEF a, b
    <2>4. /\ Len(h) = Len(a) + (Len(b) + Len(z)) /\ Len(a) \in Nat /\ Len(b) \in Nat /\ Len(z) \in Nat
          /\ \A i \in 1 .. Len(b) : h[Len(a) + i] = b[i]
        BY <2>2, <2>3, Middle
    <2>5. j \in 1 .. Len(b)
        BY DEF b
    <2>6. Len(a) + j \in 1 .. Len(h) /\ (first + Len(a)) + j = first + (Len(a) + j)
        BY <1>4, <2>4, <2>5
    <2>7. e[first + (Len(a) + j)] = b[j]
        BY <1>7, <2>4, <2>5, <2>6
    <2> QED  BY <2>6, <2>7 DEF a, b
<1>11. ASSUME NEW k \in 0 .. N  PROVE at(k) \in first .. Len(e)
    <2>1. Len(UpTo(p, k)) \in 0 .. Len(h)
        <3>1. CASE k = N
            BY <1>5, <1>7, <3>1
        <3>2. CASE k # N
            <4>1. k + 1 \in 1 .. N /\ (k + 1) - 1 = k
                <5>1. \A n \in Nat : \A i \in 0 .. n : i # n => i + 1 \in 1 .. n /\ (i + 1) - 1 = i
                    OBVIOUS
                <5> QED  BY <1>1, <3>2, <5>1, Zenon
            <4>2. PICK z \in Seq(Byte) : h = UpTo(p, k) \o (p[k + 1] \o z)
                BY <1>5, <4>1
            <4>3. UpTo(p, k) \in Seq(Byte) /\ p[k + 1] \in Seq(Byte)
                BY <1>1, <1>2, <1>5, <4>1
            <4>4. Len(h) = Len(UpTo(p, k)) + (Len(p[k + 1]) + Len(z))
                BY <4>2, <4>3, Middle
            <4>5. Len(UpTo(p, k)) \in Nat /\ Len(p[k + 1]) \in Nat /\ Len(z) \in Nat
                BY <4>3, LenProperties
            <4> QED  BY <4>4, <4>5
        <3> QED  BY <3>1, <3>2
    <2> QED  BY <1>4, <1>7, <2>1
<1>12. at(0) = first /\ at(N) = Len(e)
    BY <1>4, <1>5, <1>7
<1> QED  BY <1>3, <1>4, <1>8, <1>9, <1>10, <1>11, <1>12 DEF e, p, mk, first

\* The loop of unescape_string, over the bytes after the mark.
ReadByte(r, c) ==
    IF r.esc THEN [ok |-> r.ok /\ c \in {1, 2}, esc |-> FALSE, out |-> Append(r.out, c - 1)]
    ELSE IF c = 1 THEN [ok |-> r.ok, esc |-> TRUE, out |-> r.out]
    ELSE [ok |-> r.ok, esc |-> FALSE, out |-> Append(r.out, c)]

Reads(f, e, first, last, start) ==
    f = [i \in first .. last |-> IF i = first THEN start ELSE ReadByte(f[i - 1], e[i])]

\* The loop is well defined.
LEMMA ReadsExist ==
    ASSUME NEW e, NEW first \in Nat, NEW n \in Nat, NEW start
    PROVE  \E f : Reads(f, e, first, first + n, start)
<1> DEFINE T == {m \in 0 .. n : ~ \E f : Reads(f, e, first, first + m, start)}
           pass(r, i) == ReadByte(r, e[i])
           Loop(f, m) == f = [i \in first .. first + m |-> IF i = first THEN start ELSE pass(f[i - 1], i)]
<1>0. \A f, m : Reads(f, e, first, first + m, start) <=> Loop(f, m)
    BY DEF Reads
<1> HIDE DEF pass
<1> SUFFICES ASSUME T # {}  PROVE FALSE
    <2>1. n \in 0 .. n
        OBVIOUS
    <2> QED  BY <2>1
<1>1. 0 \notin T
    <2>1. Loop([i \in first .. first + 0 |-> start], 0)
        OBVIOUS
    <2> QED  BY <1>0, <2>1
<1>2. PICK m \in T : m \in 1 .. n /\ m - 1 \in 0 .. n /\ m - 1 \notin T
    BY <1>1, FirstFailure
<1>3. PICK f : Loop(f, m - 1)
    BY <1>0, <1>2
<1> DEFINE last == first + m
           g == [i \in first .. last |-> IF i = last THEN pass(f[last - 1], last) ELSE f[i]]
<1>4. ASSUME NEW i \in first .. last  PROVE g[i] = IF i = first THEN start ELSE pass(g[i - 1], i)
    <2>1. CASE i = last
        <3>1. i # first /\ i - 1 \in first .. last /\ i - 1 # last
            BY <1>2, <2>1
        <3> QED  BY <2>1, <3>1
    <2>2. CASE i # last
        <3>1. i \in first .. first + (m - 1) /\ i - 1 # last /\ g[i] = f[i]
            BY <1>2, <2>2
        <3>2. f[i] = IF i = first THEN start ELSE pass(f[i - 1], i)
            BY <1>3, <3>1
        <3>3. i # first => g[i - 1] = f[i - 1]
            BY <1>2, <3>1
        <3> QED  BY <3>1, <3>2, <3>3
    <2> QED  BY <2>1, <2>2
<1>5. Loop(g, m)
    BY <1>4
<1> QED  BY <1>0, <1>2, <1>5

\* One byte of the string is read from its one or two escaped bytes.
LEMMA ReadsEscaped ==
    ASSUME NEW c \in Byte, NEW out \in Seq(Byte)
    PROVE  LET r == [ok |-> TRUE, esc |-> FALSE, out |-> out]
               b == Escaped(c)
               q == [ok |-> TRUE, esc |-> FALSE, out |-> Append(out, c)]
           IN  \/ Len(b) = 1 /\ ReadByte(r, b[1]) = q
               \/ Len(b) = 2 /\ ReadByte(ReadByte(r, b[1]), b[2]) = q
<1> DEFINE r == [ok |-> TRUE, esc |-> FALSE, out |-> out]
           b == Escaped(c)
           q == [ok |-> TRUE, esc |-> FALSE, out |-> Append(out, c)]
<1>1. c \in Int /\ c >= 0
    BY TopFacts DEF Byte
<1>2. CASE c <= 1
    <2>1. Len(b) = 2 /\ b[1] = 1 /\ b[2] = c + 1 /\ c + 1 \in {1, 2} /\ (c + 1) - 1 = c
        BY <1>1, <1>2 DEF Escaped
    <2> DEFINE r1 == [ok |-> TRUE, esc |-> TRUE, out |-> out]
    <2>2. ReadByte(r, 1) = r1
        BY DEF ReadByte
    <2>3. ReadByte(r1, c + 1) = q
        BY <2>1 DEF ReadByte
    <2> QED  BY <2>1, <2>2, <2>3
<1>3. CASE ~(c <= 1)
    <2>1. Len(b) = 1 /\ b[1] = c /\ c # 1
        BY <1>1, <1>3 DEF Escaped
    <2>2. ReadByte(r, c) = q
        BY <2>1 DEF ReadByte
    <2> QED  BY <2>1, <2>2
<1> QED  BY <1>2, <1>3

\* unescape_string gives the string that was escaped.
LEMMA Unescaped ==
    ASSUME NEW s \in Seq(Byte)
    PROVE  unescape_string(escape_string(s)) = [ok |-> TRUE, out |-> s]
<1> DEFINE e == escape_string(s)
           p == EscapedBytes(s)
           mk == Mark(s)
           first == Len(mk)
           at(k) == first + Len(UpTo(p, k))
           N == Len(s)
           state(k) == [ok |-> TRUE, esc |-> FALSE, out |-> SubSeq(s, 1, k)]
           marked == e # <<>> /\ e[1] >= Lead
           bad == marked /\ (e[1] # Lead \/ Len(e) < 2 \/ (Len(e) >= 2 /\ e[2] < Lead))
<1>1. /\ N \in Nat /\ DOMAIN s = 1 .. N /\ \A k \in 1 .. N : s[k] \in Byte
    BY LenProperties, ElementOfSeq
<1>2. /\ e \in Seq(Byte) /\ first \in {0, 1} /\ at(0) = first /\ at(N) = Len(e)
      /\ \A k \in 0 .. N : at(k) \in first .. Len(e)
      /\ \A k \in 1 .. N : at(k) = at(k - 1) + Len(Escaped(s[k]))
      /\ \A k \in 1 .. N : \A j \in 1 .. Len(Escaped(s[k])) : e[at(k - 1) + j] = Escaped(s[k])[j]
    BY EscapedAt
<1>3. e = mk \o FlattenSeq(p) /\ mk \in Seq(Byte) /\ FlattenSeq(p) \in Seq(Byte)
    BY EncodedPieces, PieceFacts, FlattenType
<1>4. Len(e) \in Nat
    BY <1>2, LenProperties
<1>5. /\ ~bad /\ first = IF marked THEN 1 ELSE 0
    <2>1. CASE s = <<>>
        <3>1. N = 0 /\ mk = <<>> /\ first = 0 /\ Len(e) = 0
            BY <1>2, <2>1 DEF Mark
        <3>2. e = <<>>
            BY <1>2, <3>1, EmptySeq
        <3> QED  BY <3>1, <3>2
    <2>2. CASE s # <<>>
        <3>1. 1 \in 1 .. N /\ s[1] \in Byte
            BY <1>1, <2>2, EmptySeq
        <3>2. /\ Len(Escaped(s[1])) \in Nat /\ 1 \in 1 .. Len(Escaped(s[1]))
              /\ Escaped(s[1])[1] = IF s[1] <= 1 THEN 1 ELSE s[1]
            BY <3>1, EscapedByte, LenProperties
        <3>3. /\ e[first + 1] = Escaped(s[1])[1] /\ first + 1 \in 1 .. Len(e)
            <4>1. at(1 - 1) = first
                BY <1>2
            <4>2. e[at(1 - 1) + 1] = Escaped(s[1])[1]
                BY <1>2, <3>1, <3>2
            <4>3. at(1) = first + Len(Escaped(s[1])) /\ at(1) \in first .. Len(e)
                <5>1. 1 \in 0 .. N
                    BY <1>1, <3>1
                <5> QED  BY <1>2, <3>1, <4>1, <5>1, Zenon
            <4> HIDE DEF at, e, first
            <4> QED  BY <1>2, <1>4, <3>2, <4>1, <4>2, <4>3
        <3>4. CASE s[1] >= Lead
            <4>1. mk = <<Lead>> /\ first = 1
                BY <2>2, <3>4 DEF Mark
            <4>2. e[1] = Lead
                <5>1. (mk \o FlattenSeq(p))[1] = mk[1]
                    <6> DEFINE h == FlattenSeq(p)
                    <6>1. h \in Seq(Byte) /\ Len(h) \in Nat /\ Len(mk) = 1
                        BY <1>3, <4>1, LenProperties
                    <6> HIDE DEF h, mk
                    <6>2. \A i \in 1 .. Len(mk) + Len(h) : (mk \o h)[i] = IF i <= Len(mk) THEN mk[i] ELSE h[i - Len(mk)]
                        BY <1>3, <6>1, ConcatProperties
                    <6>3. 1 \in 1 .. Len(mk) + Len(h) /\ 1 <= Len(mk)
                        BY <6>1
                    <6>4. (mk \o h)[1] = mk[1]
                        BY <6>2, <6>3
                    <6> QED  BY <6>4 DEF h
                <5>2. mk[1] = Lead
                    BY <4>1
                <5> QED  BY <1>3, <5>1, <5>2
            <4>3. e[2] = s[1] /\ 2 \in 1 .. Len(e)
                BY <3>1, <3>2, <3>3, <3>4, <4>1, TopFacts DEF Byte
            <4> HIDE DEF e, first
            <4>4. e # <<>> /\ ~(Len(e) < 2)
                BY <1>2, <1>4, <4>3, EmptySeq
            <4>5. e[1] >= Lead /\ ~(e[2] < Lead)
                BY <3>1, <3>4, <4>2, <4>3, TopFacts DEF Byte
            <4> QED  BY <4>1, <4>2, <4>4, <4>5
        <3>5. CASE ~(s[1] >= Lead)
            <4>1. mk = <<>> /\ first = 0
                BY <3>5 DEF Mark
            <4>2. e[1] = Escaped(s[1])[1]
                BY <3>3, <4>1
            <4>3. ~(e[1] >= Lead)
                BY <3>1, <3>2, <3>5, <4>2, TopFacts DEF Byte
            <4> QED  BY <4>1, <4>3
        <3> QED  BY <3>4, <3>5
    <2> QED  BY <2>1, <2>2
<1> DEFINE Loop(f) == Reads(f, e, first, Len(e), state(0))
           f == CHOOSE x : Loop(x)
<1>6. Loop(f)
    <2>1. Len(e) - first \in Nat /\ first + (Len(e) - first) = Len(e) /\ first \in Nat
        <3>1. at(0) \in first .. Len(e)
            BY <1>1, <1>2
        <3> QED  BY <1>2, <1>4, <3>1
    <2>2. \E x : Loop(x)
        <3> HIDE DEF e, first, state
        <3>1. \E x : Reads(x, e, first, first + (Len(e) - first), state(0))
            BY <2>1, ReadsExist
        <3> QED  BY <2>1, <3>1
    <2> HIDE DEF Loop
    <2> QED  BY <2>2
<1>7. unescape_string(e) = [ok |-> f[Len(e)].ok /\ ~f[Len(e)].esc, out |-> f[Len(e)].out]
    <2> DEFINE start == [ok |-> ~bad, esc |-> FALSE, out |-> <<>>]
               x == IF marked THEN 1 ELSE 0
               read(r, c) == ReadByte(r, c)
               g == CHOOSE y : y = [i \in x .. Len(e) |-> IF i = x THEN start ELSE read(y[i - 1], e[i])]
    <2>1. unescape_string(e) = [ok |-> g[Len(e)].ok /\ ~g[Len(e)].esc, out |-> g[Len(e)].out]
        <3> HIDE DEF e
        <3> QED  BY DEF unescape_string, ReadByte
    <2>2. start = state(0)
        <3>1. SubSeq(s, 1, 0) = <<>>
            BY SubSeqEmpty
        <3> QED  BY <1>5, <3>1
    <2>3. x = first
        BY <1>5
    <2>4. g = f
        <3> HIDE DEF e, first, state, start, x
        <3> QED  BY <2>2, <2>3 DEF Reads
    <2> QED  BY <2>1, <2>4
<1> HIDE DEF f, e, first, at, p
<1>8. /\ f[first] = state(0)
      /\ \A i \in first + 1 .. Len(e) : f[i] = ReadByte(f[i - 1], e[i])
    <2>1. first \in first .. Len(e)
        BY <1>1, <1>2
    <2>2. \A i \in first + 1 .. Len(e) : i \in first .. Len(e) /\ i # first
        BY <1>2, <1>4
    <2> QED  BY <1>6, <2>1, <2>2 DEF Reads
<1> DEFINE T == {k \in 0 .. N : f[at(k)] # state(k)}
<1>9. T = {}
    <2> SUFFICES ASSUME T # {}  PROVE FALSE
        OBVIOUS
    <2>1. 0 \notin T
        BY <1>2, <1>8
    <2>2. PICK k \in T : k \in 1 .. N /\ k - 1 \in 0 .. N /\ k - 1 \notin T
        <3> HIDE DEF state
        <3> QED  BY <1>1, <2>1, FirstFailure
    <2>3. f[at(k - 1)] = state(k - 1)
        BY <2>2
    <2> DEFINE b == Escaped(s[k])
               out == SubSeq(s, 1, k - 1)
               q == at(k - 1)
    <2>4. s[k] \in Byte /\ out \in Seq(Byte) /\ SubSeq(s, 1, k) = Append(out, s[k])
        <3>1. \A i \in 1 .. k - 1 : s[i] \in Byte
            BY <1>1, <2>2
        <3>2. out \in Seq(Byte)
            BY <2>2, <3>1, SubSeqProperties
        <3>3. s[k] \in Byte
            BY <1>1, <2>2
        <3>4. SubSeq(s, 1, k) = out \o <<s[k]>>
            <4>1. 1 \in 1 .. Len(s) /\ k \in 1 .. Len(s)
                BY <1>1, <2>2
            <4> QED  BY <4>1, SubSeqRecursiveSecond
        <3>5. Append(out, s[k]) = out \o <<s[k]>>
            BY <3>2, <3>3, AppendIsConcat
        <3> QED  BY <3>2, <3>3, <3>4, <3>5
    <2>5. q \in first .. Len(e) /\ at(k) = q + Len(b) /\ at(k) \in first .. Len(e)
        BY <1>2, <2>2
    <2>6. \A j \in 1 .. Len(b) : e[q + j] = b[j]
        BY <1>2, <2>2
    <2> DEFINE r == [ok |-> TRUE, esc |-> FALSE, out |-> out]
               z == [ok |-> TRUE, esc |-> FALSE, out |-> Append(out, s[k])]
    <2>7. \/ Len(b) = 1 /\ ReadByte(r, b[1]) = z
          \/ Len(b) = 2 /\ ReadByte(ReadByte(r, b[1]), b[2]) = z
        <3> HIDE DEF out
        <3> QED  BY <2>4, ReadsEscaped
    <2>8. f[q] = r /\ state(k) = z
        BY <2>3, <2>4
    <2> HIDE DEF r, z, b, q, out
    <2>9. CASE Len(b) = 1 /\ ReadByte(r, b[1]) = z
        <3>1. q + 1 \in first + 1 .. Len(e) /\ (q + 1) - 1 = q /\ at(k) = q + 1 /\ 1 \in 1 .. Len(b)
            BY <1>2, <1>4, <2>5, <2>9
        <3>2. f[at(k)] = z
            BY <1>8, <2>6, <2>8, <2>9, <3>1
        <3> QED  BY <2>2, <2>8, <3>2
    <2>10. CASE Len(b) = 2 /\ ReadByte(ReadByte(r, b[1]), b[2]) = z
        <3>1. /\ q + 1 \in first + 1 .. Len(e) /\ (q + 1) - 1 = q
              /\ q + 2 \in first + 1 .. Len(e) /\ (q + 2) - 1 = q + 1 /\ at(k) = q + 2
              /\ 1 \in 1 .. Len(b) /\ 2 \in 1 .. Len(b)
            BY <1>2, <1>4, <2>5, <2>10
        <3>2. f[q + 1] = ReadByte(r, b[1])
            BY <1>8, <2>6, <2>8, <3>1
        <3>3. f[q + 2] = ReadByte(f[q + 1], b[2])
            BY <1>8, <2>6, <3>1
        <3> QED  BY <2>2, <2>8, <2>10, <3>1, <3>2, <3>3
    <2> QED  BY <2>7, <2>9, <2>10
<1>10. f[Len(e)] = [ok |-> TRUE, esc |-> FALSE, out |-> s]
    <2>1. N \in 0 .. N
        BY <1>1
    <2> QED  BY <1>2, <1>9, <2>1, SubSeqFull
<1>11. unescape_string(e) = [ok |-> TRUE, out |-> s]
    <2> DEFINE all == f[Len(e)]
    <2>1. all.ok = TRUE /\ all.esc = FALSE /\ all.out = s
        BY <1>10
    <2> HIDE DEF all
    <2>2. (all.ok /\ ~all.esc) = TRUE
        BY <2>1
    <2>3. [ok |-> all.ok /\ ~all.esc, out |-> all.out] = [ok |-> TRUE, out |-> s]
        BY <2>1, <2>2, Zenon
    <2> QED  BY <1>7, <2>3 DEF all
<1> QED  BY <1>11 DEF e

\* decode_bytes gives the string that was encoded: the first zero byte is the
\* one that ends it.
LEMMA DecodedBytes ==
    ASSUME NEW s \in Seq(Byte), NEW a \in Seq(Byte), NEW z \in Seq(Byte), NEW us
    PROVE  decode_bytes(a \o (encode_bytes(s) \o z), [ok |-> TRUE, pos |-> Len(a), vals |-> us])
               = [ok |-> TRUE, pos |-> Len(a) + Len(encode_bytes(s)), vals |-> Append(us, make_bytes(s))]
<1> DEFINE b == encode_bytes(s)
           e == escape_string(s)
           data == a \o (b \o z)
           k == Len(a)
           n == Len(e)
           d == [ok |-> TRUE, pos |-> k, vals |-> us]
           ends == {p \in k + 1 .. Len(data) : data[p] = 0}
           end == CHOOSE p \in ends : \A q \in ends : p <= q
           text == SubSeq(data, k + 1, end - 1)
<1>1. e \in Seq(Byte) /\ n \in Nat /\ \A i \in 1 .. n : e[i] # 0 /\ e[i] \in Byte
    <2>1. e \in Seq(Byte) /\ \A i \in 1 .. n : e[i] # 0
        BY EscapedAt
    <2> QED  BY <2>1, LenProperties, ElementOfSeq
<1>2. b \in Seq(Byte) /\ Len(b) = n + 1 /\ b[n + 1] = 0 /\ \A i \in 1 .. n : b[i] = e[i]
    <2>1. b = e \o <<0>> /\ b \in Seq(Byte) /\ <<0>> \in Seq(Byte) /\ Len(<<0>>) = 1 /\ <<0>>[1] = 0
        BY EncodedPieces, PieceFacts DEF encode_bytes
    <2> DEFINE o == <<0>>
    <2> HIDE DEF e, o
    <2>2. /\ Len(e \o o) = n + Len(o)
          /\ \A i \in 1 .. n + Len(o) : (e \o o)[i] = IF i <= n THEN e[i] ELSE o[i - n]
        BY <1>1, <2>1, ConcatProperties DEF o
    <2>3. b = e \o o /\ Len(o) = 1 /\ o[1] = 0
        BY <2>1 DEF o, e
    <2> HIDE DEF b, n
    <2>4. n + 1 \in 1 .. n + 1 /\ ~(n + 1 <= n) /\ (n + 1) - n = 1 /\ \A i \in 1 .. n : i \in 1 .. n + 1 /\ i <= n
        BY <1>1
    <2> QED  BY <2>1, <2>2, <2>3, <2>4
<1> HIDE DEF e, b, n
<1>3. /\ data \in Seq(Byte) /\ Len(data) = k + ((n + 1) + Len(z)) /\ k \in Nat /\ Len(z) \in Nat
      /\ \A i \in 1 .. n + 1 : data[k + i] = b[i]
    <2>1. b \in Seq(Byte)
        BY <1>2
    <2>2. /\ data \in Seq(Byte) /\ Len(data) = k + (Len(b) + Len(z)) /\ k \in Nat /\ Len(z) \in Nat
          /\ \A i \in 1 .. Len(b) : data[k + i] = b[i]
        BY <2>1, Middle
    <2> QED  BY <1>2, <2>2, Zenon
<1> HIDE DEF data, k
<1>4. \A i \in 1 .. n : data[k + i] = e[i]
    <2>1. \A i \in 1 .. n : i \in 1 .. n + 1
        BY <1>1
    <2> QED  BY <1>2, <1>3, <2>1
<1>5. k + (n + 1) \in ends
    <2>1. n + 1 \in 1 .. n + 1 /\ k + (n + 1) \in k + 1 .. Len(data)
        BY <1>1, <1>3
    <2> QED  BY <1>2, <1>3, <2>1
<1>6. ASSUME NEW q \in ends  PROVE k + (n + 1) <= q
    <2>1. ASSUME ~(k + (n + 1) <= q)  PROVE FALSE
        <3>1. q - k \in 1 .. n /\ k + (q - k) = q
            BY <1>1, <1>3, <2>1
        <3>2. data[q] = e[q - k]
            BY <1>4, <3>1
        <3> QED  BY <1>1, <3>1, <3>2
    <2> QED  BY <2>1
<1>7. end = k + (n + 1)
    <2>1. end \in ends /\ \A q \in ends : end <= q
        <3> HIDE DEF ends
        <3> QED  BY <1>5, <1>6
    <2>2. end <= k + (n + 1) /\ k + (n + 1) <= end /\ end \in Int
        <3> HIDE DEF end
        <3> QED  BY <1>3, <1>5, <1>6, <2>1
    <2> HIDE DEF end
    <2> QED  BY <1>1, <1>3, <2>2
<1> HIDE DEF end
<1>8. text = e
    <2>1. k + 1 \in Int /\ end - 1 \in Int /\ end - 1 = k + n
        BY <1>1, <1>3, <1>7
    <2>2. \A i \in k + 1 .. k + n : data[i] \in Byte
        <3>1. \A i \in k + 1 .. k + n : i \in 1 .. Len(data)
            BY <1>1, <1>3
        <3> QED  BY <1>3, <3>1, ElementOfSeq
    <2>3. /\ SubSeq(data, k + 1, k + n) \in Seq(Byte)
          /\ Len(SubSeq(data, k + 1, k + n)) = IF k + 1 <= k + n THEN (k + n) - (k + 1) + 1 ELSE 0
          /\ \A i \in 1 .. (k + n) - (k + 1) + 1 : SubSeq(data, k + 1, k + n)[i] = data[(k + 1) + i - 1]
        BY <2>1, <2>2, SubSeqProperties
    <2> HIDE DEF text
    <2>4. text = SubSeq(data, k + 1, k + n)
        BY <2>1 DEF text
    <2>5. (k + n) - (k + 1) + 1 = n /\ Len(text) = n /\ \A i \in 1 .. n : (k + 1) + i - 1 = k + i
        BY <1>1, <1>3, <2>3, <2>4
    <2>6. \A i \in 1 .. Len(text) : text[i] = e[i]
        BY <1>4, <2>3, <2>4, <2>5
    <2> QED  BY <1>1, <2>3, <2>4, <2>5, <2>6, SeqEqual DEF n
<1> DEFINE u == unescape_string(text)
<1>9. u.ok = TRUE /\ u.out = s
    <2>1. u = [ok |-> TRUE, out |-> s]
        BY <1>8, Unescaped DEF e
    <2> QED  BY <2>1
<1>10. decode_bytes(data, d)
         = IF ends = {} THEN Thrown ELSE IF ~u.ok THEN Thrown
           ELSE [ok |-> TRUE, pos |-> end, vals |-> Append(us, make_bytes(u.out))]
    BY DEF decode_bytes, end
<1> HIDE DEF u, ends
<1>11. decode_bytes(data, d) = [ok |-> TRUE, pos |-> k + Len(b), vals |-> Append(us, make_bytes(s))]
    BY <1>2, <1>5, <1>7, <1>9, <1>10
<1> QED  BY <1>11 DEF data, b, k

LEMMA DecodedValue ==
    ASSUME NEW v \in Value, NEW a \in Seq(Byte), NEW z \in Seq(Byte), NEW us
    PROVE  LET data == a \o (encode_value(v) \o z)
               d == [ok |-> TRUE, pos |-> Len(a), vals |-> us]
           IN  (IF v.type = "INT_64" THEN decode_int64(data, d) ELSE decode_bytes(data, d))
                   = [ok |-> TRUE, pos |-> Len(a) + Len(encode_value(v)), vals |-> Append(us, v)]
<1>1. CASE v.type = "INT_64"
    <2>1. v.int64 \in Int64 /\ v = make_int64(v.int64) /\ encode_value(v) = encode_int64(v.int64)
        BY <1>1, ValueCases DEF make_int64, encode_value
    <2> QED  BY <1>1, <2>1, DecodedInt
<1>2. CASE v.type # "INT_64"
    <2>1. v.str \in Seq(Byte) /\ v = make_bytes(v.str) /\ encode_value(v) = encode_bytes(v.str)
        BY <1>2, ValueCases DEF make_bytes, encode_value
    <2> QED  BY <1>2, <2>1, DecodedBytes
<1> QED  BY <1>1, <1>2

\* order_preserving.cpp: decode_values reads back exactly the values that
\* encode_values wrote, whatever the integers and whatever bytes the strings
\* hold, and reads all of the bytes: neither the escapes nor the mark is lost,
\* and no value runs into the next.
THEOREM DecodesBack ==
    ASSUME NEW vals \in Seq(Value), NEW types, Len(types) = Len(vals),
           \A i \in 1 .. Len(vals) : vals[i].type = types[i]
    PROVE  decode_values(encode_values(vals), types)
               = [ok |-> TRUE, pos |-> Len(encode_values(vals)), vals |-> vals]
<1> DEFINE n == Len(vals)
           data == encode_values(vals)
           p == Encoded(vals)
           g == [i \in 0 .. n |-> [ok |-> TRUE, pos |-> Len(UpTo(p, i)), vals |-> SubSeq(vals, 1, i)]]
           read(d, type) ==
               IF ~d.ok THEN d
               ELSE IF type = "INT_64" THEN decode_int64(data, d) ELSE decode_bytes(data, d)
           start == [ok |-> TRUE, pos |-> 0, vals |-> <<>>]
           Loop(f) == f = [i \in 0 .. n |-> IF i = 0 THEN start ELSE read(f[i - 1], types[i])]
           after == CHOOSE f : Loop(f)
<1>1. n \in Nat /\ \A i \in 1 .. n : vals[i] \in Value
    BY LenProperties, ElementOfSeq
<1>2. /\ p \in Seq(Seq(Byte)) /\ Len(p) = n /\ \A i \in 1 .. n : p[i] = encode_value(vals[i])
      /\ data = FlattenSeq(p) /\ data \in Seq(Byte)
    BY EncodedTuple
<1> HIDE DEF p, data
<1>3. /\ UpTo(p, 0) = <<>> /\ UpTo(p, n) = data
      /\ \A i \in 0 .. n : UpTo(p, i) \in Seq(Byte)
      /\ \A i \in 1 .. n : UpTo(p, i) = UpTo(p, i - 1) \o p[i]
      /\ \A i \in 1 .. n : \E z \in Seq(Byte) : data = UpTo(p, i - 1) \o (p[i] \o z)
    <2>1. p \in Seq(Seq(Byte)) /\ Len(p) = n /\ data = FlattenSeq(p)
        BY <1>2
    <2> HIDE DEF n
    <2>2. /\ UpTo(p, 0) = <<>> /\ UpTo(p, Len(p)) = FlattenSeq(p)
          /\ \A i \in 0 .. Len(p) : UpTo(p, i) \in Seq(Byte)
          /\ \A i \in 1 .. Len(p) : UpTo(p, i) = UpTo(p, i - 1) \o p[i]
        BY <2>1, FlattenUpTo
    <2>3. \A i \in 1 .. Len(p) : \E z \in Seq(Byte) : FlattenSeq(p) = UpTo(p, i - 1) \o (p[i] \o z)
        BY <2>1, FlattenUpTo
    <2> QED  BY <2>1, <2>2, <2>3, Zenon
<1>4. g[0] = start
    <2>1. SubSeq(vals, 1, 0) = <<>> /\ Len(UpTo(p, 0)) = 0 /\ 0 \in 0 .. n
        BY <1>1, <1>3, SubSeqEmpty
    <2> QED  BY <2>1
<1>5. ASSUME NEW i \in 1 .. n  PROVE g[i] = read(g[i - 1], types[i])
    <2> DEFINE a == UpTo(p, i - 1)
               us == SubSeq(vals, 1, i - 1)
               v == vals[i]
               d == [ok |-> TRUE, pos |-> Len(a), vals |-> us]
    <2>1. i \in 0 .. n /\ i - 1 \in 0 .. n /\ v \in Value /\ p[i] = encode_value(v) /\ v.type = types[i]
        BY <1>1, <1>2
    <2>2. a \in Seq(Byte) /\ encode_value(v) \in Seq(Byte)
        BY <1>3, <2>1, EncodedValue
    <2>3. PICK z \in Seq(Byte) : data = a \o (encode_value(v) \o z)
        BY <1>3, <2>1
    <2>4. g[i - 1] = d /\ g[i] = [ok |-> TRUE, pos |-> Len(UpTo(p, i)), vals |-> SubSeq(vals, 1, i)]
        BY <2>1
    <2>5. Len(UpTo(p, i)) = Len(a) + Len(encode_value(v))
        <3>1. UpTo(p, i) = a \o encode_value(v)
            BY <1>3, <2>1
        <3> HIDE DEF a, v
        <3> QED  BY <2>2, <3>1, ConcatProperties
    <2>6. SubSeq(vals, 1, i) = Append(us, v)
        <3>1. \A j \in 1 .. i - 1 : vals[j] \in Value
            BY <1>1
        <3>2. us \in Seq(Value)
            BY <2>1, <3>1, SubSeqProperties
        <3>3. SubSeq(vals, 1, i) = us \o <<v>>
            <4>1. 1 \in 1 .. n /\ i \in 1 .. n
                BY <1>1
            <4> QED  BY <4>1, SubSeqRecursiveSecond
        <3> HIDE DEF us, v
        <3>4. Append(us, v) = us \o <<v>>
            BY <2>1, <3>2, AppendIsConcat
        <3> QED  BY <3>3, <3>4
    <2> HIDE DEF a, us, v, g
    <2>7. (IF v.type = "INT_64" THEN decode_int64(data, d) ELSE decode_bytes(data, d))
              = [ok |-> TRUE, pos |-> Len(a) + Len(encode_value(v)), vals |-> Append(us, v)]
        BY <2>1, <2>2, <2>3, DecodedValue
    <2>8. d.ok
        OBVIOUS
    <2>9. read(d, types[i]) = [ok |-> TRUE, pos |-> Len(a) + Len(encode_value(v)), vals |-> Append(us, v)]
        <3> HIDE DEF d
        <3> QED  BY <2>1, <2>7, <2>8
    <2> QED  BY <2>4, <2>5, <2>6, <2>9
<1> HIDE DEF read, start
<1>6. Loop(g)
    <2>1. ASSUME NEW i \in 0 .. n  PROVE g[i] = IF i = 0 THEN start ELSE read(g[i - 1], types[i])
        <3>1. CASE i = 0
            BY <1>4, <3>1
        <3>2. CASE i # 0
            <4>1. i \in 1 .. n
                BY <1>1, <3>2
            <4> QED  BY <1>5, <3>2, <4>1
        <3> QED  BY <3>1, <3>2
    <2>2. g = [i \in 0 .. n |-> g[i]]
        OBVIOUS
    <2> HIDE DEF g
    <2> QED  BY <2>1, <2>2
<1> HIDE DEF g
<1>7. Loop(after)
    <2> HIDE DEF Loop
    <2> QED  BY <1>6
<1> HIDE DEF after
<1>8. after[n] = g[n]
    <2> DEFINE T == {i \in 0 .. n : after[i] # g[i]}
    <2>1. T = {}
        <3> SUFFICES ASSUME T # {}  PROVE FALSE
            OBVIOUS
        <3>1. 0 \in 0 .. n
            BY <1>1
        <3>2. after[0] = start
            BY <1>7, <3>1
        <3>3. PICK i \in T : i \in 1 .. n /\ i - 1 \in 0 .. n /\ i - 1 \notin T
            <4>1. 0 \notin T
                BY <1>4, <3>2
            <4> QED  BY <1>1, <4>1, FirstFailure
        <3>4. i \in 0 .. n /\ i # 0
            BY <3>3
        <3>5. after[i] = read(after[i - 1], types[i])
            BY <1>7, <3>4
        <3>6. after[i - 1] = g[i - 1] /\ after[i] # g[i]
            BY <3>3
        <3> QED  BY <1>5, <3>3, <3>5, <3>6
    <2>2. n \in 0 .. n
        BY <1>1
    <2> QED  BY <2>1, <2>2
<1>9. after[n] = [ok |-> TRUE, pos |-> Len(data), vals |-> vals]
    <2>1. n \in 0 .. n
        BY <1>1
    <2> QED  BY <1>3, <1>8, <2>1, SubSeqFull DEF g
<1>10. decode_values(data, types) = IF after[n].ok /\ after[n].pos = Len(data) THEN after[n] ELSE Thrown
    <2> HIDE DEF data
    <2> QED  BY DEF decode_values, after, read, start
<1>11. after[n].ok /\ after[n].pos = Len(data)
    BY <1>9
<1>12. decode_values(data, types) = [ok |-> TRUE, pos |-> Len(data), vals |-> vals]
    BY <1>9, <1>10, <1>11, Zenon
<1> QED  BY <1>12 DEF data

-----------------------------------------------------------------------------
(* The key that is closest to a bound *)

LEMMA BelowTransitive ==
    ASSUME NEW s \in Seq(Byte), NEW t \in Seq(Byte), NEW u \in Seq(Byte), Below(s, t), Below(t, u)
    PROVE  Below(s, u)
<1>1. /\ Len(s) \in Nat /\ DOMAIN s = 1 .. Len(s) /\ Len(t) \in Nat /\ DOMAIN t = 1 .. Len(t)
      /\ Len(u) \in Nat /\ DOMAIN u = 1 .. Len(u)
    BY LenProperties
<1>2. /\ \A i \in 1 .. Len(s) : s[i] \in Int
      /\ \A i \in 1 .. Len(t) : t[i] \in Int
      /\ \A i \in 1 .. Len(u) : u[i] \in Int
    BY ElementOfSeq, TopFacts DEF Byte
<1>3. PICK i \in DOMAIN s \cap DOMAIN t : s[i] < t[i] /\ \A j \in 1 .. i - 1 : s[j] = t[j]
    BY DEF Below
<1>4. PICK k \in DOMAIN t \cap DOMAIN u : t[k] < u[k] /\ \A j \in 1 .. k - 1 : t[j] = u[j]
    BY DEF Below
<1>5. i \in 1 .. Len(s) /\ i \in 1 .. Len(t) /\ k \in 1 .. Len(t) /\ k \in 1 .. Len(u) /\ i \in Nat /\ k \in Nat
    BY <1>1, <1>3, <1>4
<1>6. CASE i <= k
    <2>1. i \in 1 .. Len(u) /\ i \in DOMAIN s \cap DOMAIN u
        BY <1>1, <1>5, <1>6
    <2>2. s[i] < u[i]
        <3>1. CASE i = k
            BY <1>2, <1>3, <1>4, <1>5, <3>1
        <3>2. CASE i # k
            <4>1. i \in 1 .. k - 1
                BY <1>5, <1>6, <3>2
            <4> QED  BY <1>3, <1>4, <4>1
        <3> QED  BY <3>1, <3>2
    <2>3. \A j \in 1 .. i - 1 : s[j] = u[j]
        <3> TAKE j \in 1 .. i - 1
        <3>1. j \in 1 .. k - 1
            BY <1>5, <1>6
        <3> QED  BY <1>3, <1>4, <3>1
    <2> QED  BY <2>1, <2>2, <2>3 DEF Below
<1>7. CASE ~(i <= k)
    <2>1. k \in 1 .. Len(s) /\ k \in DOMAIN s \cap DOMAIN u /\ k \in 1 .. i - 1
        BY <1>1, <1>5, <1>7
    <2>2. s[k] < u[k]
        BY <1>3, <1>4, <2>1
    <2>3. \A j \in 1 .. k - 1 : s[j] = u[j]
        <3> TAKE j \in 1 .. k - 1
        <3>1. j \in 1 .. i - 1
            BY <1>5, <1>7
        <3> QED  BY <1>3, <1>4, <3>1
    <2> QED  BY <2>1, <2>2, <2>3 DEF Below
<1> QED  BY <1>6, <1>7

\* The order of strings, from that of their encodings.
LEMMA BytesLessOrder ==
    ASSUME NEW s \in Seq(Byte), NEW t \in Seq(Byte), NEW u \in Seq(Byte)
    PROVE  /\ ~BytesLess(s, s)
           /\ BytesLess(s, t) => ~BytesLess(t, s)
           /\ BytesLess(s, t) /\ BytesLess(t, u) => BytesLess(s, u)
<1> DEFINE a == encode_bytes(s)
           b == encode_bytes(t)
           c == encode_bytes(u)
<1>1. a \in Seq(Byte) /\ b \in Seq(Byte) /\ c \in Seq(Byte)
    BY EncodedPieces
<1>2. /\ BytesLess(s, s) => Below(a, a)
      /\ BytesLess(s, t) => Below(a, b)
      /\ BytesLess(t, s) => Below(b, a)
      /\ BytesLess(t, u) => Below(b, c)
      /\ BytesLess(u, s) => Below(c, a)
    BY StringsOrder
<1> HIDE DEF a, b, c
<1>3. ASSUME NEW x \in Seq(Byte), NEW y \in Seq(Byte), Below(x, y)  PROVE ~Below(y, x)
    BY <1>3, BelowLess
<1>4. ASSUME BytesLess(s, t), BytesLess(t, u)  PROVE BytesLess(s, u)
    <2>1. Below(a, c)
        BY <1>1, <1>2, <1>4, BelowTransitive
    <2>2. a # c /\ ~Below(c, a)
        BY <1>1, <2>1, BelowLess
    <2>3. s # u /\ ~BytesLess(u, s)
        BY <1>2, <2>2 DEF a, c
    <2> QED  BY <2>3, StringsTotal
<1> QED  BY <1>1, <1>2, <1>3, <1>4

\* The order of a scan.
Before(forward, s, t) == IF forward THEN BytesLess(s, t) ELSE BytesLess(t, s)

LEMMA BeforeOrder ==
    ASSUME NEW forward \in BOOLEAN, NEW s \in Seq(Byte), NEW t \in Seq(Byte), NEW u \in Seq(Byte)
    PROVE  /\ ~Before(forward, s, s)
           /\ Before(forward, s, t) => ~Before(forward, t, s)
           /\ Before(forward, s, t) /\ Before(forward, t, u) => Before(forward, s, u)
           /\ s = t \/ Before(forward, s, t) \/ Before(forward, t, s)
BY BytesLessOrder, StringsTotal DEF Before

\* A finite set of strings has a first one.
LEMMA FirstOfStrings ==
    ASSUME NEW forward \in BOOLEAN, NEW K \in SUBSET Seq(Byte), IsFiniteSet(K), K # {}
    PROVE  \E k \in K : \A x \in K : ~Before(forward, x, k)
<1> DEFINE Bad(S) == S \in SUBSET K /\ S # {} /\ ~ \E k \in S : \A x \in S : ~Before(forward, x, k)
           T == {n \in Nat : \E S \in SUBSET K : Bad(S) /\ Cardinality(S) = n}
<1>1. \A S \in SUBSET K : IsFiniteSet(S) /\ Cardinality(S) \in Nat
    BY FS_Subset, FS_CardinalityType
<1>2. T = {}
    <2> SUFFICES ASSUME T # {}  PROVE FALSE
        OBVIOUS
    <2>1. PICK n \in T : \A m \in T : n <= m
        <3>1. T \in SUBSET Nat
            OBVIOUS
        <3> HIDE DEF T
        <3> QED  BY <3>1, Least
    <2>2. PICK S \in SUBSET K : Bad(S) /\ Cardinality(S) = n
        BY <2>1
    <2>3. PICK y \in S : TRUE
        BY <2>2
    <2> DEFINE R == S \ {y}
    <2>4. R \in SUBSET K /\ Cardinality(R) \in Nat /\ Cardinality(R) < n
        <3>1. Cardinality(R) = Cardinality(S) - 1
            BY <1>1, <2>3, FS_RemoveElement
        <3>2. R \in SUBSET K
            OBVIOUS
        <3>3. Cardinality(S) \in Nat /\ Cardinality(S) = n
            BY <1>1, <2>2
        <3>4. Cardinality(R) \in Nat
            BY <1>1, <3>2
        <3> HIDE DEF R, T
        <3> QED  BY <3>1, <3>2, <3>3, <3>4
    <2>5. ~Bad(R)
        <3>1. ASSUME Bad(R)  PROVE FALSE
            <4>1. Cardinality(R) \in T
                BY <2>4, <3>1
            <4>2. n <= Cardinality(R) /\ n \in Nat
                BY <2>1, <4>1
            <4> QED  BY <2>4, <4>2
        <3> QED  BY <3>1
    <2>6. \A x \in S : x \in Seq(Byte)
        BY <2>2
    <2>7. ~Before(forward, y, y)
        BY <2>3, <2>6, BeforeOrder
    <2>8. CASE R = {}
        <3>1. \A x \in S : x = y
            BY <2>8
        <3> QED  BY <2>2, <2>3, <2>7, <3>1
    <2>9. CASE R # {}
        <3>1. PICK k \in R : \A x \in R : ~Before(forward, x, k)
            BY <2>4, <2>5, <2>9
        <3>2. k \in S /\ k \in Seq(Byte) /\ y \in Seq(Byte)
            BY <2>3, <2>6, <3>1
        <3>3. CASE ~Before(forward, y, k)
            <4>1. \A x \in S : ~Before(forward, x, k)
                BY <3>1, <3>3
            <4> QED  BY <2>2, <3>2, <4>1
        <3>4. CASE Before(forward, y, k)
            <4>1. \A x \in S : ~Before(forward, x, y)
                <5> TAKE x \in S
                <5>1. CASE x = y
                    BY <2>7, <5>1
                <5>2. CASE x # y
                    <6>1. ~Before(forward, x, k) /\ x \in Seq(Byte)
                        BY <2>6, <3>1, <5>2
                    <6> QED  BY <3>2, <3>4, <6>1, BeforeOrder
                <5> QED  BY <5>1, <5>2
            <4> QED  BY <2>2, <2>3, <4>1
        <3> QED  BY <3>3, <3>4
    <2> QED  BY <2>8, <2>9
<1>3. ~Bad(K)
    <2>1. ASSUME Bad(K)  PROVE FALSE
        <3>1. Cardinality(K) \in T
            BY <1>1, <2>1
        <3> QED  BY <1>2, <3>1
    <2> QED  BY <2>1
<1> QED  BY <1>3

\* seek to a key that is there gives it, and seek to one that is not gives
\* another, or none.
LEMMA SeekAt ==
    ASSUME NEW key \in Seq(Byte), DOMAIN kv \subseteq Seq(Byte), IsFiniteSet(DOMAIN kv)
    PROVE  LET at == seek(key, "GE")
           IN  /\ key \in DOMAIN kv => at = key
               /\ key \notin DOMAIN kv => at = NoKey \/ BytesLess(key, at)
<1> DEFINE fits == {k \in DOMAIN kv : cmp_ok(k, "GE", key)}
           at == seek(key, "GE")
<1>1. \A k : cmp_ok(k, "GE", key) <=> ~BytesLess(k, key)
    BY DEF cmp_ok
<1>2. at = IF fits = {} THEN NoKey ELSE CHOOSE k \in fits : \A x \in fits : ~BytesLess(x, k)
    BY DEF seek, Forward
<1>3. fits \in SUBSET Seq(Byte) /\ IsFiniteSet(fits)
    BY FS_Subset
<1>4. \A k : k \in fits <=> k \in DOMAIN kv /\ ~BytesLess(k, key)
    BY <1>1
<1> HIDE DEF fits, at
<1>5. ASSUME fits # {}  PROVE at \in fits /\ \A x \in fits : ~BytesLess(x, at)
    <2>1. \E k \in fits : \A x \in fits : ~BytesLess(x, k)
        BY <1>3, <1>5, FirstOfStrings DEF Before
    <2> QED  BY <1>2, <1>5, <2>1
<1>6. ASSUME key \in DOMAIN kv  PROVE at = key
    <2>1. key \in fits
        BY <1>4, <1>6, BytesLessOrder
    <2>2. at \in fits /\ ~BytesLess(key, at)
        BY <1>5, <2>1
    <2>3. at \in Seq(Byte) /\ ~BytesLess(at, key)
        BY <1>3, <1>4, <2>2
    <2> QED  BY <2>2, <2>3, StringsTotal
<1>7. ASSUME key \notin DOMAIN kv, at # NoKey  PROVE BytesLess(key, at)
    <2>1. fits # {}
        BY <1>2, <1>7
    <2>2. at \in DOMAIN kv /\ at \in Seq(Byte) /\ ~BytesLess(at, key)
        BY <1>3, <1>4, <1>5, <2>1
    <2> QED  BY <1>7, <2>2, StringsTotal
<1> QED  BY <1>6, <1>7 DEF at

-----------------------------------------------------------------------------
(* The keys of a row *)

Columns == DOMAIN Def.types

LEMMA PrefixFacts ==
    /\ PrefixBytes \in Nat /\ PrefixBytes >= 1
    /\ \A p \in Prefix : BigEndian(PrefixBytes, p) \in Seq(Byte) /\ Len(BigEndian(PrefixBytes, p)) = PrefixBytes
BY PrefixAssumption, BytesOf DEF Prefix

\* The columns of the primary key, the others, and those of the indexes.
LEMMA DefFacts ==
    /\ Def.cols \in Seq(Columns) /\ Len(Def.cols) \in Nat /\ Def.pkeys \in 1 .. Len(Def.cols)
    /\ Pk(Def) \in Seq(Columns) /\ Len(Pk(Def)) = Def.pkeys
    /\ \A i \in 1 .. Def.pkeys : Pk(Def)[i] = Def.cols[i]
    /\ NonKeyCols \in Seq(Columns) /\ Len(NonKeyCols) = Len(Def.cols) - Def.pkeys
    /\ \A i \in 1 .. Len(Def.cols) - Def.pkeys : NonKeyCols[i] = Def.cols[Def.pkeys + i]
    /\ \A i \in DOMAIN Def.indexes : Def.indexes[i] \in Seq(Columns)
<1> DEFINE cols == Def.cols
           n == Len(cols)
           m == Def.pkeys
           v == SubSeq(cols, 1, m)
           r == SubSeq(cols, m + 1, n)
<1>1. cols \in Seq(Columns) /\ m \in 1 .. n /\ n \in Nat /\ \A i \in 1 .. n : cols[i] \in Columns
    BY DefAssumption, LenProperties, ElementOfSeq DEF Columns
<1> HIDE DEF n, m, cols
<1>2. m \in Nat /\ m \in Int /\ m + 1 \in Int /\ n \in Int /\ m <= n /\ 1 <= m
    BY <1>1
<1>3. v \in Seq(Columns) /\ Len(v) = m /\ \A i \in 1 .. m : v[i] = cols[i]
    <2>1. \A i \in 1 .. m : cols[i] \in Columns
        BY <1>1
    <2>2. /\ v \in Seq(Columns) /\ Len(v) = IF 1 <= m THEN m - 1 + 1 ELSE 0
          /\ \A i \in 1 .. m - 1 + 1 : v[i] = cols[1 + i - 1]
        BY <1>2, <2>1, SubSeqProperties
    <2> HIDE DEF v
    <2> QED  BY <1>2, <2>2
<1>4. r \in Seq(Columns) /\ Len(r) = n - m /\ \A i \in 1 .. n - m : r[i] = cols[m + i]
    <2>1. \A i \in m + 1 .. n : cols[i] \in Columns
        BY <1>1, <1>2
    <2>2. /\ r \in Seq(Columns) /\ Len(r) = IF m + 1 <= n THEN n - (m + 1) + 1 ELSE 0
          /\ \A i \in 1 .. n - (m + 1) + 1 : r[i] = cols[(m + 1) + i - 1]
        BY <1>2, <2>1, SubSeqProperties
    <2> HIDE DEF r
    <2>3. n - (m + 1) + 1 = n - m
        BY <1>2
    <2>4. Len(r) = n - m
        BY <1>2, <2>2, <2>3
    <2>5. \A i \in 1 .. n - m : (m + 1) + i - 1 = m + i
        BY <1>2
    <2> QED  BY <2>2, <2>3, <2>4, <2>5
<1>5. Pk(Def) = v /\ NonKeyCols = r
    BY DEF Pk, NonKeyCols, cols, m, n
<1>6. \A i \in DOMAIN Def.indexes : Def.indexes[i] \in Seq(Columns)
    <2>1. Def.indexes \in Seq(Seq(Columns))
        BY DefAssumption DEF Columns
    <2> QED  BY <2>1, LenProperties, ElementOfSeq
<1> QED  BY <1>1, <1>3, <1>4, <1>5, <1>6 DEF n, m, cols

\* The values of a row in some of its columns.
LEMMA RowValues ==
    ASSUME NEW r \in Recs, NEW cols \in Seq(Columns)
    PROVE  /\ ValuesOf(r, cols) \in Seq(Value) /\ Len(ValuesOf(r, cols)) = Len(cols)
           /\ \A i \in 1 .. Len(cols) : ValuesOf(r, cols)[i] = r[cols[i]] /\ r[cols[i]].type = Def.types[cols[i]]
<1> DEFINE v == ValuesOf(r, cols)
           n == Len(cols)
<1>1. n \in Nat /\ DOMAIN cols = 1 .. n /\ \A i \in 1 .. n : cols[i] \in Columns
    BY LenProperties, ElementOfSeq
<1>2. r \in [Columns -> Value] /\ \A c \in Columns : r[c].type = Def.types[c]
    BY RecsAssumption DEF Columns, check_record
<1>3. v = [i \in 1 .. n |-> r[cols[i]]]
    BY <1>1 DEF ValuesOf
<1>4. v \in [1 .. n -> Value]
    BY <1>1, <1>2, <1>3
<1>5. v \in Seq(Value) /\ Len(v) = n
    <2> HIDE DEF v, n
    <2> QED  BY <1>1, <1>4
<1>6. \A i \in 1 .. n : v[i] = r[cols[i]] /\ r[cols[i]].type = Def.types[cols[i]]
    <2> HIDE DEF v, n
    <2> QED  BY <1>1, <1>2, <1>3
<1> QED  BY <1>5, <1>6

LEMMA KeyFacts ==
    ASSUME NEW p \in Prefix, NEW u \in Seq(Value)
    PROVE  LET key == encode_key(p, u)
           IN  /\ key \in Seq(Byte) /\ key # NoKey
               /\ SubSeq(key, PrefixBytes + 1, Len(key)) = encode_values(u)
<1> DEFINE c == BigEndian(PrefixBytes, p)
           e == encode_values(u)
           n == PrefixBytes
           key == c \o e
           text == SubSeq(key, n + 1, Len(key))
<1>1. n \in Nat /\ n >= 1 /\ c \in Seq(Byte) /\ Len(c) = n /\ e \in Seq(Byte) /\ Len(e) \in Nat
    BY PrefixFacts, EncodedTuple, LenProperties
<1> HIDE DEF c, e, n
<1>2. /\ key \in Seq(Byte) /\ Len(key) = n + Len(e)
      /\ \A i \in 1 .. n + Len(e) : key[i] = IF i <= n THEN c[i] ELSE e[i - n]
    <2>1. /\ key \in Seq(Byte) /\ Len(key) = Len(c) + Len(e)
          /\ \A i \in 1 .. Len(c) + Len(e) : key[i] = IF i <= Len(c) THEN c[i] ELSE e[i - Len(c)]
        BY <1>1, ConcatProperties
    <2> QED  BY <1>1, <2>1, Zenon
<1> HIDE DEF key
<1>3. key # <<>>
    <2>1. Len(key) >= 1
        BY <1>1, <1>2
    <2> QED  BY <2>1, EmptySeq
<1>4. text = e
    <2>1. \A i \in n + 1 .. n + Len(e) : key[i] \in Byte
        <3>1. \A i \in n + 1 .. n + Len(e) : i \in 1 .. Len(key)
            BY <1>1, <1>2
        <3> QED  BY <1>2, <3>1, ElementOfSeq
    <2>2. n + 1 \in Int /\ n + Len(e) \in Int
        BY <1>1
    <2>3. /\ SubSeq(key, n + 1, n + Len(e)) \in Seq(Byte)
          /\ Len(SubSeq(key, n + 1, n + Len(e))) = IF n + 1 <= n + Len(e) THEN (n + Len(e)) - (n + 1) + 1 ELSE 0
          /\ \A i \in 1 .. (n + Len(e)) - (n + 1) + 1 : SubSeq(key, n + 1, n + Len(e))[i] = key[(n + 1) + i - 1]
        BY <2>1, <2>2, SubSeqProperties
    <2>4. text = SubSeq(key, n + 1, n + Len(e))
        BY <1>2
    <2> HIDE DEF text
    <2>5. /\ (n + Len(e)) - (n + 1) + 1 = Len(e) /\ Len(text) = Len(e)
        BY <1>1, <2>3, <2>4
    <2>6. \A i \in 1 .. Len(e) : /\ (n + 1) + i - 1 \in 1 .. n + Len(e) /\ ~((n + 1) + i - 1 <= n)
                                 /\ ((n + 1) + i - 1) - n = i
        BY <1>1
    <2>7. \A i \in 1 .. Len(text) : text[i] = e[i]
        BY <1>2, <2>3, <2>4, <2>5, <2>6
    <2> QED  BY <1>1, <2>3, <2>4, <2>5, <2>7, SeqEqual
<1> QED  BY <1>2, <1>3, <1>4 DEF key, c, e, n, encode_key, NoKey

\* Keys of different prefixes differ, and keys of one prefix differ if the values do.
LEMMA KeysApart ==
    ASSUME NEW p \in Prefix, NEW q \in Prefix, NEW u \in Seq(Value), NEW v \in Seq(Value),
           encode_key(p, u) = encode_key(q, v)
    PROVE  p = q /\ (SameTypes(u, v) => u = v)
<1>1. ASSUME NEW x \in Prefix, NEW y \in Prefix, NEW a \in Seq(Value), NEW b \in Seq(Value), x < y
      PROVE  encode_key(x, a) # encode_key(y, b)
    <2> DEFINE c == BigEndian(PrefixBytes, x)
               d == BigEndian(PrefixBytes, y)
    <2>1. c \in Seq(Byte) /\ d \in Seq(Byte) /\ encode_values(a) \in Seq(Byte) /\ encode_values(b) \in Seq(Byte)
        BY PrefixFacts, EncodedTuple
    <2>2. Below(c, d)
        BY <1>1, PrefixFacts, BytesOrder DEF Prefix
    <2> HIDE DEF c, d
    <2>3. Below(c \o encode_values(a), d \o encode_values(b))
        BY <2>1, <2>2, BelowConcat
    <2>4. c \o encode_values(a) \in Seq(Byte) /\ d \o encode_values(b) \in Seq(Byte)
        BY <2>1, ConcatProperties
    <2> QED  BY <2>3, <2>4, BelowLess DEF encode_key, c, d
<1>2. p = q \/ p < q \/ q < p
    <2>1. p \in Int /\ q \in Int
        BY PrefixFacts, PowNext DEF Prefix
    <2> QED  BY <2>1
<1>3. p = q
    BY <1>1, <1>2
<1>4. encode_values(u) = encode_values(v)
    BY KeyFacts
<1> QED  BY <1>3, <1>4, OrderPreserved

LEMMA RowKeys ==
    ASSUME NEW r \in Recs, NEW s \in Recs
    PROVE  /\ row_key(r) \in Seq(Byte) /\ row_key(r) # NoKey
           /\ row_key(r) = row_key(s) <=> SameKey(r, s)
<1> DEFINE u == ValuesOf(r, Pk(Def))
           v == ValuesOf(s, Pk(Def))
           cols == Pk(Def)
<1>1. Def.prefix \in Prefix /\ cols \in Seq(Columns)
    BY DefAssumption, DefFacts
<1> HIDE DEF cols
<1>2. /\ u \in Seq(Value) /\ Len(u) = Len(cols) /\ \A i \in 1 .. Len(cols) : u[i].type = Def.types[cols[i]]
      /\ v \in Seq(Value) /\ Len(v) = Len(cols) /\ \A i \in 1 .. Len(cols) : v[i].type = Def.types[cols[i]]
    <2> HIDE DEF u, v
    <2>1. u = ValuesOf(r, cols) /\ v = ValuesOf(s, cols)
        BY DEF u, v, cols
    <2> QED  BY <1>1, <2>1, RowValues
<1> HIDE DEF u, v
<1>3. SameTypes(u, v)
    BY <1>2 DEF SameTypes
<1>4. row_key(r) = encode_key(Def.prefix, u) /\ row_key(s) = encode_key(Def.prefix, v)
    BY DEF row_key, u, v
<1>5. row_key(r) = row_key(s) => u = v
    BY <1>1, <1>2, <1>3, <1>4, KeysApart
<1>6. u = v => row_key(r) = row_key(s)
    BY <1>4
<1>7. row_key(r) \in Seq(Byte) /\ row_key(r) # NoKey
    BY <1>1, <1>2, <1>4, KeyFacts
<1> QED  BY <1>5, <1>6, <1>7 DEF SameKey, u, v

\* The index entries of a row: none is a key of a row or of another table, and
\* no two rows share one, since the primary key's columns are in every index.
LEMMA IndexEntries ==
    ASSUME NEW r \in Recs, NEW s \in Recs
    PROVE  /\ IndexKeys(r) \subseteq Seq(Byte) /\ IsFiniteSet(IndexKeys(r))
           /\ row_key(s) \notin IndexKeys(r)
           /\ IndexKeys(r) \cap IndexKeys(s) # {} => SameKey(r, s)
<1> DEFINE D == DOMAIN Def.indexes
           cols(i) == Def.indexes[i]
           key(i) == encode_key(Def.index_prefixes[i], ValuesOf(r, cols(i)))
           other(i) == encode_key(Def.index_prefixes[i], ValuesOf(s, cols(i)))
<1>1. ASSUME NEW i \in D
      PROVE  /\ cols(i) \in Seq(Columns) /\ Def.index_prefixes[i] \in Prefix /\ Def.index_prefixes[i] # Def.prefix
             /\ ValuesOf(r, cols(i)) \in Seq(Value) /\ ValuesOf(s, cols(i)) \in Seq(Value)
             /\ SameTypes(ValuesOf(r, cols(i)), ValuesOf(s, cols(i)))
    <2>1. cols(i) \in Seq(Columns) /\ Def.index_prefixes[i] \in Prefix /\ Def.index_prefixes[i] # Def.prefix
        BY DefAssumption, DefFacts
    <2> DEFINE c == cols(i)
               u == ValuesOf(r, c)
               v == ValuesOf(s, c)
    <2> HIDE DEF c
    <2>2. c \in Seq(Columns)
        BY <2>1 DEF c
    <2>3. /\ u \in Seq(Value) /\ Len(u) = Len(c) /\ \A j \in 1 .. Len(c) : u[j].type = Def.types[c[j]]
          /\ v \in Seq(Value) /\ Len(v) = Len(c) /\ \A j \in 1 .. Len(c) : v[j].type = Def.types[c[j]]
        BY <2>2, RowValues
    <2>4. SameTypes(u, v)
        <3> HIDE DEF u, v
        <3> QED  BY <2>3 DEF SameTypes
    <2> QED  BY <2>1, <2>3, <2>4 DEF c
<1>2. IndexKeys(r) = {key(i) : i \in D} /\ IndexKeys(s) = {other(i) : i \in D}
    BY DEF IndexKeys
<1>3. IndexKeys(r) \subseteq Seq(Byte)
    <2>1. \A i \in D : key(i) \in Seq(Byte)
        BY <1>1, KeyFacts
    <2> QED  BY <1>2, <2>1
<1>4. IsFiniteSet(IndexKeys(r))
    <2> DEFINE n == Len(Def.indexes)
               f == [i \in 1 .. n |-> key(i)]
    <2>1. n \in Nat /\ D = 1 .. n
        BY DefAssumption, LenProperties
    <2>2. IndexKeys(r) = {f[i] : i \in 1 .. n}
        BY <1>2, <2>1
    <2>3. f \in Surjection(1 .. n, IndexKeys(r))
        <3> HIDE DEF f, n
        <3>1. f \in [1 .. n -> IndexKeys(r)]
            BY <2>2 DEF f
        <3> QED  BY <2>2, <3>1 DEF Surjection
    <2> HIDE DEF f, n
    <2> QED  BY <2>1, <2>3, FS_NatSurjection DEF ExistsSurjection
<1>5. row_key(s) \notin IndexKeys(r)
    <2>1. ASSUME NEW i \in D, row_key(s) = key(i)  PROVE FALSE
        <3>1. Def.prefix \in Prefix /\ Pk(Def) \in Seq(Columns)
            BY DefAssumption, DefFacts
        <3>2. ValuesOf(s, Pk(Def)) \in Seq(Value)
            BY <3>1, RowValues
        <3> QED  BY <1>1, <2>1, <3>1, <3>2, KeysApart DEF row_key
    <2> QED  BY <1>2, <2>1
<1>6. ASSUME NEW i \in D, NEW j \in D, key(i) = other(j)  PROVE SameKey(r, s)
    <2>1. Def.index_prefixes[i] = Def.index_prefixes[j]
        BY <1>1, <1>6, KeysApart
    <2>2. i = j
        BY <2>1, DefAssumption
    <2>3. ValuesOf(r, cols(i)) = ValuesOf(s, cols(i))
        BY <1>1, <1>6, <2>2, KeysApart
    <2>4. \A c \in ToSet(cols(i)) : r[c] = s[c]
        <3> DEFINE x == cols(i)
        <3>1. x \in Seq(Columns) /\ DOMAIN x = 1 .. Len(x) /\ ValuesOf(r, x) = ValuesOf(s, x)
            BY <1>1, <2>3, LenProperties
        <3> HIDE DEF x
        <3>2. \A k \in 1 .. Len(x) : ValuesOf(r, x)[k] = r[x[k]] /\ ValuesOf(s, x)[k] = s[x[k]]
            BY <3>1, RowValues
        <3>3. \A k \in 1 .. Len(x) : r[x[k]] = s[x[k]]
            BY <3>1, <3>2
        <3> QED  BY <3>1, <3>3 DEF ToSet, x
    <2>5. \A c \in ToSet(Pk(Def)) : r[c] = s[c]
        BY <2>4, DefAssumption
    <2>6. \A k \in DOMAIN Pk(Def) : r[Pk(Def)[k]] = s[Pk(Def)[k]]
        BY <2>5 DEF ToSet
    <2> QED  BY <2>6 DEF SameKey, ValuesOf
<1> QED  BY <1>2, <1>3, <1>4, <1>5, <1>6

LEMMA OtherTables ==
    /\ Others \subseteq Seq(Byte) /\ IsFiniteSet(Others)
    /\ \A r \in Recs : row_key(r) \notin Others /\ IndexKeys(r) \cap Others = {}
<1>1. \A o \in OtherKeys :
         /\ o.prefix \in Prefix /\ o.vals \in Seq(Value)
         /\ o.prefix # Def.prefix /\ \A i \in DOMAIN Def.indexes : o.prefix # Def.index_prefixes[i]
    BY OthersAssumption
<1>2. Others \subseteq Seq(Byte)
    BY <1>1, KeyFacts DEF Others
<1>3. IsFiniteSet(Others)
    <2> DEFINE f == [o \in OtherKeys |-> encode_key(o.prefix, o.vals)]
    <2>1. Others = {f[o] : o \in OtherKeys}
        BY DEF Others
    <2>2. f \in Surjection(OtherKeys, Others)
        <3>1. f \in [OtherKeys -> Others]
            BY DEF Others
        <3> HIDE DEF f
        <3> QED  BY <2>1, <3>1 DEF Surjection
    <2> HIDE DEF f
    <2> QED  BY <2>2, OthersAssumption, FS_Surjection
<1>4. ASSUME NEW r \in Recs  PROVE row_key(r) \notin Others
    <2>1. ASSUME NEW o \in OtherKeys, row_key(r) = encode_key(o.prefix, o.vals)  PROVE FALSE
        <3>1. Def.prefix \in Prefix /\ Pk(Def) \in Seq(Columns)
            BY DefAssumption, DefFacts
        <3>2. ValuesOf(r, Pk(Def)) \in Seq(Value)
            BY <3>1, RowValues
        <3> QED  BY <1>1, <2>1, <3>1, <3>2, KeysApart DEF row_key
    <2> QED  BY <2>1 DEF Others
<1>5. ASSUME NEW r \in Recs  PROVE IndexKeys(r) \cap Others = {}
    <2>1. ASSUME NEW o \in OtherKeys, NEW i \in DOMAIN Def.indexes,
                 encode_key(Def.index_prefixes[i], ValuesOf(r, Def.indexes[i])) = encode_key(o.prefix, o.vals)
          PROVE  FALSE
        <3>1. Def.index_prefixes[i] \in Prefix /\ Def.indexes[i] \in Seq(Columns)
            BY DefAssumption, DefFacts
        <3>2. ValuesOf(r, Def.indexes[i]) \in Seq(Value)
            BY <3>1, RowValues
        <3> QED  BY <1>1, <2>1, <3>1, <3>2, KeysApart
    <2> QED  BY <2>1 DEF Others, IndexKeys
<1> QED  BY <1>2, <1>3, <1>4, <1>5

\* The row that RowOf makes of the values of some columns.
LEMMA RowOfColumns ==
    ASSUME NEW cols \in Seq(Columns), NEW vals, NEW r, \A i \in 1 .. Len(cols) : vals[i] = r[cols[i]]
    PROVE  RowOf(cols, vals) = [col \in ToSet(cols) |-> r[col]]
<1>1. ASSUME NEW col \in ToSet(cols)
      PROVE  vals[SelectInSeq(cols, LAMBDA c : c = col)] = r[col]
    <2> DEFINE I == {i \in 1 .. Len(cols) : cols[i] = col}
               k == SelectInSeq(cols, LAMBDA c : c = col)
    <2>1. k = IF I # {} THEN Min(I) ELSE 0
        BY DEF SelectInSeq
    <2>2. I # {} /\ I \in SUBSET Nat
        <3>1. PICK j \in DOMAIN cols : cols[j] = col
            BY DEF ToSet
        <3>2. DOMAIN cols = 1 .. Len(cols) /\ Len(cols) \in Nat
            BY LenProperties
        <3>3. j \in I
            BY <3>1, <3>2
        <3> QED  BY <3>2, <3>3
    <2> HIDE DEF I
    <2>3. \E i \in I : \A j \in I : i <= j
        BY <2>2, Least
    <2>4. k \in I
        <3> HIDE DEF k
        <3> QED  BY <2>1, <2>2, <2>3 DEF Min
    <2> HIDE DEF k
    <2>5. k \in 1 .. Len(cols) /\ cols[k] = col
        BY <2>4 DEF I
    <2>6. vals[k] = r[col]
        BY <2>5
    <2> QED  BY <2>6 DEF k
<1> QED  BY <1>1 DEF RowOf

\* A row that was encoded is decoded to what it was.
LEMMA RowDecoded ==
    ASSUME NEW r \in Recs
    PROVE  decode_row(row_key(r), encode_values(ValuesOf(r, NonKeyCols))) = r
<1> DEFINE pk == Pk(Def)
           rest == NonKeyCols
           u == ValuesOf(r, pk)
           v == ValuesOf(r, rest)
           cols == Def.cols
           m == Def.pkeys
           n == Len(cols)
           all == u \o v
<1>1. /\ cols \in Seq(Columns) /\ n \in Nat /\ m \in 1 .. n
      /\ pk \in Seq(Columns) /\ Len(pk) = m /\ \A i \in 1 .. m : pk[i] = cols[i]
      /\ rest \in Seq(Columns) /\ Len(rest) = n - m /\ \A i \in 1 .. n - m : rest[i] = cols[m + i]
    BY DefFacts
<1> HIDE DEF pk, rest, cols, m, n
<1>2. /\ u \in Seq(Value) /\ Len(u) = m /\ \A i \in 1 .. m : u[i] = r[pk[i]] /\ r[pk[i]].type = Def.types[pk[i]]
      /\ v \in Seq(Value) /\ Len(v) = n - m
      /\ \A i \in 1 .. n - m : v[i] = r[rest[i]] /\ r[rest[i]].type = Def.types[rest[i]]
    <2>1. /\ u \in Seq(Value) /\ Len(u) = Len(pk)
          /\ \A i \in 1 .. Len(pk) : u[i] = r[pk[i]] /\ r[pk[i]].type = Def.types[pk[i]]
        BY <1>1, RowValues
    <2>2. /\ v \in Seq(Value) /\ Len(v) = Len(rest)
          /\ \A i \in 1 .. Len(rest) : v[i] = r[rest[i]] /\ r[rest[i]].type = Def.types[rest[i]]
        BY <1>1, RowValues
    <2> HIDE DEF u, v
    <2> QED  BY <1>1, <2>1, <2>2, Zenon
<1>3. decode_key(row_key(r), pk) = [ok |-> TRUE, pos |-> Len(encode_values(u)), vals |-> u]
    <2>1. Def.prefix \in Prefix
        BY DefAssumption
    <2>2. row_key(r) = encode_key(Def.prefix, u)
        BY DEF row_key, pk
    <2> HIDE DEF u
    <2>3. SubSeq(row_key(r), PrefixBytes + 1, Len(row_key(r))) = encode_values(u)
        BY <1>2, <2>1, <2>2, KeyFacts
    <2>4. Len(Types(pk)) = m /\ \A i \in 1 .. m : Types(pk)[i] = Def.types[pk[i]]
        <3>1. DOMAIN pk = 1 .. m /\ m \in Nat
            BY <1>1, LenProperties
        <3> QED  BY <3>1 DEF Types
    <2>5. decode_values(encode_values(u), Types(pk)) = [ok |-> TRUE, pos |-> Len(encode_values(u)), vals |-> u]
        <3>1. Len(Types(pk)) = Len(u) /\ \A i \in 1 .. Len(u) : u[i].type = Types(pk)[i]
            BY <1>2, <2>4
        <3> QED  BY <1>2, <3>1, DecodesBack
    <2> QED  BY <2>3, <2>5 DEF decode_key
<1>4. decode_values(encode_values(v), Types(rest)) = [ok |-> TRUE, pos |-> Len(encode_values(v)), vals |-> v]
    <2> HIDE DEF v
    <2>1. Len(Types(rest)) = n - m /\ \A i \in 1 .. n - m : Types(rest)[i] = Def.types[rest[i]]
        <3>1. DOMAIN rest = 1 .. n - m /\ n - m \in Nat
            BY <1>1, LenProperties
        <3> QED  BY <3>1 DEF Types
    <2>2. Len(Types(rest)) = Len(v) /\ \A i \in 1 .. Len(v) : v[i].type = Types(rest)[i]
        BY <1>2, <2>1
    <2> QED  BY <1>2, <2>2, DecodesBack
<1>5. decode_row(row_key(r), encode_values(v)) = RowOf(cols, all)
    <2> DEFINE k == decode_key(row_key(r), pk)
               w == decode_values(encode_values(v), Types(rest))
    <2>1. k.ok = TRUE /\ k.vals = u /\ w.ok = TRUE /\ w.vals = v
        BY <1>3, <1>4
    <2>2. decode_row(row_key(r), encode_values(v)) = IF k.ok /\ w.ok THEN RowOf(cols, k.vals \o w.vals) ELSE NoRow
        <3> HIDE DEF v
        <3> QED  BY DEF decode_row, pk, rest, cols
    <2> HIDE DEF k, w
    <2> QED  BY <2>1, <2>2
<1> HIDE DEF u, v
<1>6. \A i \in 1 .. n : all[i] = r[cols[i]]
    <2>1. \A i \in 1 .. m + (n - m) : all[i] = IF i <= m THEN u[i] ELSE v[i - m]
        <3>1. u \in Seq(Value) /\ v \in Seq(Value) /\ Len(u) = m /\ Len(v) = n - m
            BY <1>2, Zenon
        <3>2. \A i \in 1 .. Len(u) + Len(v) : all[i] = IF i <= Len(u) THEN u[i] ELSE v[i - Len(u)]
            BY <3>1, ConcatProperties
        <3> QED  BY <3>1, <3>2, Zenon
    <2> TAKE i \in 1 .. n
    <2> HIDE DEF all
    <2>2. i \in 1 .. m + (n - m)
        BY <1>1
    <2>3. CASE i <= m
        <3>1. i \in 1 .. m
            BY <1>1, <2>3
        <3> QED  BY <1>1, <1>2, <2>1, <2>2, <2>3, <3>1
    <2>4. CASE ~(i <= m)
        <3>1. i - m \in 1 .. n - m /\ m + (i - m) = i
            BY <1>1, <2>4
        <3>2. all[i] = v[i - m]
            BY <2>1, <2>2, <2>4
        <3>3. v[i - m] = r[rest[i - m]]
            BY <1>2, <3>1, Zenon
        <3>4. rest[i - m] = cols[m + (i - m)]
            BY <1>1, <3>1, Zenon
        <3> QED  BY <3>1, <3>2, <3>3, <3>4, Zenon
    <2> QED  BY <2>3, <2>4
<1> HIDE DEF all
<1>7. RowOf(cols, all) = [col \in ToSet(cols) |-> r[col]]
    BY <1>1, <1>6, RowOfColumns DEF n
<1>8. r = [col \in ToSet(cols) |-> r[col]]
    <2>1. r \in [Columns -> Value] /\ Columns = ToSet(cols)
        BY RecsAssumption, DefAssumption DEF Columns, cols
    <2> QED  BY <2>1
<1> QED  BY <1>5, <1>7, <1>8 DEF v, rest

-----------------------------------------------------------------------------
(* What the store holds *)

\* Rows of different primary keys share no key of the store.
LEMMA RowsApart ==
    ASSUME NEW r \in Recs, NEW s \in Recs, ~SameKey(r, s)
    PROVE  /\ row_key(s) # row_key(r) /\ row_key(s) \notin IndexKeys(r)
           /\ IndexKeys(s) \cap ({row_key(r)} \cup IndexKeys(r)) = {}
BY RowKeys, IndexEntries

\* A key of the table is in the store for a row of that primary key.
LEMMA KeyOfRow ==
    ASSUME table \in SUBSET Recs, Holds(kv, table), NEW rec \in Recs
    PROVE  row_key(rec) \in DOMAIN kv <=> \E r \in table : SameKey(r, rec)
<1>1. \A r \in table : row_key(r) = row_key(rec) <=> SameKey(r, rec)
    BY RowKeys
<1>2. \A r \in table : row_key(rec) \notin IndexKeys(r)
    BY IndexEntries
<1>3. row_key(rec) \notin Others
    BY OtherTables
<1>4. DOMAIN kv = {row_key(r) : r \in table} \cup Others \cup UNION {IndexKeys(r) : r \in table}
    BY DEF Holds
<1> DEFINE key == row_key(rec)
<1> HIDE DEF key
<1>5. key \in DOMAIN kv <=> \E r \in table : row_key(r) = key
    <2>1. \A r \in table : key \notin IndexKeys(r)
        BY <1>2 DEF key
    <2>2. key \notin Others
        BY <1>3 DEF key
    <2> DEFINE K == {row_key(r) : r \in table}
               U == UNION {IndexKeys(r) : r \in table}
    <2>3. key \notin U
        BY <2>1
    <2>4. key \in K <=> \E r \in table : row_key(r) = key
        <3> HIDE DEF key
        <3> QED  OBVIOUS
    <2> HIDE DEF K, U
    <2> QED  BY <1>4, <2>2, <2>3, <2>4 DEF K, U
<1> QED  BY <1>1, <1>5 DEF key

\* Removing a row takes its key and its index entries, and nothing of another.
LEMMA ClearedHolds ==
    ASSUME table \in SUBSET Recs, StoreHolds, NEW rec \in Recs
    PROVE  Holds(Cleared(row_key(rec)), {r \in table : ~SameKey(r, rec)})
<1> DEFINE key == row_key(rec)
           rows == {r \in table : ~SameKey(r, rec)}
<1>1. Holds(kv, table) /\ \A r, s \in table : SameKey(r, s) => r = s
    BY DEF StoreHolds
<1>2. CASE ~ \E r \in table : SameKey(r, rec)
    <2>1. rows = table
        BY <1>2
    <2>2. Cleared(key) = kv
        BY <1>1, <1>2, KeyOfRow DEF Cleared
    <2> QED  BY <1>1, <2>1, <2>2
<1>3. ASSUME NEW r \in table, SameKey(r, rec)
      PROVE  Holds(Cleared(key), rows)
    <2>1. r \in Recs /\ row_key(r) = key
        BY <1>3, RowKeys
    <2> DEFINE gone == {key} \cup IndexKeys(r)
    <2>2. Cleared(key) = [k \in DOMAIN kv \ gone |-> kv[k]]
        <3>1. key \in DOMAIN kv
            BY <1>1, <1>3, KeyOfRow
        <3>2. kv[key] = encode_values(ValuesOf(r, NonKeyCols))
            BY <1>1, <2>1 DEF Holds
        <3>3. decode_row(key, kv[key]) = r
            BY <2>1, <3>2, RowDecoded
        <3> HIDE DEF key
        <3>4. Cleared(key) = Restrict(kv, DOMAIN kv \ gone)
            BY <3>1, <3>3 DEF Cleared
        <3> QED  BY <3>4 DEF Restrict
    <2>3. \A s \in table : SameKey(s, rec) <=> s = r
        <3>1. \A s \in table : SameKey(s, rec) => SameKey(s, r)
            BY <1>3 DEF SameKey
        <3> QED  BY <1>1, <1>3, <3>1
    <2>4. rows = table \ {r}
        BY <2>3
    <2>5. \A s \in rows : row_key(s) \notin gone /\ IndexKeys(s) \cap gone = {}
        <3> SUFFICES ASSUME NEW s \in rows  PROVE row_key(s) \notin gone /\ IndexKeys(s) \cap gone = {}
            OBVIOUS
        <3>1. s \in Recs /\ ~SameKey(r, s)
            BY <1>1, <2>4
        <3> QED  BY <2>1, <3>1, RowsApart
    <2>6. gone \cap Others = {}
        BY <2>1, OtherTables
    <2>7. DOMAIN kv = {row_key(s) : s \in table} \cup Others \cup UNION {IndexKeys(s) : s \in table}
        BY <1>1 DEF Holds
    <2>8. {row_key(s) : s \in table} = {key} \cup {row_key(s) : s \in rows}
        BY <2>1, <2>4
    <2>9. UNION {IndexKeys(s) : s \in table} = IndexKeys(r) \cup UNION {IndexKeys(s) : s \in rows}
        BY <2>4
    <2> HIDE DEF rows, key
    <2>10. DOMAIN kv \ gone = {row_key(s) : s \in rows} \cup Others \cup UNION {IndexKeys(s) : s \in rows}
        <3> DEFINE K == {row_key(s) : s \in rows}
                   U == UNION {IndexKeys(s) : s \in rows}
        <3>1. K \cap gone = {} /\ U \cap gone = {}
            BY <2>5
        <3>2. DOMAIN kv = ({key} \cup K) \cup (IndexKeys(r) \cup U) \cup Others
            BY <2>7, <2>8, <2>9, Zenon
        <3> HIDE DEF K, U
        <3>3. DOMAIN kv \ gone = K \cup U \cup Others
            BY <2>6, <3>1, <3>2
        <3> QED  BY <3>3 DEF K, U
    <2>11. \A s \in rows : /\ kv[row_key(s)] = encode_values(ValuesOf(s, NonKeyCols))
                           /\ \A k \in IndexKeys(s) : kv[k] = <<>>
        BY <1>1, <2>4 DEF Holds
    <2> HIDE DEF gone
    <2>12. \A k \in DOMAIN kv \ gone : Cleared(key)[k] = kv[k]
        BY <2>2
    <2>13. DOMAIN Cleared(key) = DOMAIN kv \ gone
        BY <2>2
    <2>14. \A s \in rows : row_key(s) \in DOMAIN kv \ gone /\ IndexKeys(s) \subseteq DOMAIN kv \ gone
        BY <2>10
    <2> QED  BY <2>10, <2>11, <2>12, <2>13, <2>14 DEF Holds
<1> QED  BY <1>2, <1>3

\* Writing a row adds its key and its index entries to a store without them.
LEMMA WrittenHolds ==
    ASSUME NEW f, NEW rows \in SUBSET Recs, Holds(f, rows), NEW rec \in Recs, \A r \in rows : ~SameKey(r, rec)
    PROVE  /\ Holds(Written(f, rec), rows \cup {rec})
           /\ DOMAIN Written(f, rec) = DOMAIN f \cup {row_key(rec)} \cup IndexKeys(rec)
<1> DEFINE key == row_key(rec)
           IK == IndexKeys(rec)
           val == encode_values(ValuesOf(rec, NonKeyCols))
           g == Written(f, rec)
<1>0. g = [k \in DOMAIN f \cup {key} \cup IK |-> IF k = key THEN val ELSE IF k \in IK THEN <<>> ELSE f[k]]
    BY DEF Written
<1>1. key \notin IK
    BY IndexEntries
<1>2. \A s \in rows : row_key(s) \notin {key} \cup IK /\ IndexKeys(s) \cap ({key} \cup IK) = {}
    <2> SUFFICES ASSUME NEW s \in rows  PROVE row_key(s) \notin {key} \cup IK /\ IndexKeys(s) \cap ({key} \cup IK) = {}
        OBVIOUS
    <2>1. s \in Recs /\ ~SameKey(rec, s)
        BY DEF SameKey
    <2> QED  BY <2>1, RowsApart
<1> HIDE DEF key, IK, val
<1> HIDE DEF g
<1>3. DOMAIN g = DOMAIN f \cup {key} \cup IK
    BY <1>0
<1>4. g[key] = val
    BY <1>0
<1>5. \A k \in IK : g[k] = <<>>
    BY <1>0, <1>1
<1>6. \A k \in DOMAIN f : k \notin {key} \cup IK => g[k] = f[k]
    BY <1>0
<1>7. /\ DOMAIN f = {row_key(s) : s \in rows} \cup Others \cup UNION {IndexKeys(s) : s \in rows}
      /\ \A s \in rows : /\ f[row_key(s)] = encode_values(ValuesOf(s, NonKeyCols))
                         /\ \A k \in IndexKeys(s) : f[k] = <<>>
    BY DEF Holds
<1>8. DOMAIN g = {row_key(s) : s \in rows \cup {rec}} \cup Others \cup UNION {IndexKeys(s) : s \in rows \cup {rec}}
    <2>1. {row_key(s) : s \in rows \cup {rec}} = {key} \cup {row_key(s) : s \in rows}
        BY DEF key
    <2>2. UNION {IndexKeys(s) : s \in rows \cup {rec}} = IK \cup UNION {IndexKeys(s) : s \in rows}
        BY DEF IK
    <2> QED  BY <1>3, <1>7, <2>1, <2>2
<1>9. \A s \in rows : row_key(s) \in DOMAIN f /\ IndexKeys(s) \subseteq DOMAIN f
    BY <1>7
<1>10. ASSUME NEW s \in rows
       PROVE  /\ g[row_key(s)] = encode_values(ValuesOf(s, NonKeyCols))
              /\ \A k \in IndexKeys(s) : g[k] = <<>>
    BY <1>2, <1>6, <1>7, <1>9
<1>11. /\ g[row_key(rec)] = encode_values(ValuesOf(rec, NonKeyCols))
       /\ \A k \in IndexKeys(rec) : g[k] = <<>>
    BY <1>4, <1>5 DEF key, IK, val
<1>12. Holds(g, rows \cup {rec})
    BY <1>8, <1>10, <1>11 DEF Holds
<1> QED  BY <1>3, <1>12 DEF g, key, IK, val

\* StoreHolds with what its steps need: the rows are rows that can be written,
\* and the store is finite.
Inv ==
    /\ table \in SUBSET Recs
    /\ StoreHolds
    /\ IsFiniteSet(DOMAIN kv)

LEMMA InitInv == Init => Inv
<1> SUFFICES ASSUME Init  PROVE Inv
    OBVIOUS
<1>1. table = {} /\ DOMAIN kv = Others
    BY DEF Init
<1>2. IsFiniteSet(Others)
    BY OtherTables
<1>3. StoreHolds
    BY <1>1 DEF StoreHolds, Holds
<1> QED  BY <1>1, <1>2, <1>3 DEF Inv

\* What removing a row leaves is finite, and has at most one row of a key.
LEMMA ClearedInv ==
    ASSUME Inv, NEW rec \in Recs
    PROVE  LET rows == {r \in table : ~SameKey(r, rec)}
           IN  /\ rows \in SUBSET Recs
               /\ Holds(Cleared(row_key(rec)), rows)
               /\ \A r, s \in rows : SameKey(r, s) => r = s
               /\ IsFiniteSet(DOMAIN Cleared(row_key(rec)))
<1>1. table \in SUBSET Recs /\ StoreHolds /\ IsFiniteSet(DOMAIN kv)
    BY DEF Inv
<1>2. Holds(Cleared(row_key(rec)), {r \in table : ~SameKey(r, rec)})
    BY <1>1, ClearedHolds
<1>3. \A r, s \in table : SameKey(r, s) => r = s
    BY <1>1 DEF StoreHolds
<1>4. DOMAIN Cleared(row_key(rec)) \subseteq DOMAIN kv
    BY DEF Cleared, Restrict
<1>5. IsFiniteSet(DOMAIN Cleared(row_key(rec)))
    BY <1>1, <1>4, FS_Subset
<1> QED  BY <1>1, <1>2, <1>3, <1>5

LEMMA UpsertInv == ASSUME Inv, NEW rec \in Recs, upsert(rec)  PROVE Inv'
<1> DEFINE rows == {r \in table : ~SameKey(r, rec)}
           f == Cleared(row_key(rec))
<1>1. /\ rows \in SUBSET Recs /\ Holds(f, rows) /\ IsFiniteSet(DOMAIN f)
      /\ \A r, s \in rows : SameKey(r, s) => r = s
    BY ClearedInv
<1>2. kv' = Written(f, rec) /\ table' = rows \cup {rec}
    BY DEF upsert
<1>3. \A r \in rows : ~SameKey(r, rec) /\ ~SameKey(rec, r)
    BY DEF SameKey
<1> HIDE DEF rows, f
<1>4. /\ Holds(Written(f, rec), rows \cup {rec})
      /\ DOMAIN Written(f, rec) = DOMAIN f \cup {row_key(rec)} \cup IndexKeys(rec)
    BY <1>1, <1>3, WrittenHolds
<1>5. IsFiniteSet(DOMAIN Written(f, rec))
    <2>1. IsFiniteSet(IndexKeys(rec))
        BY IndexEntries
    <2>2. IsFiniteSet(DOMAIN f \cup {row_key(rec)})
        BY <1>1, FS_AddElement
    <2> QED  BY <1>4, <2>1, <2>2, FS_Union
<1>6. \A r, s \in rows \cup {rec} : SameKey(r, s) => r = s
    BY <1>1, <1>3
<1>7. Holds(kv, table)'
    BY <1>2, <1>4 DEF Holds, row_key, IndexKeys, Others
<1>8. (\A r, s \in table : SameKey(r, s) => r = s)'
    BY <1>2, <1>6 DEF SameKey
<1>9. StoreHolds'
    BY <1>7, <1>8 DEF StoreHolds
<1>10. table' \in SUBSET Recs /\ IsFiniteSet(DOMAIN kv')
    BY <1>1, <1>2, <1>5
<1> QED  BY <1>9, <1>10 DEF Inv

LEMMA DelInv == ASSUME Inv, NEW rec \in Recs, del(rec)  PROVE Inv'
<1> DEFINE rows == {r \in table : ~SameKey(r, rec)}
           f == Cleared(row_key(rec))
<1>1. /\ rows \in SUBSET Recs /\ Holds(f, rows) /\ IsFiniteSet(DOMAIN f)
      /\ \A r, s \in rows : SameKey(r, s) => r = s
    BY ClearedInv
<1>2. kv' = f /\ table' = rows
    BY DEF del
<1> HIDE DEF rows, f
<1>3. Holds(kv, table)'
    BY <1>1, <1>2 DEF Holds, row_key, IndexKeys, Others
<1>4. (\A r, s \in table : SameKey(r, s) => r = s)'
    BY <1>1, <1>2 DEF SameKey
<1>5. StoreHolds'
    BY <1>3, <1>4 DEF StoreHolds
<1> QED  BY <1>1, <1>2, <1>5 DEF Inv

\* A scan changes neither the store nor the rows.
LEMMA ScanInv == ASSUME Inv, UNCHANGED <<kv, table>>  PROVE Inv'
<1>1. kv' = kv /\ table' = table
    OBVIOUS
<1>2. StoreHolds'
    BY <1>1 DEF Inv, StoreHolds, Holds, row_key, IndexKeys, Others, SameKey
<1> QED  BY <1>1, <1>2 DEF Inv

LEMMA Inductive == Spec => []Inv
<1>1. ASSUME Inv, [Next]_vars  PROVE Inv'
    <2>1. ASSUME NEW rec \in Recs, upsert(rec)  PROVE Inv'
        BY <1>1, <2>1, UpsertInv
    <2>2. ASSUME NEW rec \in Recs, del(rec)  PROVE Inv'
        BY <1>1, <2>2, DelInv
    <2>3. ASSUME NEW req \in Requests, open(req)  PROVE Inv'
        <3>1. UNCHANGED <<kv, table>>
            BY <2>3 DEF open
        <3> QED  BY <1>1, <3>1, ScanInv
    <2>4. CASE step
        <3>1. UNCHANGED <<kv, table>>
            BY <2>4 DEF step
        <3> QED  BY <1>1, <3>1, ScanInv
    <2>5. CASE drop
        <3>1. UNCHANGED <<kv, table>>
            BY <2>5 DEF drop
        <3> QED  BY <1>1, <3>1, ScanInv
    <2>6. CASE UNCHANGED vars
        <3>1. UNCHANGED <<kv, table>>
            BY <2>6 DEF vars
        <3> QED  BY <1>1, <3>1, ScanInv
    <2> QED  BY <1>1, <2>1, <2>2, <2>3, <2>4, <2>5, <2>6 DEF Next
<1> QED  BY <1>1, InitInv, PTL DEF Spec

\* table_access.cpp and index_ops.cpp: for every table and any sequence of
\* writes, each row has one key and exactly its own index entries in the store,
\* and what other tables have there stays.
THEOREM StoreExact == Spec => []StoreHolds
<1>1. Inv => StoreHolds
    BY DEF Inv
<1> QED  BY <1>1, Inductive, PTL

-----------------------------------------------------------------------------
(* Point queries *)

LEMMA KeysAreBytes == Inv => DOMAIN kv \subseteq Seq(Byte)
<1> SUFFICES ASSUME Inv  PROVE DOMAIN kv \subseteq Seq(Byte)
    OBVIOUS
<1>1. table \in SUBSET Recs /\ DOMAIN kv = {row_key(r) : r \in table} \cup Others \cup UNION {IndexKeys(r) : r \in table}
    BY DEF Inv, StoreHolds, Holds
<1>2. \A r \in table : row_key(r) \in Seq(Byte) /\ IndexKeys(r) \subseteq Seq(Byte)
    BY <1>1, RowKeys, IndexEntries
<1>3. Others \subseteq Seq(Byte)
    BY OtherTables
<1> QED  BY <1>1, <1>2, <1>3

\* A bound that names every column is not padded.
LEMMA WholeBound ==
    ASSUME NEW p \in Prefix, NEW cols \in Seq(Columns), NEW u \in Seq(Value), Len(u) = Len(cols), NEW cmp
    PROVE  encode_key_partial(p, u, cols, cmp) = encode_key(p, u)
<1> DEFINE missing == Types(SubSeq(cols, Len(u) + 1, Len(cols)))
<1>1. missing = <<>>
    <2>1. Len(cols) \in Nat
        BY LenProperties
    <2>2. SubSeq(cols, Len(u) + 1, Len(cols)) = <<>>
        BY <2>1
    <2> QED  BY <2>2 DEF Types
<1>2. Padding(missing) = <<>>
    <2>1. SelectInSeq(missing, LAMBDA type : type = "BYTES") = 0 /\ Len(missing) = 0
        BY <1>1 DEF SelectInSeq
    <2>2. 0 * IntBytes + 0 = 0
        BY TopFacts
    <2> HIDE DEF missing
    <2> QED  BY <2>1, <2>2 DEF Padding
<1>3. encode_key(p, u) \o <<>> = encode_key(p, u)
    BY KeyFacts, ConcatEmptySeq
<1>4. encode_key_partial(p, u, cols, cmp) =
         IF cmp \in {"GT", "LE"} THEN encode_key(p, u) \o Padding(missing) ELSE encode_key(p, u)
    BY DEF encode_key_partial, Padding
<1> HIDE DEF missing
<1> QED  BY <1>2, <1>3, <1>4

\* The scan of a point query goes from the key to itself.
LEMMA PointScan ==
    ASSUME NEW rec \in Recs
    PROVE  LET pk == Restrict(rec, ToSet(Pk(Def)))
               key == [cols |-> Pk(Def), vals |-> ValuesOf(pk, Pk(Def))]
               req == [cmp1 |-> "GE", key1 |-> key, cmp2 |-> "LE", key2 |-> key]
           IN  /\ check_record(Def, pk, Def.pkeys)
               /\ db_scan(req) = [req |-> req, accepted |-> TRUE, index_no |-> 0, key_end |-> row_key(rec),
                                  at |-> seek(row_key(rec), "GE")]
<1> DEFINE cols == Pk(Def)
           pk == Restrict(rec, ToSet(cols))
           u == ValuesOf(rec, cols)
           key == [cols |-> cols, vals |-> ValuesOf(pk, cols)]
           req == [cmp1 |-> "GE", key1 |-> key, cmp2 |-> "LE", key2 |-> key]
<1>1. cols \in Seq(Columns) /\ Len(cols) \in Nat /\ DOMAIN cols = 1 .. Len(cols)
    BY DefFacts, LenProperties
<1> HIDE DEF cols
<1>2. /\ u \in Seq(Value) /\ Len(u) = Len(cols)
      /\ \A i \in 1 .. Len(cols) : u[i] = rec[cols[i]] /\ rec[cols[i]].type = Def.types[cols[i]]
    BY <1>1, RowValues
<1>3. ValuesOf(pk, cols) = u
    <2>1. \A i \in DOMAIN cols : pk[cols[i]] = rec[cols[i]]
        BY DEF Restrict, ToSet
    <2> QED  BY <2>1 DEF ValuesOf
<1>4. check_record(Def, pk, Def.pkeys)
    <2>1. DOMAIN pk = ToSet(cols) /\ \A col \in ToSet(cols) : pk[col] = rec[col]
        BY DEF Restrict
    <2>2. \A col \in ToSet(cols) : rec[col].type = Def.types[col]
        BY <1>1, <1>2 DEF ToSet
    <2> HIDE DEF pk
    <2> QED  BY <2>1, <2>2 DEF check_record, cols, Pk
<1>5. find_index(Def, cols) = 0
    <2>1. IsPrefix(cols, cols)
        BY <1>1 DEF IsPrefix
    <2> QED  BY <2>1 DEF find_index, cols
<1> HIDE DEF u, pk
<1>6. Accepted(Def, req)
    <2>1. Forward("GE") /\ ~Forward("LE")
        BY DEF Forward
    <2>2. IndexCols(Def, 0) = cols
        BY DEF IndexCols, cols
    <2>3. IsPrefix(cols, cols)
        BY <1>1 DEF IsPrefix
    <2>4. check_bound(Def, 0, [cols |-> cols, vals |-> u])
        BY <1>1, <1>2, <2>2, <2>3 DEF check_bound
    <2>5. check_bound(Def, 0, key)
        BY <1>3, <2>4
    <2>6. 0 # NoIndex
        BY DEF NoIndex
    <2>7. req.cmp1 = "GE" /\ req.cmp2 = "LE" /\ req.key1 = key /\ req.key2 = key /\ key.cols = cols
        OBVIOUS
    <2> HIDE DEF req, key
    <2> QED  BY <1>5, <2>1, <2>5, <2>6, <2>7 DEF Accepted
<1>7. \A cmp : encode_key_partial(Def.prefix, u, cols, cmp) = row_key(rec)
    <2>1. Def.prefix \in Prefix
        BY DefAssumption
    <2>2. row_key(rec) = encode_key(Def.prefix, u)
        BY DEF row_key, u, cols
    <2> QED  BY <1>1, <1>2, <2>1, <2>2, WholeBound
<1>8. db_scan(req) = [req |-> req, accepted |-> TRUE, index_no |-> 0, key_end |-> row_key(rec),
                      at |-> seek(row_key(rec), "GE")]
    <2>1. req.cmp1 = "GE" /\ req.cmp2 = "LE" /\ req.key1 = key /\ req.key2 = key /\ key.cols = cols /\ key.vals = u
        BY <1>3
    <2>2. IndexCols(Def, 0) = cols
        BY DEF IndexCols, cols
    <2> HIDE DEF req, key
    <2> QED  BY <1>5, <1>6, <1>7, <2>1, <2>2 DEF db_scan
<1> QED  BY <1>4, <1>8 DEF pk, cols

\* A point query gives the row of its key, or none.
LEMMA PointQuery ==
    ASSUME Inv, NEW rec \in Recs
    PROVE  LET match == {r \in table : SameKey(r, rec)}
               got == db_get(Restrict(rec, ToSet(Pk(Def))))
           IN  IF match = {} THEN got = NoRow ELSE match = {got}
<1> DEFINE pk == Restrict(rec, ToSet(Pk(Def)))
           key == [cols |-> Pk(Def), vals |-> ValuesOf(pk, Pk(Def))]
           req == [cmp1 |-> "GE", key1 |-> key, cmp2 |-> "LE", key2 |-> key]
           sc == db_scan(req)
           K == row_key(rec)
           match == {r \in table : SameKey(r, rec)}
<1>1. /\ table \in SUBSET Recs /\ Holds(kv, table) /\ IsFiniteSet(DOMAIN kv)
      /\ \A r, s \in table : SameKey(r, s) => r = s
      /\ DOMAIN kv \subseteq Seq(Byte)
    BY KeysAreBytes DEF Inv, StoreHolds
<1>2. db_get(pk) = IF check_record(Def, pk, Def.pkeys) /\ sc.accepted /\ valid(sc)
                   THEN decode_row(sc.at, kv[sc.at]) ELSE NoRow
    BY DEF db_get
<1>3. /\ check_record(Def, pk, Def.pkeys)
      /\ sc = [req |-> req, accepted |-> TRUE, index_no |-> 0, key_end |-> K, at |-> seek(K, "GE")]
    BY PointScan
<1>4. sc.accepted = TRUE /\ sc.at = seek(K, "GE") /\ sc.key_end = K /\ sc.req.cmp2 = "LE"
    <2>1. req.cmp2 = "LE"
        OBVIOUS
    <2> HIDE DEF sc, req, K
    <2> QED  BY <1>3, <2>1
<1>5. K \in Seq(Byte) /\ K # NoKey
    BY RowKeys
<1>6. K \in DOMAIN kv <=> \E r \in table : SameKey(r, rec)
    BY <1>1, KeyOfRow
<1> HIDE DEF sc, K, pk
<1>7. valid(sc) <=> seek(K, "GE") # NoKey /\ ~BytesLess(K, seek(K, "GE"))
    BY <1>4 DEF valid, cmp_ok
<1>8. /\ K \in DOMAIN kv => seek(K, "GE") = K
      /\ K \notin DOMAIN kv => seek(K, "GE") = NoKey \/ BytesLess(K, seek(K, "GE"))
    BY <1>1, <1>5, SeekAt
<1>9. CASE K \notin DOMAIN kv
    <2>1. ~valid(sc)
        BY <1>7, <1>8, <1>9
    <2>2. db_get(pk) = NoRow /\ match = {}
        BY <1>2, <1>6, <1>9, <2>1
    <2> QED  BY <2>2 DEF pk
<1>10. CASE K \in DOMAIN kv
    <2>1. valid(sc) /\ sc.at = K
        BY <1>4, <1>5, <1>7, <1>8, <1>10, BytesLessOrder
    <2>2. db_get(pk) = decode_row(K, kv[K])
        BY <1>2, <1>3, <1>4, <2>1, Zenon
    <2>3. PICK r \in table : SameKey(r, rec)
        BY <1>6, <1>10
    <2>4. r \in Recs /\ row_key(r) = K
        BY <1>1, <2>3, RowKeys DEF K
    <2>5. kv[row_key(r)] = encode_values(ValuesOf(r, NonKeyCols))
        BY <1>1 DEF Holds
    <2>6. db_get(pk) = r
        BY <2>2, <2>4, <2>5, RowDecoded
    <2>7. match = {r}
        <3>1. \A s \in table : SameKey(s, rec) => SameKey(s, r)
            BY <2>3 DEF SameKey
        <3> QED  BY <1>1, <2>3, <3>1
    <2> QED  BY <2>6, <2>7 DEF pk
<1> QED  BY <1>9, <1>10

\* table_access.cpp: in any state of the store a point query gives the row of
\* its primary key, decoded to what was written, and nothing when there is no
\* such row, whatever key of this or another table the seek lands on.
THEOREM GetsExactly == Spec => []GetExact
<1>1. Inv => GetExact
    BY PointQuery DEF GetExact
<1> QED  BY <1>1, Inductive, PTL

-----------------------------------------------------------------------------
(* Range scans: the keys *)

\* A key at or after one that a comparison lets through is let through.
LEMMA CmpMonotone ==
    ASSUME NEW cmp \in Comparisons, NEW ref \in Seq(Byte), NEW k \in Seq(Byte), NEW x \in Seq(Byte),
           cmp_ok(k, cmp, ref), ~Before(Forward(cmp), x, k)
    PROVE  cmp_ok(x, cmp, ref)
<1>1. ASSUME NEW a \in Seq(Byte), NEW b \in Seq(Byte), NEW c \in Seq(Byte), ~BytesLess(a, b), ~BytesLess(b, c)
      PROVE  ~BytesLess(a, c)
    BY <1>1, BytesLessOrder, StringsTotal
<1>2. ASSUME NEW a \in Seq(Byte), NEW b \in Seq(Byte), NEW c \in Seq(Byte), BytesLess(a, b), ~BytesLess(c, b)
      PROVE  BytesLess(a, c)
    BY <1>2, BytesLessOrder, StringsTotal
<1>3. ASSUME NEW a \in Seq(Byte), NEW b \in Seq(Byte), NEW c \in Seq(Byte), ~BytesLess(b, a), BytesLess(b, c)
      PROVE  BytesLess(a, c)
    BY <1>3, BytesLessOrder, StringsTotal
<1>4. CASE cmp = "GE"
    BY <1>1, <1>4 DEF cmp_ok, Before, Forward
<1>5. CASE cmp = "GT"
    BY <1>2, <1>5 DEF cmp_ok, Before, Forward
<1>6. CASE cmp = "LE"
    BY <1>1, <1>6 DEF cmp_ok, Before, Forward
<1>7. CASE cmp = "LT"
    BY <1>3, <1>7 DEF cmp_ok, Before, Forward
<1> QED  BY <1>4, <1>5, <1>6, <1>7 DEF Comparisons

\* seek gives the first of the keys from a bound to another, or a key past the
\* other, or none.
LEMMA SeekFirst ==
    ASSUME DOMAIN kv \in SUBSET Seq(Byte), IsFiniteSet(DOMAIN kv),
           NEW cmp \in Comparisons, NEW key \in Seq(Byte), NEW cmp2 \in Comparisons, NEW end \in Seq(Byte),
           Forward(cmp) # Forward(cmp2)
    PROVE  LET at == seek(key, cmp)
               keys == {k \in DOMAIN kv : cmp_ok(k, cmp, key) /\ cmp_ok(k, cmp2, end)}
           IN  /\ keys = {} => at = NoKey \/ ~cmp_ok(at, cmp2, end)
               /\ keys # {} => at \in keys /\ \A x \in keys : ~Before(Forward(cmp), x, at)
<1> DEFINE forward == Forward(cmp)
           fits == {k \in DOMAIN kv : cmp_ok(k, cmp, key)}
           at == seek(key, cmp)
           keys == {k \in DOMAIN kv : cmp_ok(k, cmp, key) /\ cmp_ok(k, cmp2, end)}
           First(k) == \A x \in fits : ~Before(forward, x, k)
<1>1. forward \in BOOLEAN /\ (Forward(cmp2) <=> ~forward)
    BY DEF Forward
<1>2. at = IF fits = {} THEN NoKey ELSE CHOOSE k \in fits : First(k)
    BY DEF seek, Before
<1>3. fits \in SUBSET Seq(Byte) /\ IsFiniteSet(fits)
    BY FS_Subset
<1>4. keys = {k \in fits : cmp_ok(k, cmp2, end)}
    OBVIOUS
<1> HIDE DEF fits, at, keys, forward
<1>5. ASSUME fits # {}  PROVE at \in fits /\ First(at)
    <2>1. \E k \in fits : First(k)
        BY <1>1, <1>3, <1>5, FirstOfStrings
    <2> HIDE DEF First
    <2> QED  BY <1>2, <1>5, <2>1
<1>6. ASSUME keys = {}  PROVE at = NoKey \/ ~cmp_ok(at, cmp2, end)
    BY <1>2, <1>4, <1>5, <1>6
<1>7. ASSUME keys # {}  PROVE at \in keys /\ \A x \in keys : ~Before(forward, x, at)
    <2>1. PICK x \in keys : x \in fits /\ cmp_ok(x, cmp2, end)
        BY <1>4, <1>7
    <2>2. at \in fits /\ First(at)
        BY <1>5, <2>1
    <2>3. x \in Seq(Byte) /\ at \in Seq(Byte) /\ ~Before(forward, x, at)
        BY <1>3, <2>1, <2>2
    <2>4. ~Before(Forward(cmp2), at, x)
        BY <1>1, <2>3 DEF Before
    <2>5. cmp_ok(at, cmp2, end)
        BY <2>1, <2>3, <2>4, CmpMonotone
    <2> QED  BY <1>4, <2>2, <2>5
<1> QED  BY <1>6, <1>7 DEF at, keys, forward

Indexes == {0} \cup DOMAIN Def.indexes

IndexPrefix(i) == IF i = 0 THEN Def.prefix ELSE Def.index_prefixes[i]

\* The key that a row has in an index.
Entry(i, r) == encode_key(IndexPrefix(i), ValuesOf(r, IndexCols(Def, i)))

\* find_index gives an index, or none.
LEMMA IndexChosen ==
    ASSUME NEW keys
    PROVE  find_index(Def, keys) \in {NoIndex} \cup Indexes
<1> DEFINE fits == {j \in DOMAIN Def.indexes : IsPrefix(keys, Def.indexes[j])}
           shorter(j, k) == Len(Def.indexes[j]) < Len(Def.indexes[k])
           IsFirst(j) == \A k \in fits : ~shorter(k, j) /\ (k < j => shorter(j, k))
           found == CHOOSE j \in fits : IsFirst(j)
<1>1. Len(Def.indexes) \in Nat /\ DOMAIN Def.indexes = 1 .. Len(Def.indexes)
    BY DefAssumption, LenProperties
<1>2. \A j \in DOMAIN Def.indexes : Len(Def.indexes[j]) \in Nat
    BY DefFacts, LenProperties
<1>3. find_index(Def, keys) = IF IsPrefix(keys, Pk(Def)) THEN 0 ELSE IF fits = {} THEN NoIndex ELSE found
    BY DEF find_index
<1>4. ASSUME fits # {}  PROVE found \in fits
    <2> DEFINE lens == {Len(Def.indexes[j]) : j \in fits}
    <2>1. PICK n \in lens : \A m \in lens : n <= m
        <3>1. lens \in SUBSET Nat /\ lens # {}
            BY <1>2, <1>4
        <3> HIDE DEF lens
        <3> QED  BY <3>1, Least
    <2> DEFINE shortest == {j \in fits : Len(Def.indexes[j]) = n}
    <2>2. PICK j \in shortest : \A k \in shortest : j <= k
        <3>1. shortest \in SUBSET Nat /\ shortest # {}
            BY <1>1, <2>1
        <3> HIDE DEF shortest
        <3> QED  BY <3>1, Least
    <2>3. IsFirst(j)
        <3> TAKE k \in fits
        <3>1. Len(Def.indexes[j]) = n /\ n \in Nat /\ Len(Def.indexes[k]) \in Nat
            BY <1>2, <2>1, <2>2
        <3>2. n <= Len(Def.indexes[k])
            BY <2>1
        <3>3. k < j => Len(Def.indexes[k]) # n
            <4>1. k \in Nat /\ j \in Nat
                BY <1>1, <2>2
            <4> QED  BY <2>2, <4>1
        <3> QED  BY <3>1, <3>2, <3>3
    <2> HIDE DEF fits, IsFirst
    <2>4. j \in fits
        BY <2>2
    <2> QED  BY <2>3, <2>4
<1> HIDE DEF found
<1>5. fits \subseteq DOMAIN Def.indexes
    OBVIOUS
<1> HIDE DEF fits
<1> QED  BY <1>3, <1>4, <1>5 DEF Indexes

LEMMA IndexFacts ==
    ASSUME NEW i \in Indexes
    PROVE  /\ IndexPrefix(i) \in Prefix /\ IndexCols(Def, i) \in Seq(Columns) /\ Len(IndexCols(Def, i)) \in Nat
           /\ DOMAIN IndexCols(Def, i) = 1 .. Len(IndexCols(Def, i))
<1>1. CASE i = 0
    <2>1. IndexPrefix(i) = Def.prefix /\ IndexCols(Def, i) = Pk(Def)
        BY <1>1 DEF IndexPrefix, IndexCols
    <2> QED  BY <2>1, DefAssumption, DefFacts, LenProperties
<1>2. CASE i # 0
    <2>1. i \in DOMAIN Def.indexes /\ IndexPrefix(i) = Def.index_prefixes[i] /\ IndexCols(Def, i) = Def.indexes[i]
        BY <1>2 DEF IndexPrefix, IndexCols, Indexes
    <2> QED  BY <2>1, DefAssumption, DefFacts, LenProperties
<1> QED  BY <1>1, <1>2

LEMMA EntryFacts ==
    ASSUME NEW i \in Indexes, NEW r \in Recs
    PROVE  LET cols == IndexCols(Def, i)
               vals == ValuesOf(r, cols)
           IN  /\ vals \in Seq(Value) /\ Len(vals) = Len(cols) /\ OfColumns(vals, cols)
               /\ Entry(i, r) \in Seq(Byte) /\ Entry(i, r) # NoKey
<1> DEFINE cols == IndexCols(Def, i)
           vals == ValuesOf(r, cols)
<1>1. cols \in Seq(Columns) /\ Len(cols) \in Nat /\ IndexPrefix(i) \in Prefix
    BY IndexFacts
<1> HIDE DEF cols
<1>2. /\ vals \in Seq(Value) /\ Len(vals) = Len(cols)
      /\ \A j \in 1 .. Len(cols) : vals[j] = r[cols[j]] /\ r[cols[j]].type = Def.types[cols[j]]
    BY <1>1, RowValues
<1> HIDE DEF vals
<1>3. OfColumns(vals, cols)
    BY <1>1, <1>2 DEF OfColumns
<1>4. encode_key(IndexPrefix(i), vals) \in Seq(Byte) /\ encode_key(IndexPrefix(i), vals) # NoKey
    BY <1>1, <1>2, KeyFacts
<1> QED  BY <1>2, <1>3, <1>4 DEF Entry, vals, cols

\* The entries of an index are in the order of the values of its columns, and
\* those of two rows differ.
LEMMA EntryOrder ==
    ASSUME NEW i \in Indexes, NEW r \in Recs, NEW s \in Recs
    PROVE  LET cols == IndexCols(Def, i)
           IN  /\ BytesLess(Entry(i, r), Entry(i, s)) <=> TupleLess(ValuesOf(r, cols), ValuesOf(s, cols))
               /\ Entry(i, r) = Entry(i, s) => SameKey(r, s)
<1> DEFINE cols == IndexCols(Def, i)
           u == ValuesOf(r, cols)
           v == ValuesOf(s, cols)
           c == BigEndian(PrefixBytes, IndexPrefix(i))
           a == encode_values(u)
           b == encode_values(v)
<1>1. /\ u \in Seq(Value) /\ v \in Seq(Value) /\ SameTypes(u, v)
    BY EntryFacts DEF OfColumns, SameTypes
<1>2. c \in Seq(Byte)
    BY IndexFacts, PrefixFacts
<1>3. Entry(i, r) = c \o a /\ Entry(i, s) = c \o b
    BY DEF Entry, encode_key
<1> HIDE DEF u, v, c
<1>4. a \in Seq(Byte) /\ b \in Seq(Byte)
    BY <1>1, EncodedTuple
<1>5. ASSUME TupleLess(u, v)  PROVE BytesLess(c \o a, c \o b)
    <2>1. Below(c \o a, c \o b)
        BY <1>1, <1>2, <1>4, <1>5, TuplesOrder, BelowAfter
    <2>2. c \o a \in Seq(Byte) /\ c \o b \in Seq(Byte)
        BY <1>2, <1>4, ConcatProperties
    <2> QED  BY <2>1, <2>2, BelowLess
<1>6. ASSUME BytesLess(c \o a, c \o b)  PROVE TupleLess(u, v)
    <2>1. BytesLess(a, b)
        BY <1>2, <1>4, <1>6, LessAfter
    <2> QED  BY <1>1, <2>1, OrderPreserved
<1>7. Entry(i, r) = Entry(i, s) => SameKey(r, s)
    <2>1. CASE i = 0
        <3>1. Entry(i, r) = row_key(r) /\ Entry(i, s) = row_key(s)
            BY <2>1 DEF Entry, row_key, IndexPrefix, IndexCols
        <3> QED  BY <3>1, RowKeys
    <2>2. CASE i # 0
        <3>1. Entry(i, r) \in IndexKeys(r) /\ Entry(i, s) \in IndexKeys(s)
            BY <2>2 DEF Entry, IndexKeys, IndexPrefix, IndexCols, Indexes
        <3> QED  BY <3>1, IndexEntries
    <2> QED  BY <2>1, <2>2
<1> QED  BY <1>3, <1>5, <1>6, <1>7 DEF u, v

\* What the store has for a row in an index.
LEMMA EntryStored ==
    ASSUME Inv, NEW i \in Indexes, NEW r \in table
    PROVE  /\ r \in Recs /\ Entry(i, r) \in DOMAIN kv
           /\ i = 0 => Entry(i, r) = row_key(r) /\ kv[Entry(i, r)] = encode_values(ValuesOf(r, NonKeyCols))
           /\ i # 0 => kv[Entry(i, r)] = <<>>
<1>1. /\ table \in SUBSET Recs
      /\ DOMAIN kv = {row_key(s) : s \in table} \cup Others \cup UNION {IndexKeys(s) : s \in table}
      /\ kv[row_key(r)] = encode_values(ValuesOf(r, NonKeyCols))
      /\ \A k \in IndexKeys(r) : kv[k] = <<>>
    BY DEF Inv, StoreHolds, Holds
<1>2. i = 0 => Entry(i, r) = row_key(r)
    BY DEF Entry, row_key, IndexPrefix, IndexCols
<1>3. i # 0 => Entry(i, r) \in IndexKeys(r)
    BY DEF Entry, IndexKeys, IndexPrefix, IndexCols, Indexes
<1>4. row_key(r) \in DOMAIN kv /\ IndexKeys(r) \subseteq DOMAIN kv
    BY <1>1
<1> QED  BY <1>1, <1>2, <1>3, <1>4

\* A key of the store has the prefix of an index only if it is an entry of it.
LEMMA EntryOfRow ==
    ASSUME Inv, NEW i \in Indexes, NEW k \in DOMAIN kv
    PROVE  \E q \in Prefix, w \in Seq(Value) :
              k = encode_key(q, w) /\ (q = IndexPrefix(i) => \E r \in table : k = Entry(i, r))
<1>1. /\ table \in SUBSET Recs
      /\ DOMAIN kv = {row_key(s) : s \in table} \cup Others \cup UNION {IndexKeys(s) : s \in table}
    BY DEF Inv, StoreHolds, Holds
<1>2. ASSUME NEW r \in table, NEW j \in Indexes, k = Entry(j, r)
      PROVE  \E q \in Prefix, w \in Seq(Value) :
                k = encode_key(q, w) /\ (q = IndexPrefix(i) => \E s \in table : k = Entry(i, s))
    <2>1. ValuesOf(r, IndexCols(Def, j)) \in Seq(Value) /\ IndexPrefix(j) \in Prefix
        BY <1>1, EntryFacts, IndexFacts
    <2>2. IndexPrefix(j) = IndexPrefix(i) => i = j
        BY DefAssumption DEF Indexes, IndexPrefix
    <2>3. k = encode_key(IndexPrefix(j), ValuesOf(r, IndexCols(Def, j)))
        BY <1>2 DEF Entry
    <2> QED  BY <1>2, <2>1, <2>2, <2>3
<1>3. CASE k \in Others
    <2>1. PICK o \in OtherKeys : k = encode_key(o.prefix, o.vals)
        BY <1>3 DEF Others
    <2>2. o.prefix \in Prefix /\ o.vals \in Seq(Value) /\ o.prefix # IndexPrefix(i)
        BY OthersAssumption DEF IndexPrefix, Indexes
    <2> QED  BY <2>1, <2>2
<1>4. ASSUME NEW r \in table, k = row_key(r)  PROVE 0 \in Indexes /\ k = Entry(0, r)
    BY <1>4 DEF Entry, row_key, IndexPrefix, IndexCols, Indexes
<1>5. ASSUME NEW r \in table, k \in IndexKeys(r)  PROVE \E j \in Indexes : k = Entry(j, r)
    <2>1. PICK j \in DOMAIN Def.indexes : k = encode_key(Def.index_prefixes[j], ValuesOf(r, Def.indexes[j]))
        BY <1>5 DEF IndexKeys
    <2>2. j # 0
        BY DefAssumption, LenProperties
    <2> QED  BY <2>1, <2>2 DEF Entry, IndexPrefix, IndexCols, Indexes
<1>6. k \in Others \/ \E r \in table : k = row_key(r) \/ k \in IndexKeys(r)
    BY <1>1
<1> QED  BY <1>2, <1>3, <1>4, <1>5, <1>6

\* Between two keys of one prefix there is no key of another.
LEMMA PrefixBetween ==
    ASSUME NEW p \in Prefix, NEW q \in Prefix, NEW u \in Seq(Value), NEW v \in Seq(Value), NEW w \in Seq(Value),
           NEW a \in Seq(Byte), NEW b \in Seq(Byte),
           ~BytesLess(encode_key(q, w), encode_key(p, u) \o a), ~BytesLess(encode_key(p, v) \o b, encode_key(q, w))
    PROVE  q = p
<1>1. ASSUME NEW x \in Prefix, NEW y \in Prefix, NEW s \in Seq(Value), NEW t \in Seq(Value), x < y
      PROVE  Below(encode_key(x, s), encode_key(y, t))
    <2>1. /\ BigEndian(PrefixBytes, x) \in Seq(Byte) /\ BigEndian(PrefixBytes, y) \in Seq(Byte)
          /\ encode_values(s) \in Seq(Byte) /\ encode_values(t) \in Seq(Byte)
        BY PrefixFacts, EncodedTuple
    <2>2. Below(BigEndian(PrefixBytes, x), BigEndian(PrefixBytes, y))
        BY <1>1, PrefixFacts, BytesOrder DEF Prefix
    <2> QED  BY <2>1, <2>2, BelowConcat DEF encode_key
<1>2. ASSUME NEW s \in Seq(Byte), NEW t \in Seq(Byte), NEW e \in Seq(Byte), Below(s, t)
      PROVE  BytesLess(s, t \o e) /\ BytesLess(s \o e, t)
    <2>1. <<>> \in Seq(Byte) /\ s \o <<>> = s /\ t \o <<>> = t
        BY EmptySeq, ConcatEmptySeq
    <2>2. Below(s \o <<>>, t \o e) /\ Below(s \o e, t \o <<>>)
        BY <1>2, <2>1, BelowConcat
    <2>3. s \o e \in Seq(Byte) /\ t \o e \in Seq(Byte)
        BY ConcatProperties
    <2>4. Below(s, t \o e) /\ Below(s \o e, t)
        BY <2>1, <2>2, Zenon
    <2> QED  BY <2>3, <2>4, BelowLess
<1>3. encode_key(q, w) \in Seq(Byte) /\ encode_key(p, u) \in Seq(Byte) /\ encode_key(p, v) \in Seq(Byte)
    BY KeyFacts
<1>4. ~(q < p)
    <2>1. ASSUME q < p  PROVE FALSE
        <3>1. Below(encode_key(q, w), encode_key(p, u))
            BY <1>1, <2>1
        <3> QED  BY <1>2, <1>3, <3>1
    <2> QED  BY <2>1
<1>5. ~(p < q)
    <2>1. ASSUME p < q  PROVE FALSE
        <3>1. Below(encode_key(p, v), encode_key(q, w))
            BY <1>1, <2>1
        <3> QED  BY <1>2, <1>3, <3>1
    <2> QED  BY <2>1
<1>6. p \in Int /\ q \in Int
    BY PrefixFacts, PowNext DEF Prefix
<1> QED  BY <1>4, <1>5, <1>6

\* A bound is the key of its values, padded.
Padded(key, bound) == \E pad \in Seq(Byte) : bound = key \o pad

LEMMA BoundForm ==
    ASSUME NEW p \in Prefix, NEW vals \in Seq(Value), NEW cols \in Seq(Columns), NEW cmp
    PROVE  Padded(encode_key(p, vals), encode_key_partial(p, vals, cols, cmp))
<1> DEFINE missing == Types(SubSeq(cols, Len(vals) + 1, Len(cols)))
<1>1. Len(missing) \in Nat
    <2> DEFINE sub == SubSeq(cols, Len(vals) + 1, Len(cols))
    <2>1. Len(cols) \in Nat /\ Len(vals) \in Nat
        BY LenProperties
    <2>2. \A i \in Len(vals) + 1 .. Len(cols) : cols[i] \in Columns
        <3>1. \A i \in Len(vals) + 1 .. Len(cols) : i \in 1 .. Len(cols)
            BY <2>1
        <3> QED  BY <3>1, ElementOfSeq
    <2>3. sub \in Seq(Columns)
        <3>1. Len(vals) + 1 \in Int /\ Len(cols) \in Int
            BY <2>1
        <3> QED  BY <2>2, <3>1, SubSeqProperties
    <2> HIDE DEF sub
    <2>4. DOMAIN sub = 1 .. Len(sub) /\ Len(sub) \in Nat
        BY <2>3, LenProperties
    <2>5. Types(sub) = [i \in 1 .. Len(sub) |-> Def.types[sub[i]]]
        BY <2>4 DEF Types
    <2>6. Len(Types(sub)) = Len(sub)
        BY <2>4, <2>5
    <2> QED  BY <2>4, <2>6 DEF sub
<1>2. Padding(missing) \in Seq(Byte)
    <2> HIDE DEF missing
    <2> DEFINE bytes == SelectInSeq(missing, LAMBDA type : type = "BYTES")
               ints == IF bytes = 0 THEN Len(missing) ELSE bytes - 1
               n == ints * IntBytes + (IF bytes = 0 THEN 0 ELSE 1)
    <2>1. bytes = 0 \/ bytes \in 1 .. Len(missing)
        BY <1>1, FirstString
    <2>2. Padding(missing) = [i \in 1 .. n |-> Top]
        BY DEF Padding
    <2> HIDE DEF bytes
    <2>3. ints \in Nat
        BY <1>1, <2>1
    <2> HIDE DEF ints
    <2>4. n \in Nat
        BY <2>3, TopFacts
    <2>5. Top \in Byte
        BY TopFacts DEF Byte
    <2> HIDE DEF n
    <2>6. [i \in 1 .. n |-> Top] \in Seq(Byte)
        BY <2>4, <2>5, IsASeq
    <2> QED  BY <2>2, <2>6
<1>3. encode_key(p, vals) \o <<>> = encode_key(p, vals) /\ <<>> \in Seq(Byte)
    BY KeyFacts, ConcatEmptySeq, EmptySeq
<1>4. encode_key_partial(p, vals, cols, cmp) =
         IF cmp \in {"GT", "LE"} THEN encode_key(p, vals) \o Padding(missing) ELSE encode_key(p, vals)
    BY DEF encode_key_partial, Padding
<1> HIDE DEF missing
<1> QED  BY <1>2, <1>3, <1>4, Zenon DEF Padded

\* check_bound: the values of a bound are values of the index's first columns.
LEMMA BoundColumns ==
    ASSUME NEW i \in Indexes, NEW key \in RangeKey, check_bound(Def, i, key)
    PROVE  key.vals \in Seq(Value) /\ OfColumns(key.vals, IndexCols(Def, i))
<1> DEFINE cols == IndexCols(Def, i)
           s == key.cols
           n == Len(s)
<1>1. cols \in Seq(Columns) /\ Len(cols) \in Nat
    BY IndexFacts
<1>2. s \in Seq(STRING) /\ key.vals \in Seq(Value) /\ Len(key.vals) = n
    BY DEF RangeKey
<1>3. /\ IsPrefix(s, cols)
      /\ \A j \in DOMAIN s : key.vals[j].type = Def.types[s[j]]
    BY DEF check_bound
<1> HIDE DEF cols, s
<1>4. n \in Nat /\ DOMAIN s = 1 .. n
    BY <1>2, LenProperties
<1>5. n <= Len(cols) /\ SubSeq(s, 1, n) = SubSeq(cols, 1, n)
    BY <1>3 DEF IsPrefix
<1>6. \A j \in 1 .. n : s[j] = cols[j]
    <2>1. /\ 1 \in Int /\ n \in Int /\ \A j \in 1 .. n : s[j] \in STRING /\ cols[j] \in Columns
        <3>1. \A j \in 1 .. n : j \in 1 .. Len(cols) /\ j \in 1 .. Len(s)
            BY <1>1, <1>4, <1>5
        <3> QED  BY <1>1, <1>2, <1>4, <3>1, ElementOfSeq
    <2>2. \A j \in 1 .. n - 1 + 1 : SubSeq(s, 1, n)[j] = s[1 + j - 1] /\ SubSeq(cols, 1, n)[j] = cols[1 + j - 1]
        BY <2>1, SubSeqProperties
    <2> TAKE j \in 1 .. n
    <2>3. j \in 1 .. n - 1 + 1 /\ 1 + j - 1 = j
        BY <1>4
    <2> QED  BY <1>5, <2>2, <2>3
<1>7. \A j \in 1 .. n : key.vals[j].type = Def.types[cols[j]]
    BY <1>3, <1>4, <1>6
<1> QED  BY <1>2, <1>5, <1>7 DEF OfColumns, cols

\* A request that is accepted, on the index that it is for.
Bound(i, key, cmp) == encode_key_partial(IndexPrefix(i), key.vals, IndexCols(Def, i), cmp)

LEMMA RequestFacts ==
    ASSUME NEW req \in Requests, Accepted(Def, req)
    PROVE  LET i == find_index(Def, req.key1.cols)
           IN  /\ i \in Indexes /\ req.cmp1 \in Comparisons /\ req.cmp2 \in Comparisons
               /\ Forward(req.cmp1) # Forward(req.cmp2)
               /\ \A key \in {req.key1, req.key2} : /\ key.vals \in Seq(Value) /\ OfColumns(key.vals, IndexCols(Def, i))
                                                    /\ \A cmp : Bound(i, key, cmp) \in Seq(Byte)
<1> DEFINE i == find_index(Def, req.key1.cols)
<1>1. /\ req.cmp1 \in Comparisons /\ req.cmp2 \in Comparisons /\ req.key1 \in RangeKey /\ req.key2 \in RangeKey
    BY RequestsAssumption
<1>2. /\ Forward(req.cmp1) # Forward(req.cmp2)
      /\ i # NoIndex /\ check_bound(Def, i, req.key1) /\ check_bound(Def, i, req.key2)
    BY DEF Accepted
<1>3. i \in Indexes
    BY <1>2, IndexChosen
<1> HIDE DEF i
<1>4. \A key \in {req.key1, req.key2} : key.vals \in Seq(Value) /\ OfColumns(key.vals, IndexCols(Def, i))
    BY <1>1, <1>2, <1>3, BoundColumns
<1>5. ASSUME NEW key \in {req.key1, req.key2}, NEW cmp  PROVE Bound(i, key, cmp) \in Seq(Byte)
    <2>1. IndexPrefix(i) \in Prefix /\ IndexCols(Def, i) \in Seq(Columns) /\ key.vals \in Seq(Value)
        BY <1>3, <1>4, IndexFacts
    <2>2. PICK pad \in Seq(Byte) : Bound(i, key, cmp) = encode_key(IndexPrefix(i), key.vals) \o pad
        BY <2>1, BoundForm DEF Bound, Padded
    <2>3. encode_key(IndexPrefix(i), key.vals) \in Seq(Byte)
        BY <2>1, KeyFacts
    <2> QED  BY <2>2, <2>3, ConcatProperties
<1> QED  BY <1>1, <1>2, <1>3, <1>4, <1>5 DEF i

\* The keys of the store between the bounds of a request are the entries of the
\* rows in its range.
LEMMA KeysInRange ==
    ASSUME Inv, NEW req \in Requests, Accepted(Def, req), NEW k \in DOMAIN kv
    PROVE  LET i == find_index(Def, req.key1.cols)
           IN  cmp_ok(k, req.cmp1, Bound(i, req.key1, req.cmp1)) /\ cmp_ok(k, req.cmp2, Bound(i, req.key2, req.cmp2))
                   <=> \E r \in table : InRange(Def, req, r) /\ k = Entry(i, r)
<1> DEFINE i == find_index(Def, req.key1.cols)
           cols == IndexCols(Def, i)
           b1 == Bound(i, req.key1, req.cmp1)
           b2 == Bound(i, req.key2, req.cmp2)
           InBounds == cmp_ok(k, req.cmp1, b1) /\ cmp_ok(k, req.cmp2, b2)
<1>1. /\ i \in Indexes /\ req.cmp1 \in Comparisons /\ req.cmp2 \in Comparisons
      /\ Forward(req.cmp1) # Forward(req.cmp2)
      /\ \A key \in {req.key1, req.key2} : key.vals \in Seq(Value) /\ OfColumns(key.vals, cols)
    BY RequestFacts
<1>2. \A r : InRange(Def, req, r) <=> /\ Satisfies(ValuesOf(r, cols), req.cmp1, req.key1.vals)
                                      /\ Satisfies(ValuesOf(r, cols), req.cmp2, req.key2.vals)
    BY DEF InRange, ScannedCols
<1> HIDE DEF i
<1>3. IndexPrefix(i) \in Prefix /\ cols \in Seq(Columns) /\ Len(cols) \in Nat
    BY <1>1, IndexFacts
<1>4. table \in SUBSET Recs
    BY DEF Inv
<1>5. ASSUME NEW r \in table, k = Entry(i, r)
      PROVE  InBounds <=> InRange(Def, req, r)
    <2> DEFINE w == ValuesOf(r, cols)
    <2>1. w \in Seq(Value) /\ Len(w) = Len(cols) /\ OfColumns(w, cols)
        BY <1>1, <1>4, EntryFacts
    <2>2. k = encode_key(IndexPrefix(i), w)
        BY <1>5 DEF Entry
    <2> HIDE DEF w, cols
    <2>3. \A key \in {req.key1, req.key2} : \A cmp \in Comparisons :
             cmp_ok(k, cmp, encode_key_partial(IndexPrefix(i), key.vals, cols, cmp)) <=> Satisfies(w, cmp, key.vals)
        BY <1>1, <1>3, <2>1, <2>2, BoundExact DEF Comparisons, Prefix
    <2> QED  BY <1>1, <1>2, <2>3 DEF Bound, w, cols
<1>6. ASSUME InBounds  PROVE \E r \in table : k = Entry(i, r)
    <2>1. PICK q \in Prefix, w \in Seq(Value) :
             k = encode_key(q, w) /\ (q = IndexPrefix(i) => \E r \in table : k = Entry(i, r))
        BY <1>1, EntryOfRow
    <2>2. \A key \in {req.key1, req.key2} : \A cmp : Padded(encode_key(IndexPrefix(i), key.vals), Bound(i, key, cmp))
        BY <1>1, <1>3, BoundForm DEF Bound
    <2>3. PICK p1 \in Seq(Byte) : b1 = encode_key(IndexPrefix(i), req.key1.vals) \o p1
        BY <2>2 DEF Padded
    <2>4. PICK p2 \in Seq(Byte) : b2 = encode_key(IndexPrefix(i), req.key2.vals) \o p2
        BY <2>2 DEF Padded
    <2> HIDE DEF b1, b2
    <2>5. k \in Seq(Byte) /\ b1 \in Seq(Byte) /\ b2 \in Seq(Byte)
        BY <1>1, <1>3, <2>1, <2>3, <2>4, KeyFacts, ConcatProperties
    <2>6. \/ ~BytesLess(k, b1) /\ ~BytesLess(b2, k)
          \/ ~BytesLess(k, b2) /\ ~BytesLess(b1, k)
        <3>1. \A cmp \in Comparisons, ref \in Seq(Byte) :
                 cmp_ok(k, cmp, ref) => IF Forward(cmp) THEN ~BytesLess(k, ref) ELSE ~BytesLess(ref, k)
            BY <2>5, BytesLessOrder DEF Comparisons, cmp_ok, Forward
        <3> QED  BY <1>1, <1>6, <2>5, <3>1 DEF Forward
    <2>7. q = IndexPrefix(i)
        BY <1>1, <1>3, <2>1, <2>3, <2>4, <2>6, PrefixBetween
    <2> QED  BY <2>1, <2>7
<1> QED  BY <1>5, <1>6 DEF i

-----------------------------------------------------------------------------
(* Range scans: the rows *)

RowBefore(cols, forward, r, s) ==
    IF forward THEN TupleLess(ValuesOf(r, cols), ValuesOf(s, cols)) ELSE TupleLess(ValuesOf(s, cols), ValuesOf(r, cols))

\* InOrder sorts: it has each row once, after those that are before it.
LEMMA Sorted ==
    ASSUME NEW R, IsFiniteSet(R), NEW cols, NEW forward,
           \A r, s \in R : RowBefore(cols, forward, r, s) => ~RowBefore(cols, forward, s, r),
           \A r, s, t \in R : RowBefore(cols, forward, r, s) /\ RowBefore(cols, forward, s, t)
                                  => RowBefore(cols, forward, r, t),
           \A r, s \in R : r = s \/ RowBefore(cols, forward, r, s) \/ RowBefore(cols, forward, s, r)
    PROVE  LET o == InOrder(R, cols, forward)
               N == Cardinality(R)
           IN  /\ N \in Nat /\ o \in Seq(R) /\ Len(o) = N
               /\ \A r \in R : \E n \in 1 .. N : o[n] = r
               /\ \A m, n \in 1 .. N : m < n => RowBefore(cols, forward, o[m], o[n])
<1> DEFINE B(r, s) == RowBefore(cols, forward, r, s)
           earlier(r) == {s \in R : B(s, r)}
           at(r) == 1 + Cardinality(earlier(r))
           N == Cardinality(R)
           o == InOrder(R, cols, forward)
           f == [r \in R |-> at(r)]
<1>1. o = [n \in 1 .. N |-> CHOOSE r \in R : at(r) = n]
    BY DEF InOrder, RowBefore
<1>2. /\ \A r, s \in R : B(r, s) => ~B(s, r)
      /\ \A r, s, t \in R : B(r, s) /\ B(s, t) => B(r, t)
      /\ \A r, s \in R : r = s \/ B(r, s) \/ B(s, r)
    OBVIOUS
<1> HIDE DEF B
<1>3. N \in Nat /\ \A r : IsFiniteSet(earlier(r)) /\ Cardinality(earlier(r)) \in Nat
    <2>1. N \in Nat
        BY FS_CardinalityType
    <2>2. ASSUME NEW r  PROVE IsFiniteSet(earlier(r)) /\ Cardinality(earlier(r)) \in Nat
        <3>1. earlier(r) \in SUBSET R
            OBVIOUS
        <3> HIDE DEF earlier
        <3> QED  BY <3>1, FS_Subset, FS_CardinalityType
    <2> QED  BY <2>1, <2>2
<1>4. ASSUME NEW r \in R  PROVE at(r) \in 1 .. N
    <2>1. IsFiniteSet(R \ {r}) /\ Cardinality(R \ {r}) = N - 1
        BY FS_RemoveElement
    <2>2. earlier(r) \in SUBSET (R \ {r})
        BY <1>2
    <2>3. Cardinality(earlier(r)) <= N - 1
        <3> HIDE DEF earlier
        <3> QED  BY <2>1, <2>2, FS_Subset
    <2> HIDE DEF earlier, N
    <2> QED  BY <1>3, <2>3
<1>5. ASSUME NEW r \in R, NEW s \in R, B(r, s)  PROVE at(r) < at(s)
    <2>1. r \notin earlier(r)
        BY <1>2
    <2>2. earlier(r) \cup {r} \in SUBSET earlier(s)
        BY <1>2, <1>5
    <2> HIDE DEF earlier
    <2>3. Cardinality(earlier(r) \cup {r}) = Cardinality(earlier(r)) + 1
        BY <1>3, <2>1, FS_AddElement
    <2>4. Cardinality(earlier(r) \cup {r}) <= Cardinality(earlier(s))
        BY <1>3, <2>2, FS_Subset
    <2> QED  BY <1>3, <2>3, <2>4
<1>6. \A r \in R : at(r) \in Nat
    BY <1>3
<1> HIDE DEF at, N
<1>7. ASSUME NEW r \in R, NEW s \in R, at(r) = at(s)  PROVE r = s
    BY <1>2, <1>5, <1>6, <1>7
<1>8. ASSUME NEW n \in 1 .. N  PROVE \E r \in R : at(r) = n
    <2>1. f \in Injection(R, 1 .. N)
        BY <1>4, <1>7 DEF Injection, IsInjective
    <2>2. IsFiniteSet(1 .. N) /\ Cardinality(1 .. N) = N
        <3>1. 1 \in Int /\ N \in Int
            BY <1>3
        <3>2. IsFiniteSet(1 .. N) /\ Cardinality(1 .. N) = IF 1 > N THEN 0 ELSE N - 1 + 1
            BY <3>1, FS_Interval
        <3> QED  BY <1>3, <3>2
    <2>3. Cardinality(R) = Cardinality(1 .. N)
        BY <2>2 DEF N
    <2>4. f \in Surjection(R, 1 .. N)
        <3> HIDE DEF f
        <3> QED  BY <2>1, <2>2, <2>3, FS_Injection
    <2>5. PICK r \in R : f[r] = n
        <3> HIDE DEF f
        <3> QED  BY <2>4 DEF Surjection
    <2> QED  BY <2>5
<1>9. \A n \in 1 .. N : o[n] \in R /\ at(o[n]) = n
    BY <1>1, <1>8
<1>10. DOMAIN o = 1 .. N
    BY <1>1
<1> HIDE DEF o
<1>11. ASSUME NEW r \in R  PROVE \E n \in 1 .. N : o[n] = r
    <2>1. at(r) \in 1 .. N
        BY <1>4
    <2>2. o[at(r)] \in R /\ at(o[at(r)]) = at(r)
        BY <1>9, <2>1
    <2>3. o[at(r)] = r
        BY <1>7, <2>2
    <2> QED  BY <2>1, <2>3
<1>12. ASSUME NEW m \in 1 .. N, NEW n \in 1 .. N, m < n  PROVE B(o[m], o[n])
    <2> DEFINE r == o[m]
               s == o[n]
    <2>1. r \in R /\ s \in R /\ at(r) = m /\ at(s) = n
        BY <1>9
    <2> HIDE DEF r, s
    <2>2. r # s /\ ~B(s, r)
        <3>1. m \in Int /\ n \in Int
            OBVIOUS
        <3>2. ~(at(s) < at(r)) /\ at(s) # at(r)
            BY <1>12, <2>1, <3>1
        <3> QED  BY <1>5, <2>1, <3>2
    <2>3. B(r, s)
        BY <1>2, <2>1, <2>2
    <2> QED  BY <2>3 DEF r, s
<1>13. o \in Seq(R) /\ Len(o) = N
    <2>1. o = [n \in 1 .. N |-> o[n]]
        BY <1>1 DEF o
    <2>2. o \in Seq(R)
        BY <1>3, <1>9, <2>1, IsASeq
    <2> QED  BY <1>3, <1>10, <2>2, LenProperties
<1> QED  BY <1>3, <1>11, <1>12, <1>13 DEF B, N, o

\* The rows of a range in the order of their entries.
LEMMA RangeFacts ==
    ASSUME Inv, NEW req \in Requests, Accepted(Def, req)
    PROVE  LET i == find_index(Def, req.key1.cols)
               o == RangeRows(Def, table, req)
           IN  /\ o \in Seq(Recs) /\ Len(o) \in Nat
               /\ \A n \in 1 .. Len(o) : o[n] \in table /\ InRange(Def, req, o[n])
               /\ \A r \in table : InRange(Def, req, r) => \E n \in 1 .. Len(o) : o[n] = r
               /\ \A m, n \in 1 .. Len(o) : m < n => Before(Forward(req.cmp1), Entry(i, o[m]), Entry(i, o[n]))
<1> DEFINE i == find_index(Def, req.key1.cols)
           cols == IndexCols(Def, i)
           forward == Forward(req.cmp1)
           R == {r \in table : InRange(Def, req, r)}
           o == RangeRows(Def, table, req)
<1>1. i \in Indexes
    BY RequestFacts
<1>2. o = InOrder(R, cols, forward)
    BY DEF RangeRows, ScannedCols
<1>3. /\ table \in SUBSET Recs /\ IsFiniteSet(DOMAIN kv)
      /\ \A r, s \in table : SameKey(r, s) => r = s
    BY DEF Inv, StoreHolds
<1>4. forward \in BOOLEAN
    BY DEF Forward
<1>5. R \in SUBSET table
    OBVIOUS
<1> HIDE DEF i, forward, R, o
<1>6. ASSUME NEW r \in R, NEW s \in R
      PROVE  /\ RowBefore(cols, forward, r, s) <=> Before(forward, Entry(i, r), Entry(i, s))
             /\ Entry(i, r) = Entry(i, s) => r = s
             /\ Entry(i, r) \in Seq(Byte) /\ Entry(i, r) \in DOMAIN kv
    <2>1. r \in table /\ s \in table /\ r \in Recs /\ s \in Recs
        BY <1>3, <1>5
    <2>2. /\ BytesLess(Entry(i, r), Entry(i, s)) <=> TupleLess(ValuesOf(r, cols), ValuesOf(s, cols))
          /\ BytesLess(Entry(i, s), Entry(i, r)) <=> TupleLess(ValuesOf(s, cols), ValuesOf(r, cols))
          /\ Entry(i, r) = Entry(i, s) => SameKey(r, s)
        BY <1>1, <2>1, EntryOrder
    <2>3. Entry(i, r) \in Seq(Byte) /\ Entry(i, r) \in DOMAIN kv
        BY <1>1, <2>1, EntryFacts, EntryStored
    <2> QED  BY <1>3, <2>1, <2>2, <2>3 DEF RowBefore, Before
<1>7. IsFiniteSet(R)
    <2> DEFINE f == [r \in R |-> Entry(i, r)]
    <2>1. f \in Injection(R, DOMAIN kv)
        BY <1>6 DEF Injection, IsInjective
    <2> HIDE DEF f
    <2> QED  BY <1>3, <2>1, FS_Injection
<1>8. /\ \A r, s \in R : RowBefore(cols, forward, r, s) => ~RowBefore(cols, forward, s, r)
      /\ \A r, s, t \in R : RowBefore(cols, forward, r, s) /\ RowBefore(cols, forward, s, t)
                                => RowBefore(cols, forward, r, t)
      /\ \A r, s \in R : r = s \/ RowBefore(cols, forward, r, s) \/ RowBefore(cols, forward, s, r)
    <2>1. ASSUME NEW r \in R, NEW s \in R, NEW t \in R
          PROVE  /\ RowBefore(cols, forward, r, s) => ~RowBefore(cols, forward, s, r)
                 /\ RowBefore(cols, forward, r, s) /\ RowBefore(cols, forward, s, t) => RowBefore(cols, forward, r, t)
                 /\ r = s \/ RowBefore(cols, forward, r, s) \/ RowBefore(cols, forward, s, r)
        <3> DEFINE a == Entry(i, r)
                   b == Entry(i, s)
                   c == Entry(i, t)
        <3>1. /\ RowBefore(cols, forward, r, s) <=> Before(forward, a, b)
              /\ RowBefore(cols, forward, s, r) <=> Before(forward, b, a)
              /\ RowBefore(cols, forward, s, t) <=> Before(forward, b, c)
              /\ RowBefore(cols, forward, r, t) <=> Before(forward, a, c)
              /\ a = b => r = s
              /\ a \in Seq(Byte) /\ b \in Seq(Byte) /\ c \in Seq(Byte)
            BY <1>6
        <3> HIDE DEF a, b, c
        <3> QED  BY <1>4, <3>1, BeforeOrder
    <2> QED  BY <2>1
<1> HIDE DEF cols
<1>9. /\ Cardinality(R) \in Nat /\ o \in Seq(R) /\ Len(o) = Cardinality(R)
      /\ \A r \in R : \E n \in 1 .. Cardinality(R) : o[n] = r
      /\ \A m, n \in 1 .. Cardinality(R) : m < n => RowBefore(cols, forward, o[m], o[n])
    BY <1>2, <1>7, <1>8, Sorted
<1>10. \A n \in 1 .. Len(o) : o[n] \in R
    BY <1>9, ElementOfSeq
<1>11. \A m, n \in 1 .. Len(o) : m < n => Before(forward, Entry(i, o[m]), Entry(i, o[n]))
    BY <1>6, <1>9, <1>10
<1>12. o \in Seq(Recs) /\ Len(o) \in Nat
    <2>1. \A n \in 1 .. Len(o) : o[n] \in Recs
        BY <1>3, <1>5, <1>10
    <2>2. Len(o) \in Nat /\ DOMAIN o = 1 .. Len(o)
        BY <1>9, LenProperties
    <2>3. o = [n \in 1 .. Len(o) |-> o[n]]
        BY <1>9, <2>2
    <2> QED  BY <2>1, <2>2, <2>3, IsASeq
<1> QED  BY <1>9, <1>10, <1>11, <1>12 DEF R, o, i, forward

-----------------------------------------------------------------------------
(* Range scans: the refinement *)

\* The operators of Rows, as RangeScan has them.
LEMMA AbstractSame ==
    /\ \A req : Abstract!Accepted(Def, req) <=> Accepted(Def, req)
    /\ \A rows, req : Abstract!RangeRows(Def, rows, req) = RangeRows(Def, rows, req)
    /\ \A r, s : Abstract!SameKey(r, s) <=> SameKey(r, s)
<1>1. \A keys : Abstract!find_index(Def, keys) = find_index(Def, keys)
    BY DEF Abstract!find_index, find_index, Abstract!Pk, Pk, Abstract!IsPrefix, IsPrefix, Abstract!NoIndex, NoIndex
<1>2. \A i : Abstract!IndexCols(Def, i) = IndexCols(Def, i)
    BY DEF Abstract!IndexCols, IndexCols, Abstract!Pk, Pk
<1>3. \A req : Abstract!Accepted(Def, req) <=> Accepted(Def, req)
    BY <1>1, <1>2 DEF Abstract!Accepted, Accepted, Abstract!check_bound, check_bound, Abstract!IsPrefix, IsPrefix,
       Abstract!Forward, Forward, Abstract!NoIndex, NoIndex
<1>4. \A r, cols : Abstract!ValuesOf(r, cols) = ValuesOf(r, cols)
    BY DEF Abstract!ValuesOf, ValuesOf
<1>5. \A u, v : Abstract!TupleLess(u, v) <=> TupleLess(u, v)
    BY DEF Abstract!TupleLess, TupleLess, Abstract!value_less, value_less, Abstract!BytesLess, BytesLess,
       Abstract!IsStrictPrefix, IsStrictPrefix, Abstract!IsPrefix, IsPrefix
<1>6. \A r, s : Abstract!SameKey(r, s) <=> SameKey(r, s)
    BY <1>4 DEF Abstract!SameKey, SameKey, Abstract!Pk, Pk
<1>7. \A req, r : Abstract!InRange(Def, req, r) <=> InRange(Def, req, r)
    <2>1. \A v, cmp, b : Abstract!Satisfies(v, cmp, b) <=> Satisfies(v, cmp, b)
        BY <1>5 DEF Abstract!Satisfies, Satisfies
    <2>2. \A req : Abstract!ScannedCols(Def, req) = ScannedCols(Def, req)
        BY <1>1, <1>2 DEF Abstract!ScannedCols, ScannedCols
    <2> QED  BY <1>4, <2>1, <2>2 DEF Abstract!InRange, InRange
<1>8. \A rows, cols, forward : Abstract!InOrder(rows, cols, forward) = InOrder(rows, cols, forward)
    BY DEF Abstract!InOrder, InOrder, Abstract!Cardinality, Cardinality, Abstract!ValuesOf, ValuesOf,
       Abstract!TupleLess, TupleLess, Abstract!value_less, value_less, Abstract!BytesLess, BytesLess,
       Abstract!IsStrictPrefix, IsStrictPrefix, Abstract!IsPrefix, IsPrefix
<1>9. \A rows, req : Abstract!RangeRows(Def, rows, req) = RangeRows(Def, rows, req)
    BY <1>1, <1>2, <1>7, <1>8 DEF Abstract!RangeRows, RangeRows, Abstract!Forward, Forward, Abstract!ScannedCols, ScannedCols
<1> QED  BY <1>3, <1>6, <1>9

\* deref: a scan that stands at the entry of a row gives the row.
LEMMA Dereferenced ==
    ASSUME Inv, NEW i \in Indexes, NEW r \in table
    PROVE  deref(i, Entry(i, r)) = r
<1> DEFINE key == Entry(i, r)
           cols == IndexCols(Def, i)
           vals == ValuesOf(r, cols)
           pk == ToSet(Pk(Def))
           d == decode_key(key, cols)
           entry == RowOf(cols, d.vals)
<1>1. /\ r \in Recs /\ key \in DOMAIN kv
      /\ i = 0 => key = row_key(r) /\ kv[key] = encode_values(ValuesOf(r, NonKeyCols))
      /\ i # 0 => kv[key] = <<>>
    BY EntryStored
<1>2. deref(i, key) = IF i = 0 THEN decode_row(key, kv[key])
                      ELSE IF d.ok /\ kv[key] = <<>> THEN db_get(Restrict(entry, pk)) ELSE NoRow
    BY DEF deref
<1>3. CASE i = 0
    <2>1. decode_row(row_key(r), encode_values(ValuesOf(r, NonKeyCols))) = r
        BY <1>1, RowDecoded
    <2> HIDE DEF key, d, entry
    <2> QED  BY <1>1, <1>2, <1>3, <2>1 DEF key
<1>4. CASE i # 0
    <2>1. /\ IndexPrefix(i) \in Prefix /\ cols \in Seq(Columns) /\ Len(cols) \in Nat /\ DOMAIN cols = 1 .. Len(cols)
        BY IndexFacts
    <2>2. key = encode_key(IndexPrefix(i), vals)
        BY DEF Entry
    <2>3. pk \subseteq ToSet(cols)
        <3>1. i \in DOMAIN Def.indexes /\ cols = Def.indexes[i]
            BY <1>4 DEF Indexes, IndexCols
        <3> QED  BY <3>1, DefAssumption
    <2> HIDE DEF cols, key
    <2>4. /\ vals \in Seq(Value) /\ Len(vals) = Len(cols)
          /\ \A j \in 1 .. Len(cols) : vals[j] = r[cols[j]] /\ r[cols[j]].type = Def.types[cols[j]]
        BY <1>1, <2>1, RowValues
    <2> HIDE DEF vals
    <2>5. SubSeq(key, PrefixBytes + 1, Len(key)) = encode_values(vals)
        BY <2>1, <2>2, <2>4, KeyFacts
    <2>6. Len(Types(cols)) = Len(cols) /\ \A j \in 1 .. Len(cols) : Types(cols)[j] = Def.types[cols[j]]
        BY <2>1 DEF Types
    <2>7. Len(Types(cols)) = Len(vals) /\ \A j \in 1 .. Len(vals) : vals[j].type = Types(cols)[j]
        BY <2>4, <2>6
    <2>8. decode_values(encode_values(vals), Types(cols)) = [ok |-> TRUE, pos |-> Len(encode_values(vals)), vals |-> vals]
        BY <2>4, <2>7, DecodesBack
    <2>9. d = [ok |-> TRUE, pos |-> Len(encode_values(vals)), vals |-> vals]
        BY <2>5, <2>8 DEF decode_key
    <2>10. d.ok = TRUE /\ d.vals = vals
        <3> HIDE DEF d
        <3> QED  BY <2>9
    <2> HIDE DEF d
    <2>11. entry = [col \in ToSet(cols) |-> r[col]]
        <3>1. RowOf(cols, vals) = [col \in ToSet(cols) |-> r[col]]
            BY <2>1, <2>4, RowOfColumns
        <3> QED  BY <2>10, <3>1
    <2> HIDE DEF entry, pk
    <2>12. Restrict(entry, pk) = Restrict(r, pk)
        BY <2>3, <2>11 DEF Restrict
    <2>13. deref(i, key) = db_get(Restrict(r, pk))
        BY <1>1, <1>2, <1>4, <2>10, <2>12 DEF key
    <2>14. db_get(Restrict(r, pk)) = r
        <3> DEFINE match == {s \in table : SameKey(s, r)}
        <3>1. r \in match
            BY DEF SameKey
        <3>2. IF match = {} THEN db_get(Restrict(r, pk)) = NoRow ELSE match = {db_get(Restrict(r, pk))}
            BY <1>1, PointQuery DEF pk
        <3> HIDE DEF match
        <3> QED  BY <3>1, <3>2
    <2> QED  BY <2>13, <2>14 DEF key
<1> QED  BY <1>3, <1>4 DEF key

\* seek from a place in the range gives the entry of the row that is next, or
\* leaves the range when there is none.
LEMMA SeekRow ==
    ASSUME Inv, NEW req \in Requests, Accepted(Def, req), NEW n \in 0 .. Len(RangeRows(Def, table, req)),
           NEW cmp \in Comparisons, Forward(cmp) = Forward(req.cmp1), NEW key \in Seq(Byte),
           LET i == find_index(Def, req.key1.cols)
               o == RangeRows(Def, table, req)
           IN  \A k \in DOMAIN kv :
                  cmp_ok(k, cmp, key) /\ cmp_ok(k, req.cmp2, Bound(i, req.key2, req.cmp2))
                      <=> \E m \in n + 1 .. Len(o) : k = Entry(i, o[m])
    PROVE  LET i == find_index(Def, req.key1.cols)
               o == RangeRows(Def, table, req)
               at == seek(key, cmp)
           IN  /\ n < Len(o) => at = Entry(i, o[n + 1])
               /\ n = Len(o) => at = NoKey \/ ~cmp_ok(at, req.cmp2, Bound(i, req.key2, req.cmp2))
<1> DEFINE i == find_index(Def, req.key1.cols)
           o == RangeRows(Def, table, req)
           at == seek(key, cmp)
           end == Bound(i, req.key2, req.cmp2)
           keys == {k \in DOMAIN kv : cmp_ok(k, cmp, key) /\ cmp_ok(k, req.cmp2, end)}
           forward == Forward(cmp)
<1>1. /\ i \in Indexes /\ req.cmp2 \in Comparisons /\ end \in Seq(Byte) /\ forward # Forward(req.cmp2)
    BY RequestFacts
<1>2. DOMAIN kv \in SUBSET Seq(Byte) /\ IsFiniteSet(DOMAIN kv)
    BY KeysAreBytes DEF Inv
<1>3. /\ Len(o) \in Nat /\ \A m \in 1 .. Len(o) : o[m] \in table
      /\ \A l, m \in 1 .. Len(o) : l < m => Before(forward, Entry(i, o[l]), Entry(i, o[m]))
    BY RangeFacts
<1>4. \A k : k \in keys <=> k \in DOMAIN kv /\ \E m \in n + 1 .. Len(o) : k = Entry(i, o[m])
    OBVIOUS
<1>5. /\ keys = {} => at = NoKey \/ ~cmp_ok(at, req.cmp2, end)
      /\ keys # {} => at \in keys /\ \A x \in keys : ~Before(forward, x, at)
    <2> HIDE DEF end
    <2> QED  BY <1>1, <1>2, SeekFirst
<1>6. n \in 0 .. Len(o)
    OBVIOUS
<1> HIDE DEF i, o, at, end, keys, forward
<1>7. \A m \in 1 .. Len(o) : Entry(i, o[m]) \in DOMAIN kv
    BY <1>1, <1>3, EntryStored
<1>8. ASSUME n < Len(o)  PROVE at = Entry(i, o[n + 1])
    <2>1. n + 1 \in 1 .. Len(o) /\ n + 1 \in n + 1 .. Len(o)
        BY <1>3, <1>6, <1>8
    <2>2. Entry(i, o[n + 1]) \in keys
        BY <1>4, <1>7, <2>1
    <2>3. at \in keys /\ ~Before(forward, Entry(i, o[n + 1]), at)
        BY <1>5, <2>2
    <2>4. PICK m \in n + 1 .. Len(o) : at = Entry(i, o[m])
        BY <1>4, <2>3
    <2>5. m \in 1 .. Len(o) /\ (m = n + 1 \/ n + 1 < m)
        BY <1>3, <1>6, <2>4
    <2> QED  BY <1>3, <2>1, <2>3, <2>4, <2>5
<1>9. ASSUME n = Len(o)  PROVE at = NoKey \/ ~cmp_ok(at, req.cmp2, end)
    <2>1. n + 1 .. Len(o) = {}
        BY <1>3, <1>9
    <2>2. keys = {}
        BY <1>4, <2>1
    <2> QED  BY <1>5, <2>2
<1> QED  BY <1>8, <1>9 DEF i, o, at, end

\* Where a scan is after it has given the first n rows of its range.
Placed(sc, n) ==
    LET i == find_index(Def, sc.req.key1.cols)
        o == RangeRows(Def, table, sc.req)
        end == Bound(i, sc.req.key2, sc.req.cmp2)
    IN  /\ sc.req \in Requests /\ Accepted(Def, sc.req)
        /\ sc = [req |-> sc.req, accepted |-> TRUE, index_no |-> i, key_end |-> end, at |-> sc.at]
        /\ n \in 0 .. Len(o)
        /\ n < Len(o) => sc.at = Entry(i, o[n + 1])
        /\ n = Len(o) => sc.at = NoKey \/ ~cmp_ok(sc.at, sc.req.cmp2, end)

\* There is a row to give until all are given.
LEMMA PlacedValid ==
    ASSUME Inv, NEW sc, NEW n, Placed(sc, n)
    PROVE  valid(sc) <=> n < Len(RangeRows(Def, table, sc.req))
<1> DEFINE req == sc.req
           i == find_index(Def, req.key1.cols)
           o == RangeRows(Def, table, req)
           end == Bound(i, req.key2, req.cmp2)
<1>1. /\ req \in Requests /\ Accepted(Def, req)
      /\ sc = [req |-> req, accepted |-> TRUE, index_no |-> i, key_end |-> end, at |-> sc.at]
      /\ n \in 0 .. Len(o)
      /\ n < Len(o) => sc.at = Entry(i, o[n + 1])
      /\ n = Len(o) => sc.at = NoKey \/ ~cmp_ok(sc.at, req.cmp2, end)
    BY DEF Placed
<1>2. sc.key_end = end
    <2> HIDE DEF end
    <2> QED  BY <1>1
<1>3. /\ i \in Indexes
    BY <1>1, RequestFacts
<1>4. /\ Len(o) \in Nat /\ \A m \in 1 .. Len(o) : o[m] \in table /\ InRange(Def, req, o[m])
    BY <1>1, RangeFacts
<1>5. valid(sc) <=> sc.at # NoKey /\ cmp_ok(sc.at, req.cmp2, end)
    BY <1>2 DEF valid
<1>6. ASSUME n < Len(o)  PROVE valid(sc)
    <2>1. n + 1 \in 1 .. Len(o)
        BY <1>1, <1>4, <1>6
    <2> DEFINE r == o[n + 1]
    <2>2. r \in table /\ InRange(Def, req, r) /\ sc.at = Entry(i, r)
        BY <1>1, <1>4, <1>6, <2>1
    <2> HIDE DEF r
    <2>3. r \in Recs /\ Entry(i, r) \in DOMAIN kv /\ Entry(i, r) # NoKey
        BY <1>3, <2>2, EntryStored, EntryFacts
    <2>4. cmp_ok(Entry(i, r), req.cmp2, end)
        BY <1>1, <2>2, <2>3, KeysInRange
    <2> QED  BY <1>5, <2>2, <2>3, <2>4
<1>7. n < Len(o) \/ n = Len(o)
    BY <1>1, <1>4
<1> HIDE DEF o
<1>8. n = Len(o) => ~(n < Len(o))
    BY <1>1, <1>4
<1> QED  BY <1>1, <1>5, <1>6, <1>7, <1>8 DEF o

\* db_scan stands at the first row of the range.
LEMMA OpenedAt ==
    ASSUME Inv, NEW req \in Requests, Accepted(Def, req)
    PROVE  db_scan(req).req = req /\ db_scan(req).accepted = TRUE /\ Placed(db_scan(req), 0)
<1> DEFINE i == find_index(Def, req.key1.cols)
           o == RangeRows(Def, table, req)
           start == Bound(i, req.key1, req.cmp1)
           end == Bound(i, req.key2, req.cmp2)
           sc == db_scan(req)
<1>1. sc = [req |-> req, accepted |-> TRUE, index_no |-> i, key_end |-> end, at |-> seek(start, req.cmp1)]
    BY DEF db_scan, Bound, IndexPrefix
<1>2. i \in Indexes /\ req.cmp1 \in Comparisons /\ start \in Seq(Byte)
    BY RequestFacts
<1>3. Len(o) \in Nat
    BY RangeFacts
<1>4. \A k \in DOMAIN kv : cmp_ok(k, req.cmp1, start) /\ cmp_ok(k, req.cmp2, end)
                               <=> \E m \in 0 + 1 .. Len(o) : k = Entry(i, o[m])
    <2>1. \A k \in DOMAIN kv : cmp_ok(k, req.cmp1, start) /\ cmp_ok(k, req.cmp2, end)
                                   <=> \E r \in table : InRange(Def, req, r) /\ k = Entry(i, r)
        BY KeysInRange
    <2>2. /\ \A m \in 1 .. Len(o) : o[m] \in table /\ InRange(Def, req, o[m])
          /\ \A r \in table : InRange(Def, req, r) => \E m \in 1 .. Len(o) : o[m] = r
        BY RangeFacts
    <2> HIDE DEF i, o, start, end
    <2>3. 0 + 1 .. Len(o) = 1 .. Len(o)
        OBVIOUS
    <2> QED  BY <2>1, <2>2, <2>3
<1>5. 0 \in 0 .. Len(o)
    BY <1>3
<1> DEFINE at == seek(start, req.cmp1)
<1>6. /\ 0 < Len(o) => at = Entry(i, o[0 + 1])
      /\ 0 = Len(o) => at = NoKey \/ ~cmp_ok(at, req.cmp2, end)
    <2> HIDE DEF start
    <2> QED  BY <1>2, <1>4, <1>5, SeekRow
<1>7. sc.req = req /\ sc.accepted = TRUE /\ sc.at = at
    <2> HIDE DEF sc, at, end, i
    <2> QED  BY <1>1 DEF at
<1> HIDE DEF sc, at
<1>8. sc = [req |-> sc.req, accepted |-> TRUE, index_no |-> i, key_end |-> end, at |-> sc.at]
    <2> HIDE DEF i, end
    <2> QED  BY <1>1, <1>7 DEF at
<1> QED  BY <1>5, <1>6, <1>7, <1>8 DEF Placed, sc

\* next goes from a row of the range to the one after it.
LEMMA NextAt ==
    ASSUME Inv, NEW sc, NEW n, Placed(sc, n), n < Len(RangeRows(Def, table, sc.req))
    PROVE  next(sc).req = sc.req /\ next(sc).accepted = TRUE /\ Placed(next(sc), n + 1)
<1> DEFINE req == sc.req
           i == find_index(Def, req.key1.cols)
           o == RangeRows(Def, table, req)
           start == Bound(i, req.key1, req.cmp1)
           end == Bound(i, req.key2, req.cmp2)
           forward == Forward(req.cmp1)
           cmp == IF forward THEN "GT" ELSE "LT"
           key == Entry(i, o[n + 1])
           at == seek(key, cmp)
<1>1. /\ req \in Requests /\ Accepted(Def, req)
      /\ sc = [req |-> req, accepted |-> TRUE, index_no |-> i, key_end |-> end, at |-> sc.at]
      /\ n \in 0 .. Len(o) /\ sc.at = key
    BY DEF Placed
<1>2. i \in Indexes /\ req.cmp1 \in Comparisons /\ start \in Seq(Byte) /\ forward \in BOOLEAN
    <2>1. i \in Indexes /\ req.cmp1 \in Comparisons /\ start \in Seq(Byte)
        BY <1>1, RequestFacts
    <2>2. forward \in BOOLEAN
        BY DEF Forward
    <2> QED  BY <2>1, <2>2
<1>3. /\ Len(o) \in Nat /\ \A m \in 1 .. Len(o) : o[m] \in table /\ InRange(Def, req, o[m])
      /\ \A r \in table : InRange(Def, req, r) => \E m \in 1 .. Len(o) : o[m] = r
      /\ \A l, m \in 1 .. Len(o) : l < m => Before(forward, Entry(i, o[l]), Entry(i, o[m]))
    BY <1>1, RangeFacts
<1>4. \A k \in DOMAIN kv : cmp_ok(k, req.cmp1, start) /\ cmp_ok(k, req.cmp2, end)
                               <=> \E r \in table : InRange(Def, req, r) /\ k = Entry(i, r)
    BY <1>1, KeysInRange
<1>5. n + 1 \in 1 .. Len(o) /\ n + 1 \in 0 .. Len(o)
    <2> HIDE DEF o
    <2>1. n < Len(o)
        BY DEF o
    <2> QED  BY <1>1, <1>3, <2>1
<1>6. /\ cmp \in Comparisons /\ Forward(cmp) = forward
      /\ \A k : cmp_ok(k, cmp, key) <=> Before(forward, key, k)
    <2> HIDE DEF forward, key
    <2>1. CASE forward
        <3>1. cmp = "GT" /\ forward = TRUE
            BY <1>2, <2>1
        <3>2. cmp \in Comparisons /\ Forward(cmp) = forward
            BY <3>1 DEF Comparisons, Forward
        <3>3. \A k : cmp_ok(k, cmp, key) <=> Before(forward, key, k)
            <4> HIDE DEF cmp
            <4> QED  BY <3>1 DEF cmp_ok, Before
        <3> QED  BY <3>2, <3>3
    <2>2. CASE ~forward
        <3>1. cmp = "LT" /\ forward = FALSE
            BY <1>2, <2>2
        <3>2. cmp \in Comparisons /\ Forward(cmp) = forward
            <4>1. ("LT" \in {"GE", "GT"}) = FALSE /\ "LT" \in Comparisons
                BY DEF Comparisons
            <4> HIDE DEF cmp
            <4> QED  BY <3>1, <4>1, Zenon DEF Forward
        <3>3. \A k : cmp_ok(k, cmp, key) <=> Before(forward, key, k)
            <4> HIDE DEF cmp
            <4> QED  BY <3>1 DEF cmp_ok, Before
        <3> QED  BY <3>2, <3>3
    <2> QED  BY <2>1, <2>2
<1>7. \A m \in 1 .. Len(o) : Entry(i, o[m]) \in DOMAIN kv /\ Entry(i, o[m]) \in Seq(Byte)
    BY <1>2, <1>3, EntryStored, EntryFacts
<1>8. DOMAIN kv \in SUBSET Seq(Byte)
    BY KeysAreBytes
<1> HIDE DEF i, o, start, end, forward, cmp
<1>9. key \in Seq(Byte) /\ cmp_ok(key, req.cmp1, start)
    BY <1>3, <1>4, <1>5, <1>7
<1>10. ASSUME NEW k \in DOMAIN kv
       PROVE  cmp_ok(k, cmp, key) /\ cmp_ok(k, req.cmp2, end) <=> \E m \in (n + 1) + 1 .. Len(o) : k = Entry(i, o[m])
    <2>1. ASSUME cmp_ok(k, cmp, key), cmp_ok(k, req.cmp2, end)
          PROVE  \E m \in (n + 1) + 1 .. Len(o) : k = Entry(i, o[m])
        <3>1. k \in Seq(Byte) /\ Before(forward, key, k) /\ ~Before(forward, k, key) /\ k # key
            BY <1>2, <1>6, <1>8, <1>9, <2>1, BeforeOrder
        <3>2. cmp_ok(k, req.cmp1, start)
            BY <1>2, <1>9, <3>1, CmpMonotone DEF forward
        <3>3. PICK m \in 1 .. Len(o) : k = Entry(i, o[m])
            BY <1>3, <1>4, <2>1, <3>2
        <3>4. ~(m < n + 1) /\ m # n + 1
            BY <1>3, <1>5, <3>1, <3>3
        <3>5. m \in (n + 1) + 1 .. Len(o)
            BY <1>3, <1>5, <3>4
        <3> QED  BY <3>3, <3>5
    <2>2. ASSUME NEW m \in (n + 1) + 1 .. Len(o), k = Entry(i, o[m])
          PROVE  cmp_ok(k, cmp, key) /\ cmp_ok(k, req.cmp2, end)
        <3>1. m \in 1 .. Len(o) /\ n + 1 < m
            BY <1>3, <1>5
        <3>2. Before(forward, key, k)
            BY <1>3, <1>5, <2>2, <3>1
        <3>3. cmp_ok(k, req.cmp2, end)
            BY <1>3, <1>4, <2>2, <3>1
        <3> QED  BY <1>6, <3>2, <3>3
    <2> QED  BY <2>1, <2>2
<1>11. /\ n + 1 < Len(o) => at = Entry(i, o[(n + 1) + 1])
       /\ n + 1 = Len(o) => at = NoKey \/ ~cmp_ok(at, req.cmp2, end)
    <2> HIDE DEF key
    <2> QED  BY <1>1, <1>5, <1>6, <1>9, <1>10, SeekRow DEF i, o, end, forward
<1> HIDE DEF at
<1>12. next(sc) = [req |-> req, accepted |-> TRUE, index_no |-> i, key_end |-> end, at |-> at]
    <2>1. next(sc) = [req |-> sc.req, accepted |-> sc.accepted, index_no |-> sc.index_no, key_end |-> sc.key_end, at |-> at]
        BY <1>1 DEF next, at, cmp, forward
    <2>2. sc.accepted = TRUE /\ sc.index_no = i /\ sc.key_end = end
        BY <1>1
    <2> QED  BY <2>1, <2>2
<1> QED  BY <1>1, <1>5, <1>11, <1>12 DEF Placed, i, o, end

\* What db_scan and the caller's loop keep between them: no scan, a refused one,
\* or one that has given the first rows of its range and stands at the next.
ScanState ==
    \/ scan = NoScan /\ given = <<>>
    \/ scan.req \in Requests /\ ~Accepted(Def, scan.req) /\ scan = Unplaced(scan.req) /\ given = <<>>
    \/ Placed(scan, Len(given)) /\ given = SubSeq(RangeRows(Def, table, scan.req), 1, Len(given))

\* A scan without a position gives nothing.
LEMMA UnplacedScan ==
    ASSUME NEW req
    PROVE  /\ Unplaced(req).req = req /\ Unplaced(req).accepted = FALSE /\ Unplaced(req).at = NoKey
           /\ ~valid(Unplaced(req))
<1>1. Unplaced(req).req = req /\ Unplaced(req).accepted = FALSE /\ Unplaced(req).at = NoKey
    BY DEF Unplaced
<1> QED  BY <1>1 DEF valid

LEMMA NotNoRequest == ASSUME NEW req \in Requests  PROVE req # NoRequest
<1>1. req \in [cmp1 : Comparisons, key1 : RangeKey, cmp2 : Comparisons, key2 : RangeKey]
    BY RequestsAssumption
<1>2. "cmp1" \in DOMAIN req
    BY <1>1
<1>3. "cmp1" \notin DOMAIN NoRequest
    BY DEF NoRequest
<1> QED  BY <1>2, <1>3

\* Only a placed scan has a row to give, and it has one until all are given.
LEMMA ValidScan ==
    ASSUME Inv, ScanState, valid(scan)
    PROVE  /\ Placed(scan, Len(given)) /\ given = SubSeq(RangeRows(Def, table, scan.req), 1, Len(given))
           /\ Len(given) < Len(RangeRows(Def, table, scan.req))
<1>1. scan # NoScan /\ scan # Unplaced(scan.req)
    BY UnplacedScan DEF NoScan
<1>2. Placed(scan, Len(given)) /\ given = SubSeq(RangeRows(Def, table, scan.req), 1, Len(given))
    BY <1>1 DEF ScanState
<1> QED  BY <1>2, PlacedValid

\* A turn of the caller's loop.
LEMMA StepTaken ==
    ASSUME Inv, ScanState, step
    PROVE  LET o == RangeRows(Def, table, scan.req)
               n == Len(given)
           IN  /\ n \in Nat /\ Len(o) \in Nat /\ n < Len(o) /\ o \in Seq(table)
               /\ given' = SubSeq(o, 1, n + 1) /\ Len(given') = n + 1
               /\ scan' = next(scan) /\ scan'.req = scan.req /\ scan.accepted = TRUE /\ scan'.accepted = TRUE
               /\ Placed(scan', n + 1)
<1> DEFINE o == RangeRows(Def, table, scan.req)
           n == Len(given)
           i == find_index(Def, scan.req.key1.cols)
<1>1. Placed(scan, n) /\ given = SubSeq(o, 1, n) /\ n < Len(o)
    BY ValidScan DEF step
<1>2. /\ scan.req \in Requests /\ Accepted(Def, scan.req) /\ scan.accepted = TRUE /\ scan.index_no = i
      /\ n \in 0 .. Len(o) /\ scan.at = Entry(i, o[n + 1])
    BY <1>1 DEF Placed
<1>3. i \in Indexes
    BY <1>2, RequestFacts
<1>4. Len(o) \in Nat /\ o \in Seq(table) /\ \A m \in 1 .. Len(o) : o[m] \in table
    BY <1>2, RangeFacts
<1>5. n \in Nat /\ n + 1 \in 1 .. Len(o)
    BY <1>1, <1>2, <1>4
<1>6. deref(scan.index_no, scan.at) = o[n + 1]
    <2>1. o[n + 1] \in table
        BY <1>4, <1>5
    <2> HIDE DEF o, i, n
    <2> QED  BY <1>2, <1>3, <2>1, Dereferenced
<1>7. given' = Append(SubSeq(o, 1, n), o[n + 1])
    BY <1>1, <1>6 DEF step
<1> HIDE DEF o
<1>8. given' = SubSeq(o, 1, n + 1) /\ Len(given') = n + 1
    <2> HIDE DEF n
    <2>1. Append(SubSeq(o, 1, n), o[n + 1]) = SubSeq(o, 1, n + 1)
        BY <1>4, <1>5
    <2>2. Len(SubSeq(o, 1, n + 1)) = n + 1
        BY <1>4, <1>5
    <2> QED  BY <1>7, <2>1, <2>2
<1>9. next(scan).req = scan.req /\ next(scan).accepted = TRUE /\ Placed(next(scan), n + 1)
    BY <1>1, NextAt DEF o
<1>10. scan' = next(scan)
    BY DEF step
<1> QED  BY <1>1, <1>2, <1>4, <1>5, <1>8, <1>9, <1>10 DEF o

\* A scan is opened.
LEMMA OpenTaken ==
    ASSUME Inv, NEW req \in Requests, open(req)
    PROVE  /\ scan'.req = req
           /\ scan'.accepted = Accepted(Def, req)
           /\ Accepted(Def, req) => Placed(scan', 0)
           /\ ~Accepted(Def, req) => scan' = Unplaced(req)
<1>1. scan' = db_scan(req)
    BY DEF open
<1>2. CASE Accepted(Def, req)
    <2>1. scan'.req = req /\ scan'.accepted = TRUE /\ Placed(scan', 0)
        BY <1>1, <1>2, OpenedAt
    <2>2. Accepted(Def, req) = TRUE
        BY <1>2 DEF Accepted
    <2> QED  BY <1>2, <2>1, <2>2
<1>3. CASE ~Accepted(Def, req)
    <2>1. scan' = Unplaced(req)
        BY <1>1, <1>3 DEF db_scan
    <2>2. scan'.req = req /\ scan'.accepted = FALSE
        BY <2>1, UnplacedScan
    <2>3. Accepted(Def, req) = FALSE
        BY <1>3 DEF Accepted
    <2> QED  BY <1>3, <2>1, <2>2, <2>3
<1> QED  BY <1>2, <1>3

\* The place of a scan depends on the table, which no scan changes.
LEMMA ScanStateKept ==
    ASSUME Inv, ScanState, [Next]_vars
    PROVE  ScanState'
<1>1. ASSUME UNCHANGED <<scan, given, table>>  PROVE ScanState'
    BY <1>1 DEF ScanState, Placed
<1>2. ASSUME scan = NoScan, UNCHANGED <<scan, given>>  PROVE ScanState'
    <2>1. given = <<>>
        <3>1. ~Placed(scan, Len(given))
            <4>1. scan.req \notin Requests
                BY <1>2, UnplacedScan, NotNoRequest DEF NoScan
            <4> QED  BY <4>1 DEF Placed
        <3> QED  BY <3>1 DEF ScanState
    <2> QED  BY <1>2, <2>1 DEF ScanState
<1>3. ASSUME NEW req \in Requests, open(req)  PROVE ScanState'
    <2>1. scan = NoScan /\ given' = given /\ table' = table
        BY <1>3 DEF open
    <2>2. given' = <<>>
        <3>1. scan.req \notin Requests
            BY <2>1, UnplacedScan, NotNoRequest DEF NoScan
        <3> QED  BY <2>1, <3>1 DEF ScanState, Placed
    <2>3. /\ scan'.req = req
          /\ Accepted(Def, req) => Placed(scan', 0)
          /\ ~Accepted(Def, req) => scan' = Unplaced(req)
        BY <1>3, OpenTaken
    <2>4. CASE Accepted(Def, req)
        <3>1. Placed(scan', 0)
            BY <2>3, <2>4
        <3>2. Len(given') = 0
            BY <2>2
        <3>3. Placed(scan, Len(given))'
            BY <2>1, <3>1, <3>2 DEF Placed
        <3>4. given' = SubSeq(RangeRows(Def, table', scan'.req), 1, Len(given'))
            <4>1. RangeRows(Def, table, req) \in Seq(Recs)
                BY <2>4, RangeFacts
            <4>2. SubSeq(RangeRows(Def, table, req), 1, 0) = <<>>
                BY <4>1
            <4> QED  BY <2>1, <2>2, <2>3, <3>2, <4>2
        <3> QED  BY <3>3, <3>4 DEF ScanState
    <2>5. CASE ~Accepted(Def, req)
        BY <2>2, <2>3, <2>5 DEF ScanState
    <2> QED  BY <2>4, <2>5
<1>4. CASE step
    <2> DEFINE o == RangeRows(Def, table, scan.req)
               n == Len(given)
    <2>1. /\ given' = SubSeq(o, 1, n + 1) /\ Len(given') = n + 1
          /\ scan'.req = scan.req /\ Placed(scan', n + 1)
        BY <1>4, StepTaken
    <2>2. table' = table
        BY <1>4 DEF step
    <2>3. Placed(scan, Len(given))'
        BY <2>1, <2>2 DEF Placed
    <2>4. given' = SubSeq(RangeRows(Def, table', scan'.req), 1, Len(given'))
        BY <2>1, <2>2
    <2> QED  BY <2>3, <2>4 DEF ScanState
<1>5. CASE drop
    BY <1>5 DEF drop, ScanState
<1> QED  BY <1>1, <1>2, <1>3, <1>4, <1>5 DEF Next, vars, upsert, del

LEMMA ScanInductive == Spec => [](Inv /\ ScanState)
<1>1. Init => ScanState
    BY DEF Init, ScanState
<1>2. Inv /\ ScanState /\ [Next]_vars => ScanState'
    BY ScanStateKept
<1> QED  BY <1>1, <1>2, Inductive, PTL DEF Spec

\* Every step of the scanner is a step of the abstract scan, or changes nothing
\* that it sees.
LEMMA ScanSteps ==
    ASSUME Inv, ScanState, ScanState', [Next]_vars
    PROVE  [Abstract!Next]_(Abstract!vars)
<1>1. /\ NoScan.req = NoRequest /\ NoScan.accepted = FALSE /\ valid(NoScan) = FALSE
    <2>1. ~valid(NoScan)
        BY UnplacedScan DEF NoScan
    <2>2. valid(NoScan) = FALSE
        BY <2>1 DEF valid
    <2> QED  BY <2>2, UnplacedScan DEF NoScan
<1>2. Abstract!NoRequest = NoRequest
    BY DEF Abstract!NoRequest, NoRequest
<1>3. ASSUME NEW rec \in Recs, upsert(rec)  PROVE Abstract!Upsert(rec)
    <2>1. /\ scan = NoScan /\ scan' = scan /\ given' = given
          /\ table' = {r \in table : ~SameKey(r, rec)} \cup {rec}
        BY <1>3 DEF upsert
    <2>2. {r \in table : ~Abstract!SameKey(r, rec)} = {r \in table : ~SameKey(r, rec)}
        BY AbstractSame
    <2>3. scan.req = NoRequest
        BY <1>1, <2>1
    <2>4. valid(scan') = valid(scan) /\ scan'.req = scan.req /\ scan'.accepted = scan.accepted
        BY <2>1
    <2> QED  BY <1>2, <2>1, <2>2, <2>3, <2>4 DEF Abstract!Upsert
<1>4. ASSUME NEW rec \in Recs, del(rec)  PROVE Abstract!Delete(rec)
    <2>1. /\ scan = NoScan /\ scan' = scan /\ given' = given
          /\ table' = {r \in table : ~SameKey(r, rec)}
        BY <1>4 DEF del
    <2>2. {r \in table : ~Abstract!SameKey(r, rec)} = {r \in table : ~SameKey(r, rec)}
        BY AbstractSame
    <2>3. scan.req = NoRequest
        BY <1>1, <2>1
    <2>4. valid(scan') = valid(scan) /\ scan'.req = scan.req /\ scan'.accepted = scan.accepted
        BY <2>1
    <2> QED  BY <1>2, <2>1, <2>2, <2>3, <2>4 DEF Abstract!Delete
<1>5. ASSUME NEW req \in Requests, open(req)  PROVE Abstract!Open
    <2> DEFINE o == RangeRows(Def, table, req)
    <2>1. scan = NoScan /\ given' = given /\ table' = table /\ UNCHANGED <<kv, table>>
        BY <1>5 DEF open
    <2>2. given = <<>>
        <3>1. scan.req \notin Requests
            BY <1>1, <2>1, NotNoRequest
        <3> QED  BY <2>1, <3>1 DEF ScanState, Placed
    <2>3. /\ scan'.req = req /\ scan'.accepted = Accepted(Def, req)
          /\ Accepted(Def, req) => Placed(scan', 0)
          /\ ~Accepted(Def, req) => scan' = Unplaced(req)
        BY <1>5, OpenTaken
    <2>4. valid(scan') <=> Accepted(Def, req) /\ o # <<>>
        <3>1. CASE Accepted(Def, req)
            <4>1. valid(scan') <=> 0 < Len(o)
                BY <2>3, <3>1, PlacedValid
            <4>2. o \in Seq(Recs)
                BY <3>1, RangeFacts
            <4> HIDE DEF o
            <4>3. 0 < Len(o) <=> o # <<>>
                BY <4>2
            <4> QED  BY <3>1, <4>1, <4>3
        <3>2. CASE ~Accepted(Def, req)
            BY <2>3, <3>2, UnplacedScan
        <3> QED  BY <3>1, <3>2
    <2>5. valid(scan') = (scan'.accepted /\ o # <<>>)
        <3>1. valid(scan') \in BOOLEAN
            BY DEF valid
        <3>2. Accepted(Def, req) \in BOOLEAN
            BY DEF Accepted
        <3> HIDE DEF o
        <3>3. valid(scan') <=> (scan'.accepted /\ o # <<>>)
            BY <2>3, <2>4
        <3> QED  BY <3>1, <3>3
    <2>6. scan'.accepted = Abstract!Accepted(Def, scan'.req)
        <3>1. Abstract!Accepted(Def, req) <=> Accepted(Def, req)
            BY AbstractSame
        <3>2. Abstract!Accepted(Def, req) \in BOOLEAN /\ Accepted(Def, req) \in BOOLEAN
            BY DEF Abstract!Accepted, Accepted
        <3>3. Abstract!Accepted(Def, req) = Accepted(Def, req)
            BY <3>1, <3>2
        <3> QED  BY <2>3, <3>3
    <2>7. Abstract!RangeRows(Def, table, scan'.req) = o
        BY <2>3, AbstractSame
    <2>8. scan.req = Abstract!NoRequest /\ scan'.req # Abstract!NoRequest
        BY <1>1, <1>2, <2>1, <2>3, NotNoRequest
    <2> HIDE DEF o
    <2> QED  BY <2>1, <2>2, <2>5, <2>6, <2>7, <2>8 DEF Abstract!Open
<1>6. ASSUME step  PROVE Abstract!Step
    <2> DEFINE o == RangeRows(Def, table, scan.req)
               n == Len(given)
    <2>1. /\ n \in Nat /\ Len(o) \in Nat /\ n < Len(o) /\ o \in Seq(table)
          /\ given' = SubSeq(o, 1, n + 1) /\ Len(given') = n + 1
          /\ scan'.req = scan.req /\ scan.accepted = TRUE /\ scan'.accepted = TRUE
          /\ Placed(scan', n + 1)
        BY <1>6, StepTaken
    <2>2. valid(scan) /\ table' = table
        BY <1>6 DEF step
    <2>3. valid(scan') <=> n + 1 < Len(o)
        <3>1. valid(scan') <=> n + 1 < Len(RangeRows(Def, table, scan'.req))
            BY <2>1, PlacedValid
        <3> QED  BY <2>1, <3>1
    <2>4. Abstract!RangeRows(Def, table, scan.req) = o
        BY AbstractSame
    <2> HIDE DEF o, n
    <2>5. n + 1 < Len(o) <=> o # given'
        <3>1. n + 1 = Len(o) => SubSeq(o, 1, n + 1) = o
            BY <2>1
        <3> QED  BY <2>1, <3>1
    <2>6. valid(scan') = (o # given')
        <3>1. valid(scan') \in BOOLEAN
            BY DEF valid
        <3> QED  BY <2>3, <2>5, <3>1
    <2> QED  BY <2>1, <2>2, <2>4, <2>6 DEF Abstract!Step, n
<1>7. ASSUME drop  PROVE Abstract!Drop
    <2>1. scan # NoScan /\ scan' = NoScan /\ given' = <<>> /\ table' = table
        BY <1>7 DEF drop
    <2>2. scan.req # Abstract!NoRequest
        BY <1>2, <2>1, NotNoRequest DEF ScanState, Placed
    <2>3. scan'.req = Abstract!NoRequest /\ scan'.accepted = FALSE /\ valid(scan') = FALSE
        BY <1>1, <1>2, <2>1
    <2> QED  BY <2>1, <2>2, <2>3 DEF Abstract!Drop
<1>8. CASE UNCHANGED vars
    <2>1. scan' = scan /\ given' = given /\ table' = table
        BY <1>8 DEF vars
    <2>2. valid(scan') = valid(scan) /\ scan'.req = scan.req /\ scan'.accepted = scan.accepted
        BY <2>1
    <2> QED  BY <2>1, <2>2 DEF Abstract!vars
<1> QED  BY <1>3, <1>4, <1>5, <1>6, <1>7, <1>8 DEF Next, Abstract!Next

\* ScansRange for every table, every set of rows and every request: the scanner
\* over encoded keys (db_scan, valid, deref, next, db_update and db_delete)
\* implements the range scan over rows.
THEOREM ScansExactly == Spec => ScansRange
<1>1. Init => Abstract!Init
    <2>1. ASSUME Init  PROVE Abstract!Init
        <3>1. table = {} /\ given = <<>> /\ scan = NoScan
            BY <2>1 DEF Init
        <3>2. /\ NoScan.req = NoRequest /\ NoScan.accepted = FALSE /\ ~valid(NoScan)
            BY UnplacedScan DEF NoScan
        <3>3. valid(NoScan) = FALSE
            BY <3>2 DEF valid
        <3>4. valid(scan) = FALSE /\ scan.req = NoRequest /\ scan.accepted = FALSE
            BY <3>1, <3>2, <3>3
        <3> QED  BY <3>1, <3>4 DEF Abstract!Init, Abstract!NoRequest, NoRequest
    <2> QED  BY <2>1
<1>2. Inv /\ ScanState /\ ScanState' /\ [Next]_vars => [Abstract!Next]_(Abstract!vars)
    BY ScanSteps
<1> QED  BY <1>1, <1>2, ScanInductive, PTL DEF Spec, ScansRange, Abstract!Spec

-----------------------------------------------------------------------------
(* The planner: numbers of any size, and strings *)

AnyValue == [type : {"INT_64"}, int64 : Int] \cup [type : {"BYTES"}, str : Seq(Nat)]

\* What is_comparison accepts.
CmpOp == {"QL_CMP_EQ", "QL_CMP_LT", "QL_CMP_LE", "QL_CMP_GT", "QL_CMP_GE"}

Comparison == [op : CmpOp, col : STRING, val : AnyValue]

\* A table as table_def_check leaves it.
IsTable(def) ==
    /\ def.cols \in Seq(STRING) /\ def.pkeys \in 1 .. Len(def.cols)
    /\ def.indexes \in Seq(Seq(STRING))

-----------------------------------------------------------------------------
(* Tuples *)

\* No value is less than itself.
LEMMA NotLessItself == ASSUME NEW x \in AnyValue PROVE ~value_less(x, x)
<1>1. CASE x \in [type : {"INT_64"}, int64 : Int]
    BY <1>1 DEF value_less
<1>2. CASE x \in [type : {"BYTES"}, str : Seq(Nat)]
    <2>1. x.type # "INT_64" /\ x.str \in Seq(Nat)
        BY <1>2
    <2>2. ~BytesLess(x.str, x.str)
        <3>1. \A i \in DOMAIN x.str : x.str[i] \in Nat
            BY <2>1
        <3>2. \A i \in DOMAIN x.str : ~(x.str[i] < x.str[i])
            BY <3>1
        <3> QED  BY <3>2 DEF BytesLess, IsStrictPrefix
    <2> QED  BY <2>1, <2>2 DEF value_less
<1> QED  BY <1>1, <1>2 DEF AnyValue

\* A tuple that is nowhere less is not less.
LEMMA NowhereLess ==
    ASSUME NEW u, NEW v, \A i \in DOMAIN u : ~value_less(u[i], v[i])
    PROVE  ~TupleLess(u, v)
BY DEF TupleLess

\* A tuple that is less at the end of a common start is less.
LEMMA LessAtEnd ==
    ASSUME NEW u, NEW v, NEW e \in Nat, e + 1 \in DOMAIN u,
           \A j \in 1 .. e : u[j] = v[j], value_less(u[e + 1], v[e + 1])
    PROVE  TupleLess(u, v)
<1>1. (e + 1) - 1 = e
    OBVIOUS
<1>2. \A j \in 1 .. (e + 1) - 1 : u[j] = v[j]
    BY <1>1
<1> QED  BY <1>2 DEF TupleLess

\* A set of numbers up to n has a largest one.
LEMMA Largest ==
    ASSUME NEW n \in Nat, NEW T \in SUBSET (0 .. n), T # {}
    PROVE  \E k \in T : \A m \in T : m <= k
<1> DEFINE D == {d \in 0 .. n : n - d \in T}
<1>1. D # {}
    <2>1. PICK k \in T : TRUE
        OBVIOUS
    <2>2. n - k \in 0 .. n /\ n - (n - k) = k
        OBVIOUS
    <2> QED  BY <2>1, <2>2
<1>2. PICK d \in D : \A m \in D : d <= m
    <2>1. D \in SUBSET Nat
        OBVIOUS
    <2> HIDE DEF D
    <2> QED  BY <1>1, <2>1, Least
<1>3. \A m \in T : m <= n - d
    <2> TAKE m \in T
    <2>1. n - m \in 0 .. n /\ n - (n - m) = m
        OBVIOUS
    <2>2. d <= n - m
        BY <1>2, <2>1
    <2> QED  BY <2>2
<1> QED  BY <1>3

-----------------------------------------------------------------------------
(* The bounds on a column *)

\* What a column's bounds may be when the comparisons' values are in V.
Opt(V) == {<<>>} \cup {<<v>> : v \in V}

ColBound(V) ==
    [eq : Opt(V), lo : Opt(V), lo_open : BOOLEAN, hi : Opt(V), hi_open : BOOLEAN]

\* The bounds let x through.
LetsThrough(b, x) ==
    /\ b.eq # <<>> => b.eq[1] = x
    /\ b.lo # <<>> => IF b.lo_open THEN value_less(b.lo[1], x) ELSE ~value_less(x, b.lo[1])
    /\ b.hi # <<>> => IF b.hi_open THEN value_less(x, b.hi[1]) ELSE ~value_less(b.hi[1], x)

\* The loop of ColBounds.
BoundLoop(f, cmps, col) ==
    f = [n \in 0 .. Len(cmps) |->
            IF n = 0 THEN NoBound
            ELSE IF cmps[n].col # col THEN f[n - 1]
            ELSE add_bound(f[n - 1], cmps[n].op, cmps[n].val)]

\* The loop is well defined, and ColBounds is its result.
LEMMA BoundLoops ==
    ASSUME NEW cmps, NEW col, Len(cmps) \in Nat
    PROVE  \E f : BoundLoop(f, cmps, col) /\ ColBounds(cmps, col) = f[Len(cmps)]
<1> DEFINE N == Len(cmps)
           tighter(b, i) == IF cmps[i].col # col THEN b ELSE add_bound(b, cmps[i].op, cmps[i].val)
           Loop(f, n) == f = [i \in 0 .. n |-> IF i = 0 THEN NoBound ELSE tighter(f[i - 1], i)]
           T == {n \in 0 .. N : ~ \E f : Loop(f, n)}
<1>1. \E f : Loop(f, N)
    <2> HIDE DEF tighter
    <2> SUFFICES ASSUME T # {}  PROVE FALSE
        <3>1. N \in 0 .. N
            OBVIOUS
        <3> QED  BY <3>1
    <2>1. 0 \notin T
        <3>1. Loop([i \in 0 .. 0 |-> NoBound], 0)
            OBVIOUS
        <3> QED  BY <3>1
    <2>2. PICK n \in T : n \in 1 .. N /\ n - 1 \in 0 .. N /\ n - 1 \notin T
        BY <2>1, FirstFailure
    <2>3. PICK f : Loop(f, n - 1)
        BY <2>2
    <2> DEFINE g == [i \in 0 .. n |-> IF i = n THEN tighter(f[n - 1], n) ELSE f[i]]
    <2>4. ASSUME NEW i \in 0 .. n  PROVE g[i] = IF i = 0 THEN NoBound ELSE tighter(g[i - 1], i)
        <3>1. CASE i = n
            BY <2>2, <3>1
        <3>2. CASE i # n
            <4>1. i \in 0 .. n - 1 /\ i - 1 # n /\ g[i] = f[i]
                BY <2>2, <3>2
            <4>2. f[i] = IF i = 0 THEN NoBound ELSE tighter(f[i - 1], i)
                BY <2>3, <4>1
            <4>3. i # 0 => g[i - 1] = f[i - 1]
                BY <2>2, <4>1
            <4> QED  BY <4>1, <4>2, <4>3
        <3> QED  BY <3>1, <3>2
    <2>5. Loop(g, n)
        BY <2>4
    <2> QED  BY <2>2, <2>5
<1>2. ColBounds(cmps, col) = (CHOOSE f : Loop(f, N))[N]
    BY DEF ColBounds
<1>3. Loop(CHOOSE f : Loop(f, N), N)
    <2> HIDE DEF Loop
    <2> QED  BY <1>1
<1> QED  BY <1>2, <1>3 DEF BoundLoop

\* add_bound keeps a column's bounds values of the column, and lets through what
\* the bounds and the comparison let through.
LEMMA AddBound ==
    ASSUME NEW V, NEW b \in ColBound(V), NEW op \in CmpOp, NEW v \in V
    PROVE  /\ add_bound(b, op, v) \in ColBound(V)
           /\ \A x : LetsThrough(b, x) /\ cmp_holds(op, x, v) => LetsThrough(add_bound(b, op, v), x)
<1> DEFINE c == add_bound(b, op, v)
<1>0. <<v>> \in Opt(V) /\ <<v>> # <<>> /\ <<v>>[1] = v
    BY DEF Opt
<1>1. CASE op = "QL_CMP_EQ"
    <2>1. c = IF b.eq = <<>> THEN [b EXCEPT !.eq = <<v>>] ELSE b
        BY <1>1 DEF add_bound
    <2>2. \A x : cmp_holds(op, x, v) <=> x = v
        BY <1>1 DEF cmp_holds
    <2> HIDE DEF c
    <2>3. c \in ColBound(V)
        BY <1>0, <2>1 DEF ColBound
    <2>4. \A x : LetsThrough(b, x) /\ x = v => LetsThrough(c, x)
        <3>1. CASE b.eq = <<>>
            <4>1. /\ c.eq = <<v>> /\ c.lo = b.lo /\ c.lo_open = b.lo_open
                  /\ c.hi = b.hi /\ c.hi_open = b.hi_open
                BY <2>1, <3>1 DEF ColBound
            <4> QED  BY <1>0, <4>1, Zenon DEF LetsThrough
        <3>2. CASE b.eq # <<>>
            BY <2>1, <3>2
        <3> QED  BY <3>1, <3>2
    <2> QED  BY <2>2, <2>3, <2>4 DEF c
<1>2. CASE op \in {"QL_CMP_GT", "QL_CMP_GE"}
    <2>1. c = b \/ c = [b EXCEPT !.lo = <<v>>, !.lo_open = (op = "QL_CMP_GT")]
        BY <1>2 DEF add_bound
    <2>2. \A x : cmp_holds(op, x, v) <=>
                    IF op = "QL_CMP_GT" THEN value_less(v, x) ELSE ~value_less(x, v)
        BY <1>2 DEF cmp_holds
    <2> HIDE DEF c
    <2>3. c \in ColBound(V)
        BY <1>0, <2>1 DEF ColBound
    <2>4. \A x : LetsThrough(b, x) /\ cmp_holds(op, x, v) => LetsThrough(c, x)
        <3>1. CASE c # b
            <4>1. /\ c.eq = b.eq /\ c.lo = <<v>> /\ c.lo_open = (op = "QL_CMP_GT")
                  /\ c.hi = b.hi /\ c.hi_open = b.hi_open
                BY <2>1, <3>1 DEF ColBound
            <4> QED  BY <1>0, <2>2, <4>1, Zenon DEF LetsThrough
        <3> QED  BY <3>1
    <2> QED  BY <2>3, <2>4 DEF c
<1>3. CASE op \in {"QL_CMP_LT", "QL_CMP_LE"}
    <2>1. c = b \/ c = [b EXCEPT !.hi = <<v>>, !.hi_open = (op = "QL_CMP_LT")]
        BY <1>3 DEF add_bound
    <2>2. \A x : cmp_holds(op, x, v) <=>
                    IF op = "QL_CMP_LT" THEN value_less(x, v) ELSE ~value_less(v, x)
        BY <1>3 DEF cmp_holds
    <2> HIDE DEF c
    <2>3. c \in ColBound(V)
        BY <1>0, <2>1 DEF ColBound
    <2>4. \A x : LetsThrough(b, x) /\ cmp_holds(op, x, v) => LetsThrough(c, x)
        <3>1. CASE c # b
            <4>1. /\ c.eq = b.eq /\ c.lo = b.lo /\ c.lo_open = b.lo_open
                  /\ c.hi = <<v>> /\ c.hi_open = (op = "QL_CMP_LT")
                BY <2>1, <3>1 DEF ColBound
            <4> QED  BY <1>0, <2>2, <4>1, Zenon DEF LetsThrough
        <3> QED  BY <3>1
    <2> QED  BY <2>3, <2>4 DEF c
<1> QED  BY <1>1, <1>2, <1>3 DEF CmpOp

\* A column's bounds are values of the column, and let through every value that
\* the comparisons with the column let through.
LEMMA ColBoundsHold ==
    ASSUME NEW V, NEW col, NEW cmps \in Seq(Comparison),
           \A i \in 1 .. Len(cmps) : cmps[i].col = col => cmps[i].val \in V
    PROVE  /\ ColBounds(cmps, col) \in ColBound(V)
           /\ \A x : (\A i \in 1 .. Len(cmps) :
                          cmps[i].col = col => cmp_holds(cmps[i].op, x, cmps[i].val))
                     => LetsThrough(ColBounds(cmps, col), x)
<1> DEFINE N == Len(cmps)
           Passes(x) == \A i \in 1 .. N :
                            cmps[i].col = col => cmp_holds(cmps[i].op, x, cmps[i].val)
           Good(b) == b \in ColBound(V) /\ \A x : Passes(x) => LetsThrough(b, x)
<1>1. N \in Nat /\ \A i \in 1 .. N : cmps[i].op \in CmpOp
    <2>1. N \in Nat /\ \A i \in 1 .. N : cmps[i] \in Comparison
        BY ElementOfSeq, LenProperties
    <2> QED  BY <2>1 DEF Comparison
<1>2. PICK f : BoundLoop(f, cmps, col) /\ ColBounds(cmps, col) = f[N]
    BY <1>1, BoundLoops
<1>3. Good(NoBound)
    <2>1. NoBound \in ColBound(V)
        BY DEF NoBound, ColBound, Opt
    <2>2. NoBound.eq = <<>> /\ NoBound.lo = <<>> /\ NoBound.hi = <<>>
        BY DEF NoBound
    <2> QED  BY <2>1, <2>2 DEF LetsThrough
<1>4. ASSUME NEW i \in 1 .. N, NEW b, Good(b), cmps[i].col = col
      PROVE  Good(add_bound(b, cmps[i].op, cmps[i].val))
    <2>1. /\ add_bound(b, cmps[i].op, cmps[i].val) \in ColBound(V)
          /\ \A x : LetsThrough(b, x) /\ cmp_holds(cmps[i].op, x, cmps[i].val)
                        => LetsThrough(add_bound(b, cmps[i].op, cmps[i].val), x)
        BY <1>1, <1>4, AddBound
    <2> QED  BY <1>4, <2>1
<1> DEFINE T == {n \in 0 .. N : ~Good(f[n])}
<1>5. T = {}
    <2> HIDE DEF Good
    <2> SUFFICES ASSUME T # {}  PROVE FALSE
        OBVIOUS
    <2>1. 0 \notin T
        BY <1>1, <1>2, <1>3 DEF BoundLoop
    <2>2. PICK n \in T : n \in 1 .. N /\ n - 1 \in 0 .. N /\ n - 1 \notin T
        BY <1>1, <2>1, FirstFailure
    <2>3. Good(f[n - 1])
        BY <2>2
    <2>4. f[n] = IF cmps[n].col # col THEN f[n - 1]
                 ELSE add_bound(f[n - 1], cmps[n].op, cmps[n].val)
        BY <1>1, <1>2, <2>2 DEF BoundLoop
    <2>5. Good(f[n])
        BY <1>4, <2>2, <2>3, <2>4
    <2> QED  BY <2>2, <2>5
<1>6. Good(f[N])
    <2> HIDE DEF Good
    <2> QED  BY <1>1, <1>5
<1> QED  BY <1>2, <1>6

-----------------------------------------------------------------------------
(* The columns of an index that the bounds pin down *)

\* fit_cols gives a run of columns with an equality, and a range on the next one
\* only if it has a bound.
LEMMA Fits ==
    ASSUME NEW cols \in Seq(STRING), NEW bounds
    PROVE  LET fit == fit_cols(cols, bounds)
           IN  /\ fit.eq \in 0 .. Len(cols) /\ fit.range \in BOOLEAN
               /\ \A i \in 1 .. fit.eq : cols[i] \in DOMAIN bounds /\ bounds[cols[i]].eq # <<>>
               /\ fit.range => /\ fit.eq < Len(cols) /\ cols[fit.eq + 1] \in DOMAIN bounds
                               /\ \/ bounds[cols[fit.eq + 1]].lo # <<>>
                                  \/ bounds[cols[fit.eq + 1]].hi # <<>>
<1> DEFINE has_eq(i) == cols[i] \in DOMAIN bounds /\ bounds[cols[i]].eq # <<>>
           runs == {n \in 0 .. Len(cols) : \A i \in 1 .. n : has_eq(i)}
           eq == CHOOSE n \in runs : \A m \in runs : m <= n
           range == /\ eq < Len(cols) /\ cols[eq + 1] \in DOMAIN bounds
                    /\ bounds[cols[eq + 1]].lo # <<>> \/ bounds[cols[eq + 1]].hi # <<>>
<1>1. Len(cols) \in Nat
    BY LenProperties
<1>2. eq \in runs
    <2>1. 0 \in runs
        <3>1. 1 .. 0 = {}
            OBVIOUS
        <3> QED  BY <1>1, <3>1
    <2>2. runs \in SUBSET (0 .. Len(cols))
        OBVIOUS
    <2> HIDE DEF runs
    <2>3. \E n \in runs : \A m \in runs : m <= n
        BY <1>1, <2>1, <2>2, Largest
    <2> QED  BY <2>3
<1>3. fit_cols(cols, bounds) = [eq |-> eq, range |-> range]
    BY Zenon DEF fit_cols
<1>4. fit_cols(cols, bounds).eq = eq /\ fit_cols(cols, bounds).range = range
    <2> HIDE DEF eq, range
    <2> QED  BY <1>3
<1>5. eq \in 0 .. Len(cols) /\ \A i \in 1 .. eq : has_eq(i)
    BY <1>2
<1> HIDE DEF eq
<1> QED  BY <1>4, <1>5

\* One of the two keys of a range over the columns: a value for each of the first
\* eq columns, and then one for the next if the side has a bound.
SideKey(key, cols, bounds, eq, side) ==
    LET n == eq + Len(side)
    IN  /\ n \in 0 .. Len(cols)
        /\ key.cols = SubSeq(cols, 1, n) /\ key.vals \in Seq(AnyValue) /\ Len(key.vals) = n
        /\ \A i \in 1 .. eq : key.vals[i] = bounds[cols[i]].eq[1]
        /\ side # <<>> => n = eq + 1 /\ key.vals[eq + 1] = side[1]

\* Bounds of values, on each of the columns they are about.
IsBounds(bounds) == \A col \in DOMAIN bounds : bounds[col] \in ColBound(AnyValue)

\* RangeOf gives two such keys, and opens a side if its bound is open.
LEMMA RangeKeys ==
    ASSUME NEW cols \in Seq(STRING), NEW bounds, IsBounds(bounds)
    PROVE  LET fit == fit_cols(cols, bounds)
               b == bounds[cols[fit.eq + 1]]
               lo == IF fit.range THEN b.lo ELSE <<>>
               hi == IF fit.range THEN b.hi ELSE <<>>
               range == RangeOf(cols, bounds, fit)
           IN  /\ SideKey(range.key1, cols, bounds, fit.eq, lo)
               /\ SideKey(range.key2, cols, bounds, fit.eq, hi)
               /\ range.cmp1 = IF lo # <<>> /\ b.lo_open THEN "GT" ELSE "GE"
               /\ range.cmp2 = IF hi # <<>> /\ b.hi_open THEN "LT" ELSE "LE"
<1> DEFINE fit == fit_cols(cols, bounds)
           e == fit.eq
           b == bounds[cols[e + 1]]
           eqs == SubSeq(cols, 1, e)
           same == [i \in DOMAIN eqs |-> bounds[eqs[i]].eq[1]]
           key(vals) == [cols |-> SubSeq(cols, 1, Len(vals)), vals |-> vals]
           range == RangeOf(cols, bounds, fit)
<1>1. /\ e \in 0 .. Len(cols) /\ fit.range \in BOOLEAN /\ Len(cols) \in Nat
      /\ \A i \in 1 .. e : cols[i] \in DOMAIN bounds /\ bounds[cols[i]].eq # <<>>
      /\ fit.range => e < Len(cols) /\ cols[e + 1] \in DOMAIN bounds
    BY Fits, LenProperties
<1>r. range = IF ~fit.range
              THEN [WholeTable EXCEPT !.key1 = key(same), !.key2 = key(same)]
              ELSE [cmp1 |-> IF b.lo # <<>> /\ b.lo_open THEN "GT" ELSE "GE",
                    key1 |-> key(same \o b.lo),
                    cmp2 |-> IF b.hi # <<>> /\ b.hi_open THEN "LT" ELSE "LE",
                    key2 |-> key(same \o b.hi)]
    BY Zenon DEF RangeOf
<1> HIDE DEF fit
<1>2. eqs \in Seq(STRING) /\ Len(eqs) = e /\ \A i \in 1 .. e : eqs[i] = cols[i]
    <2>1. \A i \in 1 .. e : cols[i] \in STRING
        BY <1>1, ElementOfSeq
    <2> HIDE DEF e
    <2> QED  BY <1>1, <2>1, SubSeqProperties
<1>3. /\ same \in Seq(AnyValue) /\ Len(same) = e
      /\ \A i \in 1 .. e : same[i] = bounds[cols[i]].eq[1]
    <2>1. \A i \in 1 .. e : bounds[cols[i]].eq[1] \in AnyValue
        <3> TAKE i \in 1 .. e
        <3>1. bounds[cols[i]].eq \in Opt(AnyValue) /\ bounds[cols[i]].eq # <<>>
            BY <1>1 DEF IsBounds, ColBound
        <3> QED  BY <3>1 DEF Opt
    <2>2. DOMAIN eqs = 1 .. e
        BY <1>2, LenProperties
    <2>3. \A i \in 1 .. e : same[i] = bounds[cols[i]].eq[1]
        BY <1>2, <2>2
    <2>4. same \in [1 .. e -> AnyValue]
        BY <2>1, <2>2, <2>3
    <2>5. same \in Seq(AnyValue) /\ Len(same) = e
        <3> HIDE DEF same, e
        <3> QED  BY <1>1, <2>4
    <2> QED  BY <2>3, <2>5
<1> HIDE DEF same, e
<1>4. ASSUME NEW side \in Opt(AnyValue), side # <<>> => e < Len(cols)
      PROVE  SideKey(key(same \o side), cols, bounds, e, side)
    <2>1. side \in Seq(AnyValue) /\ Len(side) = IF side = <<>> THEN 0 ELSE 1
        <3>1. \A v \in AnyValue : <<v>> \in Seq(AnyValue) /\ <<v>> # <<>> /\ Len(<<v>>) = 1
            OBVIOUS
        <3>2. side = <<>> \/ \E v \in AnyValue : side = <<v>>
            BY DEF Opt
        <3>3. CASE side = <<>>
            BY <3>3
        <3>4. CASE \E v \in AnyValue : side = <<v>>
            BY <3>1, <3>4, Zenon
        <3> QED  BY <3>2, <3>3, <3>4
    <2>2. e + Len(side) \in 0 .. Len(cols)
        BY <1>1, <1>4, <2>1
    <2>3. /\ same \o side \in Seq(AnyValue) /\ Len(same \o side) = e + Len(side)
          /\ \A i \in 1 .. e + Len(side) :
                (same \o side)[i] = IF i <= e THEN same[i] ELSE side[i - e]
        BY <1>3, <2>1, ConcatProperties
    <2> DEFINE vals == same \o side
    <2>4. \A i \in 1 .. e : vals[i] = bounds[cols[i]].eq[1]
        <3> TAKE i \in 1 .. e
        <3>1. i \in 1 .. e + Len(side) /\ i <= e
            BY <1>1, <2>1
        <3> HIDE DEF vals
        <3> QED  BY <1>3, <2>3, <3>1 DEF vals
    <2>5. side # <<>> => e + Len(side) = e + 1 /\ vals[e + 1] = side[1]
        <3> SUFFICES ASSUME side # <<>>
                     PROVE  e + Len(side) = e + 1 /\ vals[e + 1] = side[1]
            OBVIOUS
        <3>1. Len(side) = 1
            BY <2>1
        <3>2. e + 1 \in 1 .. e + Len(side) /\ ~(e + 1 <= e) /\ (e + 1) - e = 1
            BY <1>1, <3>1
        <3> QED  BY <2>3, <3>1, <3>2
    <2>6. vals \in Seq(AnyValue) /\ Len(vals) = e + Len(side)
        BY <2>3
    <2> HIDE DEF vals
    <2>7. key(vals).cols = SubSeq(cols, 1, e + Len(side)) /\ key(vals).vals = vals
        BY <2>6
    <2> HIDE DEF key
    <2> QED  BY <2>2, <2>4, <2>5, <2>6, <2>7 DEF SideKey, vals
<1>5. <<>> \in Opt(AnyValue) /\ same \o <<>> = same
    BY <1>3, ConcatEmptySeq DEF Opt
<1>6. CASE ~fit.range
    <2>1. /\ range.key1 = key(same) /\ range.key2 = key(same)
          /\ range.cmp1 = "GE" /\ range.cmp2 = "LE"
        <3> HIDE DEF range, key
        <3> QED  BY <1>r, <1>6 DEF WholeTable
    <2>2. SideKey(key(same), cols, bounds, e, <<>>)
        BY <1>4, <1>5
    <2> HIDE DEF range, key
    <2> QED  BY <1>6, <2>1, <2>2 DEF range, e, fit
<1>7. CASE fit.range
    <2>1. b.lo \in Opt(AnyValue) /\ b.hi \in Opt(AnyValue)
        BY <1>1, <1>7 DEF IsBounds, ColBound
    <2>2. /\ SideKey(key(same \o b.lo), cols, bounds, e, b.lo)
          /\ SideKey(key(same \o b.hi), cols, bounds, e, b.hi)
        BY <1>1, <1>4, <1>7, <2>1
    <2>3. /\ range.key1 = key(same \o b.lo) /\ range.key2 = key(same \o b.hi)
          /\ range.cmp1 = IF b.lo # <<>> /\ b.lo_open THEN "GT" ELSE "GE"
          /\ range.cmp2 = IF b.hi # <<>> /\ b.hi_open THEN "LT" ELSE "LE"
        <3> HIDE DEF range, key, b
        <3> QED  BY <1>r, <1>7
    <2> HIDE DEF range, key
    <2> QED  BY <1>7, <2>2, <2>3 DEF range, e, fit
<1> QED  BY <1>1, <1>6, <1>7

\* A range key names the first columns of the index that is scanned, so a row is
\* compared with it by the row's values of the key's own columns.
LEMMA ComparedValues ==
    ASSUME NEW cols \in Seq(STRING), NEW scanned \in Seq(STRING), NEW n \in 0 .. Len(cols),
           IsPrefix(SubSeq(cols, 1, n), scanned), NEW rec
    PROVE  LET v == SubSeq(ValuesOf(rec, scanned), 1, n)
           IN  DOMAIN v = 1 .. n /\ \A i \in 1 .. n : v[i] = rec[cols[i]]
<1> DEFINE start == SubSeq(cols, 1, n)
           vals == ValuesOf(rec, scanned)
           v == SubSeq(vals, 1, n)
<1>1. Len(cols) \in Nat /\ n \in Nat /\ Len(scanned) \in Nat /\ DOMAIN scanned = 1 .. Len(scanned)
    BY LenProperties
<1>2. start \in Seq(STRING) /\ Len(start) = n /\ \A i \in 1 .. n : start[i] = cols[i]
    <2>1. \A i \in 1 .. n : cols[i] \in STRING
        BY <1>1, ElementOfSeq
    <2> QED  BY <1>1, <2>1, SubSeqProperties
<1>3. n <= Len(scanned) /\ start = SubSeq(scanned, 1, n)
    <2>1. n <= Len(scanned) /\ SubSeq(start, 1, n) = SubSeq(scanned, 1, n)
        BY <1>2 DEF IsPrefix
    <2>2. SubSeq(start, 1, n) = start
        <3> HIDE DEF start
        <3> QED  BY <1>2, SubSeqFull
    <2> QED  BY <2>1, <2>2
<1>4. \A i \in 1 .. n : scanned[i] = cols[i]
    <2>1. \A i \in 1 .. n : scanned[i] \in STRING
        BY <1>1, <1>3, ElementOfSeq
    <2>2. \A i \in 1 .. n : SubSeq(scanned, 1, n)[i] = scanned[i]
        BY <1>1, <2>1, SubSeqProperties
    <2> QED  BY <1>2, <1>3, <2>2
<1>5. \A i \in 1 .. n : vals[i] = rec[cols[i]]
    BY <1>1, <1>3, <1>4 DEF ValuesOf
<1> DEFINE S == {vals[i] : i \in 1 .. n}
<1>6. v \in Seq(S) /\ Len(v) = n /\ \A i \in 1 .. n : v[i] = vals[i]
    <2>1. \A i \in 1 .. n : vals[i] \in S
        OBVIOUS
    <2> HIDE DEF S, vals
    <2> QED  BY <1>1, <2>1, SubSeqProperties
<1>7. DOMAIN v = 1 .. n
    <2> HIDE DEF S, v
    <2> QED  BY <1>6, LenProperties
<1> QED  BY <1>5, <1>6, <1>7

\* A row that the bounds let through satisfies both sides of the range.
LEMMA SidesHold ==
    ASSUME NEW cols \in Seq(STRING), NEW scanned \in Seq(STRING), NEW bounds, NEW eq \in Nat,
           NEW rec, \A i \in 1 .. eq : bounds[cols[i]].eq[1] = rec[cols[i]],
           NEW key, NEW side \in Opt(AnyValue), SideKey(key, cols, bounds, eq, side),
           IsPrefix(key.cols, scanned)
    PROVE  LET x == rec[cols[eq + 1]]
               vals == ValuesOf(rec, scanned)
           IN  /\ (side # <<>> => ~value_less(x, side[1])) => Satisfies(vals, "GE", key.vals)
               /\ (side # <<>> => ~value_less(side[1], x)) => Satisfies(vals, "LE", key.vals)
               /\ side # <<>> /\ value_less(side[1], x) => Satisfies(vals, "GT", key.vals)
               /\ side # <<>> /\ value_less(x, side[1]) => Satisfies(vals, "LT", key.vals)
<1> DEFINE x == rec[cols[eq + 1]]
           vals == ValuesOf(rec, scanned)
           n == eq + Len(side)
           v == SubSeq(vals, 1, n)
           k == key.vals
<1>0. Len(side) = IF side = <<>> THEN 0 ELSE 1
    <2>1. CASE side = <<>>
        BY <2>1
    <2>2. CASE \E w \in AnyValue : side = <<w>>
        BY <2>2
    <2> QED  BY <2>1, <2>2 DEF Opt
<1>1. /\ n \in 0 .. Len(cols) /\ key.cols = SubSeq(cols, 1, n) /\ k \in Seq(AnyValue) /\ Len(k) = n
      /\ \A i \in 1 .. eq : k[i] = bounds[cols[i]].eq[1]
      /\ side # <<>> => n = eq + 1 /\ k[eq + 1] = side[1]
    BY DEF SideKey
<1>2. DOMAIN v = 1 .. n /\ \A i \in 1 .. n : v[i] = rec[cols[i]]
    <2> HIDE DEF n
    <2>1. n \in 0 .. Len(cols) /\ IsPrefix(SubSeq(cols, 1, n), scanned)
        BY <1>1
    <2>2. ASSUME NEW m \in 0 .. Len(cols), IsPrefix(SubSeq(cols, 1, m), scanned)
          PROVE  /\ DOMAIN SubSeq(vals, 1, m) = 1 .. m
                 /\ \A i \in 1 .. m : SubSeq(vals, 1, m)[i] = rec[cols[i]]
        BY <2>2, ComparedValues
    <2> HIDE DEF vals
    <2> QED  BY <2>1, <2>2
<1>3. DOMAIN k = 1 .. n
    BY <1>1, LenProperties
<1>4. \A i \in 1 .. eq : i \in 1 .. n /\ v[i] = k[i] /\ k[i] \in AnyValue
    <2> TAKE i \in 1 .. eq
    <2>1. i \in 1 .. n
        BY <1>0
    <2>2. v[i] = rec[cols[i]] /\ k[i] = bounds[cols[i]].eq[1]
        BY <1>1, <1>2, <2>1
    <2>3. k[i] \in AnyValue
        BY <1>1, <2>1, ElementOfSeq
    <2> QED  BY <2>1, <2>2, <2>3
<1>5. side # <<>> => n = eq + 1 /\ eq + 1 \in 1 .. n /\ v[eq + 1] = x /\ k[eq + 1] = side[1]
    BY <1>0, <1>1, <1>2
<1>6. \A i \in 1 .. n : i \in 1 .. eq \/ (i = eq + 1 /\ side # <<>>)
    BY <1>0
<1>7. Len(k) = n
    BY <1>1
<1> HIDE DEF n, v, vals, k, x
<1>8. ASSUME side # <<>> => ~value_less(x, side[1])  PROVE ~TupleLess(v, k)
    <2>1. \A i \in 1 .. n : ~value_less(v[i], k[i])
        BY <1>4, <1>5, <1>6, <1>8, NotLessItself
    <2> QED  BY <1>2, <2>1, NowhereLess
<1>9. ASSUME side # <<>> => ~value_less(side[1], x)  PROVE ~TupleLess(k, v)
    <2>1. \A i \in 1 .. n : ~value_less(k[i], v[i])
        BY <1>4, <1>5, <1>6, <1>9, NotLessItself
    <2> QED  BY <1>3, <2>1, NowhereLess
<1>10. ASSUME side # <<>>, value_less(side[1], x)  PROVE TupleLess(k, v)
    BY <1>3, <1>4, <1>5, <1>10, LessAtEnd
<1>11. ASSUME side # <<>>, value_less(x, side[1])  PROVE TupleLess(v, k)
    BY <1>2, <1>4, <1>5, <1>11, LessAtEnd
<1>12. /\ Satisfies(vals, "GE", k) <=> ~TupleLess(v, k)
       /\ Satisfies(vals, "GT", k) <=> TupleLess(k, v)
       /\ Satisfies(vals, "LE", k) <=> ~TupleLess(k, v)
       /\ Satisfies(vals, "LT", k) <=> TupleLess(v, k)
    BY <1>7 DEF Satisfies, v
<1> QED  BY <1>8, <1>9, <1>10, <1>11, <1>12 DEF x, vals, k

-----------------------------------------------------------------------------
(* The choice of the index *)

\* Of finitely many scores there is a first one among the largest.
LEMMA FirstBest ==
    ASSUME NEW N \in Nat, NEW s, \A i \in 0 .. N : s[i] \in Nat
    PROVE  \E i \in 0 .. N : \A j \in 0 .. N : s[j] <= s[i] /\ (j < i => s[j] < s[i])
<1> DEFINE Best(i, n) == \A j \in 0 .. n : s[j] <= s[i] /\ (j < i => s[j] < s[i])
           T == {n \in 0 .. N : ~ \E i \in 0 .. n : Best(i, n)}
<1> SUFFICES ASSUME T # {}  PROVE FALSE
    <2>1. N \in 0 .. N
        OBVIOUS
    <2> QED  BY <2>1
<1>1. 0 \notin T
    <2>1. 0 \in 0 .. 0 /\ Best(0, 0)
        OBVIOUS
    <2> QED  BY <2>1
<1>2. PICK n \in T : n \in 1 .. N /\ n - 1 \in 0 .. N /\ n - 1 \notin T
    BY <1>1, FirstFailure
<1>3. PICK i \in 0 .. n - 1 : Best(i, n - 1)
    BY <1>2
<1>4. CASE s[n] <= s[i]
    <2>1. \A j \in 0 .. n : j \in 0 .. n - 1 \/ (j = n /\ ~(n < i))
        BY <1>2
    <2>2. Best(i, n)
        BY <1>3, <1>4, <2>1
    <2>3. i \in 0 .. n
        BY <1>2
    <2> QED  BY <1>2, <2>2, <2>3
<1>5. CASE ~(s[n] <= s[i])
    <2>1. n \in 0 .. n /\ Best(n, n)
        BY <1>2, <1>3, <1>5
    <2> QED  BY <1>2, <2>1
<1> QED  BY <1>4, <1>5

\* The columns of the primary key and of the indexes.
LEMMA IndexColumns ==
    ASSUME NEW def, IsTable(def), NEW i \in 0 .. Len(def.indexes)
    PROVE  IndexCols(def, i) \in Seq(STRING) /\ Len(def.indexes) \in Nat
<1>1. Len(def.indexes) \in Nat
    BY LenProperties DEF IsTable
<1>2. CASE i = 0
    <2>1. def.pkeys \in Int /\ \A j \in 1 .. def.pkeys : def.cols[j] \in STRING
        BY LenProperties, ElementOfSeq DEF IsTable
    <2>2. SubSeq(def.cols, 1, def.pkeys) \in Seq(STRING)
        BY <2>1, SubSeqProperties
    <2> QED  BY <1>1, <1>2, <2>2 DEF IndexCols, Pk
<1>3. CASE i # 0
    <2>1. i \in 1 .. Len(def.indexes)
        BY <1>1, <1>3
    <2> QED  BY <1>1, <1>3, <2>1, ElementOfSeq DEF IndexCols, IsTable
<1> QED  BY <1>2, <1>3

\* find_index finds an index that starts with the columns if there is one.
LEMMA IndexFound ==
    ASSUME NEW def, IsTable(def), NEW keys, NEW i \in 0 .. Len(def.indexes),
           IsPrefix(keys, IndexCols(def, i))
    PROVE  /\ find_index(def, keys) \in 0 .. Len(def.indexes)
           /\ IsPrefix(keys, IndexCols(def, find_index(def, keys)))
<1> DEFINE fits == {j \in DOMAIN def.indexes : IsPrefix(keys, def.indexes[j])}
           shorter(j, k) == Len(def.indexes[j]) < Len(def.indexes[k])
           IsFirst(j) == \A k \in fits : ~shorter(k, j) /\ (k < j => shorter(j, k))
           found == CHOOSE j \in fits : IsFirst(j)
<1>1. /\ Len(def.indexes) \in Nat /\ DOMAIN def.indexes = 1 .. Len(def.indexes)
      /\ \A j \in 1 .. Len(def.indexes) : Len(def.indexes[j]) \in Nat
    BY LenProperties, ElementOfSeq DEF IsTable
<1>2. CASE IsPrefix(keys, Pk(def))
    <2>1. find_index(def, keys) = 0
        BY <1>2 DEF find_index
    <2>2. 0 \in 0 .. Len(def.indexes) /\ IndexCols(def, 0) = Pk(def)
        BY <1>1 DEF IndexCols
    <2> QED  BY <1>2, <2>1, <2>2
<1>3. CASE ~IsPrefix(keys, Pk(def))
    <2>1. i \in fits
        BY <1>1, <1>3 DEF IndexCols
    <2>2. find_index(def, keys) = found
        <3>1. fits # {}
            BY <2>1
        <3> QED  BY <1>3, <3>1 DEF find_index
    <2> DEFINE lens == {Len(def.indexes[j]) : j \in fits}
    <2>3. PICK n \in lens : \A m \in lens : n <= m
        <3>1. lens \in SUBSET Nat /\ lens # {}
            BY <1>1, <2>1
        <3> HIDE DEF lens
        <3> QED  BY <3>1, Least
    <2> DEFINE shortest == {j \in fits : Len(def.indexes[j]) = n}
    <2>4. PICK j \in shortest : \A k \in shortest : j <= k
        <3>1. shortest \in SUBSET Nat /\ shortest # {}
            BY <1>1, <2>3
        <3> HIDE DEF shortest
        <3> QED  BY <3>1, Least
    <2>5. IsFirst(j)
        <3> TAKE k \in fits
        <3>1. Len(def.indexes[j]) = n /\ n \in Nat /\ Len(def.indexes[k]) \in Nat
            BY <1>1, <2>3, <2>4
        <3>2. n <= Len(def.indexes[k])
            BY <2>3
        <3>3. k < j => Len(def.indexes[k]) # n
            <4>1. k \in Nat /\ j \in Nat
                BY <1>1, <2>4
            <4> QED  BY <2>4, <4>1
        <3> QED  BY <3>1, <3>2, <3>3
    <2>6. found \in fits
        <3> HIDE DEF fits, IsFirst
        <3>1. j \in fits
            BY <2>4
        <3> QED  BY <2>5, <3>1
    <2>7. found \in 0 .. Len(def.indexes) /\ IndexCols(def, found) = def.indexes[found]
          /\ IsPrefix(keys, def.indexes[found])
        <3> HIDE DEF found
        <3> QED  BY <1>1, <2>6 DEF IndexCols
    <2> QED  BY <2>2, <2>7
<1> QED  BY <1>2, <1>3

\* ql_range gives the whole table, or the range over one of the indexes.
LEMMA RangeOfIndex ==
    ASSUME NEW def, IsTable(def), NEW cmps
    PROVE  \/ ql_range(cmps, def) = WholeTable
           \/ \E i \in 0 .. Len(def.indexes) :
                 ql_range(cmps, def) =
                    RangeOf(IndexCols(def, i), BoundsOf(cmps), fit_cols(IndexCols(def, i), BoundsOf(cmps)))
<1> DEFINE bounds == BoundsOf(cmps)
           all == 0 .. Len(def.indexes)
           fit(i) == fit_cols(IndexCols(def, i), bounds)
           First(i) == \A j \in all :
                           score(fit(j)) <= score(fit(i)) /\ (j < i => score(fit(j)) < score(fit(i)))
           best == CHOOSE i \in all : First(i)
           range == RangeOf(IndexCols(def, best), bounds, fit(best))
<1>1. Len(def.indexes) \in Nat
    BY LenProperties DEF IsTable
<1>2. \A i \in all : score(fit(i)) \in Nat
    <2> TAKE i \in all
    <2>1. IndexCols(def, i) \in Seq(STRING)
        BY IndexColumns
    <2>2. fit(i).eq \in 0 .. Len(IndexCols(def, i))
        BY <2>1, Fits
    <2>3. fit(i).eq \in Nat
        BY <2>1, <2>2, LenProperties
    <2> HIDE DEF fit
    <2> QED  BY <2>3 DEF score
<1>3. \E i \in all : First(i)
    <2> DEFINE s == [i \in all |-> score(fit(i))]
    <2> HIDE DEF fit
    <2>1. \A i \in 0 .. Len(def.indexes) : s[i] \in Nat /\ s[i] = score(fit(i))
        BY <1>2
    <2> HIDE DEF s
    <2>2. \E i \in 0 .. Len(def.indexes) : \A j \in 0 .. Len(def.indexes) :
             s[j] <= s[i] /\ (j < i => s[j] < s[i])
        BY <1>1, <2>1, FirstBest
    <2> QED  BY <2>1, <2>2
<1>4. best \in all
    <2> HIDE DEF First, all
    <2> QED  BY <1>3
<1>5. ql_range(cmps, def) = IF score(fit(best)) = 0 \/ (range.key1.cols = <<>> /\ best # 0)
                            THEN WholeTable ELSE range
    BY Zenon DEF ql_range
<1> HIDE DEF best
<1> QED  BY <1>4, <1>5

\* What collect gives: a comparison's value is of its column's type.
Typed(cmps, types) == \A i \in 1 .. Len(cmps) : cmps[i].val.type = types[cmps[i].col]

\* The bounds are values, of their columns' types if the comparisons' values are.
LEMMA BoundsTyped ==
    ASSUME NEW cmps \in Seq(Comparison)
    PROVE  /\ IsBounds(BoundsOf(cmps))
           /\ \A types : Typed(cmps, types) =>
                 \A col \in DOMAIN BoundsOf(cmps) :
                     BoundsOf(cmps)[col] \in ColBound({v \in AnyValue : v.type = types[col]})
<1>1. \A i \in 1 .. Len(cmps) : cmps[i].val \in AnyValue
    <2>1. \A i \in 1 .. Len(cmps) : cmps[i] \in Comparison
        BY ElementOfSeq
    <2> QED  BY <2>1 DEF Comparison
<1>2. ASSUME NEW col \in DOMAIN BoundsOf(cmps)
      PROVE  BoundsOf(cmps)[col] = ColBounds(cmps, col)
    BY <1>2 DEF BoundsOf
<1>3. ASSUME NEW col  PROVE ColBounds(cmps, col) \in ColBound(AnyValue)
    BY <1>1, ColBoundsHold
<1>4. ASSUME NEW types, Typed(cmps, types), NEW col
      PROVE  ColBounds(cmps, col) \in ColBound({v \in AnyValue : v.type = types[col]})
    <2> DEFINE V == {v \in AnyValue : v.type = types[col]}
    <2>1. \A i \in 1 .. Len(cmps) : cmps[i].col = col => cmps[i].val \in V
        BY <1>1, <1>4 DEF Typed
    <2> HIDE DEF V
    <2>2. ColBounds(cmps, col) \in ColBound(V)
        BY <2>1, ColBoundsHold
    <2> QED  BY <2>2 DEF V
<1>5. IsBounds(BoundsOf(cmps))
    BY <1>2, <1>3 DEF IsBounds
<1> QED  BY <1>2, <1>4, <1>5

-----------------------------------------------------------------------------
(* The planned range *)

\* The first columns of an index: their number, and that they start it.
LEMMA FirstColumns ==
    ASSUME NEW cols \in Seq(STRING), NEW n \in 0 .. Len(cols)
    PROVE  LET s == SubSeq(cols, 1, n)
           IN  /\ s \in Seq(STRING) /\ Len(s) = n /\ DOMAIN s = 1 .. n
               /\ \A i \in 1 .. n : s[i] = cols[i]
               /\ IsPrefix(s, cols)
<1> DEFINE s == SubSeq(cols, 1, n)
<1>1. Len(cols) \in Nat /\ n \in Nat /\ n <= Len(cols)
    BY LenProperties
<1>2. \A i \in 1 .. n : cols[i] \in STRING
    BY <1>1, ElementOfSeq
<1>3. s \in Seq(STRING) /\ Len(s) = n /\ \A i \in 1 .. n : s[i] = cols[i]
    BY <1>1, <1>2, SubSeqProperties
<1>4. DOMAIN s = 1 .. n /\ SubSeq(s, 1, n) = s
    <2> HIDE DEF s
    <2> QED  BY <1>3, LenProperties, SubSeqFull
<1>5. IsPrefix(s, cols)
    BY <1>1, <1>3, <1>4 DEF IsPrefix
<1> QED  BY <1>3, <1>4, <1>5

\* Fewer of an index's first columns start whatever more of them start.
LEMMA FewerColumns ==
    ASSUME NEW cols \in Seq(STRING), NEW scanned \in Seq(STRING),
           NEW n \in 0 .. Len(cols), NEW m \in 0 .. n, IsPrefix(SubSeq(cols, 1, n), scanned)
    PROVE  IsPrefix(SubSeq(cols, 1, m), scanned)
<1> DEFINE s == SubSeq(cols, 1, n)
           t == SubSeq(cols, 1, m)
<1>1. /\ Len(cols) \in Nat /\ m \in 0 .. Len(cols) /\ Len(scanned) \in Nat
      /\ m \in Nat /\ n \in Nat /\ m <= n
    BY LenProperties
<1>2. /\ Len(s) = n /\ s \in Seq(STRING) /\ \A i \in 1 .. n : s[i] = cols[i]
      /\ Len(t) = m /\ t \in Seq(STRING) /\ \A i \in 1 .. m : t[i] = cols[i]
    BY <1>1, FirstColumns
<1> HIDE DEF s, t
<1>3. n <= Len(scanned) /\ s = SubSeq(scanned, 1, n)
    <2>1. SubSeq(s, 1, n) = s
        BY <1>2, SubSeqFull
    <2> QED  BY <1>2, <2>1 DEF IsPrefix, s
<1>4. n \in 0 .. Len(scanned) /\ m \in 0 .. Len(scanned)
    BY <1>1, <1>3
<1> DEFINE u == SubSeq(scanned, 1, m)
<1>5. /\ \A i \in 1 .. n : SubSeq(scanned, 1, n)[i] = scanned[i]
      /\ Len(u) = m /\ u \in Seq(STRING) /\ \A i \in 1 .. m : u[i] = scanned[i]
    BY <1>4, FirstColumns
<1> HIDE DEF u
<1>6. \A i \in 1 .. m : t[i] = u[i]
    <2> TAKE i \in 1 .. m
    <2>1. i \in 1 .. n
        BY <1>1
    <2> QED  BY <1>2, <1>3, <1>5, <2>1
<1>7. t = u
    BY <1>2, <1>5, <1>6, SeqEqual
<1>8. SubSeq(t, 1, m) = t
    BY <1>2, SubSeqFull
<1> QED  BY <1>2, <1>4, <1>7, <1>8 DEF IsPrefix, t, u

\* A side's key starts the columns, and its values are of its columns' types if
\* the bounds are.
LEMMA SideKeyTyped ==
    ASSUME NEW cols \in Seq(STRING), NEW bounds, NEW eq \in Nat, NEW key,
           NEW side \in Opt(AnyValue), SideKey(key, cols, bounds, eq, side), NEW types,
           \A i \in 1 .. eq : bounds[cols[i]].eq[1].type = types[cols[i]],
           side # <<>> => side[1].type = types[cols[eq + 1]]
    PROVE  \A i \in DOMAIN key.cols : key.vals[i].type = types[key.cols[i]]
<1> DEFINE n == eq + Len(side)
<1>0. Len(side) = IF side = <<>> THEN 0 ELSE 1
    <2>1. CASE side = <<>>
        BY <2>1
    <2>2. CASE \E w \in AnyValue : side = <<w>>
        BY <2>2
    <2> QED  BY <2>1, <2>2 DEF Opt
<1>1. /\ n \in 0 .. Len(cols) /\ key.cols = SubSeq(cols, 1, n)
      /\ \A i \in 1 .. eq : key.vals[i] = bounds[cols[i]].eq[1]
      /\ side # <<>> => key.vals[eq + 1] = side[1]
    BY DEF SideKey
<1>2. \A i \in 1 .. n : i \in 1 .. eq \/ (i = eq + 1 /\ side # <<>>)
    BY <1>0
<1> HIDE DEF n
<1>3. DOMAIN key.cols = 1 .. n /\ \A i \in 1 .. n : key.cols[i] = cols[i]
    BY <1>1, FirstColumns
<1>4. SUFFICES ASSUME NEW i \in 1 .. n  PROVE key.vals[i].type = types[cols[i]]
    BY <1>3
<1>5. CASE i \in 1 .. eq
    <2>1. key.vals[i] = bounds[cols[i]].eq[1]
        BY <1>1, <1>5
    <2> QED  BY <1>5, <2>1
<1>6. CASE i = eq + 1 /\ side # <<>>
    <2>1. key.vals[i] = side[1]
        BY <1>1, <1>6
    <2> QED  BY <1>6, <2>1
<1> QED  BY <1>2, <1>5, <1>6

\* The comparisons a filter ANDs together hold of a row.
Matches(cmps, rec) ==
    \A i \in 1 .. Len(cmps) : cmp_holds(cmps[i].op, rec[cmps[i].col], cmps[i].val)

\* Every scan takes every row of the whole table.
LEMMA WholeTableHolds ==
    ASSUME NEW def, NEW rec, IsTable(def)
    PROVE  InRange(def, WholeTable, rec)
<1> DEFINE vals == ValuesOf(rec, ScannedCols(def, WholeTable))
           none == WholeTable.key1.vals
<1>1. /\ WholeTable.cmp1 = "GE" /\ WholeTable.cmp2 = "LE"
      /\ WholeTable.key1.vals = <<>> /\ WholeTable.key2.vals = <<>>
    BY DEF WholeTable
<1>2. SubSeq(vals, 1, Len(<<>>)) = <<>>
    <2>1. Len(<<>>) = 0 /\ 0 < 1
        OBVIOUS
    <2> HIDE DEF vals
    <2> QED  BY <2>1, SubSeqEmpty
<1>3. ~TupleLess(<<>>, <<>>)
    <2>1. DOMAIN <<>> = {}
        OBVIOUS
    <2> QED  BY <2>1, NowhereLess
<1>4. Satisfies(vals, "GE", <<>>) /\ Satisfies(vals, "LE", <<>>)
    <2> HIDE DEF vals
    <2> QED  BY <1>2, <1>3 DEF Satisfies
<1> QED  BY <1>1, <1>4 DEF InRange

\* "It is never narrower" (ql_range.h): whatever indexes the table has and
\* whatever comparisons the filter ANDs together, on the same column, on several
\* or on none, open or closed, equal or contradictory, a row of which they all
\* hold is in the range that ql_range gives and db_scan takes.
THEOREM NeverNarrower ==
    ASSUME NEW def, IsTable(def), NEW cmps \in Seq(Comparison), NEW rec, Matches(cmps, rec),
           Accepted(def, ql_range(cmps, def))
    PROVE  InRange(def, ql_range(cmps, def), rec)
<1> DEFINE req == ql_range(cmps, def)
           bounds == BoundsOf(cmps)
           scanned == ScannedCols(def, req)
           vals == ValuesOf(rec, scanned)
<1>1. CASE req = WholeTable
    BY <1>1, WholeTableHolds
<1>2. CASE req # WholeTable
    <2>1. PICK i \in 0 .. Len(def.indexes) :
             req = RangeOf(IndexCols(def, i), bounds, fit_cols(IndexCols(def, i), bounds))
        BY <1>2, RangeOfIndex
    <2> DEFINE cols == IndexCols(def, i)
               fit == fit_cols(cols, bounds)
               eq == fit.eq
               b == bounds[cols[eq + 1]]
               x == rec[cols[eq + 1]]
               lo == IF fit.range THEN b.lo ELSE <<>>
               hi == IF fit.range THEN b.hi ELSE <<>>
    <2>2. cols \in Seq(STRING) /\ IsBounds(bounds)
        BY IndexColumns, BoundsTyped
    <2>3. scanned \in Seq(STRING) /\ IsPrefix(req.key1.cols, scanned) /\ IsPrefix(req.key2.cols, scanned)
        <3> DEFINE j == find_index(def, req.key1.cols)
        <3>1. j # NoIndex /\ IsPrefix(req.key1.cols, scanned) /\ IsPrefix(req.key2.cols, scanned)
            BY DEF Accepted, check_bound, ScannedCols
        <3>2. j \in 0 .. Len(def.indexes)
            <4>1. SideKey(req.key1, cols, bounds, eq, lo)
                BY <2>1, <2>2, RangeKeys
            <4>2. IsPrefix(req.key1.cols, cols)
                BY <2>2, <4>1, FirstColumns DEF SideKey
            <4> QED  BY <4>2, IndexFound
        <3> QED  BY <3>1, <3>2, IndexColumns DEF ScannedCols
    <2>4. /\ SideKey(req.key1, cols, bounds, eq, lo) /\ SideKey(req.key2, cols, bounds, eq, hi)
          /\ req.cmp1 = IF lo # <<>> /\ b.lo_open THEN "GT" ELSE "GE"
          /\ req.cmp2 = IF hi # <<>> /\ b.hi_open THEN "LT" ELSE "LE"
        BY <2>1, <2>2, RangeKeys
    <2>5. /\ eq \in 0 .. Len(cols) /\ fit.range \in BOOLEAN
          /\ \A k \in 1 .. eq : cols[k] \in DOMAIN bounds /\ bounds[cols[k]].eq # <<>>
          /\ fit.range => cols[eq + 1] \in DOMAIN bounds
        BY <2>2, Fits
    <2>6. ASSUME NEW col \in DOMAIN bounds
          PROVE  bounds[col] \in ColBound(AnyValue) /\ LetsThrough(bounds[col], rec[col])
        <3>1. bounds[col] = ColBounds(cmps, col)
            BY <2>6 DEF BoundsOf
        <3>2. \A k \in 1 .. Len(cmps) :
                 cmps[k].col = col => cmp_holds(cmps[k].op, rec[col], cmps[k].val)
            BY DEF Matches
        <3>3. \A k \in 1 .. Len(cmps) : cmps[k].col = col => cmps[k].val \in AnyValue
            <4>1. \A k \in 1 .. Len(cmps) : cmps[k] \in Comparison
                BY ElementOfSeq
            <4> QED  BY <4>1 DEF Comparison
        <3>4. LetsThrough(ColBounds(cmps, col), rec[col])
            BY <3>2, <3>3, ColBoundsHold
        <3> QED  BY <2>2, <3>1, <3>4 DEF IsBounds
    <2> HIDE DEF req, bounds, scanned, cols, fit
    <2>7. eq \in Nat /\ \A k \in 1 .. eq : bounds[cols[k]].eq[1] = rec[cols[k]]
        <3>1. Len(cols) \in Nat
            BY <2>2, LenProperties
        <3> QED  BY <2>5, <2>6, <3>1 DEF LetsThrough
    <2>8. /\ lo \in Opt(AnyValue) /\ hi \in Opt(AnyValue)
          /\ lo # <<>> => IF b.lo_open THEN value_less(lo[1], x) ELSE ~value_less(x, lo[1])
          /\ hi # <<>> => IF b.hi_open THEN value_less(x, hi[1]) ELSE ~value_less(hi[1], x)
        <3>1. <<>> \in Opt(AnyValue)
            BY DEF Opt
        <3>2. CASE fit.range
            <4>1. b \in ColBound(AnyValue) /\ LetsThrough(b, x)
                BY <2>5, <2>6, <3>2
            <4> HIDE DEF b, x
            <4> QED  BY <3>2, <4>1 DEF ColBound, LetsThrough
        <3>3. CASE ~fit.range
            BY <3>1, <3>3
        <3> QED  BY <2>5, <3>2, <3>3
    <2> HIDE DEF eq, b, lo, hi
    <2>9. Satisfies(vals, req.cmp1, req.key1.vals)
        <3>1. /\ (lo # <<>> => ~value_less(x, lo[1])) => Satisfies(vals, "GE", req.key1.vals)
              /\ lo # <<>> /\ value_less(lo[1], x) => Satisfies(vals, "GT", req.key1.vals)
            BY <2>2, <2>3, <2>4, <2>7, <2>8, SidesHold
        <3> HIDE DEF vals, x
        <3> QED  BY <2>4, <2>8, <3>1
    <2>10. Satisfies(vals, req.cmp2, req.key2.vals)
        <3>1. /\ (hi # <<>> => ~value_less(hi[1], x)) => Satisfies(vals, "LE", req.key2.vals)
              /\ hi # <<>> /\ value_less(x, hi[1]) => Satisfies(vals, "LT", req.key2.vals)
            BY <2>2, <2>3, <2>4, <2>7, <2>8, SidesHold
        <3> HIDE DEF vals, x
        <3> QED  BY <2>4, <2>8, <3>1
    <2> QED  BY <2>9, <2>10 DEF InRange, req, scanned
<1> QED  BY <1>1, <1>2

\* collect keeps a comparison only if its value is of the column's type. Then
\* db_scan refuses the range only because the upper bound names a column that is
\* not the next one of the index it finds for the lower bound; it takes every
\* range whose upper bound names no more columns than the lower.
THEOREM PlanTaken ==
    ASSUME NEW def, IsTable(def), NEW cmps \in Seq(Comparison), Typed(cmps, def.types)
    PROVE  LET req == ql_range(cmps, def)
           IN  /\ Accepted(def, req) <=> IsPrefix(req.key2.cols, ScannedCols(def, req))
               /\ Len(req.key2.cols) <= Len(req.key1.cols) => Accepted(def, req)
<1> DEFINE req == ql_range(cmps, def)
           bounds == BoundsOf(cmps)
           j == find_index(def, req.key1.cols)
           scanned == ScannedCols(def, req)
<1>1. CASE req = WholeTable
    <2>1. /\ req.cmp1 = "GE" /\ req.cmp2 = "LE" /\ req.key1.cols = <<>> /\ req.key2.cols = <<>>
        BY <1>1 DEF WholeTable
    <2>2. IsPrefix(<<>>, Pk(def))
        <3>1. Pk(def) \in Seq(STRING)
            <4>1. 0 \in 0 .. Len(def.indexes)
                BY LenProperties DEF IsTable
            <4> QED  BY <4>1, IndexColumns DEF IndexCols
        <3>2. SubSeq(Pk(def), 1, 0) = <<>> /\ Len(Pk(def)) \in Nat
            BY <3>1, SubSeqEmpty, LenProperties
        <3>3. SubSeq(<<>>, 1, 0) = <<>> /\ Len(<<>>) = 0
            BY SubSeqEmpty
        <3> QED  BY <3>2, <3>3 DEF IsPrefix
    <2>3. j = 0 /\ IndexCols(def, 0) = Pk(def)
        BY <2>1, <2>2 DEF find_index, IndexCols
    <2>4. DOMAIN <<>> = {}
        OBVIOUS
    <2>5. check_bound(def, j, req.key1) /\ check_bound(def, j, req.key2)
        <3> HIDE DEF req, j
        <3> QED  BY <2>1, <2>2, <2>3, <2>4 DEF check_bound
    <2>6. Forward(req.cmp1) # Forward(req.cmp2) /\ 0 # NoIndex
        <3> HIDE DEF req
        <3> QED  BY <2>1 DEF Forward, NoIndex
    <2>7. Accepted(def, req)
        BY <2>3, <2>5, <2>6, Zenon DEF Accepted
    <2> QED  BY <2>7 DEF Accepted, check_bound, ScannedCols
<1>2. CASE req # WholeTable
    <2>1. PICK i \in 0 .. Len(def.indexes) :
             req = RangeOf(IndexCols(def, i), bounds, fit_cols(IndexCols(def, i), bounds))
        BY <1>2, RangeOfIndex
    <2> DEFINE cols == IndexCols(def, i)
               fit == fit_cols(cols, bounds)
               eq == fit.eq
               b == bounds[cols[eq + 1]]
               lo == IF fit.range THEN b.lo ELSE <<>>
               hi == IF fit.range THEN b.hi ELSE <<>>
    <2>2. cols \in Seq(STRING) /\ IsBounds(bounds) /\ Len(cols) \in Nat
        BY IndexColumns, BoundsTyped, LenProperties
    <2>3. /\ SideKey(req.key1, cols, bounds, eq, lo) /\ SideKey(req.key2, cols, bounds, eq, hi)
          /\ req.cmp1 \in {"GT", "GE"} /\ req.cmp2 \in {"LT", "LE"}
        BY <2>1, <2>2, RangeKeys
    <2>4. /\ eq \in Nat /\ fit.range \in BOOLEAN
          /\ \A k \in 1 .. eq : cols[k] \in DOMAIN bounds /\ bounds[cols[k]].eq # <<>>
          /\ fit.range => cols[eq + 1] \in DOMAIN bounds
        BY <2>2, Fits
    <2>5. ASSUME NEW col \in DOMAIN bounds
          PROVE  bounds[col] \in ColBound({v \in AnyValue : v.type = def.types[col]})
        BY <2>5, BoundsTyped
    <2> DEFINE n1 == eq + Len(lo)
               n2 == eq + Len(hi)
    <2>6. /\ n1 \in 0 .. Len(cols) /\ req.key1.cols = SubSeq(cols, 1, n1)
          /\ n2 \in 0 .. Len(cols) /\ req.key2.cols = SubSeq(cols, 1, n2)
        BY <2>3 DEF SideKey
    <2>7. /\ IsPrefix(req.key1.cols, cols) /\ Len(req.key1.cols) = n1 /\ Len(req.key2.cols) = n2
        <3> HIDE DEF req, cols, n1, n2
        <3> QED  BY <2>2, <2>6, FirstColumns
    <2>8. /\ j \in 0 .. Len(def.indexes) /\ IsPrefix(req.key1.cols, scanned)
          /\ scanned = IndexCols(def, j)
        BY <2>7, IndexFound DEF ScannedCols
    <2>9. scanned \in Seq(STRING) /\ j # NoIndex
        <3>1. Len(def.indexes) \in Nat
            BY LenProperties DEF IsTable
        <3> QED  BY <2>8, <3>1, IndexColumns DEF NoIndex
    <2> HIDE DEF req, bounds, scanned, cols, fit, j
    <2>10. \A k \in 1 .. eq : bounds[cols[k]].eq[1].type = def.types[cols[k]]
        <3> TAKE k \in 1 .. eq
        <3> DEFINE V == {v \in AnyValue : v.type = def.types[cols[k]]}
        <3>1. bounds[cols[k]].eq \in Opt(V) /\ bounds[cols[k]].eq # <<>>
            BY <2>4, <2>5 DEF ColBound
        <3>2. bounds[cols[k]].eq[1] \in V
            <4> HIDE DEF V
            <4> QED  BY <3>1 DEF Opt
        <3> QED  BY <3>2
    <2>11. /\ lo \in Opt(AnyValue) /\ (lo # <<>> => lo[1].type = def.types[cols[eq + 1]])
           /\ hi \in Opt(AnyValue) /\ (hi # <<>> => hi[1].type = def.types[cols[eq + 1]])
        <3>1. <<>> \in Opt(AnyValue)
            BY DEF Opt
        <3>2. CASE fit.range
            <4> DEFINE V == {v \in AnyValue : v.type = def.types[cols[eq + 1]]}
            <4>1. b.lo \in Opt(V) /\ b.hi \in Opt(V)
                BY <2>4, <2>5, <3>2 DEF ColBound
            <4>2. \A o \in Opt(V) : o \in Opt(AnyValue) /\ (o # <<>> => o[1].type = def.types[cols[eq + 1]])
                BY DEF Opt
            <4> HIDE DEF V, b
            <4> QED  BY <3>2, <4>1, <4>2
        <3>3. CASE ~fit.range
            BY <3>1, <3>3
        <3> QED  BY <2>4, <3>2, <3>3
    <2> HIDE DEF eq, lo, hi
    <2>12. /\ \A k \in DOMAIN req.key1.cols : req.key1.vals[k].type = def.types[req.key1.cols[k]]
           /\ \A k \in DOMAIN req.key2.cols : req.key2.vals[k].type = def.types[req.key2.cols[k]]
        <3>1. ASSUME NEW key, NEW side \in Opt(AnyValue), SideKey(key, cols, bounds, eq, side),
                     side # <<>> => side[1].type = def.types[cols[eq + 1]]
              PROVE  \A k \in DOMAIN key.cols : key.vals[k].type = def.types[key.cols[k]]
            <4> DEFINE types == def.types
            <4>1. /\ \A k \in 1 .. eq : bounds[cols[k]].eq[1].type = types[cols[k]]
                  /\ side # <<>> => side[1].type = types[cols[eq + 1]]
                BY <2>10, <3>1
            <4> HIDE DEF types
            <4>2. \A k \in DOMAIN key.cols : key.vals[k].type = types[key.cols[k]]
                BY <2>2, <2>4, <3>1, <4>1, SideKeyTyped
            <4> QED  BY <4>2 DEF types
        <3> QED  BY <2>3, <2>11, <3>1
    <2>13. Forward(req.cmp1) # Forward(req.cmp2)
        BY <2>3 DEF Forward
    <2>14. Accepted(def, req) <=> IsPrefix(req.key2.cols, scanned)
        BY <2>8, <2>9, <2>12, <2>13 DEF Accepted, check_bound, j
    <2>15. ASSUME n2 <= n1  PROVE IsPrefix(req.key2.cols, scanned)
        <3> HIDE DEF n1, n2
        <3>1. n2 \in 0 .. n1
            BY <2>2, <2>6, <2>15
        <3>2. IsPrefix(SubSeq(cols, 1, n1), scanned)
            BY <2>6, <2>8
        <3>3. IsPrefix(SubSeq(cols, 1, n2), scanned)
            BY <2>2, <2>6, <2>9, <3>1, <3>2, FewerColumns
        <3> QED  BY <2>6, <3>3
    <2> QED  BY <2>7, <2>14, <2>15 DEF req, scanned
<1> QED  BY <1>1, <1>2
=============================================================================
