------------------------------ MODULE DBProofs ------------------------------
(***************************************************************************)
(* Proofs about DB for every set of tables, records and readers: whatever  *)
(* the order of statements, exceptions, aborts, failed commits and crashes *)
(* an index has exactly the entries of its table's rows, the catalog cache *)
(* and the readers' definitions are those of the store they are used on,   *)
(* and no two tables share a key prefix.                                   *)
(***************************************************************************)
EXTENDS DBInv, LeastNumber, SequenceTheorems

-----------------------------------------------------------------------------
(* The loops *)

\* index_op's loop: f[i] is what the first i indexes make of r.
IndexLoop(f, r, def, rec, op, n) ==
    f = [i \in 0 .. n |->
            IF i = 0 THEN r ELSE index_step(f[i - 1], index_key(def, i, rec), op)]

\* The loop is well defined, and index_op is its result.
LEMMA IndexLoops ==
    ASSUME NEW r, NEW def, NEW rec, NEW op, Len(def.indexes) \in Nat
    PROVE  \E f : /\ IndexLoop(f, r, def, rec, op, Len(def.indexes))
                  /\ index_op(r, def, rec, op) = f[Len(def.indexes)]
<1> DEFINE N == Len(def.indexes)
           step(s, i) == index_step(s, index_key(def, i, rec), op)
           Loop(f, n) == f = [i \in 0 .. n |-> IF i = 0 THEN r ELSE step(f[i - 1], i)]
           T == {n \in 0 .. N : ~ \E f : Loop(f, n)}
<1>1. \E f : Loop(f, N)
    <2> HIDE DEF step
    <2> SUFFICES ASSUME T # {}  PROVE FALSE
        <3>1. N \in 0 .. N
            OBVIOUS
        <3> QED  BY <3>1
    <2>1. 0 \notin T
        <3>1. Loop([i \in 0 .. 0 |-> r], 0)
            OBVIOUS
        <3> QED  BY <3>1
    <2>2. PICK n \in T : n \in 1 .. N /\ n - 1 \in 0 .. N /\ n - 1 \notin T
        BY <2>1, FirstFailure
    <2>3. PICK f : Loop(f, n - 1)
        BY <2>2
    <2> DEFINE g == [i \in 0 .. n |-> IF i = n THEN step(f[n - 1], n) ELSE f[i]]
    <2>4. ASSUME NEW i \in 0 .. n  PROVE g[i] = IF i = 0 THEN r ELSE step(g[i - 1], i)
        <3>1. CASE i = n
            BY <2>2, <3>1
        <3>2. CASE i # n
            <4>1. i \in 0 .. n - 1 /\ i - 1 # n /\ g[i] = f[i]
                BY <2>2, <3>2
            <4>2. f[i] = IF i = 0 THEN r ELSE step(f[i - 1], i)
                BY <2>3, <4>1
            <4>3. i # 0 => g[i - 1] = f[i - 1]
                BY <2>2, <4>1
            <4> QED  BY <4>1, <4>2, <4>3
        <3> QED  BY <3>1, <3>2
    <2>5. Loop(g, n)
        BY <2>4
    <2> QED  BY <2>2, <2>5
<1>2. index_op(r, def, rec, op) = (CHOOSE f : Loop(f, N))[N]
    BY DEF index_op
<1>3. Loop(CHOOSE f : Loop(f, N), N)
    <2> HIDE DEF Loop
    <2> QED  BY <1>1
<1> QED  BY <1>2, <1>3 DEF IndexLoop

\* check_index_keys' loop over the columns of the primary key.
KeyLoop(f, def, index, n) ==
    f = [i \in 0 .. n |->
            IF i = 0 THEN index
            ELSE IF Contains(f[i - 1], def.cols[i]) THEN f[i - 1]
            ELSE Append(f[i - 1], def.cols[i])]

\* The loop is well defined, and check_index_keys is its result.
LEMMA KeyLoops ==
    ASSUME NEW def, NEW index, def.pkeys \in Nat
    PROVE  \E f : /\ KeyLoop(f, def, index, def.pkeys)
                  /\ check_index_keys(def, index) = f[def.pkeys]
<1> DEFINE N == def.pkeys
           step(s, i) == IF Contains(s, def.cols[i]) THEN s ELSE Append(s, def.cols[i])
           Loop(f, n) == f = [i \in 0 .. n |-> IF i = 0 THEN index ELSE step(f[i - 1], i)]
           T == {n \in 0 .. N : ~ \E f : Loop(f, n)}
<1>1. \E f : Loop(f, N)
    <2> HIDE DEF step
    <2> SUFFICES ASSUME T # {}  PROVE FALSE
        <3>1. N \in 0 .. N
            OBVIOUS
        <3> QED  BY <3>1
    <2>1. 0 \notin T
        <3>1. Loop([i \in 0 .. 0 |-> index], 0)
            OBVIOUS
        <3> QED  BY <3>1
    <2>2. PICK n \in T : n \in 1 .. N /\ n - 1 \in 0 .. N /\ n - 1 \notin T
        BY <2>1, FirstFailure
    <2>3. PICK f : Loop(f, n - 1)
        BY <2>2
    <2> DEFINE g == [i \in 0 .. n |-> IF i = n THEN step(f[n - 1], n) ELSE f[i]]
    <2>4. ASSUME NEW i \in 0 .. n  PROVE g[i] = IF i = 0 THEN index ELSE step(g[i - 1], i)
        <3>1. CASE i = n
            BY <2>2, <3>1
        <3>2. CASE i # n
            <4>1. i \in 0 .. n - 1 /\ i - 1 # n /\ g[i] = f[i]
                BY <2>2, <3>2
            <4>2. f[i] = IF i = 0 THEN index ELSE step(f[i - 1], i)
                BY <2>3, <4>1
            <4>3. i # 0 => g[i - 1] = f[i - 1]
                BY <2>2, <4>1
            <4> QED  BY <4>1, <4>2, <4>3
        <3> QED  BY <3>1, <3>2
    <2>5. Loop(g, n)
        BY <2>4
    <2> QED  BY <2>2, <2>5
<1>2. check_index_keys(def, index) = (CHOOSE f : Loop(f, N))[N]
    BY DEF check_index_keys
<1>3. Loop(CHOOSE f : Loop(f, N), N)
    <2> HIDE DEF Loop
    <2> QED  BY <1>1
<1> QED  BY <1>2, <1>3 DEF KeyLoop

\* An index that table_def_check accepts names the primary key's columns.
LEMMA KeyNamed ==
    ASSUME NEW def, def.cols \in Seq(STRING), def.pkeys \in 1 .. Len(def.cols),
           NEW index \in Seq(STRING)
    PROVE  /\ check_index_keys(def, index) \in Seq(STRING)
           /\ \A c \in 1 .. def.pkeys : Contains(check_index_keys(def, index), def.cols[c])
<1> DEFINE N == def.pkeys
           Named(s, i) == s \in Seq(STRING) /\ \A c \in 1 .. i : Contains(s, def.cols[c])
<1>1. N \in Nat /\ \A c \in 1 .. N : def.cols[c] \in STRING
    BY ElementOfSeq, LenProperties
<1>2. PICK f : KeyLoop(f, def, index, N) /\ check_index_keys(def, index) = f[N]
    BY <1>1, KeyLoops
<1> DEFINE T == {i \in 0 .. N : ~Named(f[i], i)}
<1>3. T = {}
    <2> SUFFICES ASSUME T # {}  PROVE FALSE
        OBVIOUS
    <2>1. 0 \notin T
        <3>1. f[0] = index
            BY <1>1, <1>2 DEF KeyLoop
        <3>2. 1 .. 0 = {}
            OBVIOUS
        <3> QED  BY <3>1, <3>2
    <2>2. PICK i \in T : i \in 1 .. N /\ i - 1 \in 0 .. N /\ i - 1 \notin T
        BY <1>1, <2>1, FirstFailure
    <2> DEFINE s == f[i - 1]
               e == def.cols[i]
    <2>3. Named(s, i - 1) /\ e \in STRING
        BY <1>1, <2>2
    <2>4. f[i] = IF Contains(s, e) THEN s ELSE Append(s, e)
        <3>1. i \in 0 .. N /\ i # 0
            BY <1>1, <2>2
        <3> QED  BY <1>2, <3>1, Zenon DEF KeyLoop
    <2>5. \A c \in 1 .. i : c \in 1 .. i - 1 \/ c = i
        BY <2>2
    <2>6. CASE Contains(s, e)
        <3>1. Named(f[i], i)
            BY <2>3, <2>4, <2>5, <2>6
        <3> QED  BY <2>2, <3>1
    <2>7. CASE ~Contains(s, e)
        <3>1. f[i] = Append(s, e) /\ s \in Seq(STRING)
            BY <2>3, <2>4, <2>7
        <3>2. Append(s, e) \in Seq(STRING) /\ Len(Append(s, e)) = Len(s) + 1 /\ Len(s) \in Nat
            BY <2>3, <3>1, AppendProperties, LenProperties
        <3>3. /\ \A j \in 1 .. Len(s) : Append(s, e)[j] = s[j] /\ j \in 1 .. Len(s) + 1
              /\ Append(s, e)[Len(s) + 1] = e /\ Len(s) + 1 \in 1 .. Len(s) + 1
            BY <2>3, <3>1, <3>2, AppendProperties
        <3>4. \A d : Contains(s, d) => Contains(Append(s, e), d)
            BY <3>2, <3>3 DEF Contains
        <3>5. Contains(Append(s, e), e)
            BY <3>2, <3>3 DEF Contains
        <3>6. Named(f[i], i)
            BY <2>3, <2>5, <3>1, <3>2, <3>4, <3>5
        <3> QED  BY <2>2, <3>6
    <2> QED  BY <2>6, <2>7
<1>4. N \in 0 .. N
    BY <1>1
<1> QED  BY <1>2, <1>3, <1>4

-----------------------------------------------------------------------------
(* The keys of a table *)

\* The entries that a record has in the first n indexes.
Entries(def, rec, n) == {index_key(def, i, rec) : i \in 1 .. n}

LEMMA TableKeys ==
    ASSUME NEW def, DefOK(def)
    PROVE  /\ Len(def.indexes) \in Nat
           /\ DOMAIN def.indexes = 1 .. Len(def.indexes)
           /\ def.prefix \in Nat
           /\ \A i \in 1 .. Len(def.indexes) : def.index_prefixes[i] = def.prefix + i
           /\ \A i \in 1 .. Len(def.indexes) : \A rec : index_key(def, i, rec).prefix = def.prefix + i
           /\ \A rec : row_key(def, rec).prefix = def.prefix
           /\ \A q : q \in TablePrefixes(def)
                        <=> q = def.prefix \/ \E i \in 1 .. Len(def.indexes) : q = def.prefix + i
<1>1. Len(def.indexes) \in Nat /\ DOMAIN def.indexes = 1 .. Len(def.indexes) /\ def.prefix \in Nat
    BY LenProperties DEF DefOK
<1>2. \A i \in 1 .. Len(def.indexes) : def.index_prefixes[i] = def.prefix + i
    BY <1>1 DEF DefOK
<1>3. DOMAIN def.index_prefixes = 1 .. Len(def.indexes)
    BY <1>1 DEF DefOK
<1>4. \A i \in 1 .. Len(def.indexes) : \A rec : index_key(def, i, rec).prefix = def.prefix + i
    BY <1>2 DEF index_key, encode_key
<1>5. \A rec : row_key(def, rec).prefix = def.prefix
    BY DEF row_key, encode_key
<1>6. \A q : q \in TablePrefixes(def)
                <=> q = def.prefix \/ \E i \in 1 .. Len(def.indexes) : q = def.prefix + i
    BY <1>2, <1>3 DEF TablePrefixes, ToSet
<1> QED  BY <1>1, <1>2, <1>4, <1>5, <1>6

\* An index entry holds the primary key of its row.
LEMMA EntryNamesRow ==
    ASSUME NEW def, DefOK(def), NEW i \in 1 .. Len(def.indexes), NEW a, NEW b,
           index_key(def, i, a) = index_key(def, i, b)
    PROVE  row_key(def, a) = row_key(def, b)
<1> DEFINE index == def.indexes[i]
<1>1. i \in DOMAIN def.indexes /\ index \in Seq(STRING)
    BY TableKeys, ElementOfSeq DEF DefOK
<1>2. DOMAIN index = 1 .. Len(index)
    BY <1>1, LenProperties
<1>3. Values(a, index) = Values(b, index)
    BY DEF index_key, encode_key
<1>4. \A j \in 1 .. Len(index) : a[index[j]] = b[index[j]]
    <2> TAKE j \in 1 .. Len(index)
    <2>1. Values(a, index)[j] = a[index[j]] /\ Values(b, index)[j] = b[index[j]]
        BY <1>2 DEF Values
    <2> QED  BY <1>3, <2>1
<1>5. \A c \in 1 .. def.pkeys : a[def.cols[c]] = b[def.cols[c]]
    <2> TAKE c \in 1 .. def.pkeys
    <2>1. PICK j \in 1 .. Len(index) : index[j] = def.cols[c]
        BY <1>1 DEF DefOK, Contains
    <2> QED  BY <1>4, <2>1
<1>6. def.cols \in Seq(STRING) /\ def.pkeys \in 1 .. Len(def.cols)
    BY DEF DefOK
<1>7. DOMAIN Pk(def) = 1 .. def.pkeys /\ \A c \in 1 .. def.pkeys : Pk(def)[c] = def.cols[c]
    <2>1. Len(def.cols) \in Nat
        BY <1>6, LenProperties
    <2>2. def.pkeys \in Int /\ 1 <= def.pkeys /\ def.pkeys <= Len(def.cols)
        BY <1>6, <2>1
    <2> QED  BY <1>6, <2>1, <2>2 DEF Pk
<1>8. Values(a, Pk(def)) = Values(b, Pk(def))
    BY <1>5, <1>7 DEF Values
<1> QED  BY <1>8 DEF row_key

-----------------------------------------------------------------------------
(* index_op *)

\* What an operation works on.
IsWork(r) ==
    /\ r = [kv |-> r.kv, thrown |-> r.thrown, ok |-> r.ok]
    /\ r.thrown \in BOOLEAN
    /\ r.ok \in BOOLEAN

\* Deleting an entry that is there, and adding one that is not.
LEMMA StepDel ==
    ASSUME NEW r, IsWork(r), r.ok, NEW key, ~r.thrown => key \in DOMAIN r.kv
    PROVE  LET s == index_step(r, key, "INDEX_DEL")
           IN  /\ IsWork(s) /\ s.ok
               /\ ~s.thrown => /\ ~r.thrown
                               /\ DOMAIN s.kv = DOMAIN r.kv \ {key}
                               /\ \A x \in DOMAIN s.kv : s.kv[x] = r.kv[x]
<1> DEFINE s == index_step(r, key, "INDEX_DEL")
<1>1. CASE r.thrown \/ Contains(key.vals, Long)
    <2>1. s = [r EXCEPT !.thrown = TRUE]
        BY <1>1 DEF index_step
    <2>2. s = [kv |-> r.kv, thrown |-> TRUE, ok |-> TRUE]
        BY <2>1 DEF IsWork
    <2>3. s.kv = r.kv /\ s.thrown = TRUE /\ s.ok = TRUE
        BY <2>2
    <2>4. IsWork(s)
        BY <2>2, <2>3 DEF IsWork
    <2> QED  BY <2>3, <2>4
<1>2. CASE ~(r.thrown \/ Contains(key.vals, Long))
    <2>1. s = [r EXCEPT !.kv = Without(r.kv, key), !.ok = r.ok /\ key \in DOMAIN r.kv]
        BY <1>2 DEF index_step
    <2>2. s = [kv |-> Without(r.kv, key), thrown |-> FALSE, ok |-> TRUE]
        BY <1>2, <2>1 DEF IsWork
    <2>3. s.kv = Without(r.kv, key) /\ s.thrown = FALSE /\ s.ok = TRUE
        BY <2>2
    <2>4. IsWork(s)
        BY <2>2, <2>3 DEF IsWork
    <2> QED  BY <1>2, <2>3, <2>4 DEF Without, Restrict
<1> QED  BY <1>1, <1>2

LEMMA StepAdd ==
    ASSUME NEW r, IsWork(r), r.ok, NEW key, ~r.thrown => key \notin DOMAIN r.kv
    PROVE  LET s == index_step(r, key, "INDEX_ADD")
           IN  /\ IsWork(s) /\ s.ok
               /\ ~s.thrown => /\ ~r.thrown
                               /\ DOMAIN s.kv = DOMAIN r.kv \cup {key}
                               /\ \A x \in DOMAIN r.kv : s.kv[x] = r.kv[x]
<1> DEFINE s == index_step(r, key, "INDEX_ADD")
<1>1. CASE r.thrown \/ Contains(key.vals, Long)
    <2>1. s = [r EXCEPT !.thrown = TRUE]
        BY <1>1 DEF index_step
    <2>2. s = [kv |-> r.kv, thrown |-> TRUE, ok |-> TRUE]
        BY <2>1 DEF IsWork
    <2>3. s.kv = r.kv /\ s.thrown = TRUE /\ s.ok = TRUE
        BY <2>2
    <2>4. IsWork(s)
        BY <2>2, <2>3 DEF IsWork
    <2> QED  BY <2>3, <2>4
<1>2. CASE ~(r.thrown \/ Contains(key.vals, Long))
    <2>1. s = [r EXCEPT !.kv = Put(r.kv, key, Nothing)]
        BY <1>2 DEF index_step
    <2>2. s = [kv |-> Put(r.kv, key, Nothing), thrown |-> FALSE, ok |-> TRUE]
        BY <1>2, <2>1 DEF IsWork
    <2>3. s.kv = Put(r.kv, key, Nothing) /\ s.thrown = FALSE /\ s.ok = TRUE
        BY <2>2
    <2>4. IsWork(s)
        BY <2>2, <2>3 DEF IsWork
    <2> QED  BY <1>2, <2>3, <2>4 DEF Put
<1> QED  BY <1>1, <1>2

\* Deleting a record's entries, all there, takes them away and nothing else.
LEMMA OpDel ==
    ASSUME NEW def, DefOK(def), NEW rec, NEW r, IsWork(r), r.ok,
           ~r.thrown => \A i \in 1 .. Len(def.indexes) : index_key(def, i, rec) \in DOMAIN r.kv
    PROVE  LET s == index_op(r, def, rec, "INDEX_DEL")
           IN  /\ IsWork(s) /\ s.ok
               /\ ~s.thrown => /\ ~r.thrown
                               /\ DOMAIN s.kv = DOMAIN r.kv \ Entries(def, rec, Len(def.indexes))
                               /\ \A x \in DOMAIN s.kv : s.kv[x] = r.kv[x]
<1> DEFINE N == Len(def.indexes)
           Done(s, i) == /\ IsWork(s) /\ s.ok
                         /\ ~s.thrown => /\ ~r.thrown
                                         /\ DOMAIN s.kv = DOMAIN r.kv \ Entries(def, rec, i)
                                         /\ \A x \in DOMAIN s.kv : s.kv[x] = r.kv[x]
<1>1. N \in Nat
    BY TableKeys
<1>2. PICK f : /\ IndexLoop(f, r, def, rec, "INDEX_DEL", N)
               /\ index_op(r, def, rec, "INDEX_DEL") = f[N]
    BY <1>1, IndexLoops
<1> DEFINE T == {i \in 0 .. N : ~Done(f[i], i)}
<1>3. T = {}
    <2> SUFFICES ASSUME T # {}  PROVE FALSE
        OBVIOUS
    <2>1. 0 \notin T
        <3>1. f[0] = r
            BY <1>1, <1>2 DEF IndexLoop
        <3>2. Entries(def, rec, 0) = {}
            BY DEF Entries
        <3>3. Done(r, 0)
            BY <3>2
        <3> HIDE DEF Done
        <3> QED  BY <3>1, <3>3
    <2>2. PICK i \in T : i \in 1 .. N /\ i - 1 \in 0 .. N /\ i - 1 \notin T
        BY <1>1, <2>1, FirstFailure
    <2> DEFINE s == f[i - 1]
               key == index_key(def, i, rec)
               t == index_step(s, key, "INDEX_DEL")
    <2>3. Done(s, i - 1)
        <3> HIDE DEF Done
        <3> QED  BY <2>2
    <2>4. f[i] = t
        <3>1. i \in 0 .. N /\ i # 0
            BY <1>1, <2>2
        <3> QED  BY <1>2, <3>1, Zenon DEF IndexLoop
    <2>5. Entries(def, rec, i) = Entries(def, rec, i - 1) \cup {key} /\ key \notin Entries(def, rec, i - 1)
        <3>1. i \in Nat /\ \A j \in 1 .. i - 1 : j \in 1 .. N /\ j # i
            BY <1>1, <2>2
        <3>2. def.prefix \in Nat /\ \A j \in 1 .. N : index_key(def, j, rec).prefix = def.prefix + j
            BY TableKeys
        <3>3. \A j \in 1 .. i - 1 : index_key(def, j, rec) # key
            BY <2>2, <3>1, <3>2
        <3>4. \A j : j \in 1 .. i <=> j \in 1 .. i - 1 \/ j = i
            BY <2>2, <3>1
        <3> QED  BY <3>3, <3>4 DEF Entries
    <2>6. ~s.thrown => key \in DOMAIN s.kv
        BY <2>2, <2>3, <2>5
    <2>7. /\ IsWork(t) /\ t.ok
          /\ ~t.thrown => /\ ~s.thrown
                          /\ DOMAIN t.kv = DOMAIN s.kv \ {key}
                          /\ \A x \in DOMAIN t.kv : t.kv[x] = s.kv[x]
        <3> HIDE DEF s, key
        <3> QED  BY <2>3, <2>6, StepDel
    <2>8. Done(t, i)
        <3> HIDE DEF t, s, key
        <3> QED  BY <2>3, <2>5, <2>7
    <2> HIDE DEF Done
    <2> QED  BY <2>2, <2>4, <2>8
<1>4. N \in 0 .. N
    BY <1>1
<1>5. Done(f[N], N)
    <2> HIDE DEF Done
    <2> QED  BY <1>3, <1>4
<1> QED  BY <1>2, <1>5

\* Adding a record's entries, none there, adds them and nothing else.
LEMMA OpAdd ==
    ASSUME NEW def, DefOK(def), NEW rec, NEW r, IsWork(r), r.ok,
           ~r.thrown => \A i \in 1 .. Len(def.indexes) : index_key(def, i, rec) \notin DOMAIN r.kv
    PROVE  LET s == index_op(r, def, rec, "INDEX_ADD")
           IN  /\ IsWork(s) /\ s.ok
               /\ ~s.thrown => /\ ~r.thrown
                               /\ DOMAIN s.kv = DOMAIN r.kv \cup Entries(def, rec, Len(def.indexes))
                               /\ \A x \in DOMAIN r.kv : s.kv[x] = r.kv[x]
<1> DEFINE N == Len(def.indexes)
           Done(s, i) == /\ IsWork(s) /\ s.ok
                         /\ ~s.thrown => /\ ~r.thrown
                                         /\ DOMAIN s.kv = DOMAIN r.kv \cup Entries(def, rec, i)
                                         /\ \A x \in DOMAIN r.kv : s.kv[x] = r.kv[x]
<1>1. N \in Nat
    BY TableKeys
<1>2. PICK f : /\ IndexLoop(f, r, def, rec, "INDEX_ADD", N)
               /\ index_op(r, def, rec, "INDEX_ADD") = f[N]
    BY <1>1, IndexLoops
<1> DEFINE T == {i \in 0 .. N : ~Done(f[i], i)}
<1>3. T = {}
    <2> SUFFICES ASSUME T # {}  PROVE FALSE
        OBVIOUS
    <2>1. 0 \notin T
        <3>1. f[0] = r
            BY <1>1, <1>2 DEF IndexLoop
        <3>2. Entries(def, rec, 0) = {}
            BY DEF Entries
        <3>3. Done(r, 0)
            BY <3>2
        <3> HIDE DEF Done
        <3> QED  BY <3>1, <3>3
    <2>2. PICK i \in T : i \in 1 .. N /\ i - 1 \in 0 .. N /\ i - 1 \notin T
        BY <1>1, <2>1, FirstFailure
    <2> DEFINE s == f[i - 1]
               key == index_key(def, i, rec)
               t == index_step(s, key, "INDEX_ADD")
    <2>3. Done(s, i - 1)
        <3> HIDE DEF Done
        <3> QED  BY <2>2
    <2>4. f[i] = t
        <3>1. i \in 0 .. N /\ i # 0
            BY <1>1, <2>2
        <3> QED  BY <1>2, <3>1, Zenon DEF IndexLoop
    <2>5. Entries(def, rec, i) = Entries(def, rec, i - 1) \cup {key} /\ key \notin Entries(def, rec, i - 1)
        <3>1. i \in Nat /\ \A j \in 1 .. i - 1 : j \in 1 .. N /\ j # i
            BY <1>1, <2>2
        <3>2. def.prefix \in Nat /\ \A j \in 1 .. N : index_key(def, j, rec).prefix = def.prefix + j
            BY TableKeys
        <3>3. \A j \in 1 .. i - 1 : index_key(def, j, rec) # key
            BY <2>2, <3>1, <3>2
        <3>4. \A j : j \in 1 .. i <=> j \in 1 .. i - 1 \/ j = i
            BY <2>2, <3>1
        <3> QED  BY <3>3, <3>4 DEF Entries
    <2>6. ~s.thrown => key \notin DOMAIN s.kv
        BY <2>2, <2>3, <2>5
    <2>7. /\ IsWork(t) /\ t.ok
          /\ ~t.thrown => /\ ~s.thrown
                          /\ DOMAIN t.kv = DOMAIN s.kv \cup {key}
                          /\ \A x \in DOMAIN s.kv : t.kv[x] = s.kv[x]
        <3> HIDE DEF s, key
        <3> QED  BY <2>3, <2>6, StepAdd
    <2>8. Done(t, i)
        <3> HIDE DEF t, s, key
        <3> QED  BY <2>3, <2>5, <2>7
    <2> HIDE DEF Done
    <2> QED  BY <2>2, <2>4, <2>8
<1>4. N \in 0 .. N
    BY <1>1
<1>5. Done(f[N], N)
    <2> HIDE DEF Done
    <2> QED  BY <1>3, <1>4
<1> QED  BY <1>2, <1>5

-----------------------------------------------------------------------------
(* Stores *)

\* A row has its entry in each index, and an entry has its row.
LEMMA TableEntries ==
    ASSUME NEW S, StoreOK(S), NEW name \in DOMAIN S.defs,
           NEW i \in 1 .. Len(S.defs[name].indexes)
    PROVE  LET D == S.defs[name]
           IN  /\ \A k \in KeysOf(S, D.prefix) : index_key(D, i, S.kv[k]) \in DOMAIN S.kv
               /\ \A e \in DOMAIN S.kv : e.prefix = D.prefix + i =>
                     \E k \in KeysOf(S, D.prefix) : e = index_key(D, i, S.kv[k])
<1> DEFINE D == S.defs[name]
<1>1. DefOK(D)
    BY DEF StoreOK
<1>2. i \in DOMAIN D.indexes /\ D.index_prefixes[i] = D.prefix + i
    BY <1>1, TableKeys
<1>3. KeysOf(S, D.prefix + i) = {index_key(D, i, S.kv[k]) : k \in KeysOf(S, D.prefix)}
    BY <1>2 DEF StoreOK, IndexesFollow
<1>4. \A k \in KeysOf(S, D.prefix) : index_key(D, i, S.kv[k]) \in DOMAIN S.kv
    BY <1>3 DEF KeysOf
<1>5. \A e \in DOMAIN S.kv : e.prefix = D.prefix + i =>
          \E k \in KeysOf(S, D.prefix) : e = index_key(D, i, S.kv[k])
    BY <1>3 DEF KeysOf
<1> QED  BY <1>4, <1>5

\* A change to the keys of one table that leaves its rows and indexes in order
\* leaves the store in order.
LEMMA TableChanged ==
    ASSUME NEW S, StoreOK(S), NEW name \in DOMAIN S.defs,
           NEW T, IsStore(T), T.next = S.next, T.defs = S.defs,
           \A x : x.prefix \notin TablePrefixes(S.defs[name]) =>
                     /\ x \in DOMAIN T.kv <=> x \in DOMAIN S.kv
                     /\ x \in DOMAIN S.kv => T.kv[x] = S.kv[x],
           \A k \in KeysOf(T, S.defs[name].prefix) : k = row_key(S.defs[name], T.kv[k]),
           \A i \in DOMAIN S.defs[name].indexes :
               KeysOf(T, S.defs[name].index_prefixes[i])
                   = {index_key(S.defs[name], i, T.kv[k]) : k \in KeysOf(T, S.defs[name].prefix)}
    PROVE  StoreOK(T)
<1> DEFINE D == S.defs[name]
<1>1. S.next \in Nat /\ OwnPrefixes(S) /\ RowsInPlace(S) /\ IndexesFollow(S)
      /\ \A m \in DOMAIN S.defs : DefOK(S.defs[m])
    BY DEF StoreOK
<1>2. ASSUME NEW m \in DOMAIN S.defs, m # name, NEW q \in TablePrefixes(S.defs[m])
      PROVE  /\ KeysOf(T, q) = KeysOf(S, q)
             /\ \A k \in KeysOf(S, q) : T.kv[k] = S.kv[k]
    <2>1. q \notin TablePrefixes(D)
        BY <1>1, <1>2 DEF OwnPrefixes
    <2> QED  BY <2>1 DEF KeysOf
<1>3. \A m \in DOMAIN S.defs : S.defs[m].prefix \in TablePrefixes(S.defs[m])
    BY DEF TablePrefixes
<1>4. \A m \in DOMAIN S.defs : \A i \in DOMAIN S.defs[m].indexes :
          S.defs[m].index_prefixes[i] \in TablePrefixes(S.defs[m])
    <2> TAKE m \in DOMAIN S.defs
    <2> TAKE i \in DOMAIN S.defs[m].indexes
    <2>1. i \in DOMAIN S.defs[m].index_prefixes
        BY <1>1 DEF DefOK
    <2> QED  BY <2>1 DEF TablePrefixes, ToSet
<1>5. OwnPrefixes(T)
    <2>1. ASSUME NEW k \in DOMAIN T.kv
          PROVE  \E m \in DOMAIN S.defs : k.prefix \in TablePrefixes(S.defs[m])
        <3>1. CASE k.prefix \in TablePrefixes(D)
            BY <3>1
        <3>2. CASE k.prefix \notin TablePrefixes(D)
            <4>1. k \in DOMAIN S.kv
                BY <3>2
            <4> QED  BY <1>1, <4>1 DEF OwnPrefixes
        <3> QED  BY <3>1, <3>2
    <2>2. /\ \A n, m \in DOMAIN S.defs : n # m => TablePrefixes(S.defs[n]) \cap TablePrefixes(S.defs[m]) = {}
          /\ \A n \in DOMAIN S.defs : \A p \in TablePrefixes(S.defs[n]) : p < S.next
        BY <1>1 DEF OwnPrefixes
    <2> QED  BY <2>1, <2>2 DEF OwnPrefixes
<1>6. RowsInPlace(T)
    <2> SUFFICES ASSUME NEW m \in DOMAIN S.defs, NEW k \in KeysOf(T, S.defs[m].prefix)
                 PROVE  k = row_key(S.defs[m], T.kv[k])
        BY DEF RowsInPlace
    <2>1. CASE m = name
        BY <2>1
    <2>2. CASE m # name
        <3>1. k \in KeysOf(S, S.defs[m].prefix) /\ T.kv[k] = S.kv[k]
            BY <1>2, <1>3, <2>2
        <3> QED  BY <1>1, <3>1 DEF RowsInPlace
    <2> QED  BY <2>1, <2>2
<1>7. IndexesFollow(T)
    <2> SUFFICES ASSUME NEW m \in DOMAIN S.defs, NEW i \in DOMAIN S.defs[m].indexes
                 PROVE  KeysOf(T, S.defs[m].index_prefixes[i])
                            = {index_key(S.defs[m], i, T.kv[k]) : k \in KeysOf(T, S.defs[m].prefix)}
        BY DEF IndexesFollow
    <2>1. CASE m = name
        BY <2>1
    <2>2. CASE m # name
        <3>1. /\ KeysOf(T, S.defs[m].prefix) = KeysOf(S, S.defs[m].prefix)
              /\ \A k \in KeysOf(S, S.defs[m].prefix) : T.kv[k] = S.kv[k]
              /\ KeysOf(T, S.defs[m].index_prefixes[i]) = KeysOf(S, S.defs[m].index_prefixes[i])
            BY <1>2, <1>3, <1>4, <2>2
        <3>2. KeysOf(S, S.defs[m].index_prefixes[i])
                  = {index_key(S.defs[m], i, S.kv[k]) : k \in KeysOf(S, S.defs[m].prefix)}
            BY <1>1 DEF IndexesFollow
        <3> QED  BY <3>1, <3>2
    <2> QED  BY <2>1, <2>2
<1> QED  BY <1>1, <1>5, <1>6, <1>7 DEF StoreOK

\* What an operation starts with, and the same with other keys.
LEMMA StartIsWork == IsWork(Start) /\ Start.kv = tx.store.kv /\ Start.ok /\ ~Start.thrown
<1>1. Start = [kv |-> tx.store.kv, thrown |-> FALSE, ok |-> TRUE]
    BY DEF Start
<1>2. Start.kv = tx.store.kv /\ Start.thrown = FALSE /\ Start.ok = TRUE
    BY <1>1
<1> QED  BY <1>1, <1>2 DEF IsWork

LEMMA WorkSet ==
    ASSUME NEW r, IsWork(r), r.ok, ~r.thrown, NEW kv, NEW s, s = [r EXCEPT !.kv = kv]
    PROVE  IsWork(s) /\ s.kv = kv /\ s.ok /\ ~s.thrown
<1>1. s = [kv |-> kv, thrown |-> FALSE, ok |-> TRUE]
    BY DEF IsWork
<1>2. s.kv = kv /\ s.thrown = FALSE /\ s.ok = TRUE
    BY <1>1
<1>3. IsWork(s)
    BY <1>1, <1>2 DEF IsWork
<1> QED  BY <1>2, <1>3

\* The store after an operation.
With(store, kv) == [store EXCEPT !.kv = kv]

LEMMA WithFields ==
    ASSUME NEW S, IsStore(S), NEW kv
    PROVE  /\ IsStore(With(S, kv))
           /\ With(S, kv).next = S.next
           /\ With(S, kv).defs = S.defs
           /\ With(S, kv).kv = kv
<1>1. With(S, kv) = [next |-> S.next, defs |-> S.defs, kv |-> kv]
    BY DEF With, IsStore
<1>2. With(S, kv).next = S.next /\ With(S, kv).defs = S.defs /\ With(S, kv).kv = kv
    BY <1>1
<1> QED  BY <1>1, <1>2 DEF IsStore

-----------------------------------------------------------------------------
(* db_delete and db_update *)

\* Keys of one table that differ in their prefix are different keys.
LEMMA KeysDiffer ==
    ASSUME NEW def, DefOK(def)
    PROVE  /\ \A i \in 1 .. Len(def.indexes) : \A rec, row : index_key(def, i, rec) # row_key(def, row)
           /\ \A i, j \in 1 .. Len(def.indexes) : \A a, b :
                 index_key(def, i, a) = index_key(def, j, b) => i = j
           /\ \A rec : \A e \in Entries(def, rec, Len(def.indexes)) :
                 e.prefix \in TablePrefixes(def) /\ e.prefix # def.prefix
           /\ \A rec : row_key(def, rec).prefix \in TablePrefixes(def)
<1>1. /\ def.prefix \in Nat /\ Len(def.indexes) \in Nat
      /\ \A i \in 1 .. Len(def.indexes) : \A rec : index_key(def, i, rec).prefix = def.prefix + i
      /\ \A rec : row_key(def, rec).prefix = def.prefix
      /\ \A q : q \in TablePrefixes(def)
                   <=> q = def.prefix \/ \E i \in 1 .. Len(def.indexes) : q = def.prefix + i
    BY TableKeys
<1>2. \A i \in 1 .. Len(def.indexes) : def.prefix + i # def.prefix
    BY <1>1
<1>3. \A i, j \in 1 .. Len(def.indexes) : def.prefix + i = def.prefix + j => i = j
    BY <1>1
<1>4. \A i \in 1 .. Len(def.indexes) : \A rec, row : index_key(def, i, rec) # row_key(def, row)
    BY <1>1, <1>2
<1>5. \A i, j \in 1 .. Len(def.indexes) : \A a, b :
          index_key(def, i, a) = index_key(def, j, b) => i = j
    BY <1>1, <1>3
<1>6. \A rec : \A e \in Entries(def, rec, Len(def.indexes)) :
          e.prefix \in TablePrefixes(def) /\ e.prefix # def.prefix
    BY <1>1, <1>2 DEF Entries
<1> QED  BY <1>1, <1>4, <1>5, <1>6

\* db_delete takes a row and its entries away and leaves the store in order.
LEMMA DeleteOK ==
    ASSUME StoreOK(tx.store), NEW name \in DOMAIN tx.store.defs, NEW rec
    PROVE  LET r == db_delete(tx.store.defs[name], rec)
           IN  IsWork(r) /\ r.ok /\ (~r.thrown => StoreOK(With(tx.store, r.kv)))
<1> DEFINE S == tx.store
           D == S.defs[name]
           N == Len(D.indexes)
           key == row_key(D, rec)
           r == db_delete(D, rec)
<1>1. IsStore(S) /\ DefOK(D) /\ RowsInPlace(S)
    BY DEF StoreOK
<1>2. IsWork(Start) /\ Start.kv = S.kv /\ Start.ok /\ ~Start.thrown
    BY StartIsWork
<1>3. CASE key \notin DOMAIN S.kv
    <2>1. r = Start
        BY <1>2, <1>3 DEF db_delete
    <2>2. With(S, S.kv) = S
        BY <1>1 DEF With, IsStore
    <2> QED  BY <1>2, <2>1, <2>2
<1>4. CASE key \in DOMAIN S.kv
    <2> DEFINE old == S.kv[key]
               set == [Start EXCEPT !.kv = Without(Start.kv, key)]
               T == With(S, r.kv)
    <2>1. r = index_op(set, D, old, "INDEX_DEL")
        BY <1>2, <1>4 DEF db_delete
    <2>2. IsWork(set) /\ set.kv = Without(S.kv, key) /\ set.ok /\ ~set.thrown
        BY <1>2, WorkSet
    <2>3. DOMAIN set.kv = DOMAIN S.kv \ {key} /\ \A x \in DOMAIN set.kv : set.kv[x] = S.kv[x]
        BY <2>2 DEF Without, Restrict
    <2>4. key \in KeysOf(S, D.prefix) /\ key = row_key(D, old)
        <3>1. key.prefix = D.prefix
            BY <1>1, TableKeys
        <3>2. key \in KeysOf(S, D.prefix)
            BY <1>4, <3>1 DEF KeysOf
        <3> QED  BY <1>1, <3>2 DEF RowsInPlace
    <2>5. \A i \in 1 .. N : index_key(D, i, old) \in DOMAIN S.kv /\ index_key(D, i, old) # key
        BY <1>1, <2>4, TableEntries, KeysDiffer
    <2>6. /\ IsWork(r) /\ r.ok
          /\ ~r.thrown => /\ DOMAIN r.kv = (DOMAIN S.kv \ {key}) \ Entries(D, old, N)
                          /\ \A x \in DOMAIN r.kv : r.kv[x] = S.kv[x]
        <3> HIDE DEF set, old, D, S, key
        <3>1. \A i \in 1 .. N : index_key(D, i, old) \in DOMAIN set.kv
            BY <2>3, <2>5
        <3>2. LET s == index_op(set, D, old, "INDEX_DEL")
              IN  /\ IsWork(s) /\ s.ok
                  /\ ~s.thrown => /\ DOMAIN s.kv = DOMAIN set.kv \ Entries(D, old, N)
                                  /\ \A x \in DOMAIN s.kv : s.kv[x] = set.kv[x]
            BY <1>1, <2>2, <3>1, OpDel
        <3> QED  BY <2>1, <2>3, <3>2
    <2>7. ASSUME ~r.thrown  PROVE StoreOK(T)
        <3>1. IsStore(T) /\ T.next = S.next /\ T.defs = S.defs /\ T.kv = r.kv
            BY <1>1, WithFields
        <3>2. /\ DOMAIN T.kv = (DOMAIN S.kv \ {key}) \ Entries(D, old, N)
              /\ \A x \in DOMAIN T.kv : T.kv[x] = S.kv[x]
            BY <2>6, <2>7, <3>1
        <3> HIDE DEF T, r, set
        <3>3. ASSUME NEW x, x.prefix \notin TablePrefixes(D)
              PROVE  /\ x \in DOMAIN T.kv <=> x \in DOMAIN S.kv
                     /\ x \in DOMAIN S.kv => T.kv[x] = S.kv[x]
            <4>1. x # key /\ x \notin Entries(D, old, N)
                BY <1>1, <3>3, KeysDiffer
            <4> QED  BY <3>2, <4>1
        <3>4. \A k : k \in KeysOf(T, D.prefix) <=> k \in KeysOf(S, D.prefix) /\ k # key
            BY <1>1, <3>2, KeysDiffer DEF KeysOf
        <3>5. \A k \in KeysOf(T, D.prefix) : T.kv[k] = S.kv[k]
            BY <3>2 DEF KeysOf
        <3>6. \A k \in KeysOf(T, D.prefix) : k = row_key(D, T.kv[k])
            BY <1>1, <3>4, <3>5 DEF RowsInPlace
        <3>7. ASSUME NEW i \in 1 .. N
              PROVE  KeysOf(T, D.prefix + i) = {index_key(D, i, T.kv[k]) : k \in KeysOf(T, D.prefix)}
            <4>1. ASSUME NEW e \in KeysOf(T, D.prefix + i)
                  PROVE  \E k \in KeysOf(T, D.prefix) : e = index_key(D, i, T.kv[k])
                <5>1. e \in DOMAIN S.kv /\ e.prefix = D.prefix + i /\ e \notin Entries(D, old, N)
                    BY <3>2 DEF KeysOf
                <5>2. PICK k \in KeysOf(S, D.prefix) : e = index_key(D, i, S.kv[k])
                    BY <5>1, TableEntries
                <5>3. k # key
                    BY <5>1, <5>2 DEF Entries
                <5> QED  BY <3>4, <3>5, <5>2, <5>3
            <4>2. ASSUME NEW k \in KeysOf(T, D.prefix)
                  PROVE  index_key(D, i, T.kv[k]) \in KeysOf(T, D.prefix + i)
                <5> DEFINE e == index_key(D, i, S.kv[k])
                <5>1. k \in KeysOf(S, D.prefix) /\ k # key /\ T.kv[k] = S.kv[k]
                    BY <3>4, <3>5
                <5>2. e \in DOMAIN S.kv /\ e # key /\ e.prefix = D.prefix + i
                    BY <1>1, <5>1, TableEntries, KeysDiffer, TableKeys
                <5>3. ASSUME NEW j \in 1 .. N, e = index_key(D, j, old)  PROVE FALSE
                    <6>1. i = j
                        BY <1>1, <5>3, KeysDiffer
                    <6>2. k = row_key(D, S.kv[k])
                        BY <1>1, <5>1 DEF RowsInPlace
                    <6>3. row_key(D, S.kv[k]) = row_key(D, old)
                        BY <1>1, <5>3, <6>1, EntryNamesRow
                    <6> QED  BY <2>4, <5>1, <6>2, <6>3
                <5>4. e \notin Entries(D, old, N)
                    BY <5>3 DEF Entries
                <5> QED  BY <3>2, <5>1, <5>2, <5>4 DEF KeysOf
            <4> QED  BY <4>1, <4>2
        <3>8. \A i \in DOMAIN D.indexes :
                  KeysOf(T, D.index_prefixes[i]) = {index_key(D, i, T.kv[k]) : k \in KeysOf(T, D.prefix)}
            <4>1. DOMAIN D.indexes = 1 .. N /\ \A i \in 1 .. N : D.index_prefixes[i] = D.prefix + i
                BY <1>1, TableKeys
            <4> QED  BY <3>7, <4>1
        <3> QED  BY <3>1, <3>3, <3>6, <3>8, TableChanged
    <2> QED  BY <2>6, <2>7
<1> QED  BY <1>3, <1>4

\* db_update sets a row, takes the entries of the old one away, adds those of
\* the new one and leaves the store in order.
LEMMA UpdateOK ==
    ASSUME StoreOK(tx.store), NEW name \in DOMAIN tx.store.defs, NEW rec, NEW mode
    PROVE  LET r == db_update(tx.store.defs[name], rec, mode)
           IN  IsWork(r) /\ r.ok /\ (~r.thrown => StoreOK(With(tx.store, r.kv)))
<1> DEFINE S == tx.store
           D == S.defs[name]
           N == Len(D.indexes)
           key == row_key(D, rec)
           r == db_update(D, rec, mode)
<1>1. IsStore(S) /\ DefOK(D) /\ RowsInPlace(S)
    BY DEF StoreOK
<1>2. IsWork(Start) /\ Start.kv = S.kv /\ Start.ok /\ ~Start.thrown
    BY StartIsWork
<1>3. CASE ~mode_met(mode, key \in DOMAIN S.kv)
    <2>1. r = Start
        BY <1>2, <1>3 DEF db_update
    <2>2. With(S, S.kv) = S
        BY <1>1 DEF With, IsStore
    <2> QED  BY <1>2, <2>1, <2>2
<1>4. CASE mode_met(mode, key \in DOMAIN S.kv)
    <2> DEFINE set == [Start EXCEPT !.kv = Put(Start.kv, key, rec)]
               cleared == IF key \in DOMAIN Start.kv THEN index_op(set, D, Start.kv[key], "INDEX_DEL")
                          ELSE set
               gone == IF key \in DOMAIN S.kv THEN Entries(D, S.kv[key], N) ELSE {}
               new == Entries(D, rec, N)
               T == With(S, r.kv)
    <2>1. r = index_op(cleared, D, rec, "INDEX_ADD")
        BY <1>2, <1>4 DEF db_update
    <2>2. IsWork(set) /\ set.kv = Put(S.kv, key, rec) /\ set.ok /\ ~set.thrown
        BY <1>2, WorkSet
    <2>3. /\ DOMAIN set.kv = DOMAIN S.kv \cup {key}
          /\ set.kv[key] = rec
          /\ \A x \in DOMAIN S.kv : x # key => set.kv[x] = S.kv[x]
        BY <2>2 DEF Put
    <2>4. key.prefix = D.prefix /\ \A i \in 1 .. N : \A a : index_key(D, i, a) # key
        BY <1>1, TableKeys, KeysDiffer
    <2>5. key \in DOMAIN S.kv => key \in KeysOf(S, D.prefix) /\ key = row_key(D, S.kv[key])
        <3>1. key \in DOMAIN S.kv => key \in KeysOf(S, D.prefix)
            BY <2>4 DEF KeysOf
        <3> QED  BY <1>1, <3>1 DEF RowsInPlace
    <2>6. /\ IsWork(cleared) /\ cleared.ok
          /\ ~cleared.thrown => /\ DOMAIN cleared.kv = (DOMAIN S.kv \cup {key}) \ gone
                                /\ \A x \in DOMAIN cleared.kv : cleared.kv[x] = set.kv[x]
        <3>1. CASE key \in DOMAIN S.kv
            <4> DEFINE old == S.kv[key]
            <4>1. cleared = index_op(set, D, old, "INDEX_DEL") /\ gone = Entries(D, old, N)
                BY <1>2, <3>1
            <4>2. \A i \in 1 .. N : index_key(D, i, old) \in DOMAIN S.kv
                BY <2>5, <3>1, TableEntries
            <4> HIDE DEF set, old, D, S, key, cleared, gone
            <4>3. \A i \in 1 .. N : index_key(D, i, old) \in DOMAIN set.kv
                BY <2>3, <4>2
            <4>4. LET s == index_op(set, D, old, "INDEX_DEL")
                  IN  /\ IsWork(s) /\ s.ok
                      /\ ~s.thrown => /\ DOMAIN s.kv = DOMAIN set.kv \ Entries(D, old, N)
                                      /\ \A x \in DOMAIN s.kv : s.kv[x] = set.kv[x]
                BY <1>1, <2>2, <4>3, OpDel
            <4> QED  BY <2>3, <4>1, <4>4
        <3>2. CASE key \notin DOMAIN S.kv
            <4>1. cleared = set /\ gone = {}
                BY <1>2, <3>2
            <4> HIDE DEF cleared, set, gone
            <4> QED  BY <2>2, <2>3, <4>1
        <3> QED  BY <3>1, <3>2
    <2>7. ASSUME NEW i \in 1 .. N, index_key(D, i, rec) \in DOMAIN S.kv
          PROVE  index_key(D, i, rec) \in gone
        <3> DEFINE e == index_key(D, i, rec)
        <3>1. e.prefix = D.prefix + i
            BY <1>1, TableKeys
        <3>2. PICK k \in KeysOf(S, D.prefix) : e = index_key(D, i, S.kv[k])
            BY <2>7, <3>1, TableEntries
        <3>3. k = row_key(D, S.kv[k])
            BY <1>1 DEF RowsInPlace
        <3>4. row_key(D, S.kv[k]) = key
            BY <1>1, <3>2, EntryNamesRow
        <3>5. k = key /\ key \in DOMAIN S.kv
            BY <3>3, <3>4 DEF KeysOf
        <3> QED  BY <3>2, <3>5 DEF Entries
    <2>8. /\ IsWork(r) /\ r.ok
          /\ ~r.thrown => /\ DOMAIN r.kv = ((DOMAIN S.kv \cup {key}) \ gone) \cup new
                          /\ \A x \in (DOMAIN S.kv \cup {key}) \ gone : r.kv[x] = set.kv[x]
        <3> HIDE DEF set, cleared, D, S, key, gone
        <3>1. ~cleared.thrown => \A i \in 1 .. N : index_key(D, i, rec) \notin DOMAIN cleared.kv
            BY <2>4, <2>6, <2>7
        <3>2. LET s == index_op(cleared, D, rec, "INDEX_ADD")
              IN  /\ IsWork(s) /\ s.ok
                  /\ ~s.thrown => /\ ~cleared.thrown
                                  /\ DOMAIN s.kv = DOMAIN cleared.kv \cup new
                                  /\ \A x \in DOMAIN cleared.kv : s.kv[x] = cleared.kv[x]
            BY <1>1, <2>6, <3>1, OpAdd
        <3> QED  BY <2>1, <2>6, <3>2
    <2>9. ASSUME ~r.thrown  PROVE StoreOK(T)
        <3>1. IsStore(T) /\ T.next = S.next /\ T.defs = S.defs /\ T.kv = r.kv
            BY <1>1, WithFields
        <3>2. \A e \in gone \cup new : e.prefix \in TablePrefixes(D) /\ e.prefix # D.prefix
            <4>1. \A a : \A e \in Entries(D, a, N) : e.prefix \in TablePrefixes(D) /\ e.prefix # D.prefix
                BY <1>1, KeysDiffer
            <4> QED  BY <4>1
        <3>3. key \in DOMAIN T.kv /\ key \notin gone /\ T.kv[key] = rec
            BY <2>3, <2>4, <2>8, <2>9, <3>1, <3>2
        <3>4. /\ DOMAIN T.kv = ((DOMAIN S.kv \cup {key}) \ gone) \cup new
              /\ \A x \in DOMAIN S.kv : x # key /\ x \notin gone => T.kv[x] = S.kv[x]
            BY <2>3, <2>8, <2>9, <3>1
        <3> HIDE DEF T, r, set, cleared
        <3>5. ASSUME NEW x, x.prefix \notin TablePrefixes(D)
              PROVE  /\ x \in DOMAIN T.kv <=> x \in DOMAIN S.kv
                     /\ x \in DOMAIN S.kv => T.kv[x] = S.kv[x]
            <4>1. x # key /\ x \notin gone /\ x \notin new
                BY <1>1, <3>2, <3>5, KeysDiffer
            <4> QED  BY <3>4, <4>1
        <3>6. \A k : k \in KeysOf(T, D.prefix) <=> k \in KeysOf(S, D.prefix) \/ k = key
            BY <2>4, <3>2, <3>4 DEF KeysOf
        <3>7. \A k \in KeysOf(S, D.prefix) : k # key => T.kv[k] = S.kv[k]
            BY <3>2, <3>4 DEF KeysOf
        <3>8. \A k \in KeysOf(T, D.prefix) : k = row_key(D, T.kv[k])
            BY <1>1, <3>3, <3>6, <3>7 DEF RowsInPlace
        <3>9. ASSUME NEW i \in 1 .. N
              PROVE  KeysOf(T, D.prefix + i) = {index_key(D, i, T.kv[k]) : k \in KeysOf(T, D.prefix)}
            <4>1. ASSUME NEW e \in KeysOf(T, D.prefix + i)
                  PROVE  \E k \in KeysOf(T, D.prefix) : e = index_key(D, i, T.kv[k])
                <5>1. e \in DOMAIN T.kv /\ e.prefix = D.prefix + i
                    BY DEF KeysOf
                <5>2. CASE e \in new
                    <6>1. PICK j \in 1 .. N : e = index_key(D, j, rec)
                        BY <5>2 DEF Entries
                    <6>2. D.prefix + j = D.prefix + i /\ D.prefix \in Nat /\ N \in Nat
                        BY <1>1, <5>1, <6>1, TableKeys
                    <6>3. e = index_key(D, i, rec)
                        BY <6>1, <6>2
                    <6> QED  BY <3>3, <3>6, <6>3
                <5>3. CASE e \notin new
                    <6>1. e \in DOMAIN S.kv /\ e \notin gone
                        <7>1. N \in Nat /\ D.prefix \in Nat /\ D.prefix + i # D.prefix
                            BY <1>1, TableKeys
                        <7> QED  BY <2>4, <3>4, <5>1, <5>3, <7>1
                    <6>2. PICK k \in KeysOf(S, D.prefix) : e = index_key(D, i, S.kv[k])
                        BY <5>1, <6>1, TableEntries
                    <6>3. k # key
                        BY <6>1, <6>2 DEF Entries, KeysOf
                    <6> QED  BY <3>6, <3>7, <6>2, <6>3
                <5> QED  BY <5>2, <5>3
            <4>2. ASSUME NEW k \in KeysOf(T, D.prefix)
                  PROVE  index_key(D, i, T.kv[k]) \in KeysOf(T, D.prefix + i)
                <5>1. CASE k = key
                    <6>1. index_key(D, i, rec) \in new
                        BY DEF Entries
                    <6>2. index_key(D, i, rec).prefix = D.prefix + i
                        BY <1>1, TableKeys
                    <6> QED  BY <3>3, <3>4, <5>1, <6>1, <6>2 DEF KeysOf
                <5>2. CASE k # key
                    <6> DEFINE e == index_key(D, i, S.kv[k])
                    <6>1. k \in KeysOf(S, D.prefix) /\ T.kv[k] = S.kv[k]
                        BY <3>6, <3>7, <5>2
                    <6>2. e \in DOMAIN S.kv /\ e.prefix = D.prefix + i
                        BY <1>1, <6>1, TableEntries, TableKeys
                    <6>3. ASSUME key \in DOMAIN S.kv, NEW j \in 1 .. N, e = index_key(D, j, S.kv[key])
                          PROVE  FALSE
                        <7>1. i = j
                            BY <1>1, <6>3, KeysDiffer
                        <7>2. k = row_key(D, S.kv[k])
                            BY <1>1, <6>1 DEF RowsInPlace
                        <7>3. row_key(D, S.kv[k]) = row_key(D, S.kv[key])
                            BY <1>1, <6>3, <7>1, EntryNamesRow
                        <7> QED  BY <2>5, <5>2, <6>3, <7>2, <7>3
                    <6>4. e \notin gone
                        BY <6>3 DEF Entries
                    <6> QED  BY <3>4, <6>1, <6>2, <6>4 DEF KeysOf
                <5> QED  BY <5>1, <5>2
            <4> QED  BY <4>1, <4>2
        <3>10. \A i \in DOMAIN D.indexes :
                  KeysOf(T, D.index_prefixes[i]) = {index_key(D, i, T.kv[k]) : k \in KeysOf(T, D.prefix)}
            <4>1. DOMAIN D.indexes = 1 .. N /\ \A i \in 1 .. N : D.index_prefixes[i] = D.prefix + i
                BY <1>1, TableKeys
            <4> QED  BY <3>9, <4>1
        <3> QED  BY <3>1, <3>5, <3>8, <3>10, TableChanged
    <2> QED  BY <2>8, <2>9
<1> QED  BY <1>3, <1>4

-----------------------------------------------------------------------------
(* Creating a table *)

LEMMA EmptyStoreOK == StoreOK(EmptyStore)
<1>1. /\ EmptyStore = [next |-> 3, defs |-> Nothing, kv |-> Nothing]
      /\ EmptyStore.next = 3 /\ EmptyStore.defs = Nothing /\ EmptyStore.kv = Nothing
    BY DEF EmptyStore
<1>2. DOMAIN Nothing = {}
    BY DEF Nothing
<1> QED  BY <1>1, <1>2 DEF StoreOK, IsStore, OwnPrefixes, RowsInPlace, IndexesFollow

\* The fields of the store that Catalog::table_new leaves.
LEMMA NewTableFields ==
    ASSUME NEW S, IsStore(S), NEW name \in Names, name \notin DOMAIN S.defs,
           Len(NewDef[name].indexes) \in Nat, S.next \in Nat
    PROVE  LET T == catalog_table_new(S, name)
               n == Len(NewDef[name].indexes)
           IN  /\ IsStore(T)
               /\ T.next = S.next + (1 + n)
               /\ T.kv = S.kv
               /\ DOMAIN T.defs = DOMAIN S.defs \cup {name}
               /\ \A m \in DOMAIN S.defs : T.defs[m] = S.defs[m]
               /\ T.defs[name] = [cols |-> NewDef[name].cols, pkeys |-> NewDef[name].pkeys,
                                  spaced |-> NewDef[name].spaced, prefix |-> S.next,
                                  indexes |-> [i \in 1 .. n |->
                                      check_index_keys(NewDef[name], NewDef[name].indexes[i])],
                                  index_prefixes |-> [i \in 1 .. n |-> S.next + i]]
<1> DEFINE T == catalog_table_new(S, name)
           n == Len(NewDef[name].indexes)
           def == [cols |-> NewDef[name].cols, pkeys |-> NewDef[name].pkeys,
                   spaced |-> NewDef[name].spaced, prefix |-> S.next,
                   indexes |-> [i \in 1 .. n |-> check_index_keys(NewDef[name], NewDef[name].indexes[i])],
                   index_prefixes |-> [i \in 1 .. n |-> S.next + i]]
           next == alloc_prefix(S, 1 + n)
<1>1. T = [next EXCEPT !.defs = Put(next.defs, name, def)]
    BY DEF catalog_table_new
<1>2. next = [next |-> S.next + (1 + n), defs |-> S.defs, kv |-> S.kv]
    BY DEF alloc_prefix, IsStore
<1>3. next.defs = S.defs /\ next.kv = S.kv /\ next.next = S.next + (1 + n)
    BY <1>2
<1> HIDE DEF def, next
<1>4. T = [next |-> S.next + (1 + n), defs |-> Put(S.defs, name, def), kv |-> S.kv]
    BY <1>1, <1>2, <1>3
<1> HIDE DEF T
<1>5. T.next = S.next + (1 + n) /\ T.defs = Put(S.defs, name, def) /\ T.kv = S.kv
    BY <1>4
<1>6. IsStore(T)
    BY <1>4, <1>5 DEF IsStore
<1>7. /\ DOMAIN T.defs = DOMAIN S.defs \cup {name}
      /\ \A m \in DOMAIN S.defs : T.defs[m] = S.defs[m]
      /\ T.defs[name] = def
    BY <1>5 DEF Put
<1> QED  BY <1>5, <1>6, <1>7 DEF def, T

\* Catalog::table_new gives the new table prefixes of its own: the store stays
\* in order.
LEMMA NewTableOK ==
    ASSUME NEW S, StoreOK(S), NEW name \in Names, name \notin DOMAIN S.defs,
           table_def_check(NewDef[name])
    PROVE  StoreOK(catalog_table_new(S, name))
<1> DEFINE T == catalog_table_new(S, name)
           new == NewDef[name]
           n == Len(new.indexes)
           def == T.defs[name]
<1>1. /\ IsStore(S) /\ S.next \in Nat /\ OwnPrefixes(S) /\ RowsInPlace(S) /\ IndexesFollow(S)
      /\ \A m \in DOMAIN S.defs : DefOK(S.defs[m])
    BY DEF StoreOK
<1>2. new.cols \in Seq(STRING) /\ new.indexes \in Seq(Seq(STRING)) /\ new.pkeys \in 1 .. Len(new.cols)
    BY DefsAssumption DEF Names, table_def_check
<1>3. n \in Nat /\ \A i \in 1 .. n : new.indexes[i] \in Seq(STRING)
    BY <1>2, LenProperties, ElementOfSeq
<1>4. /\ IsStore(T) /\ T.next = S.next + (1 + n) /\ T.kv = S.kv
      /\ DOMAIN T.defs = DOMAIN S.defs \cup {name}
      /\ \A m \in DOMAIN S.defs : T.defs[m] = S.defs[m]
      /\ def = [cols |-> new.cols, pkeys |-> new.pkeys, spaced |-> new.spaced, prefix |-> S.next,
                indexes |-> [i \in 1 .. n |-> check_index_keys(new, new.indexes[i])],
                index_prefixes |-> [i \in 1 .. n |-> S.next + i]]
    BY <1>1, <1>3, NewTableFields
<1>5. /\ def.cols = new.cols /\ def.pkeys = new.pkeys /\ def.prefix = S.next
      /\ def.indexes = [i \in 1 .. n |-> check_index_keys(new, new.indexes[i])]
      /\ def.index_prefixes = [i \in 1 .. n |-> S.next + i]
    BY <1>4
<1> HIDE DEF T
<1>6. DefOK(def)
    <2>1. \A i \in 1 .. n : /\ check_index_keys(new, new.indexes[i]) \in Seq(STRING)
                            /\ \A c \in 1 .. new.pkeys :
                                  Contains(check_index_keys(new, new.indexes[i]), new.cols[c])
        BY <1>2, <1>3, KeyNamed
    <2>2. DOMAIN def.indexes = 1 .. n /\ \A i \in 1 .. n : def.indexes[i] \in Seq(STRING)
        BY <1>5, <2>1
    <2>3. def.indexes \in Seq(Seq(STRING))
        BY <1>3, <1>5, <2>1
    <2>4. \A i \in 1 .. n : \A c \in 1 .. def.pkeys : Contains(def.indexes[i], def.cols[c])
        BY <1>5, <2>1
    <2>5. def.index_prefixes = [i \in DOMAIN def.indexes |-> def.prefix + i]
        BY <1>5, <2>2
    <2> QED  BY <1>1, <1>2, <1>5, <2>2, <2>3, <2>4, <2>5 DEF DefOK
<1>7. Len(def.indexes) = n
    <2>1. DOMAIN def.indexes = 1 .. n /\ DOMAIN def.indexes = 1 .. Len(def.indexes) /\ Len(def.indexes) \in Nat
        BY <1>5, <1>6, TableKeys
    <2> QED  BY <1>3, <2>1
<1>8. \A q \in TablePrefixes(def) : q \in Nat /\ S.next <= q /\ q < T.next
    BY <1>1, <1>3, <1>4, <1>5, <1>6, <1>7, TableKeys
<1>9. \A m \in DOMAIN S.defs : \A q \in TablePrefixes(S.defs[m]) : q \in Nat /\ q < S.next
    <2> TAKE m \in DOMAIN S.defs
    <2> TAKE q \in TablePrefixes(S.defs[m])
    <2>1. q \in Nat
        BY <1>1, TableKeys
    <2> QED  BY <1>1, <2>1 DEF OwnPrefixes
<1>10. \A m \in DOMAIN S.defs : TablePrefixes(def) \cap TablePrefixes(S.defs[m]) = {}
    BY <1>1, <1>8, <1>9
<1>11. \A k \in DOMAIN T.kv : k.prefix \notin TablePrefixes(def)
                              /\ \E m \in DOMAIN S.defs : k.prefix \in TablePrefixes(S.defs[m])
    BY <1>1, <1>4, <1>10 DEF OwnPrefixes
<1>12. \A m \in DOMAIN T.defs : m = name \/ (m # name /\ m \in DOMAIN S.defs /\ T.defs[m] = S.defs[m])
    BY <1>4
<1>13. \A q : KeysOf(T, q) = KeysOf(S, q)
    BY <1>4 DEF KeysOf
<1>14. def.prefix \in TablePrefixes(def) /\ \A i \in DOMAIN def.indexes : def.index_prefixes[i] \in TablePrefixes(def)
    <2>1. \A i \in DOMAIN def.indexes : i \in DOMAIN def.index_prefixes
        BY <1>5
    <2> QED  BY <2>1 DEF TablePrefixes, ToSet
<1>15. KeysOf(T, def.prefix) = {} /\ \A i \in DOMAIN def.indexes : KeysOf(T, def.index_prefixes[i]) = {}
    <2>1. \A q \in TablePrefixes(def) : KeysOf(T, q) = {}
        BY <1>11 DEF KeysOf
    <2> QED  BY <1>14, <2>1
<1>16. OwnPrefixes(T)
    <2>1. \A l, m \in DOMAIN T.defs : l # m => TablePrefixes(T.defs[l]) \cap TablePrefixes(T.defs[m]) = {}
        <3>1. \A l, m \in DOMAIN S.defs : l # m => TablePrefixes(S.defs[l]) \cap TablePrefixes(S.defs[m]) = {}
            BY <1>1 DEF OwnPrefixes
        <3> QED  BY <1>10, <1>12, <3>1
    <2>2. ASSUME NEW m \in DOMAIN T.defs, NEW q \in TablePrefixes(T.defs[m])  PROVE q < T.next
        <3>1. CASE m = name
            BY <1>8, <3>1
        <3>2. CASE m # name
            <4>1. q \in Nat /\ q < S.next
                BY <1>9, <1>12, <3>2
            <4> QED  BY <1>1, <1>3, <1>4, <4>1
        <3> QED  BY <3>1, <3>2
    <2>3. \A k \in DOMAIN T.kv : \E m \in DOMAIN T.defs : k.prefix \in TablePrefixes(T.defs[m])
        BY <1>4, <1>11
    <2> QED  BY <2>1, <2>2, <2>3 DEF OwnPrefixes
<1>17. RowsInPlace(T)
    <2> SUFFICES ASSUME NEW m \in DOMAIN T.defs, NEW k \in KeysOf(T, T.defs[m].prefix)
                 PROVE  k = row_key(T.defs[m], T.kv[k])
        BY DEF RowsInPlace
    <2>1. m # name
        BY <1>15
    <2> QED  BY <1>1, <1>4, <1>12, <1>13, <2>1 DEF RowsInPlace
<1>18. IndexesFollow(T)
    <2> SUFFICES ASSUME NEW m \in DOMAIN T.defs, NEW i \in DOMAIN T.defs[m].indexes
                 PROVE  KeysOf(T, T.defs[m].index_prefixes[i])
                            = {index_key(T.defs[m], i, T.kv[k]) : k \in KeysOf(T, T.defs[m].prefix)}
        BY DEF IndexesFollow
    <2>1. CASE m = name
        BY <1>15, <2>1
    <2>2. CASE m # name
        <3>1. m \in DOMAIN S.defs /\ T.defs[m] = S.defs[m]
            BY <1>12, <2>2
        <3>2. KeysOf(S, S.defs[m].index_prefixes[i])
                  = {index_key(S.defs[m], i, S.kv[k]) : k \in KeysOf(S, S.defs[m].prefix)}
            BY <1>1, <3>1 DEF IndexesFollow
        <3> QED  BY <1>4, <1>13, <3>1, <3>2
    <2> QED  BY <2>1, <2>2
<1>19. \A m \in DOMAIN T.defs : DefOK(T.defs[m])
    BY <1>1, <1>6, <1>12
<1>20. T.next \in Nat
    BY <1>1, <1>3, <1>4
<1>21. StoreOK(T)
    BY <1>4, <1>16, <1>17, <1>18, <1>19, <1>20 DEF StoreOK
<1> QED  BY <1>21 DEF T

-----------------------------------------------------------------------------
(* Steps *)

\* Every store, by who sees it.
StoresOK ==
    /\ StoreOK(committed)
    /\ \A d \in disk : StoreOK(d)
    /\ \A r \in Readers : StoreOK(readers[r].store)
    /\ Running => StoreOK(tx.store)

LEMMA StoresApart ==
    /\ (\A store \in Stores : StoreOK(store)) <=> StoresOK
    /\ (\A store \in Stores' : StoreOK(store)) <=> StoresOK'
BY DEF Stores, StoresOK, Running

\* NoTx, and DB::begin's transaction.
LEMMA NoTxFields ==
    /\ IsTx(NoTx) /\ ~NoTx.on /\ NoTx.ok /\ ~NoTx.created_table /\ ~NoTx.thrown
    /\ NoTx.store = EmptyStore
<1>1. NoTx = [on |-> FALSE, store |-> EmptyStore, created_table |-> FALSE, thrown |-> FALSE, ok |-> TRUE]
    BY DEF NoTx
<1>2. /\ NoTx.on = FALSE /\ NoTx.store = EmptyStore /\ NoTx.created_table = FALSE
      /\ NoTx.thrown = FALSE /\ NoTx.ok = TRUE
    BY <1>1
<1>3. IsStore(EmptyStore)
    BY EmptyStoreOK DEF StoreOK
<1> QED  BY <1>1, <1>2, <1>3 DEF IsTx

Begun(t, u, s) == t = [u EXCEPT !.on = TRUE, !.store = s]

LEMMA BeginTx ==
    ASSUME NEW u, IsTx(u), u.ok, ~u.created_table, ~u.thrown, NEW s, IsStore(s), NEW t, Begun(t, u, s)
    PROVE  IsTx(t) /\ t.on /\ t.ok /\ ~t.created_table /\ ~t.thrown /\ t.store = s
<1>1. t = [on |-> TRUE, store |-> s, created_table |-> FALSE, thrown |-> FALSE, ok |-> TRUE]
    BY DEF IsTx, Begun
<1>2. t.on = TRUE /\ t.store = s /\ t.created_table = FALSE /\ t.thrown = FALSE /\ t.ok = TRUE
    BY <1>1
<1> QED  BY <1>1, <1>2 DEF IsTx

\* A transaction without failed assertions.
TxOn(t, s, y, x) == t = [on |-> TRUE, store |-> s, created_table |-> y, thrown |-> x, ok |-> TRUE]

LEMMA RunningTx ==
    ASSUME NEW s, IsStore(s), NEW x \in BOOLEAN, NEW y \in BOOLEAN, NEW t, TxOn(t, s, y, x)
    PROVE  /\ IsTx(t) /\ t.on /\ t.ok /\ t.store = s
           /\ t.thrown <=> x
           /\ t.created_table <=> y
<1>1. CASE y /\ x
    <2>1. t = [on |-> TRUE, store |-> s, created_table |-> TRUE, thrown |-> TRUE, ok |-> TRUE]
        BY <1>1 DEF TxOn
    <2>2. t.on = TRUE /\ t.store = s /\ t.created_table = TRUE /\ t.thrown = TRUE /\ t.ok = TRUE
        BY <2>1
    <2> QED  BY <1>1, <2>1, <2>2 DEF IsTx
<1>2. CASE y /\ ~x
    <2>1. t = [on |-> TRUE, store |-> s, created_table |-> TRUE, thrown |-> FALSE, ok |-> TRUE]
        BY <1>2 DEF TxOn
    <2>2. t.on = TRUE /\ t.store = s /\ t.created_table = TRUE /\ t.thrown = FALSE /\ t.ok = TRUE
        BY <2>1
    <2> QED  BY <1>2, <2>1, <2>2 DEF IsTx
<1>3. CASE ~y /\ x
    <2>1. t = [on |-> TRUE, store |-> s, created_table |-> FALSE, thrown |-> TRUE, ok |-> TRUE]
        BY <1>3 DEF TxOn
    <2>2. t.on = TRUE /\ t.store = s /\ t.created_table = FALSE /\ t.thrown = TRUE /\ t.ok = TRUE
        BY <2>1
    <2> QED  BY <1>3, <2>1, <2>2 DEF IsTx
<1>4. CASE ~y /\ ~x
    <2>1. t = [on |-> TRUE, store |-> s, created_table |-> FALSE, thrown |-> FALSE, ok |-> TRUE]
        BY <1>4 DEF TxOn
    <2>2. t.on = TRUE /\ t.store = s /\ t.created_table = FALSE /\ t.thrown = FALSE /\ t.ok = TRUE
        BY <2>1
    <2> QED  BY <1>4, <2>1, <2>2 DEF IsTx
<1> QED  BY <1>1, <1>2, <1>3, <1>4

\* The transaction after Apply.
Applied(t, u, r) == t = [u EXCEPT !.store.kv = r.kv, !.thrown = r.thrown, !.ok = u.ok /\ r.ok]

LEMMA ApplyTx ==
    ASSUME NEW u, IsTx(u), u.on, u.ok, ~u.thrown, NEW r, IsWork(r), r.ok, NEW t, Applied(t, u, r)
    PROVE  /\ IsTx(t) /\ t.on /\ t.ok /\ t.store = With(u.store, r.kv)
           /\ t.thrown <=> r.thrown
           /\ t.created_table <=> u.created_table
<1> DEFINE s == With(u.store, r.kv)
<1>1. IsStore(s)
    BY WithFields DEF IsTx
<1>2. \A x \in BOOLEAN : \A y \in BOOLEAN : r.thrown = x /\ u.created_table = y => TxOn(t, s, y, x)
    BY DEF IsTx, IsWork, With, TxOn, Applied
<1>3. r.thrown \in BOOLEAN /\ u.created_table \in BOOLEAN
    BY DEF IsTx, IsWork
<1> HIDE DEF s
<1>4. PICK x \in BOOLEAN, y \in BOOLEAN : r.thrown = x /\ u.created_table = y
    BY <1>3
<1>5. TxOn(t, s, y, x)
    BY <1>2, <1>4
<1>6. /\ IsTx(t) /\ t.on /\ t.ok /\ t.store = s
      /\ t.thrown <=> x
      /\ t.created_table <=> y
    BY <1>1, <1>5, RunningTx
<1> QED  BY <1>4, <1>6 DEF s

\* The transaction after table_new, and after its exception.
Created(t, u, s) == t = [u EXCEPT !.store = s, !.created_table = TRUE]

LEMMA NewTableTx ==
    ASSUME NEW u, IsTx(u), u.on, u.ok, ~u.thrown, NEW s, IsStore(s), NEW t, Created(t, u, s)
    PROVE  IsTx(t) /\ t.on /\ t.ok /\ t.store = s /\ t.created_table /\ ~t.thrown
<1>1. t = [on |-> TRUE, store |-> s, created_table |-> TRUE, thrown |-> FALSE, ok |-> TRUE]
    BY DEF IsTx, Created
<1>2. t.on = TRUE /\ t.store = s /\ t.created_table = TRUE /\ t.thrown = FALSE /\ t.ok = TRUE
    BY <1>1
<1> QED  BY <1>1, <1>2 DEF IsTx

Thrown(t, u, s) == t = [u EXCEPT !.store = s, !.thrown = TRUE]

LEMMA ThrownTx ==
    ASSUME NEW u, IsTx(u), u.on, u.ok, NEW s, IsStore(s), NEW t, Thrown(t, u, s)
    PROVE  /\ IsTx(t) /\ t.on /\ t.ok /\ t.store = s /\ t.thrown
           /\ t.created_table <=> u.created_table
<1>1. \A x \in BOOLEAN : \A y \in BOOLEAN : x = TRUE /\ u.created_table = y => TxOn(t, s, y, x)
    BY DEF IsTx, TxOn, Thrown
<1>2. PICK x \in BOOLEAN, y \in BOOLEAN : x = TRUE /\ u.created_table = y
    BY DEF IsTx
<1>3. TxOn(t, s, y, x)
    BY <1>1, <1>2
<1>4. /\ IsTx(t) /\ t.on /\ t.ok /\ t.store = s
      /\ t.thrown <=> x
      /\ t.created_table <=> y
    BY <1>3, RunningTx
<1> QED  BY <1>2, <1>4

\* What the invariant says, part by part.
LEMMA InvParts ==
    ASSUME DbInv
    PROVE  /\ IsTx(tx) /\ tx.ok /\ ShapeInv /\ CacheInv /\ CacheTrue /\ StoresOK /\ ReaderDefs
           /\ tx.on \in BOOLEAN
BY StoresApart DEF DbInv, ShapeInv, CacheInv, IndexOpsDone, IsTx

\* The cache is true of the running transaction's store: what get_table_def
\* gives is the store's definition, and so is what it leaves in the cache.
LEMMA GetTableDef ==
    ASSUME CacheTrue, tx.on, NEW name, Known(name)
    PROVE  /\ name \in DOMAIN tx.store.defs
           /\ get_table_def(name) = tx.store.defs[name]
           /\ \A m \in DOMAIN Cached(name) :
                 m \in DOMAIN tx.store.defs /\ Cached(name)[m] = tx.store.defs[m]
<1>1. \A m \in DOMAIN cache : m \in DOMAIN tx.store.defs /\ cache[m] = tx.store.defs[m]
    BY DEF CacheTrue
<1>2. name \in DOMAIN tx.store.defs
    BY <1>1 DEF Known, Readable
<1>3. get_table_def(name) = tx.store.defs[name]
    BY <1>1 DEF get_table_def
<1> QED  BY <1>1, <1>2, <1>3 DEF Cached, Put

\* Steps that leave the readers alone leave them as they were.
LEMMA SameReaders ==
    ASSUME DbInv, UNCHANGED readers
    PROVE  /\ readers' = [r \in Readers |-> [on |-> readers'[r].on, store |-> readers'[r].store,
                                              tables |-> readers'[r].tables]]
           /\ \A r \in Readers : StoreOK(readers'[r].store)
           /\ ReaderDefs'
<1>1. ReaderDefs /\ StoresOK /\ ShapeInv
    BY InvParts
<1> QED  BY <1>1 DEF ReaderDefs, StoresOK, ShapeInv

LEMMA StepBegin == DbInv /\ begin => DbInv'
<1> SUFFICES ASSUME DbInv, begin  PROVE DbInv'
    OBVIOUS
<1>1. CacheTrue /\ StoresOK
    BY InvParts
<1>2. /\ ~tx.on /\ committed' = committed /\ disk' = disk /\ cache' = cache /\ readers' = readers
      /\ Begun(tx', NoTx, committed)
    BY DEF begin, Begun
<1>3. StoreOK(committed) /\ IsStore(committed) /\ \A d \in disk : StoreOK(d)
    BY <1>1 DEF StoresOK, StoreOK
<1>4. IsTx(tx') /\ tx'.on /\ tx'.ok /\ ~tx'.created_table /\ ~tx'.thrown /\ tx'.store = committed
    BY <1>2, <1>3, NoTxFields, BeginTx
<1>5. ShapeInv' /\ ReaderDefs' /\ \A r \in Readers : StoreOK(readers'[r].store)
    BY <1>2, <1>4, SameReaders DEF ShapeInv
<1>6. CacheInv'
    BY <1>1, <1>2, <1>4 DEF CacheInv, CacheTrue
<1>7. StoresOK'
    BY <1>2, <1>3, <1>4, <1>5 DEF StoresOK
<1> QED  BY <1>4, <1>5, <1>6, <1>7, StoresApart DEF DbInv, IndexOpsDone

\* A transaction that ends leaves a cache that is true of the latest version.
LEMMA CacheDropped ==
    ASSUME DbInv, tx.on, DropCache, committed' \in {committed, tx.store}
    PROVE  \A name \in DOMAIN cache' :
               name \in DOMAIN committed'.defs /\ cache'[name] = committed'.defs[name]
<1>1. CacheTrue /\ (~tx.created_table => tx.store.defs = committed.defs)
    BY InvParts DEF CacheInv
<1>2. CASE tx.created_table
    <2>1. cache' = Nothing
        BY <1>2 DEF DropCache
    <2>2. DOMAIN Nothing = {}
        BY DEF Nothing
    <2> QED  BY <2>1, <2>2
<1>3. CASE ~tx.created_table
    <2>1. cache' = cache /\ committed'.defs = tx.store.defs
        BY <1>1, <1>3 DEF DropCache
    <2> QED  BY <1>1, <2>1 DEF CacheTrue
<1> QED  BY <1>2, <1>3

\* The same for every step that ends the transaction.
LEMMA TxEnds ==
    ASSUME DbInv, tx' = NoTx, UNCHANGED readers, StoreOK(committed'), \A d \in disk' : StoreOK(d),
           \A name \in DOMAIN cache' : name \in DOMAIN committed'.defs /\ cache'[name] = committed'.defs[name]
    PROVE  DbInv'
<1>1. IsTx(tx') /\ ~tx'.on /\ tx'.ok
    BY NoTxFields
<1>2. ShapeInv' /\ ReaderDefs' /\ \A r \in Readers : StoreOK(readers'[r].store)
    BY <1>1, SameReaders DEF ShapeInv
<1>3. CacheInv'
    BY <1>1 DEF CacheInv, CacheTrue
<1>4. StoresOK'
    BY <1>1, <1>2 DEF StoresOK, Running
<1> QED  BY <1>1, <1>2, <1>3, <1>4, StoresApart DEF DbInv, IndexOpsDone

LEMMA StepCommit == DbInv /\ commit => DbInv'
<1> SUFFICES ASSUME DbInv, commit  PROVE DbInv'
    OBVIOUS
<1>1. StoresOK
    BY InvParts
<1>2. Running /\ tx.on /\ DropCache /\ tx' = NoTx /\ readers' = readers
    BY DEF commit, Running
<1>3. /\ committed' \in {committed, tx.store}
      /\ disk' \in {disk, {tx.store}, disk \cup {tx.store}}
    BY DEF commit
<1>4. StoreOK(committed') /\ \A d \in disk' : StoreOK(d)
    BY <1>1, <1>2, <1>3 DEF StoresOK
<1> QED  BY <1>2, <1>3, <1>4, CacheDropped, TxEnds

LEMMA StepAbort == DbInv /\ abort => DbInv'
<1> SUFFICES ASSUME DbInv, abort  PROVE DbInv'
    OBVIOUS
<1>1. tx.on /\ DropCache /\ tx' = NoTx /\ readers' = readers /\ committed' = committed /\ disk' = disk
    BY DEF abort
<1>2. StoreOK(committed') /\ \A d \in disk' : StoreOK(d)
    BY <1>1, InvParts DEF StoresOK
<1> QED  BY <1>1, <1>2, CacheDropped, TxEnds

LEMMA NoReaderFields ==
    /\ NoReader = [on |-> NoReader.on, store |-> NoReader.store, tables |-> NoReader.tables]
    /\ ~NoReader.on /\ NoReader.store = EmptyStore
<1>1. NoReader = [on |-> FALSE, store |-> EmptyStore, tables |-> Nothing]
    BY DEF NoReader
<1>2. NoReader.on = FALSE /\ NoReader.store = EmptyStore /\ NoReader.tables = Nothing
    BY <1>1
<1> QED  BY <1>1, <1>2

LEMMA StepCrash == DbInv /\ crash => DbInv'
<1> SUFFICES ASSUME DbInv, crash  PROVE DbInv'
    OBVIOUS
<1>1. PICK d \in disk : committed' = d /\ disk' = {d}
    BY DEF crash
<1>2. tx' = NoTx /\ cache' = Nothing /\ readers' = [r \in Readers |-> NoReader]
    BY DEF crash
<1>3. StoreOK(d)
    BY InvParts DEF StoresOK
<1>4. IsTx(tx') /\ ~tx'.on /\ tx'.ok
    BY <1>2, NoTxFields
<1>5. \A r \in Readers : readers'[r] = NoReader
    BY <1>2
<1>6. readers' = [r \in Readers |-> [on |-> readers'[r].on, store |-> readers'[r].store,
                                     tables |-> readers'[r].tables]]
    BY <1>2, <1>5, NoReaderFields
<1>7. ShapeInv'
    BY <1>4, <1>6 DEF ShapeInv
<1>8. ReaderDefs'
    BY <1>5, NoReaderFields DEF ReaderDefs
<1>9. CacheInv'
    <2>1. DOMAIN Nothing = {}
        BY DEF Nothing
    <2> QED  BY <1>2, <1>4, <2>1 DEF CacheInv, CacheTrue
<1>10. StoresOK'
    BY <1>1, <1>3, <1>4, <1>5, NoReaderFields, EmptyStoreOK DEF StoresOK, Running
<1> QED  BY <1>4, <1>7, <1>8, <1>9, <1>10, StoresApart DEF DbInv, IndexOpsDone

LEMMA StepTableNew ==
    ASSUME DbInv, NEW name \in Names, table_new(name)
    PROVE  DbInv'
<1> DEFINE T == catalog_table_new(tx.store, name)
<1>1. IsTx(tx) /\ tx.ok /\ CacheTrue /\ StoresOK
    BY InvParts
<1>2. /\ tx.on /\ ~tx.thrown /\ table_def_check(NewDef[name]) /\ name \notin DOMAIN tx.store.defs
      /\ Created(tx', tx, T)
      /\ committed' = committed /\ disk' = disk /\ cache' = cache /\ readers' = readers
    BY DEF table_new, Running, Created
<1>3. StoreOK(tx.store)
    BY <1>1, <1>2 DEF StoresOK, Running
<1>4. StoreOK(T) /\ IsStore(T)
    BY <1>2, <1>3, NewTableOK DEF StoreOK
<1>5. \A m \in DOMAIN tx.store.defs : m \in DOMAIN T.defs /\ T.defs[m] = tx.store.defs[m]
    <2>1. Len(NewDef[name].indexes) \in Nat
        BY DefsAssumption, LenProperties DEF Names
    <2>2. IsStore(tx.store) /\ tx.store.next \in Nat
        BY <1>3 DEF StoreOK
    <2>3. DOMAIN T.defs = DOMAIN tx.store.defs \cup {name}
          /\ \A m \in DOMAIN tx.store.defs : T.defs[m] = tx.store.defs[m]
        BY <1>2, <2>1, <2>2, NewTableFields
    <2> QED  BY <2>3
<1> HIDE DEF T
<1>6. IsTx(tx') /\ tx'.on /\ tx'.ok /\ tx'.store = T /\ tx'.created_table /\ ~tx'.thrown
    BY <1>1, <1>2, <1>4, NewTableTx
<1>7. ShapeInv' /\ ReaderDefs' /\ \A r \in Readers : StoreOK(readers'[r].store)
    BY <1>2, <1>6, SameReaders DEF ShapeInv
<1>8. CacheInv'
    <2>1. \A m \in DOMAIN cache : m \in DOMAIN T.defs /\ cache[m] = T.defs[m]
        BY <1>1, <1>2, <1>5 DEF CacheTrue
    <2> QED  BY <1>2, <1>6, <2>1 DEF CacheInv, CacheTrue
<1>9. StoresOK'
    BY <1>1, <1>2, <1>4, <1>6, <1>7 DEF StoresOK
<1> QED  BY <1>6, <1>7, <1>8, <1>9, StoresApart DEF DbInv, IndexOpsDone

LEMMA StepTableNewThrows ==
    ASSUME DbInv, NEW name \in Names, table_new_throws(name)
    PROVE  DbInv'
<1> DEFINE T == alloc_prefix(tx.store, 1 + Len(NewDef[name].indexes))
<1>1. IsTx(tx) /\ tx.ok /\ CacheInv /\ CacheTrue /\ StoresOK
    BY InvParts
<1>2. /\ tx.on /\ Thrown(tx', tx, T)
      /\ committed' = committed /\ disk' = disk /\ cache' = cache /\ readers' = readers
    BY DEF table_new_throws, Running, Thrown
<1>3. IsStore(T) /\ T.defs = tx.store.defs
    <2>1. IsStore(tx.store)
        BY <1>1 DEF IsTx
    <2>2. T = [next |-> tx.store.next + (1 + Len(NewDef[name].indexes)),
               defs |-> tx.store.defs, kv |-> tx.store.kv]
        BY <2>1 DEF alloc_prefix, IsStore
    <2> HIDE DEF T
    <2>3. /\ T.next = tx.store.next + (1 + Len(NewDef[name].indexes))
          /\ T.defs = tx.store.defs /\ T.kv = tx.store.kv
        BY <2>2
    <2> QED  BY <2>2, <2>3 DEF IsStore
<1> HIDE DEF T
<1>4. /\ IsTx(tx') /\ tx'.on /\ tx'.ok /\ tx'.store = T /\ tx'.thrown
      /\ tx'.created_table <=> tx.created_table
    BY <1>1, <1>2, <1>3, ThrownTx
<1>5. ShapeInv' /\ ReaderDefs' /\ \A r \in Readers : StoreOK(readers'[r].store)
    BY <1>2, <1>4, SameReaders DEF ShapeInv
<1>6. CacheInv'
    BY <1>1, <1>2, <1>3, <1>4 DEF CacheInv, CacheTrue
<1>7. StoresOK'
    BY <1>1, <1>2, <1>4, <1>5 DEF StoresOK, Running
<1> QED  BY <1>4, <1>5, <1>6, <1>7, StoresApart DEF DbInv, IndexOpsDone

LEMMA StepRead ==
    ASSUME DbInv, NEW name \in Names, read(name)
    PROVE  DbInv'
<1>1. IsTx(tx) /\ tx.ok /\ CacheInv /\ CacheTrue /\ StoresOK
    BY InvParts
<1>2. /\ tx.on /\ Known(name) /\ cache' = Cached(name) /\ tx' = tx
      /\ committed' = committed /\ disk' = disk /\ readers' = readers
    BY DEF read, Running
<1>3. \A m \in DOMAIN cache' : m \in DOMAIN tx.store.defs /\ cache'[m] = tx.store.defs[m]
    BY <1>1, <1>2, GetTableDef
<1>4. ShapeInv' /\ ReaderDefs'
    BY <1>1, <1>2, SameReaders DEF ShapeInv
<1>5. CacheInv'
    BY <1>1, <1>2, <1>3 DEF CacheInv, CacheTrue
<1>6. StoresOK'
    BY <1>1, <1>2 DEF StoresOK, Running
<1> QED  BY <1>1, <1>2, <1>4, <1>5, <1>6, StoresApart DEF DbInv, IndexOpsDone

\* A write or a delete: its result r is applied to the transaction.
LEMMA StepApply ==
    ASSUME DbInv, Running, NEW name, Known(name), NEW r, IsWork(r), r.ok,
           ~r.thrown => StoreOK(With(tx.store, r.kv)),
           Apply(r), cache' = Cached(name), UNCHANGED <<committed, disk, readers>>
    PROVE  DbInv'
<1>1. IsTx(tx) /\ tx.ok /\ CacheInv /\ CacheTrue /\ StoresOK
    BY InvParts
<1>2. tx.on /\ ~tx.thrown /\ Applied(tx', tx, r)
    BY DEF Running, Apply, Applied
<1>3. /\ IsTx(tx') /\ tx'.on /\ tx'.ok /\ tx'.store = With(tx.store, r.kv)
      /\ tx'.thrown <=> r.thrown
      /\ tx'.created_table <=> tx.created_table
    BY <1>1, <1>2, ApplyTx
<1>4. tx'.store.defs = tx.store.defs
    BY <1>1, <1>3, WithFields DEF IsTx
<1>5. \A m \in DOMAIN cache' : m \in DOMAIN tx.store.defs /\ cache'[m] = tx.store.defs[m]
    BY <1>1, <1>2, GetTableDef
<1>6. ShapeInv' /\ ReaderDefs' /\ \A q \in Readers : StoreOK(readers'[q].store)
    BY <1>3, SameReaders DEF ShapeInv
<1>7. CacheInv'
    BY <1>1, <1>2, <1>3, <1>4, <1>5 DEF CacheInv, CacheTrue
<1>8. StoresOK'
    BY <1>1, <1>3, <1>6 DEF StoresOK, Running
<1> QED  BY <1>3, <1>6, <1>7, <1>8, StoresApart DEF DbInv, IndexOpsDone

LEMMA StepWrite ==
    ASSUME DbInv, NEW name \in Names, NEW rec, NEW mode, write(name, rec, mode)
    PROVE  DbInv'
<1> DEFINE r == db_update(get_table_def(name), rec, mode)
<1>1. /\ Running /\ Known(name) /\ Apply(r) /\ cache' = Cached(name)
      /\ UNCHANGED <<committed, disk, readers>>
    BY DEF write
<1>2. CacheTrue /\ tx.on /\ StoreOK(tx.store)
    BY <1>1, InvParts DEF StoresOK, Running
<1>3. name \in DOMAIN tx.store.defs /\ get_table_def(name) = tx.store.defs[name]
    BY <1>1, <1>2, GetTableDef
<1>4. IsWork(r) /\ r.ok /\ (~r.thrown => StoreOK(With(tx.store, r.kv)))
    BY <1>2, <1>3, UpdateOK
<1> HIDE DEF r
<1> QED  BY <1>1, <1>4, StepApply

LEMMA StepDelete ==
    ASSUME DbInv, NEW name \in Names, NEW rec, del(name, rec)
    PROVE  DbInv'
<1> DEFINE r == db_delete(get_table_def(name), rec)
<1>1. /\ Running /\ Known(name) /\ Apply(r) /\ cache' = Cached(name)
      /\ UNCHANGED <<committed, disk, readers>>
    BY DEF del
<1>2. CacheTrue /\ tx.on /\ StoreOK(tx.store)
    BY <1>1, InvParts DEF StoresOK, Running
<1>3. name \in DOMAIN tx.store.defs /\ get_table_def(name) = tx.store.defs[name]
    BY <1>1, <1>2, GetTableDef
<1>4. IsWork(r) /\ r.ok /\ (~r.thrown => StoreOK(With(tx.store, r.kv)))
    BY <1>2, <1>3, DeleteOK
<1> HIDE DEF r
<1> QED  BY <1>1, <1>4, StepApply

\* Steps of a reader q leave everything else.
ReaderSet(q, on, store, tables) ==
    readers' = [readers EXCEPT ![q] = [on |-> on, store |-> store, tables |-> tables]]

LEMMA ReaderStep ==
    ASSUME DbInv, NEW q \in Readers, UNCHANGED <<committed, disk, tx, cache>>,
           NEW on, NEW store, NEW tables,
           ReaderSet(q, on, store, tables), StoreOK(store),
           on => \A name \in DOMAIN tables : name \in DOMAIN store.defs /\ tables[name] = store.defs[name]
    PROVE  DbInv'
<1>1. IsTx(tx) /\ tx.ok /\ ShapeInv /\ CacheInv /\ CacheTrue /\ StoresOK /\ ReaderDefs
    BY InvParts
<1> DEFINE new == [on |-> on, store |-> store, tables |-> tables]
<1>2. new.store = store /\ new.tables = tables /\ new = [on |-> new.on, store |-> new.store, tables |-> new.tables]
    OBVIOUS
<1>3. DOMAIN readers = Readers /\ \A r \in Readers :
          readers[r] = [on |-> readers[r].on, store |-> readers[r].store, tables |-> readers[r].tables]
    BY <1>1 DEF ShapeInv
<1>4. new.on => \A name \in DOMAIN new.tables :
          name \in DOMAIN new.store.defs /\ new.tables[name] = new.store.defs[name]
    OBVIOUS
<1>5. readers' = [readers EXCEPT ![q] = new]
    BY DEF ReaderSet
<1> HIDE DEF new
<1>6. DOMAIN readers' = Readers /\ readers'[q] = new /\ \A r \in Readers : r # q => readers'[r] = readers[r]
    BY <1>3, <1>5
<1>7. readers' = [r \in Readers |-> [on |-> readers'[r].on, store |-> readers'[r].store,
                                     tables |-> readers'[r].tables]]
    <2>1. \A r \in Readers :
              readers'[r] = [on |-> readers'[r].on, store |-> readers'[r].store, tables |-> readers'[r].tables]
        BY <1>2, <1>3, <1>6
    <2>2. readers' = [r \in Readers |-> readers'[r]]
        BY <1>3, <1>5
    <2> QED  BY <2>1, <2>2
<1>8. ShapeInv'
    BY <1>1, <1>7 DEF ShapeInv
<1>9. ReaderDefs'
    BY <1>1, <1>4, <1>6 DEF ReaderDefs
<1>10. CacheInv'
    BY <1>1 DEF CacheInv, CacheTrue
<1>11. StoresOK'
    BY <1>1, <1>2, <1>6 DEF StoresOK, Running
<1> QED  BY <1>1, <1>8, <1>9, <1>10, <1>11, StoresApart DEF DbInv, IndexOpsDone

LEMMA StepBeginRead ==
    ASSUME DbInv, NEW q \in Readers, begin_read(q)
    PROVE  DbInv'
<1>1. ReaderSet(q, TRUE, committed, Nothing) /\ UNCHANGED <<committed, disk, tx, cache>>
    BY DEF begin_read, ReaderSet
<1>2. DOMAIN Nothing = {}
    BY DEF Nothing
<1>3. StoreOK(committed)
    BY InvParts DEF StoresOK
<1> QED  BY <1>1, <1>2, <1>3, ReaderStep

LEMMA StepFindTable ==
    ASSUME DbInv, NEW q \in Readers, NEW name, find_table(q, name)
    PROVE  DbInv'
<1> DEFINE store == readers[q].store
           tables == Put(readers[q].tables, name, store.defs[name])
<1>1. ShapeInv /\ ReaderDefs /\ StoreOK(store)
    BY InvParts DEF StoresOK
<1>2. /\ readers[q].on /\ name \in DOMAIN store.defs
      /\ readers' = [readers EXCEPT ![q].tables = tables]
      /\ UNCHANGED <<committed, disk, tx, cache>>
    BY DEF find_table, Readable
<1>3. readers[q] = [on |-> readers[q].on, store |-> store, tables |-> readers[q].tables]
    BY <1>1 DEF ShapeInv
<1>4. [readers[q] EXCEPT !.tables = tables] = [on |-> readers[q].on, store |-> store, tables |-> tables]
    <2> HIDE DEF tables, store
    <2> QED  BY <1>3
<1>5. ReaderSet(q, readers[q].on, store, tables)
    <2> HIDE DEF tables, store
    <2> QED  BY <1>2, <1>4 DEF ReaderSet
<1>6. \A m \in DOMAIN tables : m \in DOMAIN store.defs /\ tables[m] = store.defs[m]
    BY <1>1, <1>2 DEF ReaderDefs, Put
<1> HIDE DEF tables, store
<1> QED  BY <1>1, <1>2, <1>5, <1>6, ReaderStep

LEMMA EndedReader ==
    ASSUME NEW r, r = [on |-> r.on, store |-> r.store, tables |-> r.tables],
           NEW s, s = [r EXCEPT !.on = FALSE, !.store = EmptyStore]
    PROVE  s = [on |-> FALSE, store |-> EmptyStore, tables |-> r.tables]
OBVIOUS

LEMMA StepEndRead ==
    ASSUME DbInv, NEW q \in Readers, end_read(q)
    PROVE  DbInv'
<1> DEFINE tables == readers[q].tables
<1>1. ShapeInv
    BY InvParts
<1>2. /\ readers' = [readers EXCEPT ![q].on = FALSE, ![q].store = EmptyStore]
      /\ UNCHANGED <<committed, disk, tx, cache>>
    BY DEF end_read
<1>3. DOMAIN readers = Readers
      /\ readers[q] = [on |-> readers[q].on, store |-> readers[q].store, tables |-> tables]
    BY <1>1 DEF ShapeInv
<1>4. ReaderSet(q, FALSE, EmptyStore, tables)
    <2> DEFINE r == readers[q]
               s == [r EXCEPT !.on = FALSE, !.store = EmptyStore]
    <2>1. s = [on |-> FALSE, store |-> EmptyStore, tables |-> tables]
        BY <1>3, EndedReader
    <2>2. readers' = [readers EXCEPT ![q] = s]
        BY <1>2, <1>3
    <2> QED  BY <2>1, <2>2 DEF ReaderSet
<1> QED  BY <1>2, <1>4, EmptyStoreOK, ReaderStep

LEMMA StepUnchanged == DbInv /\ UNCHANGED vars => DbInv'
<1> SUFFICES ASSUME DbInv, UNCHANGED vars  PROVE DbInv'
    OBVIOUS
<1>1. committed' = committed /\ disk' = disk /\ tx' = tx /\ cache' = cache /\ readers' = readers
    BY DEF vars
<1>2. Stores' = Stores
    BY <1>1 DEF Stores, Running
<1>3. /\ ShapeInv /\ CacheInv /\ IndexOpsDone /\ ReaderDefs
      /\ \A store \in Stores' : StoreOK(store)
    BY <1>2 DEF DbInv
<1>4. ShapeInv'
    BY <1>1, <1>3 DEF ShapeInv
<1>5. CacheInv' /\ IndexOpsDone' /\ ReaderDefs'
    BY <1>1, <1>3 DEF CacheInv, CacheTrue, IndexOpsDone, ReaderDefs
<1> QED  BY <1>3, <1>4, <1>5 DEF DbInv

-----------------------------------------------------------------------------
(* The theorems *)

LEMMA DbInit == Init => DbInv
<1> SUFFICES ASSUME Init  PROVE DbInv
    OBVIOUS
<1>1. /\ committed = EmptyStore /\ disk = {EmptyStore} /\ tx = NoTx /\ cache = Nothing
      /\ readers = [r \in Readers |-> NoReader]
    BY DEF Init
<1>2. IsTx(tx) /\ ~tx.on /\ tx.ok
    BY <1>1, NoTxFields
<1>3. \A r \in Readers : readers[r] = NoReader
    BY <1>1
<1>4. readers = [r \in Readers |-> [on |-> readers[r].on, store |-> readers[r].store,
                                    tables |-> readers[r].tables]]
    BY <1>1, <1>3, NoReaderFields
<1>5. ShapeInv
    BY <1>2, <1>4 DEF ShapeInv
<1>6. ReaderDefs
    BY <1>3, NoReaderFields DEF ReaderDefs
<1>7. CacheInv
    <2>1. DOMAIN Nothing = {}
        BY DEF Nothing
    <2> QED  BY <1>1, <1>2, <2>1 DEF CacheInv, CacheTrue
<1>8. StoresOK
    BY <1>1, <1>2, <1>3, NoReaderFields, EmptyStoreOK DEF StoresOK, Running
<1> QED  BY <1>2, <1>5, <1>6, <1>7, <1>8, StoresApart DEF DbInv, IndexOpsDone

LEMMA DbNext == DbInv /\ [Next]_vars => DbInv'
<1> SUFFICES ASSUME DbInv, [Next]_vars  PROVE DbInv'
    OBVIOUS
<1>1. CASE begin
    BY <1>1, StepBegin
<1>2. CASE commit
    BY <1>2, StepCommit
<1>3. CASE abort
    BY <1>3, StepAbort
<1>4. CASE crash
    BY <1>4, StepCrash
<1>5. ASSUME NEW name \in Names, table_new(name)  PROVE DbInv'
    BY <1>5, StepTableNew
<1>6. ASSUME NEW name \in Names, table_new_throws(name)  PROVE DbInv'
    BY <1>6, StepTableNewThrows
<1>7. ASSUME NEW name \in Names, read(name)  PROVE DbInv'
    BY <1>7, StepRead
<1>8. ASSUME NEW name \in Names, NEW rec \in Recs[name], del(name, rec)  PROVE DbInv'
    BY <1>8, StepDelete
<1>9. ASSUME NEW name \in Names, NEW rec \in Recs[name],
             NEW mode \in {"INSERT_ONLY", "UPDATE_ONLY", "UPSERT"}, write(name, rec, mode)
      PROVE  DbInv'
    BY <1>9, StepWrite
<1>10. ASSUME NEW r \in Readers, begin_read(r)  PROVE DbInv'
    BY <1>10, StepBeginRead
<1>11. ASSUME NEW r \in Readers, end_read(r)  PROVE DbInv'
    BY <1>11, StepEndRead
<1>12. ASSUME NEW r \in Readers, NEW name \in Names, find_table(r, name)  PROVE DbInv'
    BY <1>12, StepFindTable
<1>13. CASE UNCHANGED vars
    BY <1>13, StepUnchanged
<1> QED
    BY <1>1, <1>2, <1>3, <1>4, <1>5, <1>6, <1>7, <1>8, <1>9, <1>10, <1>11, <1>12, <1>13 DEF Next

\* What every theorem below rests on.
LEMMA DbAlways == Spec => []DbInv
<1>1. Init => DbInv
    BY DbInit
<1>2. DbInv /\ [Next]_vars => DbInv'
    BY DbNext
<1> QED  BY <1>1, <1>2, PTL DEF Spec

\* An index has an entry for each row of its table and no other, in the latest
\* version, in every store a crash may leave, in every snapshot and in a
\* transaction that has not thrown: Scanner::deref's "index key without a
\* matching row" is unreachable through db_update and db_delete, for every
\* schema that table_def_check accepts. It needs each index to name the whole
\* primary key (check_index_keys) and each row to be under its own key.
THEOREM EntriesFollowRows == Spec => []IndexesFollowRows
<1>1. DbInv => IndexesFollowRows
    BY DEF DbInv, StoreOK, IndexesFollowRows
<1> QED  BY <1>1, DbAlways, PTL

\* index_op's assertions hold: the entry it deletes is there and the one it adds
\* is not, also after an update that changes an indexed column to what another
\* row has, and after statements that threw.
THEOREM IndexAssertsHold == Spec => []IndexOpsDone
<1>1. DbInv => IndexOpsDone
    BY DEF DbInv
<1> QED  BY <1>1, DbAlways, PTL

\* The catalog cache holds only definitions of the running transaction's store
\* or else of the latest version, after every abort, failed commit and crash:
\* a cached definition never outlives the table that was rolled back.
THEOREM CacheHoldsStored == Spec => []CacheTrue
<1>1. DbInv => CacheTrue
    BY DEF DbInv, CacheInv
<1> QED  BY <1>1, DbAlways, PTL

\* alloc_prefix never gives a prefix twice to tables of one store, and no key of
\* a rolled back table is left in one.
THEOREM TablesApart == Spec => []PrefixesOwned
<1>1. DbInv => PrefixesOwned
    BY DEF DbInv, StoreOK, PrefixesOwned
<1> QED  BY <1>1, DbAlways, PTL

\* A DBReader decodes its snapshot's rows with its snapshot's definitions,
\* whatever the writer creates, rolls back or loses meanwhile.
THEOREM ReadersDecode == Spec => []ReaderDefs
<1>1. DbInv => ReaderDefs
    BY DEF DbInv
<1> QED  BY <1>1, DbAlways, PTL
=============================================================================
