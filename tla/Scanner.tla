------------------------------ MODULE Scanner -------------------------------
(***************************************************************************)
(* Rows as keys and values of the store, and range scans over them:        *)
(* row_codec.cpp, scanner.cpp and table_access.cpp's db_get. A row is one  *)
(* key, its index entries are keys of other prefixes, and a scan walks the *)
(* keys of one prefix in the order of their bytes. The keys of other       *)
(* tables lie on both sides of the table's.                                *)
(*                                                                         *)
(* Writing is db_update and db_delete where nothing fails (DB.tla has the  *)
(* failures). The tree is a set of keys in order, as BTreeIter.tla shows.  *)
(***************************************************************************)
EXTENDS Encoding

CONSTANTS
    Def,            \* the table, with prefix and index_prefixes
    Recs,           \* the rows that are written
    Requests,       \* the scans that are asked for
    PrefixBytes,    \* KEY_PREFIX_SIZE
    OtherKeys,      \* the keys of other tables: prefixes and values
    MaxRows         \* bound: rows in the table at once

ASSUME PrefixAssumption == PrefixBytes \in Nat \ {0}

Prefix == 0 .. Pow(PrefixBytes) - 1

\* A table that table_def_check accepts: there is a primary key, and every index
\* has columns of the table, those of the primary key among them. alloc_prefix
\* has given each table and each index a prefix of its own.
ASSUME DefAssumption ==
    /\ Def.cols \in Seq(DOMAIN Def.types) /\ DOMAIN Def.types = ToSet(Def.cols)
    /\ Def.pkeys \in 1 .. Len(Def.cols)
    /\ Def.indexes \in Seq(Seq(DOMAIN Def.types))
    /\ \A i \in DOMAIN Def.indexes : ToSet(Pk(Def)) \subseteq ToSet(Def.indexes[i])
    /\ Def.prefix \in Prefix
    /\ \A i \in DOMAIN Def.indexes :
          /\ Def.index_prefixes[i] \in Prefix /\ Def.index_prefixes[i] # Def.prefix
          /\ \A j \in DOMAIN Def.indexes : Def.index_prefixes[i] = Def.index_prefixes[j] => i = j

\* Rows that check_record accepts.
ASSUME RecsAssumption ==
    \A rec \in Recs : rec \in [DOMAIN Def.types -> Value] /\ check_record(Def, rec, Len(Def.cols))

\* A request is two comparisons and two Records: columns, and a value for each.
RangeKey == {key \in [cols : Seq(STRING), vals : Seq(Value)] : Len(key.cols) = Len(key.vals)}

Comparisons == {"GE", "GT", "LE", "LT"}

ASSUME RequestsAssumption ==
    Requests \subseteq [cmp1 : Comparisons, key1 : RangeKey, cmp2 : Comparisons, key2 : RangeKey]

ASSUME OthersAssumption ==
    /\ IsFiniteSet(OtherKeys)
    /\ \A o \in OtherKeys :
          /\ o.prefix \in Prefix /\ o.vals \in Seq(Value)
          /\ o.prefix # Def.prefix /\ \A i \in DOMAIN Def.indexes : o.prefix # Def.index_prefixes[i]

VARIABLES
    kv,     \* the store
    scan,   \* the Scanner
    given,  \* the rows it has given its caller
    table   \* history: the rows that have been written

vars == <<kv, scan, given, table>>

NoKey == <<>>   \* the tree's empty first key, which no iterator gives
NoRow == <<>>

NoRequest == [on |-> FALSE]

\* A Scanner that db_scan has not given a position.
Unplaced(req) == [req |-> req, accepted |-> FALSE, index_no |-> 0, key_end |-> NoKey, at |-> NoKey]

NoScan == Unplaced(NoRequest)

-----------------------------------------------------------------------------
(* row_codec.cpp *)

Types(cols) == [i \in DOMAIN cols |-> Def.types[cols[i]]]

encode_key(prefix, vals) == BigEndian(PrefixBytes, prefix) \o encode_values(vals)

\* Faulty: the missing columns are not padded.
encode_key_partial_bare(prefix, vals, cols, cmp) == encode_key(prefix, vals)

\* Integers among the missing columns get all bytes 0xff; the first string gets
\* one, and ends it.
encode_key_partial(prefix, vals, cols, cmp) ==
    LET missing == Types(SubSeq(cols, Len(vals) + 1, Len(cols)))
        bytes == SelectInSeq(missing, LAMBDA type : type = "BYTES")
        ints == IF bytes = 0 THEN Len(missing) ELSE bytes - 1
        pad == [i \in 1 .. ints * IntBytes + (IF bytes = 0 THEN 0 ELSE 1) |-> Top]
    IN  IF cmp \in {"GT", "LE"} THEN encode_key(prefix, vals) \o pad ELSE encode_key(prefix, vals)

decode_key(key, cols) == decode_values(SubSeq(key, PrefixBytes + 1, Len(key)), Types(cols))

NonKeyCols == SubSeq(Def.cols, Def.pkeys + 1, Len(Def.cols))

RowOf(cols, vals) == [col \in ToSet(cols) |-> vals[SelectInSeq(cols, LAMBDA c : c = col)]]

decode_row(key, val) ==
    LET k == decode_key(key, Pk(Def))
        v == decode_values(val, Types(NonKeyCols))
    IN  IF k.ok /\ v.ok THEN RowOf(Def.cols, k.vals \o v.vals) ELSE NoRow

-----------------------------------------------------------------------------
(* The iterator: at the key that is closest to a bound *)

cmp_ok(key, cmp, ref) ==
    CASE cmp = "GE" -> ~BytesLess(key, ref)
      [] cmp = "GT" -> BytesLess(ref, key)
      [] cmp = "LE" -> ~BytesLess(ref, key)
      [] cmp = "LT" -> BytesLess(key, ref)

seek(key, cmp) ==
    LET fits == {k \in DOMAIN kv : cmp_ok(k, cmp, key)}
    IN  IF fits = {} THEN NoKey
        ELSE CHOOSE k \in fits : \A x \in fits : IF Forward(cmp) THEN ~BytesLess(x, k) ELSE ~BytesLess(k, x)

-----------------------------------------------------------------------------
(* scanner.cpp *)

\* A request db_scan refuses leaves the Scanner without a position.
db_scan(req) ==
    LET i == find_index(Def, req.key1.cols)
        prefix == IF i = 0 THEN Def.prefix ELSE Def.index_prefixes[i]
        bound(key, cmp) == encode_key_partial(prefix, key.vals, IndexCols(Def, i), cmp)
    IN  IF ~Accepted(Def, req) THEN Unplaced(req)
        ELSE [req |-> req, accepted |-> TRUE, index_no |-> i, key_end |-> bound(req.key2, req.cmp2),
              at |-> seek(bound(req.key1, req.cmp1), req.cmp1)]

\* Faulty: the end of the range is not looked at.
valid_to_the_end(sc) == sc.at # NoKey

valid(sc) == sc.at # NoKey /\ cmp_ok(sc.at, sc.req.cmp2, sc.key_end)

next(sc) ==
    [req |-> sc.req, accepted |-> sc.accepted, index_no |-> sc.index_no, key_end |-> sc.key_end,
     at |-> seek(sc.at, IF Forward(sc.req.cmp1) THEN "GT" ELSE "LT")]

\* db_get: the row of a primary key, found by the scan from the key to itself.
db_get(rec) ==
    LET key == [cols |-> Pk(Def), vals |-> ValuesOf(rec, Pk(Def))]
        sc == db_scan([cmp1 |-> "GE", key1 |-> key, cmp2 |-> "LE", key2 |-> key])
    IN  IF check_record(Def, rec, Def.pkeys) /\ sc.accepted /\ valid(sc)
        THEN decode_row(sc.at, kv[sc.at]) ELSE NoRow

\* Scanner::deref at a key that is in the range. NoRow stands for what throws
\* or fails an assertion.
deref(index_no, key) ==
    LET d == decode_key(key, IndexCols(Def, index_no))
        entry == RowOf(IndexCols(Def, index_no), d.vals)
    IN  IF index_no = 0 THEN decode_row(key, kv[key])
        ELSE IF d.ok /\ kv[key] = <<>> THEN db_get(Restrict(entry, ToSet(Pk(Def)))) ELSE NoRow

-----------------------------------------------------------------------------
(* Writing *)

row_key(rec) == encode_key(Def.prefix, ValuesOf(rec, Pk(Def)))

IndexKeys(rec) ==
    {encode_key(Def.index_prefixes[i], ValuesOf(rec, Def.indexes[i])) : i \in DOMAIN Def.indexes}

Others == {encode_key(o.prefix, o.vals) : o \in OtherKeys}

\* Faulty: the index entries of the old row stay.
Cleared_row(key) == IF key \notin DOMAIN kv THEN kv ELSE Restrict(kv, DOMAIN kv \ {key})

\* The store without the row of this key and its index entries, which are those
\* of the old row.
Cleared(key) ==
    IF key \notin DOMAIN kv THEN kv
    ELSE Restrict(kv, DOMAIN kv \ ({key} \cup IndexKeys(decode_row(key, kv[key]))))

\* The store f with the row and its index entries.
Written(f, rec) ==
    [k \in DOMAIN f \cup {row_key(rec)} \cup IndexKeys(rec) |->
        IF k = row_key(rec) THEN encode_values(ValuesOf(rec, NonKeyCols))
        ELSE IF k \in IndexKeys(rec) THEN <<>> ELSE f[k]]

TableKeys == {k \in DOMAIN kv : IsPrefix(BigEndian(PrefixBytes, Def.prefix), k)}

Init ==
    /\ kv = [k \in Others |-> <<>>]
    /\ scan = NoScan
    /\ given = <<>>
    /\ table = {}

SameKey(r, s) == ValuesOf(r, Pk(Def)) = ValuesOf(s, Pk(Def))

\* DBTX::upsert
upsert(rec) ==
    /\ scan = NoScan
    /\ row_key(rec) \in TableKeys \/ Cardinality(TableKeys) < MaxRows
    /\ kv' = Written(Cleared(row_key(rec)), rec)
    /\ table' = {r \in table : ~SameKey(r, rec)} \cup {rec}
    /\ UNCHANGED <<scan, given>>

\* DBTX::del
del(rec) ==
    /\ scan = NoScan
    /\ kv' = Cleared(row_key(rec))
    /\ table' = {r \in table : ~SameKey(r, rec)}
    /\ UNCHANGED <<scan, given>>

\* DBTX::scan and DBReader::scan
open(req) ==
    /\ scan = NoScan
    /\ scan' = db_scan(req)
    /\ UNCHANGED <<kv, given, table>>

\* The caller's loop: deref, then next.
step ==
    /\ valid(scan)
    /\ given' = Append(given, deref(scan.index_no, scan.at))
    /\ scan' = next(scan)
    /\ UNCHANGED <<kv, table>>

\* The caller drops the Scanner, at any row or past the last.
drop ==
    /\ scan # NoScan
    /\ scan' = NoScan
    /\ given' = <<>>
    /\ UNCHANGED <<kv, table>>

Next ==
    \/ \E rec \in Recs : upsert(rec) \/ del(rec)
    \/ \E req \in Requests : open(req)
    \/ step \/ drop

Spec == Init /\ [][Next]_vars

-----------------------------------------------------------------------------
(* Properties *)

Abstract == INSTANCE RangeScan WITH
    rows <- table, req <- scan.req, accepted <- scan.accepted, more <- valid(scan)

\* Scans over encoded keys do what the ranges of rows say: each row of the range
\* once, in order, decoded to what was written, whatever bytes its strings hold,
\* whichever columns a bound leaves out, forward and backward, by primary key
\* and by index, and nothing of the tables next to it (scanner.cpp, row_codec.cpp,
\* order_preserving.cpp).
ScansRange == Abstract!Spec

\* The store f holds the rows of a table, their index entries and the keys of
\* other tables, and nothing else.
Holds(f, rows) ==
    /\ DOMAIN f = {row_key(r) : r \in rows} \cup Others \cup UNION {IndexKeys(r) : r \in rows}
    /\ \A r \in rows :
          /\ f[row_key(r)] = encode_values(ValuesOf(r, NonKeyCols))
          /\ \A k \in IndexKeys(r) : f[k] = <<>>

\* Each row has one key and exactly its own index entries in the store, after any
\* sequence of writes: an entry of an old row never stays, an entry of another
\* row is never removed with it, and what is next to the table is not touched.
\* So the assertions of index_op hold: an entry it adds was not there, one it
\* removes was (table_access.cpp, index_ops.cpp).
StoreHolds ==
    /\ Holds(kv, table)
    /\ \A r, s \in table : SameKey(r, s) => r = s

\* A point query gives the row of its key, and nothing when there is none, though
\* it is a seek to the nearest key (db_get).
GetExact ==
    \A rec \in Recs :
        LET pk == Restrict(rec, ToSet(Pk(Def)))
            match == {r \in table : SameKey(r, rec)}
        IN  IF match = {} THEN db_get(pk) = NoRow ELSE match = {db_get(pk)}
=============================================================================
