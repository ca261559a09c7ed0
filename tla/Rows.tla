-------------------------------- MODULE Rows --------------------------------
(***************************************************************************)
(* Values, records and ranges of rows: what value.cpp, record.cpp and      *)
(* table_access.cpp say of them before anything is encoded. A table's      *)
(* definition is [cols, types, pkeys, indexes]: the columns, the type of   *)
(* each, how many of them are the primary key, and the columns of each     *)
(* index (with the key columns catalog.cpp appends). A row maps columns to *)
(* values; a range key is [cols, vals].                                    *)
(***************************************************************************)
EXTENDS Integers, SequencesExt

\* Value::make_int64 and Value::make_bytes. A string is a sequence of bytes.
make_int64(n) == [type |-> "INT_64", int64 |-> n]
make_bytes(s) == [type |-> "BYTES", str |-> s]

\* The order of std::string: bytes as unsigned, a prefix first.
BytesLess(s, t) ==
    \/ IsStrictPrefix(s, t)
    \/ \E i \in DOMAIN s \cap DOMAIN t :
          s[i] < t[i] /\ \A j \in 1 .. i - 1 : s[j] = t[j]

\* Values of one type.
value_less(a, b) == IF a.type = "INT_64" THEN a.int64 < b.int64 ELSE BytesLess(a.str, b.str)

\* compare and cmp_holds, for values of one type.
cmp_holds(type, a, b) ==
    CASE type = "QL_CMP_EQ" -> a = b
      [] type = "QL_CMP_NE" -> a # b
      [] type = "QL_CMP_LT" -> value_less(a, b)
      [] type = "QL_CMP_LE" -> ~value_less(b, a)
      [] type = "QL_CMP_GT" -> value_less(b, a)
      [] type = "QL_CMP_GE" -> ~value_less(a, b)

\* Tuples of values of the same types.
TupleLess(u, v) ==
    \E i \in DOMAIN u : value_less(u[i], v[i]) /\ \A j \in 1 .. i - 1 : u[j] = v[j]

-----------------------------------------------------------------------------
(* Tables. An index is known by its number in def.indexes, the primary key by 0. *)

Pk(def) == SubSeq(def.cols, 1, def.pkeys)

IndexCols(def, i) == IF i = 0 THEN Pk(def) ELSE def.indexes[i]

ValuesOf(rec, cols) == [i \in DOMAIN cols |-> rec[cols[i]]]

\* check_record: exactly the first n columns, each of its type.
check_record(def, rec, n) ==
    /\ DOMAIN rec = ToSet(SubSeq(def.cols, 1, n))
    /\ \A col \in DOMAIN rec : rec[col].type = def.types[col]

NoIndex == -1

\* find_index: the primary key if the columns start it, else the first of the
\* shortest indexes that the columns start.
find_index(def, keys) ==
    LET fits == {i \in DOMAIN def.indexes : IsPrefix(keys, def.indexes[i])}
        shorter(i, j) == Len(def.indexes[i]) < Len(def.indexes[j])
    IN  IF IsPrefix(keys, Pk(def)) THEN 0
        ELSE IF fits = {} THEN NoIndex
        ELSE CHOOSE i \in fits : \A j \in fits : ~shorter(j, i) /\ (j < i => shorter(i, j))

\* check_bound: a range key names the first columns of the index, with their types.
check_bound(def, i, key) ==
    /\ IsPrefix(key.cols, IndexCols(def, i))
    /\ \A j \in DOMAIN key.cols : key.vals[j].type = def.types[key.cols[j]]

Forward(cmp) == cmp \in {"GE", "GT"}

\* The requests db_scan does not refuse. A request is [cmp1, key1, cmp2, key2].
Accepted(def, req) ==
    LET i == find_index(def, req.key1.cols)
    IN  /\ Forward(req.cmp1) # Forward(req.cmp2)
        /\ i # NoIndex
        /\ check_bound(def, i, req.key1) /\ check_bound(def, i, req.key2)

-----------------------------------------------------------------------------
(* What a range scan promises (scanner.h) *)

\* A bound that names the first columns only "stands for every key sharing that
\* prefix".
Satisfies(vals, cmp, bound) ==
    LET v == SubSeq(vals, 1, Len(bound))
    IN  CASE cmp = "GE" -> ~TupleLess(v, bound)
          [] cmp = "GT" -> TupleLess(bound, v)
          [] cmp = "LE" -> ~TupleLess(bound, v)
          [] cmp = "LT" -> TupleLess(v, bound)

\* The rows in the order of the columns, or in the reverse order.
InOrder(rows, cols, forward) ==
    LET before(r, s) == IF forward THEN TupleLess(ValuesOf(r, cols), ValuesOf(s, cols))
                        ELSE TupleLess(ValuesOf(s, cols), ValuesOf(r, cols))
        at(r) == 1 + Cardinality({s \in rows : before(s, r)})
    IN  [n \in 1 .. Cardinality(rows) |-> CHOOSE r \in rows : at(r) = n]

ScannedCols(def, req) == IndexCols(def, find_index(def, req.key1.cols))

InRange(def, req, r) ==
    /\ Satisfies(ValuesOf(r, ScannedCols(def, req)), req.cmp1, req.key1.vals)
    /\ Satisfies(ValuesOf(r, ScannedCols(def, req)), req.cmp2, req.key2.vals)

\* The rows that a scan gives, in the order it gives them.
RangeRows(def, rows, req) ==
    InOrder({r \in rows : InRange(def, req, r)}, ScannedCols(def, req), Forward(req.cmp1))
=============================================================================
