--------------------------------- MODULE QL ---------------------------------
(***************************************************************************)
(* The query language's executor: ql_exec.cpp, with ql_range.cpp's collect *)
(* and the syntax tree of ql_ast.h. A node is [type, val] or [type, kids]; *)
(* a column's name is the val of a QL_SYM. The table is a set of rows that *)
(* is scanned as Rows.tla says: Scanner.tla shows that db_scan does that.  *)
(*                                                                         *)
(* One statement runs at a time, in one transaction, and a result is read  *)
(* before the next one runs. A statement is [kind, ...] with the fields of *)
(* its structure in ql_ast.h.                                              *)
(***************************************************************************)
EXTENDS QLRange

CONSTANTS
    Defs,       \* the definitions CREATE TABLE is called with
    Statements, \* the statements that are run
    IntMax,     \* INT64_MAX
    MaxRows     \* bound: rows in the table at once

ASSUME IntRange == IntMax \in Nat \ {0}

IntMin == -IntMax - 1    \* I64_MIN

VARIABLES
    tdef,   \* the table's definition, or NoTable
    rows,   \* the table, as the transaction sees it
    last    \* the last statement with its QLResult, until it is read

vars == <<tdef, rows, last>>

NoTable == [cols |-> <<>>]

NoResult == [stmt |-> [kind |-> "none"], ok |-> TRUE, rows |-> <<>>, count |-> 0]

-----------------------------------------------------------------------------
(* Expressions: the parser makes nodes, and ql_eval gives [ok, val] *)

ql_int64(n) == [type |-> "QL_I64", val |-> make_int64(n)]
ql_str(s) == [type |-> "QL_STR", val |-> make_bytes(s)]
ql_sym(name) == [type |-> "QL_SYM", val |-> name]
ql_star == [type |-> "QL_STAR"]
ql_unop(type, kid) == [type |-> type, kids |-> <<kid>>]
ql_binop(type, lhs, rhs) == [type |-> type, kids |-> <<lhs, rhs>>]

Failed == [ok |-> FALSE, val |-> make_int64(0)]
Done(v) == [ok |-> TRUE, val |-> v]
make_bool(b) == make_int64(IF b THEN 1 ELSE 0)

Comparisons == {"QL_CMP_EQ", "QL_CMP_NE", "QL_CMP_LT", "QL_CMP_LE", "QL_CMP_GT", "QL_CMP_GE"}
Arithmetic == {"QL_ADD", "QL_SUB", "QL_MUL", "QL_DIV", "QL_MOD"}

\* Division rounds to zero, and the remainder has the sign of a.
Abs(n) == IF n < 0 THEN -n ELSE n
Quotient(a, b) == (IF (a < 0) = (b < 0) THEN 1 ELSE -1) * (Abs(a) \div Abs(b))

\* arith: what does not fit an INT_64 is refused. INT64_MIN % -1 is refused with
\* INT64_MIN / -1.
arith(type, a, b) ==
    LET r == CASE type = "QL_ADD" -> a + b
               [] type = "QL_SUB" -> a - b
               [] type = "QL_MUL" -> a * b
               [] type = "QL_DIV" -> Quotient(a, b)
               [] type = "QL_MOD" -> a - b * Quotient(a, b)
    IN  IF type \in {"QL_DIV", "QL_MOD"} /\ (b = 0 \/ (a = IntMin /\ b = -1)) THEN Failed
        ELSE IF r \in IntMin .. IntMax THEN Done(make_int64(r)) ELSE Failed

\* An operator applied to the values of its kids.
apply(type, a, b) ==
    LET ints == a.type = "INT_64" /\ b.type = "INT_64"
    IN  CASE type \in Comparisons ->
                IF a.type = b.type THEN Done(make_bool(cmp_holds(type, a, b))) ELSE Failed
          [] type = "QL_AND" -> IF ints THEN Done(make_bool(a.int64 # 0 /\ b.int64 # 0)) ELSE Failed
          [] type = "QL_OR" -> IF ints THEN Done(make_bool(a.int64 # 0 \/ b.int64 # 0)) ELSE Failed
          [] type \in Arithmetic -> IF ints THEN arith(type, a.int64, b.int64) ELSE Failed

RECURSIVE ql_eval(_, _)
ql_eval(node, env) ==
    CASE node.type \in {"QL_I64", "QL_STR"} -> Done(node.val)
      [] node.type = "QL_SYM" -> IF node.val \in DOMAIN env THEN Done(env[node.val]) ELSE Failed
      [] node.type \in {"QL_NEG", "QL_NOT"} ->
            LET a == ql_eval(node.kids[1], env)
            IN  IF ~a.ok \/ a.val.type # "INT_64" THEN Failed
                ELSE IF node.type = "QL_NEG" THEN arith("QL_SUB", 0, a.val.int64)
                ELSE Done(make_bool(a.val.int64 = 0))
      [] node.type \in {"QL_AND", "QL_OR"} \cup Comparisons \cup Arithmetic ->
            LET a == ql_eval(node.kids[1], env)
                b == ql_eval(node.kids[2], env)
            IN  IF a.ok /\ b.ok THEN apply(node.type, a.val, b.val) ELSE Failed
      [] OTHER -> Failed    \* QL_TUP, QL_STAR, QL_UNINIT

NoRecord == <<>>

-----------------------------------------------------------------------------
(* The comparisons of a filter *)

flip(type) ==
    CASE type = "QL_CMP_LT" -> "QL_CMP_GT"
      [] type = "QL_CMP_LE" -> "QL_CMP_GE"
      [] type = "QL_CMP_GT" -> "QL_CMP_LT"
      [] type = "QL_CMP_GE" -> "QL_CMP_LE"
      [] OTHER -> type

\* collect: the comparisons under ANDs of a column with what evaluates without a
\* row to a value of the column's type.
RECURSIVE collect(_, _)
collect(node, def) ==
    LET lhs == node.kids[1]
        rhs == node.kids[2]
        bound(op, sym, node2) ==
            LET v == ql_eval(node2, NoRecord)
            IN  IF sym.val \in ToSet(def.cols) /\ v.ok /\ v.val.type = def.types[sym.val]
                THEN <<[op |-> op, col |-> sym.val, val |-> v.val]>> ELSE <<>>
    IN  IF node.type = "QL_AND" THEN collect(lhs, def) \o collect(rhs, def)
        ELSE IF node.type \notin Comparisons \ {"QL_CMP_NE"} THEN <<>>
        ELSE IF lhs.type = "QL_SYM" THEN bound(node.type, lhs, rhs)
        ELSE IF rhs.type = "QL_SYM" THEN bound(flip(node.type), rhs, lhs)
        ELSE <<>>

-----------------------------------------------------------------------------
(* Scans and SELECT *)

Planned(scan) ==
    IF scan.filter.type = "QL_UNINIT" THEN WholeTable
    ELSE ql_range(collect(scan.filter, tdef), tdef)

\* What the filter says of a row: [ok, val], where val is a number.
where(scan, rec) ==
    LET keep == ql_eval(scan.filter, rec)
    IN  IF scan.filter.type = "QL_UNINIT" THEN Done(make_bool(TRUE))
        ELSE IF keep.ok /\ keep.val.type = "INT_64" THEN keep ELSE Failed

\* scan_rows: gives [ok, out]. The filter runs first, then OFFSET and LIMIT; a
\* row whose filter fails ends it, and so does a row past the limit.
scan_rows(scan) ==
    LET take(s, rec) ==
            LET keep == where(scan, rec)
            IN  IF ~s.ok \/ s.full THEN s
                ELSE IF ~keep.ok THEN [s EXCEPT !.ok = FALSE]
                ELSE IF keep.val.int64 = 0 THEN s
                ELSE IF s.skipped < scan.offset THEN [s EXCEPT !.skipped = s.skipped + 1]
                ELSE IF scan.limit >= 0 /\ Len(s.out) >= scan.limit THEN [s EXCEPT !.full = TRUE]
                ELSE [s EXCEPT !.out = Append(s.out, rec)]
        start == [ok |-> tdef # NoTable, full |-> FALSE, skipped |-> 0, out |-> <<>>]
    IN  IF tdef = NoTable \/ ~Accepted(tdef, Planned(scan)) THEN [start EXCEPT !.ok = FALSE]
        ELSE FoldLeft(take, start, RangeRows(tdef, rows, Planned(scan)))

\* The values of a row that one item of a SELECT list gives: [ok, vals].
item(node, rec) ==
    LET v == ql_eval(node, rec)
    IN  IF node.type = "QL_STAR" THEN [ok |-> TRUE, vals |-> ValuesOf(rec, tdef.cols)]
        ELSE [ok |-> v.ok, vals |-> <<v.val>>]

\* select_rows: the rows before one that fails stay in the result.
select_rows(stmt) ==
    LET output(rec) == [i \in DOMAIN stmt.output |-> item(stmt.output[i], rec)]
        add(s, rec) ==
            LET items == output(rec)
            IN  IF s.ok /\ \A i \in DOMAIN items : items[i].ok
                THEN [s EXCEPT !.rows = Append(s.rows, FlattenSeq([i \in DOMAIN items |-> items[i].vals]))]
                ELSE [s EXCEPT !.ok = FALSE]
        found == scan_rows(stmt.scan)
    IN  IF ~found.ok THEN [ok |-> FALSE, rows |-> <<>>]
        ELSE FoldLeft(add, [ok |-> TRUE, rows |-> <<>>], found.out)

-----------------------------------------------------------------------------
(* INSERT, UPDATE and DELETE work on s, [ok, rows, count], row after row: one *)
(* that fails leaves the rows before it as they are.                          *)

Start == [ok |-> TRUE, rows |-> rows, count |-> 0]
Stop(s) == [s EXCEPT !.ok = FALSE]

KeyOf(rec) == ValuesOf(rec, Pk(tdef))
Others(s, rec) == {r \in s.rows : KeyOf(r) # KeyOf(rec)}

\* db_update, as DB.tla has it, without the indexes.
db_update(s, rec, mode) ==
    IF tdef = NoTable THEN Stop(s)
    ELSE IF ~check_record(tdef, rec, Len(tdef.cols)) THEN Stop(s)
    ELSE IF \/ mode = "INSERT_ONLY" /\ Others(s, rec) # s.rows
            \/ mode = "UPDATE_ONLY" /\ Others(s, rec) = s.rows THEN Stop(s)
    ELSE [s EXCEPT !.rows = Others(s, rec) \cup {rec}, !.count = s.count + 1]

\* A Record of names and values; the first of two with one name counts.
Record(names, vals) ==
    [name \in ToSet(names) |-> vals[SelectInSeq(names, LAMBDA n : n = name)]]

insert_rows(stmt) ==
    LET add(s, values) ==
            LET v == [i \in DOMAIN values |-> ql_eval(values[i], NoRecord)]
            IN  IF ~s.ok THEN s
                ELSE IF Len(values) # Len(stmt.names) \/ \E i \in DOMAIN v : ~v[i].ok THEN Stop(s)
                ELSE db_update(s, Record(stmt.names, [i \in DOMAIN v |-> v[i].val]), stmt.mode)
    IN  FoldLeft(add, Start, stmt.values)

\* Faulty: an assignment sees those before it.
assigned_in_turn(stmt, rec) ==
    LET set(r, i) ==
            LET v == ql_eval(stmt.values[i], r.rec)
            IN  IF r.ok /\ v.ok THEN [ok |-> TRUE, rec |-> [r.rec EXCEPT ![stmt.names[i]] = v.val]]
                ELSE [r EXCEPT !.ok = FALSE]
    IN  FoldLeft(set, [ok |-> TRUE, rec |-> rec], [i \in DOMAIN stmt.names |-> i])

\* The row after an UPDATE's assignments, [ok, rec]: each is evaluated on the row
\* as it was, and the last of two to one column counts.
assigned(stmt, rec) ==
    LET v == [i \in DOMAIN stmt.values |-> ql_eval(stmt.values[i], rec)]
        new(col) == SelectLastInSeq(stmt.names, LAMBDA n : n = col)
    IN  [ok |-> \A i \in DOMAIN v : v[i].ok,
         rec |-> [col \in DOMAIN rec |-> IF new(col) = 0 THEN rec[col] ELSE v[new(col)].val]]

\* Faulty: the first column after the primary key is taken for one of it.
settable_but_one(names) ==
    ToSet(names) \subseteq ToSet(SubSeq(tdef.cols, tdef.pkeys + 2, Len(tdef.cols)))

\* ql_update's check of the assigned columns.
settable(names) == ToSet(names) \subseteq ToSet(SubSeq(tdef.cols, tdef.pkeys + 1, Len(tdef.cols)))

update_rows(stmt) ==
    LET set(s, rec) ==
            LET new == assigned(stmt, rec)
            IN  IF ~s.ok THEN s
                ELSE IF ~new.ok THEN Stop(s)
                ELSE db_update(s, new.rec, "UPDATE_ONLY")
        found == scan_rows(stmt.scan)
    IN  IF tdef = NoTable \/ ~settable(stmt.names) THEN Stop(Start)
        ELSE IF ~found.ok THEN Stop(Start)
        ELSE FoldLeft(set, Start, found.out)

\* ql_delete: a row that is not there any more would end it.
delete_rows(stmt) ==
    LET drop(s, rec) ==
            IF ~s.ok \/ Others(s, rec) = s.rows THEN Stop(s)
            ELSE [s EXCEPT !.rows = Others(s, rec), !.count = s.count + 1]
        found == scan_rows(stmt.scan)
    IN  IF found.ok THEN FoldLeft(drop, Start, found.out) ELSE Stop(Start)

-----------------------------------------------------------------------------
Init == tdef = NoTable /\ rows = {} /\ last = NoResult

Idle == last = NoResult

ql_create_table(def) ==
    /\ Idle
    /\ IF tdef = NoTable THEN tdef' = def ELSE UNCHANGED tdef
    /\ last' = [NoResult EXCEPT !.stmt = [kind |-> "create"], !.ok = (tdef = NoTable)]
    /\ UNCHANGED rows

ql_select(stmt) ==
    /\ Idle /\ stmt.kind = "select"
    /\ \E r \in {select_rows(stmt)} : last' = [stmt |-> stmt, ok |-> r.ok, rows |-> r.rows, count |-> 0]
    /\ UNCHANGED <<tdef, rows>>

Wrote(stmt, s) ==
    /\ Cardinality(s.rows) <= MaxRows
    /\ rows' = s.rows
    /\ last' = [stmt |-> stmt, ok |-> s.ok, rows |-> <<>>, count |-> s.count]
    /\ UNCHANGED tdef

ql_insert(stmt) == Idle /\ stmt.kind = "insert" /\ \E s \in {insert_rows(stmt)} : Wrote(stmt, s)

ql_update(stmt) == Idle /\ stmt.kind = "update" /\ \E s \in {update_rows(stmt)} : Wrote(stmt, s)

ql_delete(stmt) == Idle /\ stmt.kind = "delete" /\ \E s \in {delete_rows(stmt)} : Wrote(stmt, s)

\* The caller reads the result.
read_result ==
    /\ ~Idle
    /\ last' = NoResult
    /\ UNCHANGED <<tdef, rows>>

Next ==
    \/ \E def \in Defs : ql_create_table(def)
    \/ \E stmt \in Statements : ql_select(stmt) \/ ql_insert(stmt) \/ ql_update(stmt) \/ ql_delete(stmt)
    \/ read_result

Spec == Init /\ [][Next]_vars

-----------------------------------------------------------------------------
(* Properties *)

Holds(scan, rec) == where(scan, rec).ok /\ where(scan, rec).val.int64 # 0

Slice(seq, scan) ==
    SubSeq(seq, scan.offset + 1,
           IF scan.limit < 0 \/ scan.offset + scan.limit > Len(seq) THEN Len(seq) ELSE scan.offset + scan.limit)

\* The rows that the filter holds for, in the order of the columns, from OFFSET up
\* to LIMIT of them.
Selection(scan, cols) == Slice(InOrder({r \in rows : Holds(scan, r)}, cols, TRUE), scan)

\* The columns of the index that db_scan takes.
Scanned(scan) == ScannedCols(tdef, Planned(scan))

\* "It is never narrower" (ql_range.h): whatever range the planner takes from the
\* filter, a SELECT gives all the rows that match, once, in the order of the index
\* that is scanned ("rows arrive by age rather than by id", ql_exec_test.cpp:506), and
\* OFFSET and LIMIT count those ("WHERE first", scan_rows). ql_exec.h:23 promises
\* primary-key order, which only a scan of the primary key gives.
SelectsExact ==
    LET stmt == last.stmt
        rs == Selection(stmt.scan, Scanned(stmt.scan))
        shown(rec) == FlattenSeq([i \in DOMAIN stmt.output |-> item(stmt.output[i], rec).vals])
    IN  stmt.kind = "select" /\ last.ok => last.rows = [n \in DOMAIN rs |-> shown(rs[n])]

\* new is old with the last assignment to each column made, from old's values.
Updated(stmt, old, new) ==
    /\ \A col \in DOMAIN old \ ToSet(stmt.names) : new[col] = old[col]
    /\ \A i \in DOMAIN stmt.names :
          \/ new[stmt.names[i]] = ql_eval(stmt.values[i], old).val
          \/ \E j \in DOMAIN stmt.names : j > i /\ stmt.names[j] = stmt.names[i]

\* The rows of the table that the statement changed, or removed, are done.
Changed(stmt, done) ==
    \/ /\ stmt.kind = "delete"
       /\ rows' = rows \ done
    \/ /\ stmt.kind = "update"
       /\ {KeyOf(r) : r \in rows'} = {KeyOf(r) : r \in rows}
       /\ Cardinality(rows') = Cardinality(rows)
       /\ \A old \in rows : \E new \in rows' :
             KeyOf(new) = KeyOf(old) /\ IF old \in done THEN Updated(stmt, old, new) ELSE new = old

\* The count of an UPDATE or a DELETE is the number of rows it changed, each once
\* and from its value before the statement, also when it moves rows within the
\* index that was scanned; a statement that fails half way has changed the rows
\* that come first in that index and counts those (ql_update, ql_delete). INSERT adds as many
\* rows as it counts, and changes none.
CountsChanges ==
    [][LET stmt == last'.stmt
           n == last'.count
       IN  CASE stmt.kind \in {"update", "delete"} ->
                    \/ n = 0 /\ rows' = rows /\ ~last'.ok
                    \/ LET rs == Selection(stmt.scan, Scanned(stmt.scan))
                       IN  /\ n <= Len(rs) /\ (last'.ok => n = Len(rs))
                           /\ Changed(stmt, ToSet(SubSeq(rs, 1, n)))
             [] stmt.kind = "insert" /\ stmt.mode = "INSERT_ONLY" ->
                    /\ rows \subseteq rows' /\ Cardinality(rows' \ rows) = n
                    /\ last'.ok => n = Len(stmt.values)
             [] OTHER -> TRUE]_vars

\* The planner's range does not fit the index that find_index takes for it.
Misplanned(scan) == ~Accepted(tdef, Planned(scan))

FullRecord(rec) == check_record(tdef, rec, Len(tdef.cols))

\* A reason for an INSERT to fail: a row without a value for each name, or not a
\* record of the table, or one whose key is there, or is not there, against the mode.
InsertCause(stmt) ==
    LET v(i) == [j \in DOMAIN stmt.values[i] |-> ql_eval(stmt.values[i][j], NoRecord)]
        rec(i) == Record(stmt.names, [j \in DOMAIN v(i) |-> v(i)[j].val])
        there(i) == \E r \in rows \cup {rec(j) : j \in 1 .. i - 1} : KeyOf(r) = KeyOf(rec(i))
    IN  \E i \in DOMAIN stmt.values :
            \/ Len(stmt.values[i]) # Len(stmt.names)
            \/ \E j \in DOMAIN v(i) : ~v(i)[j].ok
            \/ ~FullRecord(rec(i))
            \/ stmt.mode = "INSERT_ONLY" /\ there(i)
            \/ stmt.mode = "UPDATE_ONLY" /\ ~there(i)

\* A reason in the rows for a SELECT, an UPDATE or a DELETE to fail.
RowCause(stmt) ==
    \/ \E r \in rows : ~where(stmt.scan, r).ok
    \/ /\ stmt.kind = "select"
       /\ \E r \in rows, i \in DOMAIN stmt.output : ~item(stmt.output[i], r).ok
    \/ /\ stmt.kind = "update"
       /\ \/ \E i \in DOMAIN stmt.names : stmt.names[i] \notin ToSet(tdef.cols) \ ToSet(Pk(tdef))
          \/ \E r \in rows : ~assigned(stmt, r).ok \/ ~FullRecord(assigned(stmt, r).rec)

\* A statement fails only for a reason its user can see: there is no table, a row
\* to insert is wrong, or the filter, a list or an assignment fails on some row,
\* or the columns cannot be assigned; or for the planner's mistake (see PlansFit).
FailsForCause ==
    [][LET stmt == last'.stmt
       IN  \/ last'.ok \/ tdef = NoTable \/ stmt.kind = "create"
           \/ stmt.kind = "insert" /\ InsertCause(stmt)
           \/ stmt.kind # "insert" /\ (Misplanned(stmt.scan) \/ RowCause(stmt))]_vars

\* "The narrowest range over tdef's primary key or one of its indexes [...] key1's
\* columns pick the index (see find_index)" (ql_range.h): the range that ql_range
\* makes for an index is one that db_scan takes.
PlansFit ==
    tdef # NoTable /\ last.stmt.kind \in {"select", "update", "delete"} => ~Misplanned(last.stmt.scan)
=============================================================================
