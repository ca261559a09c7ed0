------------------------------ MODULE QLRange -------------------------------
(***************************************************************************)
(* The query planner: ql_range.cpp. It takes the comparisons of a column   *)
(* with a constant that a filter ANDs together, [op, col, val], and gives  *)
(* the range to scan: [cmp1, key1, cmp2, key2]. An optional value is a     *)
(* sequence of none or one.                                                *)
(***************************************************************************)
EXTENDS Rows

\* ColBound
NoBound == [eq |-> <<>>, lo |-> <<>>, lo_open |-> FALSE, hi |-> <<>>, hi_open |-> FALSE]

\* Faulty: the tighter bound is taken, and whether it is open from the first.
add_bound_first_open(b, op, v) ==
    CASE op = "QL_CMP_EQ" -> IF b.eq = <<>> THEN [b EXCEPT !.eq = <<v>>] ELSE b
      [] op \in {"QL_CMP_GT", "QL_CMP_GE"} ->
            IF b.lo = <<>> THEN [b EXCEPT !.lo = <<v>>, !.lo_open = (op = "QL_CMP_GT")]
            ELSE IF value_less(b.lo[1], v) THEN [b EXCEPT !.lo = <<v>>] ELSE b
      [] op \in {"QL_CMP_LT", "QL_CMP_LE"} ->
            IF b.hi = <<>> THEN [b EXCEPT !.hi = <<v>>, !.hi_open = (op = "QL_CMP_LT")]
            ELSE IF value_less(v, b.hi[1]) THEN [b EXCEPT !.hi = <<v>>] ELSE b

\* add_bound: the first equality, and the tightest bound of each side.
add_bound(b, op, v) ==
    CASE op = "QL_CMP_EQ" -> IF b.eq = <<>> THEN [b EXCEPT !.eq = <<v>>] ELSE b
      [] op \in {"QL_CMP_GT", "QL_CMP_GE"} ->
            IF b.lo = <<>> \/ (b.lo # <<>> /\ value_less(b.lo[1], v))
            THEN [b EXCEPT !.lo = <<v>>, !.lo_open = (op = "QL_CMP_GT")] ELSE b
      [] op \in {"QL_CMP_LT", "QL_CMP_LE"} ->
            IF b.hi = <<>> \/ (b.hi # <<>> /\ value_less(v, b.hi[1]))
            THEN [b EXCEPT !.hi = <<v>>, !.hi_open = (op = "QL_CMP_LT")] ELSE b

\* The bounds that the comparisons, one after the other, put on a column.
ColBounds(cmps, col) ==
    LET after[n \in 0 .. Len(cmps)] ==
            IF n = 0 THEN NoBound
            ELSE IF cmps[n].col # col THEN after[n - 1]
            ELSE add_bound(after[n - 1], cmps[n].op, cmps[n].val)
    IN  after[Len(cmps)]

BoundsOf(cmps) == [col \in {cmps[i].col : i \in DOMAIN cmps} |-> ColBounds(cmps, col)]

\* fit_cols: a run of columns with an equality, then at most one with a range.
fit_cols(cols, bounds) ==
    LET has_eq(i) == cols[i] \in DOMAIN bounds /\ bounds[cols[i]].eq # <<>>
        runs == {n \in 0 .. Len(cols) : \A i \in 1 .. n : has_eq(i)}
        eq == CHOOSE n \in runs : \A m \in runs : m <= n
    IN  [eq |-> eq,
         range |-> /\ eq < Len(cols) /\ cols[eq + 1] \in DOMAIN bounds
                   /\ bounds[cols[eq + 1]].lo # <<>> \/ bounds[cols[eq + 1]].hi # <<>>]

score(fit) == 2 * fit.eq + (IF fit.range THEN 1 ELSE 0)

\* The whole table, in the order of the primary key.
WholeTable ==
    LET none == [cols |-> <<>>, vals |-> <<>>]
    IN  [cmp1 |-> "GE", key1 |-> none, cmp2 |-> "LE", key2 |-> none]

\* The range over the first columns of an index that fit pins down.
RangeOf(cols, bounds, fit) ==
    LET b == bounds[cols[fit.eq + 1]]
        eqs == SubSeq(cols, 1, fit.eq)
        key(vals) == [cols |-> SubSeq(cols, 1, Len(vals)), vals |-> vals]
        same == [i \in DOMAIN eqs |-> bounds[eqs[i]].eq[1]]
    IN  IF ~fit.range THEN [WholeTable EXCEPT !.key1 = key(same), !.key2 = key(same)]
        ELSE [cmp1 |-> IF b.lo # <<>> /\ b.lo_open THEN "GT" ELSE "GE", key1 |-> key(same \o b.lo),
              cmp2 |-> IF b.hi # <<>> /\ b.hi_open THEN "LT" ELSE "LE", key2 |-> key(same \o b.hi)]

\* ql_range: the first of the best indexes, the primary key before all. Without
\* a lower bound an index cannot be named, and the whole table is scanned.
ql_range(cmps, def) ==
    LET bounds == BoundsOf(cmps)
        all == 0 .. Len(def.indexes)
        fit(i) == fit_cols(IndexCols(def, i), bounds)
        best == CHOOSE i \in all : \A j \in all :
                    score(fit(j)) <= score(fit(i)) /\ (j < i => score(fit(j)) < score(fit(i)))
        range == RangeOf(IndexCols(def, best), bounds, fit(best))
    IN  IF score(fit(best)) = 0 \/ (range.key1.cols = <<>> /\ best # 0) THEN WholeTable ELSE range
=============================================================================
