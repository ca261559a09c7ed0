-------------------------------- MODULE MCQL --------------------------------
(* Two tables of integers and a string, and statements whose filters AND
   comparisons with the columns of their keys and indexes. *)
EXTENDS QL

Types == [a |-> "INT_64", b |-> "INT_64", c |-> "INT_64", d |-> "BYTES"]

MCDefs ==
    {[cols |-> <<"a", "b", "c", "d">>, types |-> Types, pkeys |-> 1,
      indexes |-> << <<"b", "a">>, <<"b", "c", "a">> >>],
     [cols |-> <<"a", "b", "c", "d">>, types |-> Types, pkeys |-> 2,
      indexes |-> << <<"c", "a", "b">> >>]}

Num(n) == ql_int64(n)
Str(s) == ql_str(s)
Col(name) == ql_sym(name)
Op(type, x, y) == ql_binop(type, x, y)
And(x, y) == Op("QL_AND", x, y)
Not(x) == ql_unop("QL_NOT", x)
All == [type |-> "QL_UNINIT"]

Orders == {"QL_CMP_EQ", "QL_CMP_LT", "QL_CMP_LE", "QL_CMP_GT", "QL_CMP_GE"}

Atoms == {Op(op, Col(col), Num(n)) : op \in Orders, col \in {"a", "b", "c"}, n \in {1, 2}}

\* Sides swapped, other operators, filters that fail on some or on all rows.
OddFilters ==
    {All, Op("QL_CMP_LT", Num(1), Col("b")), Op("QL_CMP_GE", Num(1), Col("b")),
     Op("QL_CMP_NE", Col("b"), Num(1)), Not(Op("QL_CMP_EQ", Col("b"), Num(2))),
     Op("QL_OR", Op("QL_CMP_EQ", Col("b"), Num(1)), Op("QL_CMP_EQ", Col("c"), Num(2))),
     Op("QL_CMP_EQ", Col("b"), Col("c")), Op("QL_CMP_EQ", Col("b"), Str(<<>>)), Col("z"), Str(<<>>),
     Op("QL_CMP_EQ", Col("b"), Op("QL_DIV", Num(1), Num(0))),
     And(Op("QL_CMP_EQ", Col("b"), Num(1)), Op("QL_CMP_EQ", Op("QL_DIV", Num(2), Op("QL_SUB", Col("c"), Num(1))), Num(2))),
     And(Op("QL_CMP_GT", Col("b"), Num(1)), Op("QL_CMP_GT", Op("QL_ADD", Col("c"), Num(1)), Num(1))),
     And(Op("QL_CMP_EQ", Col("d"), Str(<<1>>)), And(Op("QL_CMP_EQ", Col("b"), Num(1)), Op("QL_CMP_GE", Col("c"), Num(1)))),
     And(And(Op("QL_CMP_EQ", Col("a"), Num(1)), Op("QL_CMP_GT", Col("b"), Num(0))), Op("QL_CMP_LE", Col("b"), Num(2)))}

Filters == {And(x, y) : x \in Atoms, y \in Atoms} \cup OddFilters

Scan(filter, offset, limit) == [filter |-> filter, offset |-> offset, limit |-> limit]

Select(scan, output) == [kind |-> "select", scan |-> scan, output |-> output]
Insert(mode, names, values) == [kind |-> "insert", mode |-> mode, names |-> names, values |-> values]
Update(scan, names, values) == [kind |-> "update", scan |-> scan, names |-> names, values |-> values]
Delete(scan) == [kind |-> "delete", scan |-> scan]

B == Op("QL_CMP_GE", Col("b"), Num(1))

Selects ==
    {Select(Scan(f, 0, -1), <<ql_star>>) : f \in Filters}
        \cup {Select(Scan(f, o, l), <<ql_star>>) : f \in {All, B, Op("QL_CMP_EQ", Col("c"), Num(1))}, o \in 0 .. 1, l \in 0 .. 1}
        \cup {Select(Scan(f, 0, -1), <<Op("QL_ADD", Col("b"), Num(1)), Col("d")>>) : f \in {All, B}}

AllNames == <<"a", "b", "c", "d">>
Values(a, b, c) == <<Num(a), Num(b), Num(c), Str(<<b>>)>>

Inserts ==
    {Insert("INSERT_ONLY", AllNames, vs) :
        vs \in {<<Values(1, 1, 1)>>, <<Values(1, 2, 2), Values(2, 1, 2)>>, <<Values(2, 2, 1), Values(1, 1, 1)>>,
                <<Values(2, 1, 2), <<Num(1)>> >>, <<Values(2, 2, 1), <<Num(1), Num(1), Col("a"), Str(<<>>)>> >>}}
        \cup {Insert("UPSERT", AllNames, <<Values(1, 2, 1)>>), Insert("UPDATE_ONLY", AllNames, <<Values(1, 1, 2)>>),
              Insert("INSERT_ONLY", <<"a", "b">>, <<<<Num(1), Num(2)>>>>)}

Updates ==
    {Update(Scan(B, 0, -1), <<"b">>, <<Op("QL_ADD", Col("b"), Num(1))>>),
     Update(Scan(B, 0, 1), <<"c">>, <<Op("QL_ADD", Col("c"), Num(1))>>),
     Update(Scan(All, 0, -1), <<"b", "c">>, <<Col("c"), Col("b")>>),
     Update(Scan(All, 1, -1), <<"c", "c">>, <<Num(1), Num(2)>>),
     Update(Scan(All, 0, -1), <<"c">>, <<Col("d")>>),
     Update(Scan(All, 0, -1), <<"a">>, <<Num(1)>>),
     Update(Scan(All, 0, -1), <<"z">>, <<Num(1)>>),
     Update(Scan(Str(<<>>), 0, -1), <<"c">>, <<Num(1)>>)}

Deletes == {Delete(Scan(f, 0, -1)) : f \in {B, Op("QL_CMP_GT", Col("c"), Num(1)), Col("z")}} \cup {Delete(Scan(All, 0, 1))}

MCStatements == Selects \cup Inserts \cup Updates \cup Deletes
=============================================================================
