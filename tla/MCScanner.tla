----------------------------- MODULE MCScanner ------------------------------
(* A table of integers and strings with two indexes, between the keys of
   other tables. The strings hold the bytes that are escaped (0 and 1) and
   marked (0xfe and 0xff), the integers reach both ends of their range. *)
EXTENDS Scanner

MCDef ==
    [cols |-> <<"a", "b", "c", "d">>,
     types |-> [a |-> "INT_64", b |-> "BYTES", c |-> "INT_64", d |-> "BYTES"],
     pkeys |-> 2,
     indexes |-> << <<"b", "a">>, <<"c", "a", "b">> >>,
     prefix |-> 2,
     index_prefixes |-> <<3, 4>>]

Row(a, b, c, d) ==
    [a |-> make_int64(a), b |-> make_bytes(b), c |-> make_int64(c), d |-> make_bytes(d)]

MCRecs ==
    {Row(17, <<>>, -18, <<>>), Row(17, <<>>, 17, <<Top>>), Row(17, <<Top>>, 17, <<0, 1>>),
     Row(17, <<Lead, 0>>, -1, <<1>>), Row(-1, <<0>>, 17, <<>>), Row(-1, <<0, 0>>, -1, <<Lead>>),
     Row(-18, <<1>>, 17, <<2>>)}

MCOtherKeys == {[prefix |-> 1, vals |-> <<make_bytes(<<Top>>)>>], [prefix |-> 5, vals |-> <<make_int64(-18)>>]}

Key(rec, cols) == [cols |-> cols, vals |-> ValuesOf(rec, cols)]

BoundRecs ==
    {Row(17, <<>>, -18, <<>>), Row(17, <<Top>>, 17, <<>>), Row(-1, <<0>>, 17, <<>>), Row(-18, <<1>>, -1, <<>>)}

\* The bounds on the first columns of an index.
Bounds(i) ==
    {Key(rec, SubSeq(IndexCols(MCDef, i), 1, n)) : rec \in BoundRecs, n \in 0 .. Len(IndexCols(MCDef, i))}

Ranges(i, cmp1, cmp2) == [cmp1 : {cmp1}, key1 : Bounds(i), cmp2 : {cmp2}, key2 : Bounds(i)]

\* Directions that do not oppose, columns no index starts with, a bound of
\* another index and one of another type.
Refused ==
    LET a == Key(Row(17, <<>>, 17, <<>>), <<"a">>)
        req == [cmp1 |-> "GE", key1 |-> a, cmp2 |-> "LE", key2 |-> a]
    IN  {[req EXCEPT !.cmp2 = "GT"], [req EXCEPT !.cmp1 = "LT"],
         [req EXCEPT !.key1.cols = <<"d">>], [req EXCEPT !.key2.cols = <<"b">>],
         [req EXCEPT !.key2.vals = <<make_bytes(<<>>)>>]}

MCRequests ==
    UNION {Ranges(i, "GE", "LE") \cup Ranges(i, "GT", "LT") \cup Ranges(i, "LE", "GE") \cup Ranges(i, "LT", "GT")
               : i \in 0 .. 2} \cup Refused
=============================================================================
