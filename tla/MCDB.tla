-------------------------------- MODULE MCDB --------------------------------
(* A small instance of DB: a table with two indexes, and definitions that are
   too long, invalid (an index that covers every column) and unreadable (a
   space in a column name). *)
EXTENDS DBInv

MCNewDef ==
    LET def == [cols |-> <<"a", "b">>, pkeys |-> 1, indexes |-> <<>>, long |-> FALSE, spaced |-> FALSE]
    IN  [t |-> [def EXCEPT !.cols = <<"a", "b", "c">>, !.indexes = << <<"b">>, <<"c">> >>],
         w |-> [def EXCEPT !.long = TRUE],
         x |-> [def EXCEPT !.indexes = << <<"b">> >>],
         y |-> [def EXCEPT !.spaced = TRUE]]

\* The rows with the same key differ in an indexed column, and one has an index
\* key that is too long.
MCRecs ==
    LET Row(a, b, c) == [a |-> a, b |-> b, c |-> c]
    IN  [t |-> {Row(1, 1, 1), Row(1, 2, 1), Row(1, 2, Long), Row(2, 1, 1)},
         w |-> {},
         x |-> {},
         y |-> {}]
=============================================================================
