----------------------------- MODULE RangeScan ------------------------------
(***************************************************************************)
(* What a table and a Scanner on it promise (table_access.h, scanner.h): a *)
(* set of rows with at most one for each primary key, and a scan that      *)
(* gives the rows of a range one after the other. No row is written while  *)
(* a scan is in use.                                                       *)
(***************************************************************************)
EXTENDS Rows

CONSTANTS
    Def,        \* the table's definition
    Recs        \* the rows that are written

VARIABLES
    rows,       \* the table
    req,        \* the scan's request, or NoRequest when there is no scan
    accepted,   \* what db_scan returned for it
    given,      \* the rows that the scan has given
    more        \* whether there is a row to give

vars == <<rows, req, accepted, given, more>>

NoRequest == [on |-> FALSE]

SameKey(r, s) == ValuesOf(r, Pk(Def)) = ValuesOf(s, Pk(Def))

Init == rows = {} /\ req = NoRequest /\ accepted = FALSE /\ given = <<>> /\ more = FALSE

Upsert(rec) ==
    /\ req = NoRequest
    /\ rows' = {r \in rows : ~SameKey(r, rec)} \cup {rec}
    /\ UNCHANGED <<req, accepted, given, more>>

Delete(rec) ==
    /\ req = NoRequest
    /\ rows' = {r \in rows : ~SameKey(r, rec)}
    /\ UNCHANGED <<req, accepted, given, more>>

Open ==
    /\ req = NoRequest /\ req' # NoRequest
    /\ accepted' = Accepted(Def, req')
    /\ given' = <<>>
    /\ more' = (accepted' /\ RangeRows(Def, rows, req') # <<>>)
    /\ UNCHANGED rows

Step ==
    /\ more
    /\ given' = SubSeq(RangeRows(Def, rows, req), 1, Len(given) + 1)
    /\ more' = (RangeRows(Def, rows, req) # given')
    /\ UNCHANGED <<rows, req, accepted>>

Drop ==
    /\ req # NoRequest
    /\ req' = NoRequest /\ accepted' = FALSE /\ given' = <<>> /\ more' = FALSE
    /\ UNCHANGED rows

Next == Step \/ Drop \/ Open \/ \E rec \in Recs : Upsert(rec) \/ Delete(rec)

Spec == Init /\ [][Next]_vars
=============================================================================
