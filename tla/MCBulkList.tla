------------------------------ MODULE MCBulkList ----------------------------
(***************************************************************************)
(* Instances of BulkList: two flows, sequence numbers modulo 16.  No       *)
(* segment ends just before the last sequence number.                      *)
(***************************************************************************)
EXTENDS BulkList

CONSTANTS f1, f2, h1, h2

Seg(f, s, l, push) == [flow |-> f, seq |-> s, len |-> l, push |-> push, untouched |-> FALSE]

\* Segments of f1 that follow each other, the last with PSH, and two of f2, one of
\* which is sent at once.
MCSegment ==
    {Seg(f1, 2, 2, FALSE), Seg(f1, 4, 3, FALSE), Seg(f1, 7, 2, FALSE), Seg(f1, 9, 1, TRUE),
     Seg(f2, 5, 1, TRUE), [Seg(f2, 6, 1, FALSE) EXCEPT !.untouched = TRUE]}
=============================================================================
