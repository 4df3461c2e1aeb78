------------------------------ MODULE MCBulkTcp -----------------------------
(***************************************************************************)
(* Instances of BulkTcp: sequence numbers modulo 16, headers of four bytes *)
(* without options and of five with them, a buffer of ten bytes.           *)
(***************************************************************************)
EXTENDS BulkTcp

CONSTANTS none, some, other, h1, h2

MCHdrLen == [o \in {none, some} |-> IF o = none THEN 4 ELSE 5]

Seg(s, l, a, f, o) == [seq |-> s, len |-> l, ack |-> a, flags |-> f, opt |-> o]

\* A stream that goes past the last sequence number, no segment of which ends
\* just before it, and two segments that do not go through the buffer.
Stream ==
    {Seg(12, 2, 1, {"ACK"}, none), Seg(14, 2, 2, {"ECE"}, none), Seg(0, 3, 2, {"PSH"}, none),
     Seg(0, 3, 3, {"FIN", "ACK"}, some), Seg(14, 2, 2, {"SYN"}, none), Seg(12, 7, 1, {}, none)}

\* The segments of test_flag_A and test_consecutif_bulk.
InTest ==
    {Seg(0, 2, 3, {"ACK"}, none), Seg(2, 3, 4, {"ACK"}, none), Seg(2, 3, 4, {}, none)}

\* A segment that ends just before the last sequence number, the one that
\* follows it, and the next.
AtTheEnd ==
    {Seg(13, 2, 1, {}, none), Seg(15, 1, 1, {}, none), Seg(0, 2, 1, {}, none)}
=============================================================================
