------------------------------ MODULE MCRefrag ------------------------------
(***************************************************************************)
(* Instances of Refrag: packets of two, three and four units of data.      *)
(***************************************************************************)
EXTENDS Refrag

CONSTANTS p, q, r, big, i, j

Cut(packet, id, offset, size, m) ==
    [packet |-> packet, id |-> id, offset |-> offset, size |-> size, m |-> m]

\* p in three fragments, q in two, with different identifications.
TwoPackets ==
    {Cut(p, i, 0, 1, 1), Cut(p, i, 1, 1, 1), Cut(p, i, 2, 1, 0),
     Cut(q, j, 0, 2, 1), Cut(q, j, 2, 1, 0)}

\* A packet that does not fit in a buffer of four units, and one that does.
\* The units of big that fit never fill its buffer.
OneTooBig ==
    {Cut(big, i, 0, 2, 1), Cut(big, i, 2, 2, 1), Cut(big, i, 4, 2, 0),
     Cut(q, j, 0, 2, 1), Cut(q, j, 2, 1, 0)}

\* p and r have the same identification, as packets of two sources may.
SameId ==
    {Cut(p, i, 0, 1, 1), Cut(p, i, 1, 1, 1), Cut(p, i, 2, 1, 0),
     Cut(r, i, 0, 2, 1), Cut(r, i, 2, 2, 0)}
=============================================================================
