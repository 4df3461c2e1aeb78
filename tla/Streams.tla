------------------------------ MODULE Streams ------------------------------
(***************************************************************************)
(* Sequences that follow each other, as the packets that go out do.        *)
(***************************************************************************)
EXTENDS Naturals, Sequences

\* All of ss in one sequence.
Concatenation(ss) ==
    LET upTo[k \in 0 .. Len(ss)] == IF k = 0 THEN <<>> ELSE upTo[k - 1] \o ss[k]
    IN  upTo[Len(ss)]
=============================================================================
