----------------------------- MODULE MCService ------------------------------
(***************************************************************************)
(* An instance of Service: two consumers, or main alone.                   *)
(***************************************************************************)
EXTENDS Service

CONSTANTS x, y, c1, c2

MCThread == {c1, c2, "main"}

\* Two packets of one flow, of one pair of addresses or of two, and a third
\* one that is written to the frame of the first.
p == <<x, x>>
MCArrivals == {<<p>>, <<p, p>>, <<p, <<x, y>>>>, <<p, <<y, x>>>>, <<p, p, p>>}
=============================================================================
