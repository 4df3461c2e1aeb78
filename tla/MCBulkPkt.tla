------------------------------ MODULE MCBulkPkt -----------------------------
(***************************************************************************)
(* Instances of BulkPkt: outer headers of three bytes, buffers of ten.     *)
(***************************************************************************)
EXTENDS BulkPkt

CONSTANTS h1, h2
=============================================================================
