------------------------------ MODULE MCLFQ -------------------------------
(* Instances of LFQ for TLC; the cfgs give the constants their values.     *)
EXTENDS LFQ

\* In an instance, as in the program (ULONG_MAX = 2^64 - 1), the idle mark is
\* above every ticket that is ever taken.
ASSUME IdleAboveTickets == ULONG_MAX > NProd * MaxPush + NCons
=============================================================================
