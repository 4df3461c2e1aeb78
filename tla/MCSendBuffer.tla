---------------------------- MODULE MCSendBuffer ----------------------------
(***************************************************************************)
(* Instances of SendBuffer.  Bytes are digits of base 4, of which the      *)
(* contents use the least and the greatest: a sum of two words overflows,  *)
(* and lengths from 16 on do not fit in two bytes.                         *)
(***************************************************************************)
EXTENDS SendBuffer

Hdr(kind, size) == [kind |-> kind, size |-> size]
ip6 == Hdr("IPV6", 4)
sr  == Hdr("ROUTING", 3)
tcp == Hdr("TCP", 4)

\* A packet in a packet with segments, which is what the services receive; two
\* packets in one another; a packet alone, without and with segments; three packets in
\* one another.
MCChain ==
    {<<ip6, sr, ip6, tcp>>, <<ip6, ip6, tcp>>, <<ip6, tcp>>, <<ip6, sr, tcp>>,
     <<ip6, sr, ip6, ip6, tcp>>}

\* The checksum of the first segment is in the third and the fourth byte.
ShortBody == UNION {{d \in [1 .. n -> {0, 3}] : d[3] = 3 /\ d[4] = 3} : n \in 4 .. 11}
LongBody  == {[i \in 1 .. n |-> 3] : n \in 15 .. 17}
MCBody == ShortBody \cup LongBody

MCAddress == [k \in 1 .. 5 |-> <<250, k>>]
=============================================================================
