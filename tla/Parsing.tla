------------------------------ MODULE Parsing ------------------------------
(***************************************************************************)
(* The walks over chains of headers (src/services/lib/parsing.c).  A       *)
(* packet is a sequence of headers, each with its kind and its size; the   *)
(* next_header field of a header is the kind of the one behind it.  An     *)
(* offset into the packet is the number of a header, and -1 is 0.          *)
(*                                                                         *)
(* A packet ends with a header that has no successor: TCP, or one that the *)
(* walks cannot parse.                                                     *)
(***************************************************************************)
EXTENDS Naturals, Sequences

\* The kinds for which call_parse returns a function.
Parsed == {"IPV6", "ROUTING", "FRAGMENT", "TCP"}

call_parse(nh) == nh \in Parsed

NextHeader(p, i) == IF i < Len(p) THEN p[i + 1].kind ELSE "none"

\* What is at header i if the field that led there says nh.
parse_until(limit, p, i, nh) ==
    LET walk[j \in i .. Len(p) + 1] ==
            LET kind == IF j = i THEN nh ELSE NextHeader(p, j - 1)
            IN  IF ~call_parse(kind) THEN 0 ELSE IF kind = limit THEN j ELSE walk[j + 1]
    IN  walk[i]

\* Line 17 parses as `limit' what is at the beginning, i: when that is another kind
\* of header, the byte it takes for next_header is one of the flags of the routing
\* header, 0, which no function parses.
find_hdr(limit, p, i, nh) ==
    LET at == parse_until(limit, p, i, nh)
    IN  [at |-> at, nh |-> IF at = i THEN NextHeader(p, i) ELSE "none"]

\* Lines 33-38: the loop goes on from `before' over the headers ahead of the limit.
\* Mutant: the first one found is kept.
find_hdr_first(p, limit, before) ==
    LET at == parse_until(limit, p, 1, p[1].kind)
        ks == {k \in 1 .. at - 1 : p[k].kind = before}
    IN  [limit |-> at, before |-> CHOOSE k \in ks : \A j \in ks : k <= j]

find_hdr_before(p, limit, before) ==
    LET at == parse_until(limit, p, 1, p[1].kind)
        last[k \in 0 .. at] == IF k = 0 THEN 0 ELSE IF p[k].kind = before THEN k ELSE last[k - 1]
    IN  IF at = 0 THEN [limit |-> 0, before |-> 0]
        ELSE [limit |-> at, before |-> last[at - 1]]

\* Bytes in front of header i.
Offset(p, i) ==
    LET upTo[k \in 0 .. Len(p)] == IF k = 0 THEN 0 ELSE upTo[k - 1] + p[k].size
    IN  upTo[i - 1]
=============================================================================
