----------------------------- MODULE SendBuffer -----------------------------
(***************************************************************************)
(* What send_buffer (src/services/lib/bulk_buffer.c) makes of the headers  *)
(* of a segment merged of several: the lengths in its IPv6 headers and the *)
(* checksum of TCP.  BulkTcp leaves both out.  Lengths are stored in two   *)
(* bytes, and update_tcp_hdr stores one 40 bytes in front of TCP whatever  *)
(* is there.                                                               *)
(***************************************************************************)
EXTENDS Checksum, Parsing, Streams

CONSTANTS
    Chain,    \* the chains of headers that may be in the buffer; the last is TCP
    Body,     \* TCP header and data: sequences of bytes
    CHECK,    \* the place of the checksum in the TCP header
    TCP,      \* the protocol number
    Address   \* the words of source and destination of each IPv6 header

ASSUME BufferAssumption ==
    /\ Chain \subseteq Seq([kind : Parsed, size : Nat]) \ {<<>>}
    /\ \A c \in Chain : c[1].kind = "IPV6" /\ \A k \in DOMAIN c : c[k].kind = "TCP" <=> k = Len(c)
    /\ \A c \in Chain : \A k \in DOMAIN c : Address[k] \in Seq(0 .. WORD - 1)
    /\ Body \subseteq Seq(0 .. BYTE - 1) /\ TCP \in Nat
    /\ CHECK \in Nat /\ CHECK % 2 = 1 /\ \A b \in Body : CHECK + 1 <= Len(b)

VARIABLES
    p,        \* the headers in front of the data
    length,   \* the numbers in the length fields of the IPv6 headers
    address,  \* the words of source and destination that are in them
    flags,    \* OP_BUF_UPDLEN and OP_BUF_UPDCKSUM always, OP_BUF_UPDALL_LEN or not
    step      \* "merge", "lengths" 112, "zero" 167, "sum", "sent"

sendVars == <<p, length, address, flags, step>>
vars     == <<csumVars, sendVars>>

IPv6s == {k \in DOMAIN p : p[k].kind = "IPV6"}

\* Bytes of the packet behind the first k headers.
Behind(k) == Offset(p, Len(p)) - Offset(p, k + 1) + Len(data)

\* htons: the low half of an int, its bytes in network order.
htons(n) == Swapped(n % HALF)

\* The buffer holds the first segment, whose fields were right, and the data of the
\* others; the checksum field is still that of the first.
Init ==
    /\ p \in Chain /\ data \in Body
    /\ addr \in {(base + Offset(p, Len(p))) % 4 : base \in 0 .. 3}
    /\ CsumInit
    /\ \E first \in 1 .. Len(data) - 1 :
          /\ length = [k \in IPv6s |-> Behind(k) - Len(data) + first]
          /\ \A k \in IPv6s : length[k] < HALF
    /\ address = [k \in IPv6s |-> Address[k]]
    /\ flags \in {{}, {"OP_BUF_UPDALL_LEN"}}
    /\ step = "merge"
-----------------------------------------------------------------------------
\* Mutant: the header stays as it was.
update_flags_only ==
    /\ step = "merge"
    /\ step' = "lengths"
    /\ UNCHANGED <<p, length, address, flags, csumVars>>

InFront == Len(p) - 1

\* Line 44 of update_tcp_hdr: the 40 bytes in front of TCP are an IPv6 header,
SetLength ==
    /\ p[InFront].kind = "IPV6"
    /\ length' = [length EXCEPT ![InFront] = Len(data) % HALF]
    /\ UNCHANGED address

\* or they are not: the two bytes become the first half of a word of some address, by the
\* sizes of the headers,
OverwriteAddress ==
    /\ p[InFront].kind # "IPV6"
    /\ \E k \in IPv6s : \E i \in DOMAIN address[k] :
          address' = [address EXCEPT ![k][i] = HALF * (@ \div HALF) + htons(Len(data))]
    /\ UNCHANGED length

\* or are lost in what a routing or fragment header says. Headers are multiples of eight
\* bytes, so the place, four behind a multiple, is no next_header nor a length.
OverwriteOther == p[InFront].kind # "IPV6" /\ UNCHANGED <<length, address>>

update_tcp_hdr ==
    /\ step = "merge"
    /\ SetLength \/ OverwriteAddress \/ OverwriteOther
    /\ step' = "lengths"
    /\ UNCHANGED <<p, flags, csumVars>>

\* Lines 117-123: a turn of the loop goes on behind the header that the last one found,
\* with what find_hdr left in next_header.
Turn(w) ==
    LET f == find_hdr("IPV6", p, w.at + 1, w.nh)
    IN  IF f.at = 0 THEN [at |-> w.at, nh |-> "none", found |-> w.found]
        ELSE [at |-> f.at, nh |-> f.nh, found |-> w.found \cup {f.at}]

AllFound ==
    LET after[k \in 0 .. Len(p)] ==
            IF k = 0 THEN [at |-> 0, nh |-> "IPV6", found |-> {}] ELSE Turn(after[k - 1])
    IN  after[Len(p)].found

Updated == IF "OP_BUF_UPDALL_LEN" \in flags THEN AllFound ELSE {1}

Lengths ==
    /\ step = "lengths"
    /\ length' = [k \in IPv6s |-> IF k \in Updated THEN Behind(k) % HALF ELSE length[k]]
    /\ step' = "zero"
    /\ UNCHANGED <<p, address, flags, csumVars>>
-----------------------------------------------------------------------------
(***************************************************************************)
(* set_tcp_checksum.                                                       *)
(***************************************************************************)
SetCheck(d, x) == [d EXCEPT ![CHECK] = x % BYTE, ![CHECK + 1] = x \div BYTE]

Zero ==
    /\ step = "zero"
    /\ data' = SetCheck(data, 0)
    /\ step' = "sum"
    /\ UNCHANGED <<p, length, address, flags, addr, pc, pos, len, result, carry, total>>

Sum == step = "sum" /\ do_csum /\ UNCHANGED sendVars

\* sum += a; carry = (sum < a); sum += carry
AddCarry(sum, a) ==
    LET s == (sum + a) % WORD IN (s + IF s < a THEN 1 ELSE 0) % WORD

csum_fold(sum) == HALF - 1 - (Fold16(Fold16(sum)) % HALF)

\* The bytes of an unsigned int in network order, and the word that they are in memory.
BigEndian(n) == <<(n \div (HALF * BYTE)) % BYTE, (n \div HALF) % BYTE, (n \div BYTE) % BYTE, n % BYTE>>

htonl(n) ==
    LET b == BigEndian(n) IN (b[1] + BYTE * b[2]) + HALF * (b[3] + BYTE * b[4])

\* sum: after k of the words.
csum_ipv6_magic(addresses, n, proto, csum) ==
    LET words == addresses \o <<htonl(n), htonl(proto)>>
        sum[k \in 0 .. Len(words)] == IF k = 0 THEN csum ELSE AddCarry(sum[k - 1], words[k])
    IN  csum_fold(sum[Len(words)])

tcp_checksum(addresses) ==
    from32to16(csum_ipv6_magic(addresses, Len(data), TCP, result))

\* Line 131 of bulk_buffer.c: the IPv6 header in front of TCP.
ip6hdr == find_hdr_before(p, "TCP", "IPV6").before

SetChecksum ==
    /\ step = "sum" /\ pc = "done"
    /\ data' = SetCheck(data, tcp_checksum(address[ip6hdr]))
    /\ step' = "sent"
    /\ UNCHANGED <<p, length, address, flags, addr, pc, pos, len, result, carry, total>>

set_tcp_checksum == Zero \/ Sum \/ SetChecksum

send_buffer == Lengths \/ set_tcp_checksum

Next == update_tcp_hdr \/ send_buffer

Spec == Init /\ [][Next]_vars
-----------------------------------------------------------------------------
(***************************************************************************)
(* Properties.                                                             *)
(***************************************************************************)
\* However the buffer is aligned and however long it is, do_csum returns the
\* ones'-complement sum of its words: no carry is lost between two words, and the
\* swap of the bytes undoes an odd address (lines 32-84 of
\* checksum.c).
SumIsOnesComplement ==
    step = "sum" /\ pc = "done" => result = OnesSum(WordSum(data))
\* The first header of a packet that is sent, and an IPv6 header directly in front of
\* TCP, have the length of what is behind them if two bytes can hold it, by whichever of
\* the two ways the lengths are set (lines 112-128, and 44 of update_tcp_hdr). Of
\* a header between those two, and of a longer packet, the code does not see to it.
LengthsRight ==
    step = "sent" =>
        \A k \in IPv6s \cap {1, InFront} : Behind(k) \in 0 .. HALF - 1 => length[k] = Behind(k)

\* The innermost header, whose addresses TCP at the receiver uses.
Innermost == CHOOSE k \in IPv6s : \A j \in IPv6s : j <= k

\* The bytes of a word in memory.
Bytes(w) == <<w % BYTE, (w \div BYTE) % BYTE, (w \div HALF) % BYTE, (w \div (HALF * BYTE)) % BYTE>>

PseudoHeader ==
    Concatenation([i \in DOMAIN address[Innermost] |-> Bytes(address[Innermost][i])])
    \o BigEndian(Len(data)) \o BigEndian(TCP)

\* The checksum that is sent verifies: the sum over pseudo-header, TCP header and data
\* is all ones (lines 160-171 of checksum.c), with the addresses that are in the
\* header then, which update_tcp_hdr may have changed.
ChecksumVerifies ==
    step = "sent" => OnesSum(WordSum(PseudoHeader \o data)) = HALF - 1
=============================================================================
