------------------------------ MODULE BulkPkt -------------------------------
(***************************************************************************)
(* The bulk service in mode pkt (src/services/bulk/bulk_pkt.c): whole      *)
(* packets are put one behind the other in a buffer that begins with a     *)
(* copy of the outer headers of the first, and the debulk service takes    *)
(* them apart again.  Frames in which the segment routing header is not    *)
(* the second header are left out: lines 86-88 use a pointer that is never *)
(* set.                                                                    *)
(***************************************************************************)
EXTENDS BulkBuffer, FiniteSets

CONSTANTS
    Size,        \* lengths pkt_len of the packets that may arrive
    HdrSize,     \* offset: bytes of the outer headers
    MaxArrivals  \* bound: number of packets that arrive

ASSUME PktAssumption ==
    HdrSize \in Nat \ {0} /\ MaxArrivals \in Nat /\ \A l \in Size : l \in Nat /\ l >= HdrSize

VARIABLES
    arrived, \* pkt_len of the packets received, in order
    pc,      \* of each handler: "idle", "test" 78, "lock" 97, "insert" 100, "unlock" 113
    held     \* number of the packet it handles

vars == <<buffer, lock, timer, sleep, sent, arrived, pc, held>>

NoHead == 0 \* the headers in front are part of the content

Init ==
    /\ InitBuffer(NoHead)
    /\ arrived = <<>>
    /\ pc = [h \in Handler |-> "idle"]
    /\ held = [h \in Handler |-> 0]
-----------------------------------------------------------------------------
TooBig(n) == arrived[n] >= BUFFER_SIZE

Receive(h, len) ==
    /\ pc[h] = "idle" /\ Len(arrived) < MaxArrivals
    /\ arrived' = Append(arrived, len)
    /\ held' = [held EXCEPT ![h] = Len(arrived) + 1]
    /\ pc' = [pc EXCEPT ![h] = "test"]
    /\ UNCHANGED <<buffer, lock, timer, sleep, sent>>

Test(h) ==
    /\ pc[h] = "test"
    /\ pc' = [pc EXCEPT ![h] = IF TooBig(held[h]) THEN "idle" ELSE "lock"]
    /\ UNCHANGED <<buffer, lock, timer, sleep, sent, arrived, held>>

\* Mutant: the handler does not take the lock.
LockSkipped(h) ==
    /\ pc[h] = "lock"
    /\ pc' = [pc EXCEPT ![h] = "insert"]
    /\ UNCHANGED <<buffer, lock, timer, sleep, sent, arrived, held>>

Lock(h) ==
    /\ pc[h] = "lock" /\ lock = NoThread
    /\ lock' = h
    /\ pc' = [pc EXCEPT ![h] = "insert"]
    /\ UNCHANGED <<buffer, timer, sleep, sent, arrived, held>>

\* Mutant: the space in an empty buffer is compared.
FullOfData(n) == BUFFER_SIZE < arrived[n]

\* Line 100.
Full(n) == available_space(buffer, HdrSize) < arrived[n]

\* Mutant: the headers are copied for every packet.
HeaderAgain(b) == add_to_buffer(b, 0, HdrSize)

\* Lines 104-108.
WithHeader(b) == IF Empty(b) THEN add_to_buffer(b, 0, HdrSize) ELSE b

\* Lines 100-110.
Insert(h) ==
    LET b == IF Full(held[h]) THEN Cleared(buffer) ELSE buffer
    IN  /\ pc[h] = "insert"
        /\ sent' = IF Full(held[h]) THEN sent \o Sending(buffer) ELSE sent
        /\ buffer' = add_to_buffer(WithHeader(b), held[h], arrived[held[h]])
        /\ pc' = [pc EXCEPT ![h] = "unlock"]
        /\ UNCHANGED <<lock, timer, sleep, arrived, held>>

Release(h) ==
    /\ pc[h] = "unlock"
    /\ lock' = NoThread
    /\ pc' = [pc EXCEPT ![h] = "idle"]
    /\ UNCHANGED <<buffer, timer, sleep, sent, arrived, held>>

bulk_packet(h) == Test(h) \/ Lock(h) \/ Insert(h) \/ Release(h)

pkt_timedout == Timer /\ UNCHANGED <<arrived, pc, held>>

\* Time passes while no thread can run.
Tick ==
    /\ \A h \in Handler : pc[h] = "idle"
    /\ Elapse
    /\ UNCHANGED <<arrived, pc, held>>

Next ==
    \/ \E h \in Handler : bulk_packet(h) \/ \E len \in Size : Receive(h, len)
    \/ pkt_timedout
    \/ Tick

Spec == Init /\ [][Next]_vars
-----------------------------------------------------------------------------
(***************************************************************************)
(* Properties.                                                             *)
(***************************************************************************)
\* The comment at add_to_buffer: the buffer has room for what is added.
PreHolds == buffer.pos <= BUFFER_SIZE

\* debulk_packet and send_debulk_buffer: the outer headers are skipped and each
\* packet behind them is sent.
debulk(content) == IF content = <<>> THEN <<>> ELSE Tail(content)

Debulked == Concatenation([k \in DOMAIN Given |-> debulk(Given[k])])

\* What debulking makes of all that was sent and of the buffer only grows at the
\* end, by the packet of the handler that has the lock: neither handlers nor the
\* timer move a packet already given or leave headers between packets (lines
\* 100-110, and 154-161 of bulk_buffer.c).
DebulkRestores ==
    [][\/ Debulked' = Debulked
       \/ \E h \in Handler : lock = h /\ Debulked' = Append(Debulked, held[h])]_vars

InHand(h) == pc[h] \in {"test", "lock", "insert"}

\* With several handlers and the timer on one buffer: no bulk is without its
\* headers, no packet is lost, none is sent twice, whoever gets the lock first.
EachOnce ==
    timer # "clear" =>
        /\ \A k \in DOMAIN Out : Out[k] # <<>> => Out[k][1] = 0 /\ Len(Out[k]) > 1
        /\ \A n \in 1 .. Len(arrived) :
              LET places == {a \in Places : Number(a) = n}
              IN  IF TooBig(n) \/ \E h \in Handler : InHand(h) /\ held[h] = n
                  THEN places = {} ELSE Cardinality(places) = 1
=============================================================================
