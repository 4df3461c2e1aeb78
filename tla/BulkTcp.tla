------------------------------ MODULE BulkTcp -------------------------------
(***************************************************************************)
(* The bulk service in mode tcp (src/services/bulk/bulk_tcp.c): segments   *)
(* of one TCP flow that follow each other are merged into one.             *)
(***************************************************************************)
EXTENDS BulkBuffer, FiniteSets

CONSTANTS
    Segment,     \* the segments that may arrive: records, see SegmentAssumption
    HdrLen,      \* hdr_len: bytes up to the data, for each value of the options
    Garbage,     \* what malloc may leave in flow2->opt
    SEQ,         \* sequence numbers are numbers modulo SEQ, 2^32 in the code
    MaxArrivals  \* bound: number of segments that arrive

Flags == {"NS", "CWR", "ECE", "URG", "ACK", "PSH", "RST", "SYN", "FIN"}
Opt   == DOMAIN HdrLen  \* hashes of the options

ASSUME SegmentAssumption ==
    Segment \subseteq [seq : 0 .. SEQ - 1, len : Nat, ack : 0 .. SEQ - 1,
                       flags : SUBSET Flags, opt : Opt]
ASSUME TcpAssumption ==
    /\ SEQ \in Nat \ {0, 1} /\ MaxArrivals \in Nat
    /\ HdrLen \in [Opt -> Nat \ {0}]

TCP_MAX_SEG == SEQ - 1

VARIABLES
    arrived, \* the segments received, in order
    pc,      \* of each handler: "idle", "test" 25, "lock" 46, "insert" 48, "push" 50
    held,    \* number of the segment it handles
    seq,     \* flow2->seq, 0 before it is first written: it is not read then
    opt      \* flow2->opt

vars == <<buffer, lock, timer, sleep, sent, arrived, pc, held, seq, opt>>

NoHead == [ack |-> 0, flags |-> {}]

Init ==
    /\ InitBuffer(NoHead)
    /\ arrived = <<>>
    /\ pc = [h \in Handler |-> "idle"]
    /\ held = [h \in Handler |-> 0]
    /\ seq = 0
    /\ opt \in Garbage
-----------------------------------------------------------------------------
PktLen(s) == HdrLen[s.opt] + s.len

HeaderOf(s) == [ack |-> s.ack, flags |-> s.flags]

\* Lines 25-33: what is sent on as it came.
Untouched(s) == PktLen(s) >= BUFFER_SIZE \/ s.flags \cap {"URG", "SYN", "RST"} # {}

Receive(h, s) ==
    /\ pc[h] = "idle" /\ Len(arrived) < MaxArrivals
    /\ arrived' = Append(arrived, s)
    /\ held' = [held EXCEPT ![h] = Len(arrived) + 1]
    /\ pc' = [pc EXCEPT ![h] = "test"]
    /\ UNCHANGED <<buffer, lock, timer, sleep, sent, seq, opt>>

PassOn(h) ==
    /\ pc[h] = "test" /\ Untouched(arrived[held[h]])
    /\ sent' = Append(sent, [content |-> <<held[h]>>, head |-> HeaderOf(arrived[held[h]])])
    /\ pc' = [pc EXCEPT ![h] = "idle"]
    /\ UNCHANGED <<buffer, lock, timer, sleep, arrived, held, seq, opt>>

ToBuffer(h) ==
    /\ pc[h] = "test" /\ ~Untouched(arrived[held[h]])
    /\ pc' = [pc EXCEPT ![h] = "lock"]
    /\ UNCHANGED <<buffer, lock, timer, sleep, sent, arrived, held, seq, opt>>

Lock(h) ==
    /\ pc[h] = "lock" /\ lock = NoThread
    /\ lock' = h
    /\ pc' = [pc EXCEPT ![h] = "insert"]
    /\ UNCHANGED <<buffer, timer, sleep, sent, arrived, held, seq, opt>>

\* Lines 86 and 90: uint32_t arithmetic, then % TCP_MAX_SEG.
Following(n, len) == ((n + len) % SEQ) % TCP_MAX_SEG

\* Mutants: the sequence number is not compared; the space is not.
ApartAnySeq(s) ==
    ~Empty(buffer) /\ ( \/ opt # s.opt
                        \/ available_space(buffer, HdrLen[s.opt]) < s.len )
ApartAnySpace(s) == ~Empty(buffer) /\ (opt # s.opt \/ seq # s.seq)

\* Lines 73-78 of insert_tcp_to_buffer: the segment cannot be merged.
Apart(s) ==
    ~Empty(buffer) /\ ( \/ opt # s.opt
                        \/ available_space(buffer, HdrLen[s.opt]) < s.len
                        \/ seq # s.seq )

\* Mutant: the flags of the segment are lost.
update_ack_only(head, s) == [head EXCEPT !.ack = s.ack]

\* Line 47 has replaced the acknowledgement when lines 50-53 compare it.
update_tcp_hdr(head, s) == [ack |-> s.ack, flags |-> head.flags \cup s.flags]

\* Lines 84-87: the buffer is empty; its headers are those of the segment.
Started(b, n, s) == [add_to_buffer(b, n, PktLen(s)) EXCEPT !.head = HeaderOf(s)]

\* Lines 88-92.
Merged(b, n, s) == [add_to_buffer(b, n, s.len) EXCEPT !.head = update_tcp_hdr(@, s)]

\* Mutant: a segment that cannot be merged is sent on and the buffer is kept.
InsertOvertakes(h) ==
    LET n == held[h]
        s == arrived[n]
    IN  /\ pc[h] = "insert"
        /\ IF Apart(s) THEN /\ sent' = Append(sent, [content |-> <<n>>, head |-> HeaderOf(s)])
                            /\ UNCHANGED <<buffer, seq>>
                       ELSE /\ buffer' = IF Empty(buffer) THEN Started(buffer, n, s)
                                                          ELSE Merged(buffer, n, s)
                            /\ seq' = Following(s.seq, s.len)
                            /\ UNCHANGED sent
        /\ pc' = [pc EXCEPT ![h] = "push"]
        /\ UNCHANGED <<lock, timer, sleep, arrived, held, opt>>

insert_tcp_to_buffer(h) ==
    LET n == held[h]
        s == arrived[n]
    IN  /\ pc[h] = "insert"
        /\ IF Apart(s) THEN /\ sent' = sent \o Sending(buffer)
                            /\ buffer' = Started(Cleared(buffer), n, s)
                            /\ opt' = s.opt
                       ELSE /\ buffer' = IF Empty(buffer) THEN Started(buffer, n, s)
                                                          ELSE Merged(buffer, n, s)
                            /\ UNCHANGED <<sent, opt>>
        /\ seq' = IF Apart(s) \/ Empty(buffer) THEN Following(s.seq, s.len)
                                               ELSE Following(seq, s.len)
        /\ pc' = [pc EXCEPT ![h] = "push"]
        /\ UNCHANGED <<lock, timer, sleep, arrived, held>>

\* Mutant: PSH is not among the flags that send the buffer.
PushesFin(s) == "FIN" \in s.flags

Pushes(s) == s.flags \cap {"FIN", "PSH"} # {}

\* Lines 50-53.
Push(h) ==
    /\ pc[h] = "push"
    /\ IF Pushes(arrived[held[h]])
       THEN sent' = sent \o Sending(buffer) /\ buffer' = Cleared(buffer)
       ELSE UNCHANGED <<sent, buffer>>
    /\ lock' = NoThread
    /\ pc' = [pc EXCEPT ![h] = "idle"]
    /\ UNCHANGED <<timer, sleep, arrived, held, seq, opt>>

bulk_tcp(h) ==
    PassOn(h) \/ ToBuffer(h) \/ Lock(h) \/ insert_tcp_to_buffer(h) \/ Push(h)

tcp_timedout_2 == Timer /\ UNCHANGED <<arrived, pc, held, seq, opt>>

\* Time passes while no thread can run.
Tick ==
    /\ \A h \in Handler : pc[h] = "idle"
    /\ Elapse
    /\ UNCHANGED <<arrived, pc, held, seq, opt>>

Next ==
    \/ \E h \in Handler : bulk_tcp(h) \/ \E s \in Segment : Receive(h, s)
    \/ tcp_timedout_2
    \/ Tick

Spec == Init /\ [][Next]_vars

\* All threads are scheduled and the clock runs; segments need not arrive.
FairSpec ==
    /\ Spec
    /\ \A h \in Handler : WF_vars(bulk_tcp(h))
    /\ WF_vars(tcp_timedout_2) /\ WF_vars(Tick)
-----------------------------------------------------------------------------
(***************************************************************************)
(* Properties.                                                             *)
(***************************************************************************)
TypeOK ==
    /\ BufferOK
    /\ arrived \in Seq(Segment)
    /\ pc \in [Handler -> {"idle", "test", "lock", "insert", "push"}]
    /\ held \in [Handler -> 0 .. Len(arrived)]
    /\ seq \in 0 .. SEQ - 1 /\ opt \in Opt \cup Garbage

\* Whatever the sizes of segments and options and whichever of the two ways a
\* segment goes into the buffer, nothing is written behind its end: insert_tcp_to_buffer
\* makes room (lines 73-80) for what bulk_tcp has let through (line 25).
NoOverrun == buffer.pos <= BUFFER_SIZE

InHand(h) == pc[h] \in {"test", "lock", "insert"}

\* Every segment received is in the hands of a thread, in the buffer or sent,
\* and in one place only, whatever the order in which handlers and timer get
\* the lock (lines 46-53 of bulk_tcp.c, 153-161 of bulk_buffer.c).  While the
\* timer empties the buffer it has sent, the segments are in both places.
NothingLost ==
    timer # "clear" =>
        \A n \in 1 .. Len(arrived) :
            Cardinality({h \in Handler : InHand(h) /\ held[h] = n})
            + Cardinality({a \in Places : Number(a) = n}) = 1

\* Those segments of a packet that go through the buffer, in order.
Through(c) ==
    Concatenation([m \in DOMAIN c |-> IF Untouched(arrived[c[m]]) THEN <<>> ELSE <<c[m]>>])

\* All of them, in the order of their data in what was sent and in the buffer.
InBuffers == Concatenation([k \in DOMAIN Given |-> Through(Given[k])])

\* That stream only grows at the end, by the segment of the handler that has the
\* lock: merging, making room, PSH and the timer never let a segment overtake
\* one that was inserted before it (lines 73-92).
InOrder ==
    [][\/ InBuffers' = InBuffers
       \/ \E h \in Handler : lock = h /\ InBuffers' = Append(InBuffers, held[h])]_vars

\* The data of merged segments is consecutive: every byte is at the place in
\* the merged segment that its sequence number gives it (line 77).
Contiguous ==
    \A k \in DOMAIN Out : \A m \in 1 .. Len(Out[k]) - 1 :
        LET s == arrived[Out[k][m]]
        IN  arrived[Out[k][m + 1]].seq = (s.seq + s.len) % SEQ

Members(c) == {arrived[c[m]] : m \in DOMAIN c}

\* A merged segment has exactly the flags of the segments in it (lines 55-56).
FlagsKept ==
    \A k \in DOMAIN sent :
        sent[k].head.flags = UNION {s.flags : s \in Members(sent[k].content)}

\* A segment with PSH or FIN is never left waiting in the buffer (line 50).
PushNotHeld ==
    lock = NoThread => \A s \in Members(buffer.content) : s.flags \cap {"FIN", "PSH"} = {}

\* What test_flag_A expects of the acknowledgement of a merged segment: the
\* largest of the segments with ACK.
AckKept ==
    \A k \in DOMAIN sent :
        LET acks == {s.ack : s \in {s \in Members(sent[k].content) : "ACK" \in s.flags}}
        IN  acks # {} => sent[k].head.ack \in acks /\ \A a \in acks : a <= sent[k].head.ack

\* Every segment received is sent, by a later segment, by its flags or by the
\* timer.
SegmentSent ==
    \A n \in 1 .. MaxArrivals :
        n <= Len(arrived) ~> \E a \in Places : a[1] <= Len(sent) /\ Number(a) = n
=============================================================================
