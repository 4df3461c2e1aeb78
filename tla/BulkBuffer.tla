----------------------------- MODULE BulkBuffer -----------------------------
(***************************************************************************)
(* The buffer in which the bulk services collect packets                   *)
(* (src/services/lib/bulk_buffer.c), and the thread that sends a buffer    *)
(* that is too old (src/services/bulk/bulk.c).  BulkTcp and BulkPkt add    *)
(* the handlers that fill it and make specifications of it.  One flow has  *)
(* one buffer, and this is the buffer of one flow.                         *)
(*                                                                         *)
(* What is copied into the buffer is named by a number: n for the n-th     *)
(* packet that arrived, 0 for a header on its own.  Time is counted in     *)
(* units of the timer, and last_send is held as its age, which stops       *)
(* growing at twice DELTA_SEND.                                            *)
(***************************************************************************)
EXTENDS Integers, Streams

CONSTANTS
    BUFFER_SIZE,  \* option --buffer
    DELTA_SEND,   \* option --delta
    Handler,      \* the threads that handle packets: the consumers, or main
    NoThread

ASSUME BufferAssumption ==
    /\ BUFFER_SIZE \in Nat \ {0} /\ DELTA_SEND \in Nat \ {0}
    /\ "timer" \notin Handler /\ NoThread \notin Handler \cup {"timer"}

VARIABLES
    buffer, \* struct bulk_buffer; nbr is the length of content
    lock,   \* the thread that holds buffer->lock
    timer,  \* where the timer is: see Timer
    sleep,  \* what is left of its usleep
    sent    \* what was given to send_ip6_packet, in order

Age == 0 .. 2 * DELTA_SEND

InitBuffer(head) ==
    /\ buffer = [content |-> <<>>, pos |-> 0, last_send |-> 0, head |-> head]
    /\ lock = NoThread
    /\ timer = "sleep" /\ sleep = DELTA_SEND
    /\ sent = <<>>

Empty(b) == b.pos = 0

available_space(b, offset) == BUFFER_SIZE - (IF Empty(b) THEN offset ELSE b.pos)

add_to_buffer(b, n, len) ==
    [b EXCEPT !.content = Append(@, n), !.pos = @ + len,
              !.last_send = IF b.content = <<>> THEN 0 ELSE @]

\* send_buffer: what it sends and the buffer it leaves.  The lengths and the
\* checksum it rewrites follow from the content.
Image(b) == [content |-> b.content, head |-> b.head]

Sending(b) == IF Empty(b) THEN <<>> ELSE <<Image(b)>>

Cleared(b) == [b EXCEPT !.content = <<>>, !.pos = 0]
-----------------------------------------------------------------------------
(***************************************************************************)
(* tcp_timedout_2 and pkt_timedout, and the clock.                         *)
(***************************************************************************)
Wake ==
    /\ timer = "sleep" /\ sleep = 0
    /\ timer' = "lock"
    /\ UNCHANGED <<buffer, lock, sleep, sent>>

\* Mutant: the timer does not take the lock.
SendUnlocked ==
    /\ timer = "lock"
    /\ timer' = "send"
    /\ UNCHANGED <<buffer, lock, sleep, sent>>

LockOld ==
    /\ timer = "lock" /\ lock = NoThread
    /\ lock' = "timer"
    /\ timer' = "send"
    /\ UNCHANGED <<buffer, sleep, sent>>

\* Mutants: > instead of >=, = instead of >=.
OldLate(b) == ~Empty(b) /\ b.last_send > DELTA_SEND
OldExactly(b) == ~Empty(b) /\ b.last_send = DELTA_SEND

Old(b) == ~Empty(b) /\ b.last_send >= DELTA_SEND

\* send_old_buffer, lines 155-161, and send_buffer: the packet is handed over
\* before the buffer is emptied.
SendOld ==
    /\ timer = "send"
    /\ sent' = IF Old(buffer) THEN sent \o Sending(buffer) ELSE sent
    /\ timer' = IF Old(buffer) THEN "clear" ELSE "unlock"
    /\ UNCHANGED <<buffer, lock, sleep>>

ClearOld ==
    /\ timer = "clear"
    /\ buffer' = Cleared(buffer)
    /\ timer' = "unlock"
    /\ UNCHANGED <<lock, sleep, sent>>

Unlock ==
    /\ timer = "unlock"
    /\ lock' = NoThread
    /\ timer' = "sleep" /\ sleep' = DELTA_SEND
    /\ UNCHANGED <<buffer, sent>>

Timer == Wake \/ LockOld \/ SendOld \/ ClearOld \/ Unlock

Elapse ==
    /\ timer = "sleep" /\ sleep > 0
    /\ sleep' = sleep - 1
    /\ buffer' = [buffer EXCEPT !.last_send =
                      IF Empty(buffer) THEN 0
                      ELSE IF @ < 2 * DELTA_SEND THEN @ + 1 ELSE @]
    /\ UNCHANGED <<lock, timer, sent>>
-----------------------------------------------------------------------------
BufferOK ==
    /\ DOMAIN buffer = {"content", "pos", "last_send", "head"}
    /\ buffer.pos \in Nat /\ buffer.last_send \in Age
    /\ Empty(buffer) <=> buffer.content = <<>>
    /\ lock \in Handler \cup {"timer", NoThread}
    /\ timer \in {"sleep", "lock", "send", "clear", "unlock"}
    /\ sleep \in 0 .. DELTA_SEND

\* The contents of what was sent, in order, and then of the buffer.
Out == [k \in 1 .. Len(sent) + 1 |->
           IF k <= Len(sent) THEN sent[k].content ELSE buffer.content]

\* The same while the timer has sent the buffer and not yet emptied it.
Given == IF timer = "clear" THEN SubSeq(Out, 1, Len(sent)) ELSE Out

Places == UNION {{<<k, m>> : m \in DOMAIN Out[k]} : k \in DOMAIN Out}

Number(a) == Out[a[1]][a[2]]

\* Nothing waits in the buffer for two periods of the timer.
WithinTwoDeltas == ~Empty(buffer) => buffer.last_send < 2 * DELTA_SEND
=============================================================================
