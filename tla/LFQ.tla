------------------------------- MODULE LFQ --------------------------------
(***************************************************************************)
(* The lock-free queue of services/lib/lfq.c, one action per access to     *)
(* shared memory.  lfq_push and lfq_pop are the same algorithm at the two  *)
(* ends of the queue: a thread working at the "head" end is a producer, a  *)
(* thread at the "tail" end a consumer, and every action below is the      *)
(* statement of both functions for the end of the thread that takes it.    *)
(*                                                                         *)
(*   q.head, q.tail            -> q["head"], q["tail"]                     *)
(*   q.last_head, q.last_tail  -> last["head"], last["tail"]               *)
(*   q.thr_p[i].head / .tail   -> thr_p[<<"head", i>>], thr_p[<<"tail",i>>] *)
(*                                                                         *)
(* Memory is sequentially consistent: the program is x86-64 only           *)
(* (lfq.h:4-6), the fetch-and-add is a full fence there, and delaying the  *)
(* plain stores only keeps older, more conservative values visible.        *)
(***************************************************************************)
EXTENDS Integers, Sequences

CONSTANTS
    NProd, NCons,   \* n_prod, n_cons
    Q_SIZE,
    ULONG_MAX,      \* the mark of an idle thread: above every ticket
    MaxPush,        \* bound: how many packets each producer pushes
    NoItem

ASSUME SizeAssumption == Q_SIZE \in Nat \ {0}
ASSUME ThreadAssumption == NProd \in Nat \ {0} /\ NCons \in Nat \ {0}
ASSUME IdleAssumption == ULONG_MAX \in Nat

Ends == {"head", "tail"}
Other(e) == IF e = "head" THEN "tail" ELSE "head"
Count(e) == IF e = "head" THEN NProd ELSE NCons

\* A thread is the end it works at and its thr_id().
Producers == {"head"} \X (0 .. NProd - 1)
Consumers == {"tail"} \X (0 .. NCons - 1)
Thread == Producers \cup Consumers

VARIABLES
    q, last, thr_p, ptr_array,  \* the shared struct lfqueue
    pc, reg, min, i,            \* per thread: next step, register, lines 62-63
    el,         \* el[c]: the wrapper lfq_pop filled last for consumer c
    sent,       \* sent[p]: pushes of p that have returned
    pushed      \* history: pushed[k+1] is the item of the push with ticket k

vars == <<q, last, thr_p, ptr_array, pc, reg, min, i, el, sent, pushed>>

\* The n-th packet that producer p pushes.
Packet(p, n) == <<p, n>>
Item == Producers \X Nat

ASSUME ItemAssumption == NoItem \notin Item

Init ==
    /\ q = [e \in Ends |-> 0]
    /\ last = [e \in Ends |-> 0]
    /\ thr_p = [t \in Thread |-> ULONG_MAX]
    /\ ptr_array = [s \in 0 .. Q_SIZE - 1 |-> NoItem]
    /\ pc = [t \in Thread |-> "idle"]
    /\ reg = [t \in Thread |-> 0]
    /\ min = [t \in Thread |-> 0]
    /\ i = [t \in Thread |-> 0]
    /\ el = [c \in Consumers |-> NoItem]
    /\ sent = [p \in Producers |-> 0]
    /\ pushed = <<>>

Goto(t, from, to) == pc[t] = from /\ pc' = [pc EXCEPT ![t] = to]

-----------------------------------------------------------------------------
(* Taking a ticket: lines 58-59 and 88-89. *)

\* The call begins: the thread reads its end's counter ...
Load(t) ==
    /\ t \in Producers => sent[t] < MaxPush
    /\ Goto(t, "idle", "announce")
    /\ reg' = [reg EXCEPT ![t] = q[t[1]]]
    /\ UNCHANGED <<q, last, thr_p, ptr_array, min, i, el, sent, pushed>>

\* Mutant: the position is not announced before the ticket is taken.
AnnounceSkipped(t) ==
    /\ Goto(t, "announce", "claim")
    /\ UNCHANGED <<q, last, thr_p, ptr_array, reg, min, i, el, sent, pushed>>

\* ... and announces a position not above the ticket it is about to take,
Announce(t) ==
    /\ Goto(t, "announce", "claim")
    /\ thr_p' = [thr_p EXCEPT ![t] = reg[t]]
    /\ UNCHANGED <<q, last, ptr_array, reg, min, i, el, sent, pushed>>

\* Mutant: the counter is advanced from the value read before, not atomically.
ClaimNotAtomic(t) ==
    /\ Goto(t, "claim", "record")
    /\ q' = [q EXCEPT ![t[1]] = reg[t] + 1]
    /\ pushed' = IF t \in Producers
                    THEN SubSeq(pushed, 1, reg[t]) \o <<Packet(t, sent[t])>> ELSE pushed
    /\ UNCHANGED <<last, thr_p, ptr_array, reg, min, i, el, sent>>

\* takes the ticket with __sync_fetch_and_add,
Claim(t) ==
    /\ Goto(t, "claim", "record")
    /\ reg' = [reg EXCEPT ![t] = q[t[1]]]
    /\ q' = [q EXCEPT ![t[1]] = @ + 1]
    /\ pushed' = IF t \in Producers THEN Append(pushed, Packet(t, sent[t])) ELSE pushed
    /\ UNCHANGED <<last, thr_p, ptr_array, min, i, el, sent>>

\* and records it in its cell of thr_p.
Record(t) ==
    /\ Goto(t, "record", "wait")
    /\ thr_p' = [thr_p EXCEPT ![t] = reg[t]]
    /\ UNCHANGED <<q, last, ptr_array, reg, min, i, el, sent, pushed>>

-----------------------------------------------------------------------------
(* Waiting for the other end: the while loops of lines 61-79 and 91-109. *)

\* Mutant: one ticket too many may be in flight.
MustWaitOffByOne(t) ==
    IF t \in Producers THEN thr_p[t] > last["tail"] + Q_SIZE
                       ELSE thr_p[t] > last["head"]

\* A producer may run Q_SIZE tickets ahead of the slowest consumer, a consumer
\* must stay behind the slowest producer.
MustWait(t) ==
    IF t \in Producers THEN thr_p[t] >= last["tail"] + Q_SIZE
                       ELSE thr_p[t] >= last["head"]

TestLast(t) ==
    /\ Goto(t, "wait", IF MustWait(t) THEN "bound" ELSE "copy")
    /\ UNCHANGED <<q, last, thr_p, ptr_array, reg, min, i, el, sent, pushed>>

\* The bound starts at the other end's counter ...
Bound(t) ==
    /\ Goto(t, "bound", "scan")
    /\ min' = [min EXCEPT ![t] = q[Other(t[1])]]
    /\ i' = [i EXCEPT ![t] = 0]
    /\ UNCHANGED <<q, last, thr_p, ptr_array, reg, el, sent, pushed>>

\* ... is lowered to every announced position there, one cell at a time ...
Scan(t) ==
    LET e == Other(t[1])
        tmp == thr_p[<<e, i[t]>>]
    IN  /\ Goto(t, "scan", IF i[t] + 1 < Count(e) THEN "scan" ELSE "store")
        /\ min' = [min EXCEPT ![t] = IF tmp < @ THEN tmp ELSE @]
        /\ i' = [i EXCEPT ![t] = @ + 1]
        /\ UNCHANGED <<q, last, thr_p, ptr_array, reg, el, sent, pushed>>

\* Mutant: the counter is published, not the minimum over the threads.
StoreCounter(t) ==
    /\ Goto(t, "store", "retest")
    /\ last' = [last EXCEPT ![Other(t[1])] = q[Other(t[1])]]
    /\ UNCHANGED <<q, thr_p, ptr_array, reg, min, i, el, sent, pushed>>

\* ... and is published, over whatever another thread published meanwhile.
StoreLast(t) ==
    /\ Goto(t, "store", "retest")
    /\ last' = [last EXCEPT ![Other(t[1])] = min[t]]
    /\ UNCHANGED <<q, thr_p, ptr_array, reg, min, i, el, sent, pushed>>

\* Mutant: the thread spins on the published bound and never scans again.
RetestSpins(t) ==
    /\ Goto(t, "retest", IF MustWait(t) THEN "retest" ELSE "copy")
    /\ UNCHANGED <<q, last, thr_p, ptr_array, reg, min, i, el, sent, pushed>>

Retest(t) ==
    /\ Goto(t, "retest", IF MustWait(t) THEN "wait" ELSE "copy")
    /\ UNCHANGED <<q, last, thr_p, ptr_array, reg, min, i, el, sent, pushed>>

-----------------------------------------------------------------------------
(* Using the slot and giving the ticket back: lines 81-83 and 111-113. *)

Slot(t) == thr_p[t] % Q_SIZE

Copy(t) ==
    /\ Goto(t, "copy", "release")
    /\ \/ /\ t \in Producers
          /\ ptr_array' = [ptr_array EXCEPT ![Slot(t)] = Packet(t, sent[t])]
          /\ UNCHANGED el
       \/ /\ t \in Consumers
          /\ el' = [el EXCEPT ![t] = ptr_array[Slot(t)]]
          /\ UNCHANGED ptr_array
    /\ UNCHANGED <<q, last, thr_p, reg, min, i, sent, pushed>>

\* Mutant: the cell is not set back to the idle mark.
ReleaseKeepsCell(t) ==
    /\ Goto(t, "release", "idle")
    /\ sent' = IF t \in Producers THEN [sent EXCEPT ![t] = @ + 1] ELSE sent
    /\ UNCHANGED <<q, last, thr_p, ptr_array, reg, min, i, el, pushed>>

Release(t) ==
    /\ Goto(t, "release", "idle")
    /\ thr_p' = [thr_p EXCEPT ![t] = ULONG_MAX]
    /\ sent' = IF t \in Producers THEN [sent EXCEPT ![t] = @ + 1] ELSE sent
    /\ UNCHANGED <<q, last, ptr_array, reg, min, i, el, pushed>>

-----------------------------------------------------------------------------
Step(t) ==
    \/ Load(t) \/ Announce(t) \/ Claim(t) \/ Record(t)
    \/ TestLast(t) \/ Bound(t) \/ Scan(t) \/ StoreLast(t) \/ Retest(t)
    \/ Copy(t) \/ Release(t)

lfq_push(p) == Step(p)
lfq_pop(c) == Step(c)

Next == (\E p \in Producers : lfq_push(p)) \/ (\E c \in Consumers : lfq_pop(c))

Spec == Init /\ [][Next]_vars

\* Every thread is a kernel thread of a preemptive, fair scheduler; the loops
\* spin and never block, so a thread that can step eventually does.
Fairness == \A t \in Thread : WF_vars(Step(t))
FairSpec == Spec /\ Fairness

-----------------------------------------------------------------------------
(* Properties. *)

Labels == {"idle", "announce", "claim", "record", "wait", "bound", "scan",
           "store", "retest", "copy", "release"}

\* A thread that has a ticket and has not used its slot yet.
Pending(t) == pc[t] \in {"record", "wait", "bound", "scan", "store", "retest", "copy"}

\* Every variable keeps its type: counters, cells and bounds are numbers, a
\* scan stays within the cells of the other end, slots hold packets.
TypeOK ==
    /\ q \in [Ends -> Nat]
    /\ last \in [Ends -> Nat]
    /\ thr_p \in [Thread -> Nat]
    /\ ptr_array \in [0 .. Q_SIZE - 1 -> Item \cup {NoItem}]
    /\ pc \in [Thread -> Labels]
    /\ reg \in [Thread -> Nat]
    /\ min \in [Thread -> Nat]
    /\ i \in [Thread -> Nat]
    /\ \A t \in Thread : pc[t] = "scan" => i[t] < Count(Other(t[1]))
    /\ el \in [Consumers -> Item \cup {NoItem}]
    /\ sent \in [Producers -> Nat]
    /\ pushed \in Seq(Item)
    /\ Len(pushed) = q["head"]

\* The published bounds are safe whichever thread wrote them last and however
\* late: no ticket below last_head (last_tail) is still to be written (read),
\* nor will one be handed out.  This is what both waits rest on.
LastSound ==
    \A e \in Ends :
        /\ last[e] <= q[e]
        /\ \A t \in Thread : t[1] = e /\ Pending(t) => last[e] <= reg[t]

\* No slot is copied by two threads at once, be it two producers, or a producer
\* and a consumer: no packet is overwritten before it is read, none is read
\* half-written.  It also justifies modelling each memcpy as one step.
NoSlotRace ==
    \A t, u \in Thread :
        t # u /\ pc[t] = "copy" /\ pc[u] = "copy" => Slot(t) # Slot(u)

\* The consumer that took ticket k obtains the packet pushed with ticket k: no
\* packet is lost, delivered twice, or read before it was written.
DeliveredInTicketOrder ==
    \A c \in Consumers :
        pc[c] = "release" => /\ reg[c] < Len(pushed)
                             /\ el[c] = pushed[reg[c] + 1]

-----------------------------------------------------------------------------
(* The inductive invariant: why the three safety properties above hold. *)

\* A written (read) ticket is one whose push (pop) has used its slot.
Written(k) == k < q["head"] /\ \A p \in Producers : Pending(p) => reg[p] # k
Read(k) == k < q["tail"] /\ \A c \in Consumers : Pending(c) => reg[c] # k

\* Every pop up to Q_SIZE tickets behind k is over; every push up to k is over.
SpaceFor(k) ==
    k < q["tail"] + Q_SIZE /\ \A c \in Consumers : Pending(c) => k < reg[c] + Q_SIZE
AllWritten(k) ==
    k < q["head"] /\ \A p \in Producers : Pending(p) => k < reg[p]

\* Two threads never have the same ticket, and tickets come from the counter.
TicketsDistinct ==
    \A t \in Thread : Pending(t) =>
        /\ reg[t] < q[t[1]]
        /\ \A u \in Thread : u # t /\ u[1] = t[1] /\ Pending(u) => reg[u] # reg[t]

\* What the others see in a thread's cell is never above its ticket.
CellsBelowTickets ==
    \A t \in Thread :
        /\ pc[t] = "announce" => reg[t] <= q[t[1]]
        /\ pc[t] = "claim" => thr_p[t] <= q[t[1]]
        /\ pc[t] = "record" => thr_p[t] <= reg[t]
        /\ pc[t] # "record" /\ Pending(t) => thr_p[t] = reg[t]

\* A bound being computed is sound for the cells already scanned.
ScanSound ==
    \A t \in Thread : pc[t] \in {"scan", "store"} =>
        /\ min[t] <= q[Other(t[1])]
        /\ \A u \in Thread :
               u[1] = Other(t[1]) /\ Pending(u) /\ (pc[t] = "store" \/ u[2] < i[t])
                   => min[t] <= reg[u]

\* A thread copies only once its slot is free (its packet is written).
Admitted ==
    \A t \in Thread : pc[t] = "copy" =>
        IF t \in Producers THEN SpaceFor(reg[t]) ELSE AllWritten(reg[t])

\* A written slot keeps its packet until the pop with that ticket has read it.
SlotsHold ==
    /\ \A k \in 0 .. q["head"] - 1 : Written(k) =>
           /\ SpaceFor(k)
           /\ Read(k) \/ ptr_array[k % Q_SIZE] = pushed[k + 1]
    /\ \A k \in 0 .. q["tail"] - 1 : Read(k) => AllWritten(k)

\* The packet of a push under way is the one its ticket stands for.
PacketOfTicket ==
    \A p \in Producers : Pending(p) => pushed[reg[p] + 1] = Packet(p, sent[p])

Inv ==
    /\ TypeOK
    /\ TicketsDistinct
    /\ CellsBelowTickets
    /\ ScanSound
    /\ LastSound
    /\ Admitted
    /\ SlotsHold
    /\ PacketOfTicket
    /\ DeliveredInTicketOrder

-----------------------------------------------------------------------------
(* Refinement and liveness. *)

\* The queue implements the FIFO hand-off of PacketQueue.  A push takes effect
\* when it takes its ticket; a pop is assigned its packet as soon as both it
\* and the push with the same ticket have theirs.
Assigned(c) == Pending(c) /\ reg[c] < q["head"]

Sent == [p \in Producers |->
            sent[p] + (IF Pending(p) \/ pc[p] = "release" THEN 1 ELSE 0)]

\* The packets without a pop, and the pops without a packet.
Queue   == [k \in 1 .. q["head"] - q["tail"] |-> pushed[q["tail"] + k]]
Waiting == [k \in 1 .. q["tail"] - q["head"] |->
               CHOOSE c \in Consumers : Pending(c) /\ reg[c] = q["head"] + k - 1]

Got == [c \in Consumers |-> IF Assigned(c) THEN pushed[reg[c] + 1] ELSE NoItem]

Abstract == INSTANCE PacketQueue WITH
    sent <- Sent, queue <- Queue, waiting <- Waiting, got <- Got

AbstractSpec == Abstract!Spec

\* A push that has its ticket returns, also when the queue was full: some
\* consumer eventually frees the slot and the producer eventually sees it.
PushReturns == \A p \in Producers : pc[p] = "record" ~> pc[p] = "idle"

\* Every packet pushed is eventually obtained by a consumer, although waiting
\* threads keep overwriting each other's published bounds with older values.
EveryPacketObtained ==
    \A p \in Producers : \A k \in 0 .. NProd * MaxPush - 1 :
        pc[p] = "record" /\ reg[p] = k
            ~> \E c \in Consumers : k < Len(pushed) /\ el[c] = pushed[k + 1]
=============================================================================
