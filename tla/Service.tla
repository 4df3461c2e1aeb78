------------------------------ MODULE Service -------------------------------
(***************************************************************************)
(* A service as it runs: the netlink thread hands the frames in which      *)
(* packets arrive to the consumers (multi_threading.c, service.c); each    *)
(* looks up the flow of its packet, adds the packet to the buffer of the   *)
(* flow or sends it, and gives the frame back; the timer walks over the    *)
(* flows (bulk.c); all of them send through sockets whose lock they take   *)
(* (utils.c).  With --threads 0 main does the consumers' work.             *)
(*                                                                         *)
(* The hand-off is PacketQueue, which LFQ and PCBuffer implement.  What is *)
(* in a buffer, and when it is sent, is BulkTcp; here it is a set of       *)
(* packets.  A packet is the number of packets that came before it, and    *)
(* lies in frame n % Frames of the ring.                                   *)
(***************************************************************************)
EXTENDS FlowTable, FiniteSets

CONSTANTS
    Consumers,
    Frames,     \* frames of the ring the kernel writes packets to
    NoItem,
    Arrivals,   \* bound: the keys of packets that may arrive one after another
    MaxFaults   \* bound: how often a socket has no frame free

ASSUME ServiceAssumption ==
    /\ IsFiniteSet(Consumers)
    /\ Thread = Consumers \cup {"main"} /\ "main" \notin Consumers
    /\ "timer" \notin Thread /\ NoThread # "timer" /\ NoItem \notin {"main"} \X Nat
    /\ Frames \in Nat \ {0} /\ Arrivals \subseteq Seq(Key) /\ MaxFaults \in Nat

Sender == Thread \cup {"timer"}

VARIABLES
    n_threads, \* 0, or the number of consumers
    arrived,   \* the keys of the packets that arrived, in order
    frame,     \* what is in each frame of the ring, and its nm_status
    read,      \* packets main has taken from the ring
    sent, queue, waiting, got, el, \* the hand-off, see PacketQueue
    step,      \* where each thread is in its loop, the timer in its walk
    walk,      \* fl, tmp1, f and tmp2 of tcp_timedout_2
    buffer,    \* for each flow: packets, who has its lock, seen by the last walk
    out,       \* what each thread is sending
    sk_lock,   \* who has the lock of each socket; a socket has the name of its owner
    faults,    \* how often a socket had no frame
    left       \* packets sent

handoffVars == <<sent, queue, waiting, got, el>>
vars == <<tableVars, handoffVars, n_threads, arrived, frame, read, step, walk, buffer,
          out, sk_lock, faults, left>>

Handoff == INSTANCE PacketQueue WITH Producers <- {"main"}

Init ==
    /\ InitTable /\ Handoff!Init
    /\ n_threads \in {0, Cardinality(Consumers)}
    /\ arrived = <<>> /\ read = 0
    /\ frame = [i \in 0 .. Frames - 1 |-> [packet |-> 0, status |-> "unused"]]
    /\ step = [s \in Sender |-> "wait"]
    /\ walk = [fl |-> 0, tmp1 |-> 0, f |-> 0, tmp2 |-> 0]
    /\ buffer = <<>>
    /\ out = [s \in Sender |-> {}]
    /\ sk_lock = [s \in Sender \ {"timer"} |-> NoThread]
    /\ faults = 0 /\ left = {}

FrameOf(n) == n % Frames

\* The packet in the hands of a thread.
Held(t) == IF t = "main" THEN read - 1 ELSE el[t][2]

Step(s, from, to) == step[s] = from /\ step' = [step EXCEPT ![s] = to]
-----------------------------------------------------------------------------
(***************************************************************************)
(* The kernel, main, and the way to a consumer.                            *)
(***************************************************************************)
Arrive(k) ==
    /\ Append(arrived, k) \in Arrivals
    /\ frame[FrameOf(Len(arrived))].status = "unused"
    /\ frame' = [frame EXCEPT ![FrameOf(Len(arrived))] =
                    [packet |-> Len(arrived), status |-> "valid"]]
    /\ arrived' = Append(arrived, k)
    /\ UNCHANGED <<tableVars, handoffVars, n_threads, read, step, walk, buffer, out, sk_lock,
                   faults, left>>

Ready == read < Len(arrived) /\ frame[FrameOf(read)].status = "valid"

\* Mutant: delayed_release is not set, the library releases the frame itself.
ProduceReleased ==
    /\ n_threads > 0 /\ Ready
    /\ Handoff!PutQueued("main") \/ Handoff!PutServed("main")
    /\ read' = read + 1
    /\ frame' = [frame EXCEPT ![FrameOf(read)].status = "unused"]
    /\ UNCHANGED <<tableVars, n_threads, arrived, step, walk, buffer, out, sk_lock, faults, left>>

\* producer_lfq_service and producer_mut_service; init_threading has set
\* delayed_release.
Produce ==
    /\ n_threads > 0 /\ Ready
    /\ Handoff!PutQueued("main") \/ Handoff!PutServed("main")
    /\ read' = read + 1
    /\ frame' = [frame EXCEPT ![FrameOf(read)].status = "lent"]
    /\ UNCHANGED <<tableVars, n_threads, arrived, step, walk, buffer, out, sk_lock, faults, left>>

\* Without consumers the service is the callback itself.
CallBack ==
    /\ n_threads = 0 /\ Ready
    /\ Step("main", "wait", "service")
    /\ read' = read + 1
    /\ UNCHANGED <<tableVars, handoffVars, n_threads, arrived, frame, walk, buffer, out, sk_lock,
                   faults, left>>

Ask(c) ==
    /\ n_threads > 0 /\ step[c] = "wait"
    /\ Handoff!AskServed(c) \/ Handoff!AskWaits(c)
    /\ UNCHANGED <<tableVars, n_threads, arrived, frame, read, step, walk, buffer, out, sk_lock,
                   faults, left>>

Obtain(c) ==
    /\ Step(c, "wait", "service")
    /\ Handoff!Finish(c)
    /\ UNCHANGED <<tableVars, n_threads, arrived, frame, read, walk, buffer, out, sk_lock, faults,
                   left>>

\* Lines 86-89 and 128-131 of multi_threading.c.
GiveBack(t) ==
    /\ Step(t, "back", "wait")
    /\ frame' = [frame EXCEPT ![FrameOf(Held(t))].status = "unused"]
    /\ UNCHANGED <<tableVars, handoffVars, n_threads, arrived, read, walk, buffer, out, sk_lock,
                   faults, left>>
-----------------------------------------------------------------------------
(***************************************************************************)
(* The service: what it does with the packet, and send_ip6_packet.         *)
(***************************************************************************)
keep == <<handoffVars, n_threads, arrived, frame, read>>

\* forward_service, and the packets a bulk service does not touch.
Forward(t) ==
    /\ Step(t, "service", "send")
    /\ out' = [out EXCEPT ![t] = {Held(t)}]
    /\ UNCHANGED <<keep, tableVars, walk, buffer, sk_lock, faults, left>>

FindFlow(t) ==
    /\ Step(t, "service", "look up")
    /\ Call(t, arrived[Held(t) + 1])
    /\ UNCHANGED <<keep, walk, buffer, out, sk_lock, faults, left>>

init_bulk_buffer == [packets |-> {}, lock |-> NoThread, seen |-> FALSE]

\* A flow that is added has a buffer (init_tcp_flow_2).
Lookup(t) ==
    /\ step[t] = "look up"
    /\ LookUp(t)
    /\ buffer' = [f \in DOMAIN flows' |->
                     IF f \in DOMAIN flows THEN buffer[f] ELSE init_bulk_buffer]
    /\ UNCHANGED <<keep, step, walk, out, sk_lock, faults, left>>

\* Under the lock of the buffer the packet is added; or the buffer is sent to
\* make room for it; or the buffer is sent with it.
Insert(t) ==
    LET b == buffer[res[t]]
        p == {Held(t)}
    IN  /\ Return(t) /\ b.lock = NoThread
        /\ \/ /\ Step(t, "look up", "back")
              /\ buffer' = [buffer EXCEPT ![res[t]].packets = @ \cup p]
              /\ UNCHANGED out
           \/ /\ Step(t, "look up", "send")
              /\ \/ /\ b.packets # {}
                    /\ out' = [out EXCEPT ![t] = b.packets]
                    /\ buffer' = [buffer EXCEPT ![res[t]] =
                                     [packets |-> p, lock |-> t, seen |-> FALSE]]
                 \/ /\ out' = [out EXCEPT ![t] = b.packets \cup p]
                    /\ buffer' = [buffer EXCEPT ![res[t]] =
                                     [packets |-> {}, lock |-> t, seen |-> FALSE]]
        /\ UNCHANGED <<keep, walk, sk_lock, faults, left>>

\* The timer sends through the socket of main, a consumer through its own.
sk(s) == IF s = "timer" THEN "main" ELSE s

After(s) == IF s = "timer" THEN "next" ELSE "back"

LockSocket(s) ==
    /\ sk_lock[sk(s)] = NoThread
    /\ Step(s, "send", "create")
    /\ sk_lock' = [sk_lock EXCEPT ![sk(s)] = s]
    /\ UNCHANGED <<keep, tableVars, walk, buffer, out, faults, left>>

Released(s) == [f \in DOMAIN buffer |-> IF buffer[f].lock = s THEN [buffer[f] EXCEPT !.lock = NoThread]
                                                             ELSE buffer[f]]

\* Mutant: the lock of the socket is not given back after the packet is sent.
SendKeepsLock(s) ==
    /\ Step(s, "create", After(s))
    /\ left' = left \cup out[s]
    /\ out' = [out EXCEPT ![s] = {}]
    /\ buffer' = Released(s)
    /\ UNCHANGED <<keep, tableVars, walk, sk_lock, faults>>

Send(s) ==
    /\ Step(s, "create", After(s))
    /\ left' = left \cup out[s]
    /\ out' = [out EXCEPT ![s] = {}]
    /\ sk_lock' = [sk_lock EXCEPT ![sk(s)] = NoThread]
    /\ buffer' = Released(s)
    /\ UNCHANGED <<keep, tableVars, walk, faults>>

\* Lines 54-58 of utils.c: no frame is free, and the lock is not given back.
NoFrame(s) ==
    /\ faults < MaxFaults
    /\ Step(s, "create", After(s))
    /\ faults' = faults + 1
    /\ out' = [out EXCEPT ![s] = {}]
    /\ buffer' = Released(s)
    /\ UNCHANGED <<keep, tableVars, walk, sk_lock, left>>
-----------------------------------------------------------------------------
(***************************************************************************)
(* tcp_timedout_2: HASH_ITER has the next flow ready before it handles one *)
(* and takes no lock of the tables.                                        *)
(***************************************************************************)
LeastOf(S) == IF S = {} THEN 0 ELSE CHOOSE f \in S : \A g \in S : f <= g

First(T) == LeastOf({f \in DOMAIN flows : flows[f].in = T})
Succ(f)  == IF f = 0 THEN 0
             ELSE LeastOf({g \in DOMAIN flows : g > f /\ flows[g].in = flows[f].in})

walkKeep == <<keep, tableVars, sk_lock, faults, left>>

\* From one flow to the next, which is read now for the time after it.
Outer(f) == walk' = [walk EXCEPT !.fl = f, !.tmp1 = Succ(f)]
Inner(f) == walk' = [walk EXCEPT !.f = f, !.tmp2 = Succ(f)]

Wake ==
    /\ Step("timer", "wait", "outer")
    /\ Outer(First(0))
    /\ UNCHANGED <<walkKeep, buffer, out>>

Enter ==
    /\ Step("timer", "outer", IF walk.fl = 0 THEN "wait" ELSE "inner")
    /\ Inner(First(walk.fl))
    /\ UNCHANGED <<walkKeep, buffer, out>>

Leave ==
    /\ walk.f = 0
    /\ Step("timer", "inner", "outer")
    /\ Outer(walk.tmp1)
    /\ UNCHANGED <<walkKeep, buffer, out>>

\* send_old_buffer: what was there a walk ago is old, other packets may be.
VisitYoung ==
    LET b == buffer[walk.f]
    IN  /\ walk.f # 0 /\ b.lock = NoThread /\ ~b.seen
        /\ step["timer"] = "inner"
        /\ buffer' = [buffer EXCEPT ![walk.f].seen = b.packets # {}]
        /\ Inner(walk.tmp2)
        /\ UNCHANGED <<walkKeep, step, out>>

\* Mutant: without the lock of the buffer, which send_buffer empties only when it has sent
\* it, others see the packets still in it.
VisitUnlocked ==
    LET b == buffer[walk.f]
    IN  /\ walk.f # 0 /\ b.packets # {}
        /\ Step("timer", "inner", "send")
        /\ out' = [out EXCEPT !["timer"] = b.packets]
        /\ UNCHANGED <<walkKeep, walk, buffer>>

VisitOld ==
    LET b == buffer[walk.f]
    IN  /\ walk.f # 0 /\ b.lock = NoThread /\ b.packets # {}
        /\ Step("timer", "inner", "send")
        /\ out' = [out EXCEPT !["timer"] = b.packets]
        /\ buffer' = [buffer EXCEPT ![walk.f] = [packets |-> {}, lock |-> "timer", seen |-> FALSE]]
        /\ UNCHANGED <<walkKeep, walk>>

Advance ==
    /\ Step("timer", "next", "inner")
    /\ Inner(walk.tmp2)
    /\ UNCHANGED <<walkKeep, buffer, out>>
-----------------------------------------------------------------------------
Output(s) == LockSocket(s) \/ Send(s) \/ NoFrame(s)

handle(t) ==
    FindFlow(t) \/ Forward(t) \/ Lookup(t) \/ Insert(t) \/ Output(t) \/ GiveBack(t)

tcp_timedout_2 ==
    Wake \/ Enter \/ Leave \/ VisitYoung \/ VisitOld \/ Advance \/ Output("timer")

Next ==
    \/ \E k \in Key : Arrive(k)
    \/ Produce \/ CallBack
    \/ \E c \in Consumers : Ask(c) \/ Obtain(c)
    \/ \E t \in Thread : handle(t)
    \/ tcp_timedout_2

Spec == Init /\ [][Next]_vars

\* Each thread is scheduled, packets need not arrive.
FairSpec ==
    /\ Spec
    /\ WF_vars(Produce \/ CallBack \/ handle("main"))
    /\ \A c \in Consumers : WF_vars(Ask(c) \/ Obtain(c) \/ handle(c))
    /\ WF_vars(tcp_timedout_2)
-----------------------------------------------------------------------------
(***************************************************************************)
(* Properties.                                                             *)
(***************************************************************************)
Working(t) == step[t] \in {"service", "look up"}

\* While a service works on a packet its frame still holds that packet: no
\* frame is given back to the kernel early (init_threading, and the order of
\* service() and nm_status in multi_threading.c).
FrameKept == \A t \in Thread : step[t] # "wait" => frame[FrameOf(Held(t))].packet = Held(t)

\* The places a packet may be in.
Copies(n) ==
    Cardinality({t \in Thread : Working(t) /\ Held(t) = n})
    + Cardinality({f \in DOMAIN buffer : n \in buffer[f].packets})
    + Cardinality({s \in Sender : n \in out[s]})
    + (IF n \in left THEN 1 ELSE 0)
    + (IF n >= read THEN 1 ELSE 0)
    + Cardinality({k \in DOMAIN queue : queue[k] = <<"main", n>>})
    + Cardinality({c \in Consumers : got[c] = <<"main", n>>})

\* A packet is in the ring, on its way to a consumer, in one buffer, being
\* sent or sent: never in two places, and nowhere only if a socket had no
\* frame for it.
InOnePlace ==
    \A n \in 0 .. Len(arrived) - 1 : Copies(n) = 1 \/ (Copies(n) = 0 /\ faults > 0)

AllLeft == 0 .. Len(arrived) - 1 \subseteq left

\* As long as sockets have free frames, the packets that have arrived are all sent once
\* no more arrive: no lock is kept, no frame is held back and no flow is missed by the
\* timer.
PacketLeaves == []<>(AllLeft \/ faults > 0)
=============================================================================
