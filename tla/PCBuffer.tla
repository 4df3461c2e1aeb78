----------------------------- MODULE PCBuffer ------------------------------
(***************************************************************************)
(* The mutex hand-off: the ring of services/lib/pc_buffer.c as             *)
(* producer_mut_service and consumer_mut_service of multi_threading.c use  *)
(* it.  Both sides run the same five steps with the roles of the two       *)
(* semaphores exchanged: take a token, lock, use the ring, unlock, give a  *)
(* token.                                                                  *)
(***************************************************************************)
EXTENDS Integers, Sequences, FiniteSets

CONSTANTS
    Producers, Consumers,
    PC_BUFFER_SIZE,
    MaxPut,         \* bound: how many packets each producer puts
    NoItem

ASSUME SizeAssumption == PC_BUFFER_SIZE \in Nat \ {0, 1}
ASSUME ThreadAssumption ==
    /\ IsFiniteSet(Producers) /\ IsFiniteSet(Consumers)
    /\ Producers \cap Consumers = {}
    /\ "free" \notin Producers \cup Consumers
ASSUME ItemAssumption == NoItem \notin Producers \X Nat

Thread == Producers \cup Consumers

VARIABLES
    buffer, readpos, writepos, in,
    sem,        \* sem["empty"], sem["full"]: values of the two semaphores
    mutex,      \* the thread that holds the mutex, or "free"
    pc,
    el,         \* el[c]: the wrapper consumer c took last
    sent        \* sent[p]: packets p has put

vars == <<buffer, readpos, writepos, in, sem, mutex, pc, el, sent>>

Slots == 0 .. PC_BUFFER_SIZE - 1
Item == Producers \X Nat

\* Mutant: `empty' starts at the size of the ring.
InitAllSlots ==
    /\ buffer = [s \in Slots |-> NoItem]
    /\ readpos = 0
    /\ writepos = 0
    /\ in = 0
    /\ sem = [empty |-> PC_BUFFER_SIZE, full |-> 0]
    /\ mutex = "free"
    /\ pc = [t \in Thread |-> "idle"]
    /\ el = [c \in Consumers |-> NoItem]
    /\ sent = [p \in Producers |-> 0]

\* init_pc_buffer: one slot of the ring is never used.
Init ==
    /\ buffer = [s \in Slots |-> NoItem]
    /\ readpos = 0
    /\ writepos = 0
    /\ in = 0
    /\ sem = [empty |-> PC_BUFFER_SIZE - 1, full |-> 0]
    /\ mutex = "free"
    /\ pc = [t \in Thread |-> "idle"]
    /\ el = [c \in Consumers |-> NoItem]
    /\ sent = [p \in Producers |-> 0]

Goto(t, from, to) == pc[t] = from /\ pc' = [pc EXCEPT ![t] = to]

\* The semaphore a thread waits on; it posts the other one.
Waits(t) == IF t \in Producers THEN "empty" ELSE "full"

Posts(t) == IF t \in Producers THEN "full" ELSE "empty"

-----------------------------------------------------------------------------
(* producer_pc_wait and consumer_pc_wait. *)

SemWait(t) ==
    /\ t \in Producers => sent[t] < MaxPut
    /\ sem[Waits(t)] > 0
    /\ Goto(t, "idle", "lock")
    /\ sem' = [sem EXCEPT ![Waits(t)] = @ - 1]
    /\ UNCHANGED <<buffer, readpos, writepos, in, mutex, el, sent>>

\* Mutant: the mutex is not waited for.
MutexBarge(t) ==
    /\ Goto(t, "lock", "use")
    /\ mutex' = t
    /\ UNCHANGED <<buffer, readpos, writepos, in, sem, el, sent>>

MutexLock(t) ==
    /\ mutex = "free"
    /\ Goto(t, "lock", "use")
    /\ mutex' = t
    /\ UNCHANGED <<buffer, readpos, writepos, in, sem, el, sent>>

-----------------------------------------------------------------------------
(* The bodies of the two critical sections. *)

Advance(pos) == IF pos + 1 >= PC_BUFFER_SIZE THEN 0 ELSE pos + 1

\* Mutant: the position is advanced before the slot is written.
PutAfterAdvance(p) ==
    /\ Goto(p, "use", "unlock")
    /\ buffer' = [buffer EXCEPT ![Advance(writepos)] = <<p, sent[p]>>]
    /\ writepos' = Advance(writepos)
    /\ in' = in + 1
    /\ sent' = [sent EXCEPT ![p] = @ + 1]
    /\ UNCHANGED <<readpos, sem, mutex, el>>

Put(p) ==
    /\ Goto(p, "use", "unlock")
    /\ buffer' = [buffer EXCEPT ![writepos] = <<p, sent[p]>>]
    /\ writepos' = Advance(writepos)
    /\ in' = in + 1
    /\ sent' = [sent EXCEPT ![p] = @ + 1]
    /\ UNCHANGED <<readpos, sem, mutex, el>>

Take(c) ==
    /\ Goto(c, "use", "unlock")
    /\ el' = [el EXCEPT ![c] = buffer[readpos]]
    /\ readpos' = Advance(readpos)
    /\ in' = in - 1
    /\ UNCHANGED <<buffer, writepos, sem, mutex, sent>>

-----------------------------------------------------------------------------
(* producer_pc_post and consumer_pc_post. *)

\* Mutant: the critical section is left without unlocking.
MutexKept(t) ==
    /\ Goto(t, "unlock", "post")
    /\ UNCHANGED <<buffer, readpos, writepos, in, sem, mutex, el, sent>>

MutexUnlock(t) ==
    /\ Goto(t, "unlock", "post")
    /\ mutex' = "free"
    /\ UNCHANGED <<buffer, readpos, writepos, in, sem, el, sent>>

SemPost(t) ==
    /\ Goto(t, "post", "idle")
    /\ sem' = [sem EXCEPT ![Posts(t)] = @ + 1]
    /\ UNCHANGED <<buffer, readpos, writepos, in, mutex, el, sent>>

-----------------------------------------------------------------------------
producer_mut_service(p) == SemWait(p) \/ MutexLock(p) \/ Put(p) \/ MutexUnlock(p) \/ SemPost(p)
consumer_mut_service(c) == SemWait(c) \/ MutexLock(c) \/ Take(c) \/ MutexUnlock(c) \/ SemPost(c)

Next ==
    \/ \E p \in Producers : producer_mut_service(p)
    \/ \E c \in Consumers : consumer_mut_service(c)

Spec == Init /\ [][Next]_vars

\* Threads are scheduled fairly.  Neither the mutex nor the semaphores are
\* fair: no thread is promised to win either of them against the others.
Fairness ==
    /\ \A p \in Producers : WF_vars(producer_mut_service(p))
    /\ \A c \in Consumers : WF_vars(consumer_mut_service(c))
FairSpec == Spec /\ Fairness

-----------------------------------------------------------------------------
(* Properties. *)

Labels == {"idle", "lock", "use", "unlock", "post"}

\* Every variable keeps its type; the positions stay inside the ring.
TypeOK ==
    /\ buffer \in [Slots -> Item \cup {NoItem}]
    /\ readpos \in Slots
    /\ writepos \in Slots
    /\ in \in Int
    /\ sem \in [{"empty", "full"} -> Nat]
    /\ mutex \in Thread \cup {"free"}
    /\ pc \in [Thread -> Labels]
    /\ el \in [Consumers -> Item \cup {NoItem}]
    /\ sent \in [Producers -> Nat]

\* The mutex protects the whole use of the ring, positions and count.
MutualExclusion == \A t \in Thread : pc[t] \in {"use", "unlock"} <=> mutex = t

\* Threads that have their token and have not used the ring, and threads that
\* have used it and not given a token yet.
Before(T) == {t \in T : pc[t] \in {"lock", "use"}}
After(T) == {t \in T : pc[t] \in {"unlock", "post"}}

\* No token is lost or made up: the semaphores and the threads between their
\* wait and their post account for every slot and every packet of the ring.
TokensConserved ==
    /\ sem["empty"] + Cardinality(Before(Producers)) + Cardinality(After(Consumers)) + in
           = PC_BUFFER_SIZE - 1
    /\ sem["full"] + Cardinality(Before(Consumers)) + Cardinality(After(Producers)) = in

\* A producer inside the critical section has a free slot and never writes one
\* that is still to be read; a consumer there has a packet to take.
NoOverrun ==
    /\ \A p \in Producers : pc[p] = "use" => in \in 0 .. PC_BUFFER_SIZE - 2
    /\ \A c \in Consumers : pc[c] = "use" => in \in 1 .. PC_BUFFER_SIZE - 1

\* writepos is where the `in' packets from readpos on end.
PositionsAgree == writepos = (readpos + in) % PC_BUFFER_SIZE

Inv == TypeOK /\ MutualExclusion /\ TokensConserved /\ PositionsAgree

\* The ring implements the FIFO hand-off of PacketQueue: a put takes effect
\* inside the critical section, a packet is assigned to the consumer that locks.
Taking == \E c \in Consumers : pc[c] = "use"

Queue == [k \in 1 .. in - (IF Taking THEN 1 ELSE 0) |->
             buffer[(readpos + k - (IF Taking THEN 0 ELSE 1)) % PC_BUFFER_SIZE]]

Got == [c \in Consumers |-> IF pc[c] = "use" THEN buffer[readpos] ELSE NoItem]

Abstract == INSTANCE PacketQueue WITH queue <- Queue, waiting <- <<>>, got <- Got

AbstractSpec == Abstract!Spec

\* Every packet put is eventually taken, whichever consumers win the races.
EveryPacketTaken ==
    \A p \in Producers : \A n \in 0 .. MaxPut - 1 :
        pc[p] = "use" /\ sent[p] = n ~> \E c \in Consumers : el[c] = <<p, n>>
=============================================================================
