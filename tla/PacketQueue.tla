---------------------------- MODULE PacketQueue ----------------------------
(***************************************************************************)
(* What the hand-off between the netlink thread and the consumer threads   *)
(* promises, whichever of the two implementations (lfq.c, pc_buffer.c) is  *)
(* behind it: one unbounded FIFO.  A producer's n-th packet is the pair    *)
(* <<producer, n>>.  A consumer first asks for a packet, is served in the  *)
(* order in which the consumers asked, and later finishes by holding the   *)
(* packet in its local wrapper `el'.                                       *)
(***************************************************************************)
EXTENDS Naturals, Sequences

CONSTANTS Producers, Consumers, NoItem

VARIABLES
    sent,       \* sent[p]: how many packets p has put
    queue,      \* packets put and not yet assigned, oldest first
    waiting,    \* consumers that asked while the queue was empty, oldest first
    got,        \* got[c]: the packet assigned to c, NoItem if none
    el          \* el[c]: the packet c obtained last

vars == <<sent, queue, waiting, got, el>>

Init ==
    /\ sent = [p \in Producers |-> 0]
    /\ queue = <<>>
    /\ waiting = <<>>
    /\ got = [c \in Consumers |-> NoItem]
    /\ el = [c \in Consumers |-> NoItem]

PutQueued(p) ==
    /\ waiting = <<>>
    /\ queue' = Append(queue, <<p, sent[p]>>)
    /\ sent' = [sent EXCEPT ![p] = @ + 1]
    /\ UNCHANGED <<waiting, got, el>>

PutServed(p) ==
    /\ waiting # <<>>
    /\ got' = [got EXCEPT ![Head(waiting)] = <<p, sent[p]>>]
    /\ waiting' = Tail(waiting)
    /\ sent' = [sent EXCEPT ![p] = @ + 1]
    /\ UNCHANGED <<queue, el>>

AskServed(c) ==
    /\ got[c] = NoItem
    /\ queue # <<>>
    /\ got' = [got EXCEPT ![c] = Head(queue)]
    /\ queue' = Tail(queue)
    /\ UNCHANGED <<sent, waiting, el>>

AskWaits(c) ==
    /\ got[c] = NoItem
    /\ queue = <<>>
    /\ \A k \in DOMAIN waiting : waiting[k] # c
    /\ waiting' = Append(waiting, c)
    /\ UNCHANGED <<sent, queue, got, el>>

Finish(c) ==
    /\ got[c] # NoItem
    /\ el' = [el EXCEPT ![c] = got[c]]
    /\ got' = [got EXCEPT ![c] = NoItem]
    /\ UNCHANGED <<sent, queue, waiting>>

Next ==
    \/ \E p \in Producers : PutQueued(p) \/ PutServed(p)
    \/ \E c \in Consumers : AskServed(c) \/ AskWaits(c) \/ Finish(c)

Spec == Init /\ [][Next]_vars
=============================================================================
