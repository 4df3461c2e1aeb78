------------------------------ MODULE BulkList ------------------------------
(***************************************************************************)
(* The bulk service in mode tcp_list: the segments of a flow wait in a     *)
(* list sorted by sequence number (src/services/lib/bulk_list.c), and the  *)
(* handler (bulk_tcp_list) or the timer (tcp_list_2_timedout) moves the    *)
(* front of a list through the one buffer all flows share, glob_buffer.    *)
(* A list has a lock, glob_buffer has none.                                *)
(*                                                                         *)
(* The clock is left out: a segment that waits becomes old some time.      *)
(***************************************************************************)
EXTENDS Integers, FiniteSets, SequencesExt, Streams

CONSTANTS
    Flow,          \* the flows of the table
    Segment,       \* the segments that may arrive: see SegmentAssumption
    SEQ,           \* sequence numbers are numbers modulo SEQ, 2^32 in the code
    MIN_CONS_DATA, \* option --min-cons-data
    MaxArrivals,   \* bound: number of segments that arrive
    Handler,       \* the threads that handle packets
    Timer,         \* the thread of tcp_list_2_timedout
    NoThread

ASSUME ListAssumption ==
    /\ IsFiniteSet(Flow) /\ Flow # {}
    /\ SEQ \in Nat \ {0, 1} /\ MIN_CONS_DATA \in Nat /\ MaxArrivals \in Nat
    /\ Timer \notin Handler /\ NoThread \notin Handler \cup {Timer}
ASSUME SegmentAssumption ==
    \A s \in Segment : /\ s.flow \in Flow /\ s.seq \in 0 .. SEQ - 1 /\ s.len \in Nat
                       /\ {s.push, s.untouched} \subseteq BOOLEAN

Sender == Handler \cup {Timer}

VARIABLES
    arrived,  \* the segments received, in order; below they are numbers
    list,     \* list->list of each flow
    lock,     \* the thread that holds list->lock
    old,      \* the waiting segments whose last_send is --delta ago
    phase,    \* "idle"; "lock" 122, "insert" 124 of bulk_tcp.c;
              \* "find" 146, "cut" 126, "hand" 128 of bulk_list.c
    held,     \* the segment a handler works on, 0 if none
    visits,   \* the flows in the order in which the timer is to visit them
    pivot,    \* the list from the pivot on, as send_old_list found it
    cutOff,   \* what a thread cut off a list and has not handed to glob_buffer
    expected, \* its local variable seq of send_list_until
    glob,     \* glob_buffer; torn: two threads used it at once
    packets   \* what was given to send_ip6_packet, in order

listVars == <<arrived, list, lock, old, phase, held, visits, pivot, cutOff, expected, glob, packets>>

ListInit ==
    /\ arrived = <<>>
    /\ list = [f \in Flow |-> <<>>] /\ lock = [f \in Flow |-> NoThread]
    /\ old = {}
    /\ phase = [t \in Sender |-> "idle"]
    /\ held = [h \in Handler |-> 0] /\ visits = SetToSeq(Flow)
    /\ pivot = <<>>
    /\ cutOff = [t \in Sender |-> <<>>] /\ expected = [t \in Sender |-> 0]
    /\ glob = [content |-> <<>>, torn |-> FALSE]
    /\ packets = <<>>

seg(n) == arrived[n]

flowAt(t) == IF t = Timer THEN Head(visits) ELSE seg(held[t]).flow
-----------------------------------------------------------------------------
(***************************************************************************)
(* bulk_tcp_list.                                                          *)
(***************************************************************************)
\* Lines 72-85 and 98-117: a segment that is too big, or has URG, SYN or RST, is sent
\* at once; for the others the list of the flow is looked up.
Receive(h, s) ==
    /\ phase[h] = "idle" /\ Len(arrived) < MaxArrivals
    /\ arrived' = Append(arrived, s)
    /\ IF s.untouched
       THEN /\ packets' = Append(packets, [content |-> <<Len(arrived')>>, torn |-> FALSE])
            /\ UNCHANGED <<held, phase>>
       ELSE /\ held' = [held EXCEPT ![h] = Len(arrived')]
            /\ phase' = [phase EXCEPT ![h] = "lock"]
            /\ UNCHANGED packets
    /\ UNCHANGED <<list, lock, old, visits, pivot, cutOff, expected, glob>>

Lock(h) ==
    /\ phase[h] = "lock" /\ lock[flowAt(h)] = NoThread
    /\ lock' = [lock EXCEPT ![flowAt(h)] = h]
    /\ phase' = [phase EXCEPT ![h] = "insert"]
    /\ UNCHANGED <<arrived, list, old, held, visits, pivot, cutOff, expected, glob, packets>>

\* Lines 33-43 of bulk_list.c: the place where the search stops.
Reached(l, s) ==
    LET before == {k \in 1 .. Len(l) : \A i \in 2 .. k : seg(l[i]).seq < s.seq}
    IN  IF l = <<>> THEN 0 ELSE Max(before)

\* cons_data at each place: line 35 starts again where data is consecutive.
ConsData(l) ==
    LET cons[k \in DOMAIN l] ==
            IF k > 1 /\ (seg(l[k - 1]).seq + seg(l[k - 1]).len) % SEQ # seg(l[k]).seq
            THEN cons[k - 1] + seg(l[k]).len ELSE seg(l[k]).len
    IN  cons

\* Lines 42-43: the place of the pivot, 0 if there is none.
Pivot(l, s) == Max({0} \cup {k \in 2 .. Reached(l, s) : ConsData(l)[k] >= MIN_CONS_DATA})

\* Mutant: always behind the place where the search stopped.
PlaceBehind(l, s) == Reached(l, s) + 1

\* Lines 46-49.
InsertPlace(l, s) ==
    LET r == Reached(l, s) IN IF r > 0 /\ seg(l[r]).seq > s.seq THEN r ELSE r + 1

\* send_list_until up to its loop: the first `cut' elements of the list become the
\* thread's own.  When there are none it unlocks the list at once.
Cut(t, l, cut) ==
    /\ list' = [list EXCEPT ![flowAt(t)] = SubSeq(l, cut + 1, Len(l))]
    /\ cutOff' = [cutOff EXCEPT ![t] = SubSeq(l, 1, cut)]
    /\ old' = old \ ToSet(SubSeq(l, 1, cut))

Unlock(t) ==
    /\ lock' = [lock EXCEPT ![flowAt(t)] = NoThread]
    /\ phase' = [phase EXCEPT ![t] = "idle"]
    /\ IF t = Timer THEN visits' = Tail(visits) \o <<flowAt(t)>> /\ UNCHANGED held
                    ELSE held' = [held EXCEPT ![t] = 0] /\ UNCHANGED visits

SendOrUnlock(t, cut) ==
    IF cut = 0 THEN Unlock(t)
    ELSE phase' = [phase EXCEPT ![t] = "hand"] /\ UNCHANGED <<lock, held, visits>>

Insert(h) ==
    LET s == seg(held[h])
        l == list[flowAt(h)]
        with == InsertAt(l, InsertPlace(l, s), held[h])
        cut  == IF s.push THEN Len(with) ELSE Pivot(l, s)
    IN  /\ phase[h] = "insert"
        /\ Cut(h, with, cut)
        /\ SendOrUnlock(h, cut)
        /\ UNCHANGED <<arrived, pivot, expected, glob, packets>>
-----------------------------------------------------------------------------
(***************************************************************************)
(* send_list_until, by handlers and timer.                                 *)
(***************************************************************************)
\* Another thread is in the loop too: glob_buffer is written without a lock, and
\* what it holds from then on is not known.
Shared(t) == \E u \in Sender \ {t} : phase[u] = "hand"
Now(t)    == [glob EXCEPT !.torn = @ \/ Shared(t)]

Following(n, len) == ((n + len) % SEQ) % (SEQ - 1)

\* Lines 73-78 of insert_tcp_to_buffer.  `apart' is what options and room say: *opt
\* is not set before it is compared, and a torn buffer may say anything.
\* Mutant: the sequence number is not compared.
ApartAnySeq(t, apart) == glob.content # <<>> /\ apart

Apart(t, apart) ==
    /\ glob.content # <<>>
    /\ apart \/ (~Now(t).torn /\ expected[t] # seg(Head(cutOff[t])).seq)

\* Lines 128-135: one turn of the loop.
Hand(t, apart) ==
    LET n == Head(cutOff[t])
    IN  /\ phase[t] = "hand" /\ cutOff[t] # <<>>
        /\ packets' = IF Apart(t, apart) THEN Append(packets, Now(t)) ELSE packets
        /\ glob' = [Now(t) EXCEPT !.content = IF Apart(t, apart) THEN <<n>> ELSE Append(@, n)]
        /\ expected' = [expected EXCEPT ![t] = Following(seg(n).seq, seg(n).len)]
        /\ cutOff' = [cutOff EXCEPT ![t] = Tail(@)]
        /\ UNCHANGED <<arrived, list, lock, old, phase, held, visits, pivot>>

\* Line 137: what is still in the buffer is sent, and the list is unlocked.
Flush(t) ==
    /\ phase[t] = "hand" /\ cutOff[t] = <<>>
    /\ packets' = IF glob.content = <<>> THEN packets ELSE Append(packets, Now(t))
    /\ glob' = [content |-> <<>>, torn |-> Shared(t)]
    /\ expected' = [expected EXCEPT ![t] = 0]
    /\ Unlock(t)
    /\ UNCHANGED <<arrived, list, old, pivot, cutOff>>

send_list_until(t) == (\E apart \in BOOLEAN : Hand(t, apart)) \/ Flush(t)

bulk_tcp_list(h) == Lock(h) \/ Insert(h) \/ send_list_until(h)
-----------------------------------------------------------------------------
(***************************************************************************)
(* tcp_list_2_timedout.                                                    *)
(***************************************************************************)
\* Mutant: the lock is not waited for (the line commented out at 145).
LockOldUnlocked ==
    /\ phase[Timer] = "idle"
    /\ phase' = [phase EXCEPT ![Timer] = "find"]
    /\ UNCHANGED <<arrived, list, lock, old, held, visits, pivot, cutOff, expected, glob, packets>>

LockOld ==
    /\ phase[Timer] = "idle" /\ lock[flowAt(Timer)] = NoThread
    /\ lock' = [lock EXCEPT ![flowAt(Timer)] = Timer]
    /\ phase' = [phase EXCEPT ![Timer] = "find"]
    /\ UNCHANGED <<arrived, list, old, held, visits, pivot, cutOff, expected, glob, packets>>

\* Mutant: the first old segment.
first_pivot(l) == Min({Len(l) + 1} \cup {k \in DOMAIN l : l[k] \in old}) % (Len(l) + 1)

\* The place of the last old segment, 0 if there is none.
find_pivot(l) == Max({0} \cup {k \in DOMAIN l : l[k] \in old})

\* Lines 146-148.
FindOld ==
    LET l == list[flowAt(Timer)]
        k == find_pivot(l)
    IN  /\ phase[Timer] = "find"
        /\ IF k = 0 THEN Unlock(Timer) /\ UNCHANGED pivot
           ELSE /\ pivot' = SubSeq(l, k, Len(l))
                /\ phase' = [phase EXCEPT ![Timer] = "cut"]
                /\ UNCHANGED <<lock, held, visits>>
        /\ UNCHANGED <<arrived, list, old, cutOff, expected, glob, packets>>

\* How many elements of l the loop of lines 128-135 comes to before element n.
InFront(l, n) == Min({k \in DOMAIN l : l[k] = n} \cup {Len(l) + 1}) - 1

\* send_list_until up to its loop: the pivot itself stays in the list.
CutOld ==
    LET l   == list[flowAt(Timer)]
        cut == SubSeq(l, 1, InFront(l, Head(pivot)))
    IN  /\ phase[Timer] = "cut"
        /\ list' = [list EXCEPT ![flowAt(Timer)] = pivot]
        /\ cutOff' = [cutOff EXCEPT ![Timer] = cut]
        /\ old' = old \ ToSet(cut)
        /\ pivot' = <<>>
        /\ phase' = [phase EXCEPT ![Timer] = "hand"]
        /\ UNCHANGED <<arrived, lock, held, visits, expected, glob, packets>>

\* The thread goes round the tables for ever and sleeps between two rounds.
tcp_list_2_timedout == LockOld \/ FindOld \/ CutOld \/ send_list_until(Timer)

Waiting(n) == \E f \in Flow : \E k \in DOMAIN list[f] : list[f][k] = n

Age(n) ==
    /\ n \notin old /\ Waiting(n)
    /\ old' = old \cup {n}
    /\ UNCHANGED <<arrived, list, lock, phase, held, visits, pivot, cutOff, expected, glob, packets>>

ListNext ==
    \/ \E h \in Handler : bulk_tcp_list(h) \/ \E s \in Segment : Receive(h, s)
    \/ tcp_list_2_timedout
    \/ \E n \in DOMAIN arrived : Age(n)

ListSpec == ListInit /\ [][ListNext]_listVars

\* All threads are scheduled and time passes; segments need not arrive.
ListFairSpec ==
    /\ ListSpec
    /\ \A h \in Handler : WF_listVars(bulk_tcp_list(h))
    /\ WF_listVars(tcp_list_2_timedout)
    /\ \A n \in 1 .. MaxArrivals : WF_listVars(n \in DOMAIN arrived /\ Age(n))
-----------------------------------------------------------------------------
(***************************************************************************)
(* Properties.                                                             *)
(***************************************************************************)
\* Each list is sorted by sequence number, wherever in it a segment belongs and
\* whatever part of it the threads have cut off: insert_tcp_to_list, which never
\* compares with the first element before the end of its loop (lines 33-49).
Sorted ==
    \A f \in Flow : \A i, j \in DOMAIN list[f] :
        i < j => seg(list[f][i]).seq <= seg(list[f][j]).seq

Occurrences(n, s) == Cardinality({k \in DOMAIN s : s[k] = n})

Handed == Concatenation([k \in DOMAIN packets |-> packets[k].content]) \o glob.content

InHand(h) == phase[h] \in {"lock", "insert"}

\* Every segment received is in one place, and there once: with the handler that
\* received it, in the list of its flow, in what one thread cut off a list, or
\* handed to the buffer.  An element reached by two threads would be freed twice
\* (lines 125-135 of bulk_list.c).
HandedOnce ==
    \A n \in DOMAIN arrived :
        Cardinality({h \in Handler : InHand(h) /\ held[h] = n})
        + Occurrences(n, list[seg(n).flow])
        + Cardinality({t \in Sender : \E k \in DOMAIN cutOff[t] : cutOff[t][k] = n})
        + Occurrences(n, Handed) = 1

\* As long as no two flows are in glob_buffer at once, the segments merged in it
\* are consecutive segments of one flow (line 77 of bulk_buffer.c).
MergedContiguous ==
    \A b \in ToSet(packets) \cup {glob} : ~b.torn =>
        \A k \in 1 .. Len(b.content) - 1 :
            LET s == seg(b.content[k])
                r == seg(b.content[k + 1])
            IN  r.flow = s.flow /\ r.seq = (s.seq + s.len) % SEQ

\* A segment that another one of its flow follows in the list is sent, by the
\* timer at the latest: the pivot of send_old_list is exclusive, so only a segment
\* with none behind it may stay for ever (lines 110-114 and 146-149).
Followed(n) ==
    \E f \in Flow : \E k \in 1 .. Len(list[f]) - 1 : list[f][k] = n
FollowedLeaves ==
    \A n \in 1 .. MaxArrivals :
        n \in DOMAIN arrived /\ Followed(n) ~> Occurrences(n, Handed) = 1 /\ ~Waiting(n)
=============================================================================
