------------------------------- MODULE Refrag -------------------------------
(***************************************************************************)
(* The re-fragmentation service (src/services/refrag): the thread that     *)
(* receives IPv6 fragments (refrag_packet) and the thread that frees the   *)
(* packets whose fragments stopped coming (pkt_timeout).                   *)
(*                                                                         *)
(* Lengths and positions are counted in units of eight bytes.  A buffer is *)
(* a function that gives, for each unit, the packet the unit was copied    *)
(* from.  Time is counted in units of the timer; a `timeval' is held as    *)
(* its age, which stops growing at twice TIMEOUT.  A fragment without a    *)
(* Fragment header (lines 101-104) changes nothing and is left out.        *)
(***************************************************************************)
EXTENDS Integers, FiniteSets

CONSTANTS
    Packet,             \* the packets their sources cut into fragments
    Fragment,           \* the fragments: records, see FragmentAssumption
    Id,                 \* values of the field `identification'
    Header,             \* units in front of the data: offset - IP6HDR_FRAG_SIZE
    BUFFER_FRAGS_SIZE,  \* option --buffer
    TIMEOUT,            \* option --delta
    Copies,             \* bound: how often the network delivers a fragment
    Junk,               \* what malloc leaves in a unit
    NoEntry, NoFragment, NoThread

ASSUME FragmentAssumption ==
    Fragment \subseteq [packet : Packet, id : Id, offset : Nat,
                        size : Nat \ {0}, m : {0, 1}]
ASSUME SizeAssumption ==
    /\ Header \in Nat \ {0} /\ BUFFER_FRAGS_SIZE \in Nat \ {0}
    /\ TIMEOUT \in Nat \ {0} /\ Copies \in Nat
ASSUME NamesAssumption ==
    /\ Junk \notin Packet /\ NoFragment \notin Fragment
    /\ NoThread \notin {"handler", "timer"}

Unit == 0 .. BUFFER_FRAGS_SIZE - 1
Future == -1    \* a reception time that has not come yet: it does not age
Age    == {Future} \cup 0 .. 2 * TIMEOUT

\* struct bulk_frag.  next_header is set with unit 0 of the buffer and unset as
\* long as that unit is Junk.  lock is TRUE while the mutex is locked.
Entry == [buffer : [Unit -> Packet \cup {Junk}], lock : BOOLEAN,
          first_received : Age, end_pos : 0 .. BUFFER_FRAGS_SIZE,
          wrote_bytes : Nat]

ASSUME EntryAssumption == NoEntry \notin Entry

VARIABLES
    hashlist_mutex, \* the thread that holds it
    frag_packets,   \* the hash table
    handler,        \* where refrag_packet is: "idle", "table" 115, "entry" 120
    frag,           \* the fragment it handles
    timer,          \* where pkt_timeout is: "sleep" 20, "lock" 22, "scan" 26
    sleep,          \* what is left of its usleep
    delivered,      \* how often each fragment was delivered
    sent            \* the packets given to send_ip6_packet

vars == <<hashlist_mutex, frag_packets, handler, frag, timer, sleep, delivered, sent>>

Init ==
    /\ hashlist_mutex = NoThread
    /\ frag_packets = [i \in Id |-> NoEntry]
    /\ handler = "idle" /\ frag = NoFragment
    /\ timer = "sleep" /\ sleep = TIMEOUT
    /\ delivered = [f \in Fragment |-> 0]
    /\ sent = {}
-----------------------------------------------------------------------------
(***************************************************************************)
(* The handler.                                                            *)
(***************************************************************************)
EndPos(f) == f.offset + f.size + Header

\* Mutant: the headers in front of the data are forgotten.
FitsData(f) == f.offset + f.size <= BUFFER_FRAGS_SIZE

Fits(f) == EndPos(f) <= BUFFER_FRAGS_SIZE

\* first_received is read by the timer before add_to_frags writes it when the
\* first fragment is not the first to arrive: it is then what malloc left.
init_bulk_frag(age) ==
    [buffer |-> [u \in Unit |-> Junk], lock |-> FALSE, first_received |-> age,
     end_pos |-> BUFFER_FRAGS_SIZE, wrote_bytes |-> 0]

\* add_to_frags and lines 131-137.  The units a fragment writes: its data and,
\* for the first one, the headers in front of them.
Written(f) == Header + f.offset .. EndPos(f) - 1
              \cup IF f.offset = 0 THEN 0 .. Header - 1 ELSE {}

\* Mutants: every fragment counts the headers; no fragment counts them.
GrowsHeader(f) == f.size + Header
GrowsData(f) == f.size

Grows(f) == f.size + IF f.offset = 0 THEN Header ELSE 0

add_to_frags(e, f) ==
    [e EXCEPT !.buffer = [u \in DOMAIN @ \cup Written(f) |->
                             IF u \in Written(f) THEN f.packet ELSE @[u]],
              !.first_received = IF f.offset = 0 THEN 0 ELSE @,
              !.wrote_bytes = @ + Grows(f),
              !.end_pos = IF f.m = 0 THEN EndPos(f) ELSE @]

\* What send_frags hands to send_ip6_packet.
Image(e) == [u \in 0 .. e.end_pos - 1 |-> e.buffer[u]]

Receive(f) ==
    /\ handler = "idle" /\ delivered[f] < Copies
    /\ delivered' = [delivered EXCEPT ![f] = @ + 1]
    /\ frag' = f
    /\ handler' = "table"
    /\ UNCHANGED <<hashlist_mutex, frag_packets, timer, sleep, sent>>

\* Lines 115-118: lock the table, find the entry or create it.
LockTable ==
    /\ handler = "table" /\ hashlist_mutex = NoThread
    /\ hashlist_mutex' = "handler"
    /\ IF frag_packets[frag.id] = NoEntry
       THEN \E age \in Age :
                frag_packets' = [frag_packets EXCEPT ![frag.id] = init_bulk_frag(age)]
       ELSE UNCHANGED frag_packets
    /\ handler' = "entry"
    /\ UNCHANGED <<frag, timer, sleep, delivered, sent>>

\* Lines 120 and 159: the body runs with both mutexes held, so it is one step.
WithEntry ==
    /\ handler = "entry" /\ ~frag_packets[frag.id].lock
    /\ hashlist_mutex' = NoThread
    /\ handler' = "idle" /\ frag' = NoFragment
    /\ UNCHANGED <<timer, sleep, delivered>>

\* Line 126: the table is unlocked, frags->lock is not.
TooBig ==
    /\ WithEntry /\ ~Fits(frag)
    /\ frag_packets' = [frag_packets EXCEPT ![frag.id].lock = TRUE]
    /\ UNCHANGED sent

\* Mutant: > instead of >=.
CompletesLate(e) == e.wrote_bytes > e.end_pos

Completes(e) == e.wrote_bytes >= e.end_pos

\* Mutant: frags->lock is not unlocked.
KeepLocked ==
    /\ WithEntry /\ Fits(frag)
    /\ LET e == add_to_frags(frag_packets[frag.id], frag)
       IN  /\ ~Completes(e)
           /\ frag_packets' = [frag_packets EXCEPT ![frag.id] = [e EXCEPT !.lock = TRUE]]
    /\ UNCHANGED sent

Keep ==
    /\ WithEntry /\ Fits(frag)
    /\ LET e == add_to_frags(frag_packets[frag.id], frag)
       IN  /\ ~Completes(e)
           /\ frag_packets' = [frag_packets EXCEPT ![frag.id] = e]
    /\ UNCHANGED sent

Send ==
    /\ WithEntry /\ Fits(frag)
    /\ LET e == add_to_frags(frag_packets[frag.id], frag)
       IN  /\ Completes(e)
           /\ sent' = sent \cup {Image(e)}
    /\ frag_packets' = [frag_packets EXCEPT ![frag.id] = NoEntry]

refrag_packet == LockTable \/ TooBig \/ Keep \/ Send
-----------------------------------------------------------------------------
(***************************************************************************)
(* The timer thread and the clock.                                         *)
(***************************************************************************)
Wake ==
    /\ timer = "sleep" /\ sleep = 0
    /\ timer' = "lock"
    /\ UNCHANGED <<hashlist_mutex, frag_packets, handler, frag, sleep, delivered, sent>>

\* Mutant: the timer does not wait for the mutex of the table.
ScanUnlocked ==
    /\ timer = "lock"
    /\ hashlist_mutex' = "timer"
    /\ timer' = "scan"
    /\ UNCHANGED <<frag_packets, handler, frag, sleep, delivered, sent>>

LockForScan ==
    /\ timer = "lock" /\ hashlist_mutex = NoThread
    /\ hashlist_mutex' = "timer"
    /\ timer' = "scan"
    /\ UNCHANGED <<frag_packets, handler, frag, sleep, delivered, sent>>

\* Mutants: > instead of >=, = instead of >=.
ExpiredLate(e) == e.first_received > TIMEOUT
ExpiredExactly(e) == e.first_received = TIMEOUT

Expired(e) == e.first_received >= TIMEOUT

\* Lines 24-43: every expired entry is freed, locked or not.
Scan ==
    /\ timer = "scan"
    /\ frag_packets' = [i \in Id |->
           IF frag_packets[i] # NoEntry /\ Expired(frag_packets[i])
           THEN NoEntry ELSE frag_packets[i]]
    /\ hashlist_mutex' = NoThread
    /\ timer' = "sleep" /\ sleep' = TIMEOUT
    /\ UNCHANGED <<handler, frag, delivered, sent>>

pkt_timeout == Wake \/ LockForScan \/ Scan

HandlerStuck == handler = "entry" /\ frag_packets[frag.id].lock

TimerAsleep == \/ timer = "sleep" /\ sleep > 0
               \/ timer = "lock" /\ hashlist_mutex = "handler"

Older(age) == IF age \in 0 .. 2 * TIMEOUT - 1 THEN age + 1 ELSE age

\* Time passes while both threads wait: a unit of the timer is long compared
\* with the work either of them does.
Tick ==
    /\ handler = "idle" \/ HandlerStuck
    /\ TimerAsleep
    /\ sleep' = IF sleep > 0 THEN sleep - 1 ELSE 0
    /\ frag_packets' = [i \in Id |->
           IF frag_packets[i] = NoEntry THEN NoEntry
           ELSE [frag_packets[i] EXCEPT !.first_received = Older(@)]]
    /\ UNCHANGED <<hashlist_mutex, handler, frag, timer, delivered, sent>>

Next ==
    \/ \E f \in Fragment : Receive(f)
    \/ refrag_packet
    \/ pkt_timeout
    \/ Tick

Spec == Init /\ [][Next]_vars

\* Both threads are scheduled and the clock runs; fragments need not arrive.
FairSpec == Spec /\ WF_vars(refrag_packet) /\ WF_vars(pkt_timeout) /\ WF_vars(Tick)
-----------------------------------------------------------------------------
(***************************************************************************)
(* Properties.                                                             *)
(***************************************************************************)
TypeOK ==
    /\ hashlist_mutex \in {"handler", "timer", NoThread}
    /\ frag_packets \in [Id -> Entry \cup {NoEntry}]
    /\ handler \in {"idle", "table", "entry"}
    /\ frag \in Fragment \cup {NoFragment}
    /\ timer \in {"sleep", "lock", "scan"}
    /\ sleep \in 0 .. TIMEOUT
    /\ delivered \in [Fragment -> 0 .. Copies]
    /\ \A image \in sent : /\ DOMAIN image \subseteq Unit
                            /\ \A u \in DOMAIN image : image[u] \in Packet \cup {Junk}

\* With each fragment delivered at most once, in any order or not at all, and
\* whenever the timer frees what is incomplete: what is sent is a whole packet,
\* each unit in its place and no unit that was never written (lines 139-150).
SentWhole ==
    \A image \in sent : \E f \in Fragment :
        f.m = 0 /\ image = [u \in 0 .. EndPos(f) - 1 |-> f.packet]

Here(i) == frag_packets[i] # NoEntry

Filled(e) == {u \in DOMAIN e.buffer : e.buffer[u] # Junk}

\* A packet all of whose units have arrived is never left in the table: the
\* test of line 139 does not come out false on the last fragment to arrive.
NothingWithheld ==
    \A i \in Id : Here(i) => ~(0 .. frag_packets[i].end_pos - 1 \subseteq Filled(frag_packets[i]))

\* wrote_bytes counts every unit that was written, duplicates included, so an
\* entry is never kept because bytes were counted too low (lines 57, 64).
WrittenIsCounted ==
    \A i \in Id : Here(i) =>
        frag_packets[i].wrote_bytes >= Cardinality(Filled(frag_packets[i]))

\* The handler locks and uses an entry only while it is in the table: the timer,
\* which frees entries without their lock (lines 31-38), is kept out by the
\* mutex of the table.
EntryInUse ==
    handler = "entry" => hashlist_mutex = "handler" /\ Here(frag.id)

Started(i) == Here(i) /\ frag_packets[i].buffer[0] # Junk

\* An incomplete packet whose first fragment came is freed less than two timer
\* periods later, the worst case of a scan just before it expires.
WithinTwoDeltas ==
    \A i \in Id : Started(i) => frag_packets[i].first_received < 2 * TIMEOUT

\* refrag_packet returns: a fragment received is sent on, kept or dropped.
FragmentHandled == handler # "idle" ~> handler = "idle"

\* A packet whose first fragment came is completed or freed.
BuffersFreed == \A i \in Id : Started(i) ~> ~Here(i)
=============================================================================
