# SFC-SR: models, checks and proofs

SFC-SR is a set of user-space network services for IPv6 segment routing
(`src/services`): programs that receive packets from the kernel over a
memory-mapped netlink socket, change, merge, split or count them, and send them
back. This directory holds TLA+ models of the parts in which the services can go
wrong in ways a test hardly reaches, TLC configurations that check them on small
instances, and proofs, checked by TLAPS, that their central properties hold for
every number of threads and every size.

All models are translated from the C sources; `PROJECT.json` lists for each
definition the lines it models. What a definition leaves out is said in the
comment of its module.

## 1. The system

| part | state | operations | interacts with |
|---|---|---|---|
| lock-free queue `lib/lfq.c` | counters `head`, `tail`; bounds `last_head`, `last_tail`; one announcement cell per thread; slots | `lfq_push`, `lfq_pop` | shared by the netlink thread and the consumers |
| mutex ring `lib/pc_buffer.c` | slots, `readpos`, `writepos`, `in`, two semaphores, a mutex | `producer_pc_wait/post`, `consumer_pc_wait/post`, `advance_*` | the same threads, in the other threading mode |
| threading, launch `lib/multi_threading.c`, `lib/service.c` | the queue in use, thread numbers, frames of the netlink ring | producer and consumer services, launch, join | calls the service callback; gives frames back to the kernel |
| bulk buffer `lib/bulk_buffer.c` | bytes, `pos`, `nbr`, `last_send`, a mutex | `add_to_buffer`, `send_buffer`, `send_old_buffer`, `insert_tcp_to_buffer` | handlers of the bulk service and its timer thread |
| bulk service `bulk/` | a table of flows | `bulk_packet`, `debulk_packet`, `bulk_tcp`, `bulk_tcp_list`, three timers | flow tables, bulk buffer or bulk list |
| bulk list `lib/bulk_list.c` | per flow a list of segments sorted by sequence number; one global buffer | `insert_tcp_to_list`, `find_pivot`, `send_list_until`, `send_old_list` | `bulk_tcp_list`, its timer, the frames the list points into |
| flow tables `lib/flow.c` | hash tables of flows and sub-flows under one `rwlock` | `get_*_or_create` | handlers; the timers iterate without the lock |
| re-fragmentation `refrag/` | a table of incomplete packets, its mutex, a mutex per packet | `refrag_packet`, `pkt_timeout` | two threads |
| header parsing `lib/parsing.c` | none | walks over `next_header` chains | every service |
| checksums `lib/checksum.c` | none | `do_csum`, `tcp_checksum` | bulk buffer, flow identifiers |
| packet output `lib/utils.c` | the lock of the output socket | `send_ip6_packet`, `timevaldiff` | every service |
| compression `compression/` | work memory of the compressor | one callback per algorithm and direction | consumers |
| `count`, `memlink_test`, `tun_interface` | counters, a file descriptor | one callback each | consumers |

A packet travels so: the netlink thread receives a frame, runs the service
callback itself (no threads) or passes a pointer to the frame through one of the
two queues; a consumer takes it, runs the callback and marks the frame unused.
The bulk and re-fragmentation callbacks keep packets in buffers that a timer
thread also empties.

What is hard here: the lock-free queue, whose threads publish stale bounds over
each other; handlers, consumers and timers that share buffers; packets kept past
the life of the frame they came in; fragments and segments that arrive out of
order, twice or never; buffers and sequence numbers at their limits. The list of
hazards, with the line at which each bites and the properties that cover it, is
in `PROJECT.json`.

What makes each part correct:

* queues: every packet is taken once, by one consumer, in the order it was put;
  a slot is never written while it is read; nobody waits for ever;
* bulk buffer and services: no packet is lost, repeated or reordered; only
  consecutive data with equal options is merged, with its flags and its newest
  acknowledgement; the buffer is not overrun; nothing waits longer than promised;
* re-fragmentation: only whole packets are sent, complete ones always, and
  incomplete ones are freed in time;
* flow tables: one flow per key, found by every thread, alive while it is used;
* frames: a frame is given back once and not read afterwards;
* output: a call that fails leaves the socket usable;
* parsing and checksums: the offset of the header asked for, the sum of RFC 1071.

## 2. The modules

| module | models | role |
|---|---|---|
| `PacketQueue` | what both queues promise | abstract: an unbounded FIFO that hands each packet to one waiting consumer |
| `LFQ`, `MCLFQ` | `lfq.c` | one action per access to shared memory; implements `PacketQueue` |
| `PCBuffer` | `pc_buffer.c` with the loops of `multi_threading.c` | semaphores, mutex, ring; implements `PacketQueue` |
| `FlowTable` | `get_bulk_flow_or_create`, `get_tcp_flow_2_or_create` of `flow.c` | look-ups under `rwlock`, at one or two levels |
| `Service`, `MCService` | `multi_threading.c`, `service.c`, `tcp_timedout_2` of `bulk.c`, `send_ip6_packet` of `utils.c` | the composition: frames, `PacketQueue`, consumers, `FlowTable`, buffers, timer, sockets |
| `BulkBuffer` | `bulk_buffer.c` and the bulk timers | the buffer of one flow with its lock and its timer; extended by the next two |
| `BulkTcp`, `MCBulkTcp` | `bulk_tcp`, `insert_tcp_to_buffer` | merging of TCP segments |
| `BulkPkt`, `MCBulkPkt` | `bulk_packet`, `debulk_packet` | bulks of whole packets |
| `BulkList`, `MCBulkList` | `bulk_tcp_list`, `bulk_list.c`, `tcp_list_2_timedout` | sorted lists of several flows and the one buffer they share |
| `Checksum` | `do_csum` of `checksum.c` | a step per turn of the loop |
| `Parsing` | the walks of `parsing.c` | operators on chains of headers |
| `SendBuffer`, `MCSendBuffer` | `update_tcp_hdr`, `send_buffer`, `set_tcp_checksum` | lengths and checksum of a merged segment; extends the last two |
| `Refrag`, `MCRefrag` | `refrag/` | handler, table, timer, clock |

`LFQProofs`, `ServiceProofs` (with `FlowTable`), `BulkTcpProofs`,
`BulkPktProofs`, `ChecksumProofs` and `RefragProofs` hold the theorems about the
modules they are named after; `MutexProofs` holds those about the two structures
that threads share under a mutex, `PCBuffer` and `BulkList`, which it extends
both (so the specification of `BulkList` has names of its own: `ListInit`,
`ListNext`, `ListSpec`). `CommonLemmas` holds what several of them need: induction
up to a number and functions defined by recursion up to a number, sets of at most
one member, sequences and sequences of sequences. `Streams` defines concatenation
for `BulkBuffer`, `BulkList` and `SendBuffer`.

How they fit: `Service` contains the hand-off as an instance of `PacketQueue`
(which `LFQ` and `PCBuffer` are proved to implement) and the tables as
`FlowTable`, which it extends; its buffers are sets of packets, and what happens
inside one of them is `BulkTcp`, `BulkPkt` or `BulkList`. `SendBuffer` is what
`BulkTcp` leaves out of sending: the fields of the headers.

### Lock-free queue (`LFQ`)

`lfq_push` and `lfq_pop` are the same code at the two ends of the queue, so each
action is written once for the end of the thread that takes it. A thread loads
the counter of its end, announces it in its cell, takes a ticket, records it,
compares it with the other end's published bound, recomputes that bound from
the other end's cells one by one if it must wait, publishes it, copies the packet
and clears its cell; each of these is an action, so that all interleavings of
shared accesses are explored. Memory is taken as sequentially consistent. The
code is for x86 (`lfq.h`), where the fetch-and-add is a full fence, stores are
seen in order and loads are done in order; a plain store that is seen late leaves
an older and so more careful value visible. The order in which the compiler
emits the load of `q->tail` and the first load of a cell (`lfq.c:63-66`) is taken
from the source.

Tickets are natural numbers: `head` and `tail` have 64 bits and do not come
round. `ULONG_MAX` is any number above the tickets in use; `MCLFQ` asserts that
the instances have that property, and the proofs assume nothing but that the mark
is a natural number.

In the refinement a push takes effect with its ticket, and a pop is served as
soon as both it and the push with the same ticket have theirs.

### Mutex ring (`PCBuffer`)

Semaphores and mutex are numbers and a holder; whoever is waiting may get them,
there is no queue of waiters. Both services are a cycle of wait, lock, use,
unlock and post. `PC_BUFFER_SIZE - 1` is the initial value of `empty`, as in
`init_pc_buffer`: one slot is always unused. In the refinement a consumer is
served when it gets the mutex.

### Flow tables and services (`FlowTable`, `Service`)

A flow is its place in the order of creation, which is also the order of
`hh.next`; a look-up is by table and key. Each lock operation, each look-up and
the addition are steps of their own. A packet of `Service` is the number of
packets that arrived before it and lies in frame `n % Frames`; a frame has the
status the kernel and the services give it, so that a frame given back early may
be written again by the next arrival. With `--threads 0` main does the work of
the consumers. The timer reads `hh.next` of a flow before it handles it and walks
without `rwlock`, as `HASH_ITER` does. Every sender has a socket with a lock;
`NoFrame` is the return of `send_ip6_packet` that keeps it.

### Bulk (`BulkBuffer`, `BulkTcp`, `BulkPkt`)

The content of a buffer is the sequence of numbers of the packets in it, which is
enough to say that a packet is lost, repeated or out of place; its length `pos`
is computed as the code does. The timer sends a buffer and empties it in two
steps, so the lock matters. Handlers are the consumers, or the one netlink
thread. Sequence numbers are modulo `SEQ`, and `% TCP_MAX_SEG` is modelled as it
is written. `flow2->opt` starts with what `malloc` left.

### Lists (`BulkList`)

A list is a sequence of segment numbers; the search for the place, `cons_data`
and the pivots are computed as the code does, also where its conditions are the
opposite of what its names say. `glob_buffer` has no lock: once two threads are in
`send_list_until` together it is marked torn, and what is compared with it is
arbitrary until it is sent. Whether room and options let two segments merge is a
free choice. The clock is left out: a segment that waits becomes old some time.
The timer finds its pivot in one step and cuts in the next, in front of the first
element that is the pivot (`InFront`), as the loop of `send_list_until` does.

### Headers and checksums (`Parsing`, `Checksum`, `SendBuffer`)

A packet is a sequence of headers, each with kind and size. Bytes are digits of
base `BYTE`, so that additions overflow after few words; the model adds a history
variable, `total`, with the sum in unbounded numbers. Loads are little-endian.
Lengths are stored as `htons` stores them: `length` holds what two bytes keep of
a length, its remainder by `HALF` (65536 in the code).

`update_tcp_hdr` takes the 40 bytes in front of TCP for an IPv6 header. Where they
are one, it sets its length (`SetLength`). Where TCP is behind a routing or a
fragment header, it writes two bytes into whatever is there: into half a word of
an address (`OverwriteAddress`; `address` holds the addresses as they are in the
packet, and which word it is depends on the sizes of the headers, so any may be)
or into the contents of another header, which the model does not represent
(`OverwriteOther`). The sizes of all headers in front of TCP are multiples of
eight, so the place is four bytes behind such a multiple, where no `next_header`
and no length of a header is, and the walks over the headers are not affected.

### Re-fragmentation (`Refrag`)

Lengths are in units of eight bytes. A buffer says of every unit which packet it
was copied from, so that a unit never written (`Junk`) or written by another
packet can be told. `first_received` is not set by `init_bulk_frag`, so a new
entry gets an arbitrary age, also one that never expires. The body of
`refrag_packet` runs with the table locked and is one step after the two lock
operations; the fragment that does not fit leaves the entry locked, as the code
does.

### Time and fairness

The timers compare ages in milliseconds. In the models one unit of time is a
fraction of `--delta`, `Tick` lets one unit pass, and it may do so only when no
thread can run: handling a packet is short compared with a unit. `usleep` of
`--delta` starts when a pass ends. Ages stop growing at twice `--delta`, which is
what the properties need to see. `Service` and `BulkList` have no clock: there
the timer may find a buffer or a segment old at any later walk.

Fairness is weak fairness of each thread: the threads are ordinary POSIX
threads, the scheduler runs each runnable one eventually, and `pthread` mutexes
and semaphores that are free are given to some waiter. In `BulkList` waiting
segments also become old. Nothing is assumed of the network: packets, fragments
and segments need not arrive. `PCBuffer` states its fairness per thread, and gives
no consumer a promise of a particular token.

## 3. The runs

| run | instance | shows |
|---|---|---|
| `lfq_consumers` | 1 producer, 2 consumers, 2 slots, 3 packets | the inductive invariant of the proof, no two copies on one slot, delivery in ticket order, refinement of `PacketQueue`; a push returns, every packet reaches a consumer |
| `pcbuffer_ring` | 1 producer, 2 consumers, 3 slots, 5 packets | the invariant of the proof, no overrun, refinement of `PacketQueue`; every packet is taken |
| `service_threads` | main alone or with 2 consumers, 2 frames, tables of two levels, up to 3 packets, a socket once without a frame | one flow per key; a frame keeps its packet while it is worked on; a packet is in one place, and lost only by the fault; without a fault every packet is sent |
| `refrag_reassembly` | two packets of 3 and 2 fragments, each delivered at most once, in any order | whole packets only, complete packets always, freed within two periods; every fragment is handled, every started packet ends |
| `refrag_repeats` | two packets with one identification, one too long, every fragment up to twice | types (no overrun), no undercount, no use after free |
| `bulktcp_threads` | 2 handlers, 6 kinds of segment, 3 arrivals | nothing lost, repeated or overtaken, no overrun, only consecutive data merged, flags, PSH and FIN, two periods; every segment is sent |
| `bulkpkt_threads` | 2 handlers, 4 sizes, 3 arrivals | headers in front of each bulk, each packet once, debulking restores the packets, no overrun for packets that fit behind the headers |
| `bulklist_threads` | 2 handlers, the timer, 2 flows, 6 kinds of segment, 3 arrivals | lists stay sorted, each segment is in one place, what is merged is contiguous unless two flows met in the buffer; a segment that another follows is sent |
| `send_buffer` | all contents of 4 to 11 digits that are least or greatest (with fixed old checksum), three longer ones, 4 alignments, 5 chains of headers | `do_csum` is the ones'-complement sum, the first header and an IPv6 header in front of TCP have their lengths if these fit, the checksum verifies |

Three more runs, whose properties fail, are the findings of section 4.

Why the bounds are enough. `MaxPush`, `MaxPut`: with three or more packets for
one or two slots the queues fill, empty and come round several times, and the
proofs lift the bound on sizes and threads. `Arrivals` of `Service`: two packets
of one flow, of one pair of addresses with other ports, and of two pairs, are the
ways in which two look-ups can meet; the third packet is written to the frame of
the first. `MaxFaults`: one missing frame shows what becomes of the packet; what
the second would meet is a lock that is never free. `Copies`: two deliveries are
the first and one repetition, at every place. `MaxArrivals`: a flow needs two
packets to merge and a third to be apart from them, or to find the buffer or the
list that making room, PSH or the timer left. Buffers are small enough that two
or three packets fill them. `BYTE = 4` with digits 0 and 3 makes `unsigned int`
eight bits wide and its words small or nearly full, so that a few of them carry
several times, and eleven digits pass through each of the parts of `do_csum` at
every alignment. A length field holds less than 16: of the contents with up to
seventeen digits behind one to four headers some lengths fit and some wrap.
`SEQ = 16` leaves room for a stream on both sides of the wrap-around; the one place
where the wrap-around goes wrong, a segment that ends just before the last
number, is left out of `bulktcp_threads` and is the run `bulktcp_wrap`. Packets
that do not fit behind the headers are left out of `bulkpkt_threads` (section 4),
and fragments that do not fit are not in `refrag_reassembly`, which states that
every fragment is handled, but in `refrag_repeats` and `refrag_toobig`. `--delta`
is two units, the least for which "almost twice" differs from once. No symmetry
is used, since the runs have one thread of each kind or check liveness.

Deadlock is checked in every run but three: in `pcbuffer_ring` the consumers wait
in `sem_wait` for ever once the bounded input is used up, in `service_threads`
threads wait for ever for the lock that a missing frame left locked, and the
call modelled by `send_buffer` ends. What must not stop in the first two is said
by `EveryPacketTaken` and `PacketLeaves`.

Every property of a passing run has a mutant in `PROJECT.json`: the code with
one plausible mistake, under which TLC finds the property violated.

## 4. What the checks found

| run | the code | the text |
|---|---|---|
| `refrag_toobig` | `refrag.c:126` leaves `frags->lock` locked; the next fragment of that packet waits at line 120 for its own lock, with the table locked, and the timer waits behind it | the message says the fragment is dropped |
| `bulktcp_ack` | `bulk_buffer.c:47` copies the acknowledgement before lines 50-53 compare it | `test_flag_A` |
| `bulktcp_wrap` | `% TCP_MAX_SEG` is modulo 2^32-1: at the wrap-around a byte is skipped | `test_consecutif_bulk` |

Also seen, and listed as hazards:

* a packet or an incomplete packet stays up to almost twice `--delta`, which the
  usage calls the maximum, because the timers sleep `--delta` between two passes
  (`refrag.c:20`, `bulk.c:58`); `WithinTwoDeltas` is what the code does keep;
* in mode `tcp_list` a segment with none behind it in its list is not sent by the
  timer at all (`bulk_list.c:148`); `FollowedLeaves` is what the code does keep;
* when the output ring has no frame, `utils.c:57` returns with the lock of the
  socket held;
* `flow2->opt` is not set for the first segment of a flow, nor after PSH or the
  timer, so the options compared are not those in the buffer and segments that
  `test_consecutif_bulk` expects to be merged may be sent apart;
* a packet that is shorter than the buffer, but not by the length of the headers,
  is added without room, against the `@pre` of `add_to_buffer` (`bulk_pkt.c:100`);
* with a `--buffer` of more than 65535 bytes, which nothing refuses, the length of
  a merged packet may not fit in its field and wraps (`bulk_buffer.c:44`, `122` and
  `126`); `LengthsRight` is stated for lengths that fit;
* when TCP is behind a routing header, `update_tcp_hdr` overwrites two bytes of an
  address or of the segment list (`bulk_buffer.c:42`), and with three IPv6 headers
  the one between may keep the length of the first segment (`parsing.c:17`);
* `bulk_tcp_list` goes on with uninitialized pointers when `get_tcp_info` finds no
  TCP header (`bulk_tcp.c:73`);
* repeated fragments make an incomplete packet count as complete;
* segments with SYN, RST or URG overtake those that wait.

## 5. The proofs

**Queues.** `LFQProofs` proves, for every number of producers and consumers, every
queue size and every `MaxPush`:

* `TypeCorrect`: `Spec => []TypeOK`;
* `Invariance`: `Spec => []Inv`, from which follow
* `BoundsAreSound` (`last_head`, `last_tail` never pass a ticket in use),
* `NoRace` (no two copies on one slot),
* `Delivery` (a pop gets the packet pushed with its ticket) and
* `ImplementsQueue`: `Spec => AbstractSpec`, the refinement of `PacketQueue`.

None of the first three consequences is inductive. A published bound is sound
only because the thread that computed it had a partial minimum below every ticket
it had not looked at (`ScanSound`), which holds because a cell shows a position
not above its owner's ticket from before the ticket is taken
(`CellsBelowTickets`, and `TicketsDistinct` for the tickets themselves). A thread
past its wait has room or a packet (`Admitted`), and then a slot holds its packet
from the copy to the read (`SlotsHold`, `PacketOfTicket`). `Inv` is the
conjunction of these, and the proof takes it action by action, one lemma for each.
The lemmas on `%` say that two tickets less than `Q_SIZE` apart have different
slots. For the refinement, the same invariant says that each ticket without a
packet belongs to exactly one waiting consumer (`Waiters`, `OneWaiter`); taking a
ticket is one of the four abstract puts and asks, a consumer's copy is `Finish`,
every other step stutters.

`MutexProofs` proves of `PCBuffer` for all finite sets of threads and all ring sizes from
two on: `TypeCorrect`, `Tokens` (semaphore values and threads between wait and
post add up to the ring), `Capacity`, `Exclusion`, and `ImplementsQueue`. The
invariant adds to the tokens that `in` counts what is between the positions; the
refinement also needs `Filled`, that the slots from `readpos` on hold packets.

**Tables and services.** `ServiceProofs` proves first, of `FlowTable`, for any set
of threads, any hashes and any number of levels: `TableInvariance`, `TableUnique`
(one flow per key and table) and `TableReturns` (a look-up returns the flow of its
own arguments). `TableInv` says who may be inside `rwlock` (`LockHeld`), that what
the second look-up did not find is still missing when it is added (`StillMissing`,
the reason why there is a second look-up) and that what was found is the flow
asked for (`FlowFound`).

It then proves of `Service`, for any number of consumers, frames and arrivals:
`ServiceInvariance`, `FramesKept`, `UsesTables` (`Spec => SpecTable`: each step of
a service is a step of `FlowTable` or leaves the tables alone) and from it
`ConnectionsMeet` (`OneFlowPerKey` for the service). `ServiceInv` follows a
packet: frames not yet read hold what arrived (`RingFrames`), the queue holds
consecutive packets (`QueueInOrder`), whoever has a packet has it alone
(`OwnPackets`), and its frame is lent (`LentFrames`), which `FramesKept` needs.
`PacketsInOnePlace` proves `InOnePlace`: a packet that arrived is in the ring,
in the queue, with one thread, in one buffer, about to be sent or sent, and in
no two of these; it is in none only after a socket had no frame for it. Its
invariant, `PlaceInv`, compares two sets: the packets still `Coming` (in the
ring, the queue or the hands of a thread) and those `Settled` (in a buffer,
about to be sent, or gone). They are disjoint, a settled packet is in one of
these three places only and in one buffer only (`Disjoint`), and until the fault
they are all packets (`NoneMissing`); that a consumer which waits holds none
(`WaitersFree`) and that a walk of the timer stays in the tables (`WalkOK`) are
what the steps need besides.

**Bulk.** `BulkTcpProofs` proves for any segments, handlers, sizes and periods:
`TypeCorrect`, `BufferHolds` (no overrun), `FlagsAreKept`, `PushesSent`,
`SentInTime` (`WithinTwoDeltas`), and, under the hypothesis `NoneAtTheEnd`,
`MergedContiguous`. `Inv` says that threads exclude each other in the buffer
(`Exclusion`), what handlers hold (`Holding`), that the buffer fits (`Fits`), that
all that is sent or in the buffer is made of segments that arrived (`AllMade`) and
that a segment with PSH or FIN in the buffer is in the hands of the handler that
will send it (`PushAtHand`). `InTime` adds the age of the buffer to what is left of
the sleep. `Chained` ties `seq` to the end of the last segment in the buffer;
`NoneAtTheEnd`, that no segment ends just before the last sequence number, cannot
be dropped: `bulktcp_wrap` is the counterexample.

`SegmentsNotLost` proves `NothingLost` and `SegmentsInOrder` the action property
`InOrder`. Both rest on `Once`: no segment is twice in what was sent and what is
in the buffer, in the hands of two handlers, or in both. Without it a step that
moves a segment could leave a second copy behind, and the counts that
`NothingLost` speaks of would not follow from where the segments are.

`BulkPktProofs` proves for mode pkt, for any packets, handlers, sizes and
periods: `Invariance` (types, who is inside the buffer, and that each bulk begins
with its own headers), `PacketsOnce` (`EachOnce`) and `PacketsRestored` (the
action property `DebulkRestores`). The middle of the argument is `Flow`, the
packets in everything sent and, behind it, in the buffer: what debulking gives
back is `Flow` in one sequence (`FlowIsOut`), and a step leaves it alone, begins a
new bulk or adds at its end the one packet that the handler holds. `Once` says that
each packet is either in one place of it or in one hand, unless it was too big.
`BufferHolds` proves `PreHolds`, the `@pre` of `add_to_buffer`, under the hypothesis
`RoomForHeaders`: a packet that is shorter than the buffer also fits behind the
headers. It cannot be dropped, since the code compares the length without the
headers (section 4), and the instance of `bulkpkt_threads` satisfies it.

**Lists.** `MutexProofs` proves of `BulkList`, for any finite set of flows, any
handlers, segments, `MIN_CONS_DATA` and numbers modulo any `SEQ`: `ListsSorted`
(`Sorted`), `SegmentsHandedOnce` (`HandedOnce`) and, under the hypothesis
`NoneAtTheEnd`, `ListsMergeContiguous` (`MergedContiguous`). All rest on `ListInv`:
whoever is between the two lock operations holds the lock of its flow and only in
the loop of `send_list_until` has cut anything off (`Locked`), the pivot that the
timer found is still the rest of the list when it cuts (`Pivoted`: the lock is held
from `find_pivot` to the cut), and what is in a list or cut off one are segments
that arrived for that flow (`ListKnown`, `CutKnown`, `SentKnown`).

`Sorted` is then inductive, although the search never compares the new segment
with the first element: it stops there only when all the others are greater, and
line 46 makes up for it. `HandedOnce` counts in four places, which is not
inductive by itself: `InOnePart` says that each segment is in exactly one kind of
place (`Parted`) and that no place has it twice or two of them have it
(`CarriedOnce`, `ListedOnce`, `SeveredOnce`, `GoneOnce`). For the cut of the timer
this needs that the pivot occurs once in its list, or else the cut would end at an
earlier copy and the elements between would be in no place. For `MergedContiguous`
the invariant is `Merging`: while the buffer is not torn, some thread in the loop
expects what continues its last segment (`Fills`), and that thread has the lock of
the flow; another that hands a segment over at the same time tears it. The
hypothesis `NoneAtTheEnd` is that of `BulkTcpProofs`, for the same code, and the
segments of `bulklist_threads` satisfy it.

**Checksum.** `ChecksumProofs` proves for every base, content and alignment
`CsumInvariance` and `CsumReturns`: the result is the ones'-complement sum of
`total`, of all that was loaded, swapped back at an odd address. `CsumInv` says
where the loop is (`Place`), that adding the carry does not overflow again
(`CarryFits`) and that result and carry are congruent to `total` (`SumKept`).
`SumsWords` then proves `SumIsOnesComplement`, for `do_csum` where `send_buffer` calls
it: besides `CsumInv`, what was loaded so far counts the same, modulo the base
less one, as the bytes so far do in the words of the buffer (`Loaded`); at an odd
address each load is off by one byte, which multiplies by `BYTE`, and the swap at
the end multiplies by it again. `SentVerifies` proves `ChecksumVerifies`. It adds up
what `csum_ipv6_magic` adds, word by word (`HeaderSum`), shows that the complement is
what is missing to all ones (`Complement`), that storing it in the zeroed field adds
as much to the sum (`SetCheckAdds`), and that the header in front of TCP which
`find_hdr_before` returns is the innermost (`InnermostFound`), for chains of any
length. They use `BufferAssumption`: a chain begins with IPv6 and ends with its
only TCP, made of headers that `call_parse` knows, as `insert_tcp_to_buffer` has
found it before it merges; the checksum begins at an even offset of the TCP header
(16 bytes from its start) and is inside it; addresses are whole words, which they still are when `update_tcp_hdr` has written
into one (`Addresses`, `AddressesKept`): `ChecksumVerifies` is about the addresses
that are sent, and no property says that they are those that came. `SentLengths`
proves `LengthsRight`, for any chain of headers. Its invariant, `LengthsInv`, says
that an IPv6 header in front of TCP holds what two bytes keep of the length once
`update_tcp_hdr` has set it, since what is behind it is TCP and its data
(`BehindLast`), and the first header too once the loop is done, which begins with the
first (`FirstFound`). Where the length is below `HALF`, what is kept is the length.
The theorem says nothing of longer packets, nor of an IPv6 header between those
two, of which the code does not see to the length: without `OP_BUF_UPDALL_LEN` it
sets only the first, and with it the loop goes no further than the first IPv6 header
that is not directly behind the one before, because of what `find_hdr` leaves in
`next_header` (line 17 of `parsing.c`). The services get packets that an ingress
router has put into one of its own.

**Re-fragmentation.** `RefragProofs` proves, for any set of fragments (with any
overlaps, identifications and numbers of repetitions), any buffer size and any
period: `TypeCorrect` (nothing is written or sent from outside the buffer),
`NoUseAfterFree`, `Counted` and `CompleteIsSent`, that a packet all of whose
units have arrived is not in the table. The last is not inductive: `Inv` says of
every entry that its count is not below the number of units written, which
`AddCounts` shows of `add_to_frags`, and that it is below `end_pos`, since the
handler sends and removes the entry otherwise. Then fewer than `end_pos` units
can be written. `FreedInTime` proves `WithinTwoDeltas` under the assumption that
all fragments fit: without it a stuck handler keeps the timer out (section 4).
Its invariant, `TimeInv`, adds the age of an entry to what is left of the sleep.

`WholePackets` proves `SentWhole`, that each packet sent has every unit and each
from the same packet, under the hypothesis `Reassembles` on the fragments: each
arrives at most once, those with one identification are of one packet, do not
overlap and end no later than the last of them, and none but the last ends at
the very end of the buffer. Each part is needed: fragments that come twice or
overlap are counted twice, so a packet is complete before all of it is there;
`refrag_repeats` has such fragments and does not claim `SentWhole`. With it,
`PiecesInv` says that the units written are those of the fragments that came and
that the count is their number, so that a full count means that all were written.
The instance of `refrag_reassembly` satisfies `Reassembles`.

The assumptions are the named `ASSUME`s of the modules: sizes are positive,
sets of threads are finite and disjoint, and a packet is not the mark for none.

What runs along a number can be proved by induction: the library states
induction with an operator as parameter, which the provers cannot instantiate,
so `CommonLemmas` derives it for sets of numbers from the facts about finite sets
(`Induct`), and from that the existence of a function defined by recursion
up to a number (`Recursion`). `Concatenation`, `Offset`, `WordSum`, the sums of
`csum_ipv6_magic` and the walks over headers are reasoned about in this way.

Only model-checked, not proved:

* liveness under fairness and everything with `ENABLED`, which TLAPS does not
  handle: `PushReturns`, `EveryPacketObtained`, `EveryPacketTaken`,
  `FragmentHandled`, `BuffersFreed`, `SegmentSent`, `PacketLeaves` and
  `FollowedLeaves`;
* the absence of deadlock.

Every invariant and every action property of a passing run is proved, some under
the hypotheses named above.

## 6. What is not modelled, and the plan

Done: all parts that keep packets or hand them on, and the theorems of section 5.

Not modelled:

* `get_tcp_flow_list_2_or_create`, which adds to a table without its lock, and
  the frames that list elements keep pointing into after they were given back:
  what the code does then is undefined, with no set of outcomes to choose from.
  The same holds for the pointer `bulk_pkt.c:86` uses before it is set.
* The compression services: one call of an external compressor for each packet,
  without state between packets. As the sources stand `FAKE_GZ`, `FAKE_LZ4` and
  `FAKE_LZO` are 1, the result is thrown away and the packet is sent as it came,
  which is `Forward` in `Service`.
* `count`, `memlink_test` and `tun_interface`: counters for messages,
  measurements, one write to a file descriptor.
* `main` functions beyond what they set, messages, `parse_to` and the printing
  functions, `csum_partial` (it mixes addresses into a hash).
* Third-party code and data, which is most of the tree by lines: minilzo (some
  9,800 lines), `uthash.h`, `utlist.h`, the hash functions and `fake_data.c` (some
  3,000 lines). Tables are functions and hashes model values. The netlink library
  is a submodule that is not in the tree.
* Test scripts, benchmarks and topologies.
