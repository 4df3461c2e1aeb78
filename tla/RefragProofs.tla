---------------------------- MODULE RefragProofs ---------------------------
(***************************************************************************)
(* Proofs about Refrag, for any fragments, buffer size and period.         *)
(***************************************************************************)
EXTENDS Refrag, FiniteSetTheorems, TLAPS

-----------------------------------------------------------------------------
(***************************************************************************)
(* The operators.                                                          *)
(***************************************************************************)
\* The fields of a fragment.
LEMMA FragmentFields ==
    ASSUME NEW f \in Fragment
    PROVE  /\ f.packet \in Packet /\ f.id \in Id
           /\ f.offset \in Nat /\ f.size \in Nat \ {0} /\ f.m \in {0, 1}
  BY FragmentAssumption

\* A fragment that fits is written inside the buffer (lines 123-125).
LEMMA WrittenInBuffer ==
    ASSUME NEW f \in Fragment, Fits(f)
    PROVE  Written(f) \subseteq Unit
  BY FragmentFields, SizeAssumption DEF Fits, EndPos, Written, Unit

\* A new entry, whatever its age.
LEMMA NewEntry ==
    ASSUME NEW age \in Age
    PROVE  /\ init_bulk_frag(age) \in Entry
           /\ Filled(init_bulk_frag(age)) = {}
           /\ init_bulk_frag(age).wrote_bytes = 0
           /\ init_bulk_frag(age).end_pos = BUFFER_FRAGS_SIZE
           /\ ~init_bulk_frag(age).lock
  BY SizeAssumption DEF init_bulk_frag, Entry, Filled

\* The fields that add_to_frags gives an entry.
LEMMA AddFields ==
    ASSUME NEW e \in Entry, NEW f \in Fragment, Fits(f)
    PROVE  LET a == add_to_frags(e, f)
           IN  /\ a.buffer = [u \in Unit |-> IF u \in Written(f) THEN f.packet ELSE e.buffer[u]]
               /\ a.lock = e.lock
               /\ a.first_received = IF f.offset = 0 THEN 0 ELSE e.first_received
               /\ a.wrote_bytes = e.wrote_bytes + Grows(f)
               /\ a.end_pos = IF f.m = 0 THEN EndPos(f) ELSE e.end_pos
               /\ a \in Entry
  <1>1. DOMAIN e.buffer \cup Written(f) = Unit
    BY WrittenInBuffer DEF Entry
  <1>2. Grows(f) \in Nat
    BY FragmentFields, SizeAssumption DEF Grows
  <1>3. EndPos(f) \in 0 .. BUFFER_FRAGS_SIZE
    BY FragmentFields, SizeAssumption DEF EndPos, Fits
  <1>4. 0 \in Age
    BY SizeAssumption DEF Age
  <1>5. [u \in Unit |-> IF u \in Written(f) THEN f.packet ELSE e.buffer[u]]
            \in [Unit -> Packet \cup {Junk}]
    BY FragmentFields DEF Entry
  <1>6. e.wrote_bytes + Grows(f) \in Nat
    BY <1>2 DEF Entry
  <1> QED
    BY <1>1, <1>3, <1>4, <1>5, <1>6 DEF add_to_frags, Entry

\* A fragment writes the units it counts.
LEMMA WrittenCount ==
    ASSUME NEW f \in Fragment
    PROVE  IsFiniteSet(Written(f)) /\ Cardinality(Written(f)) = Grows(f)
  <1> DEFINE data  == Header + f.offset .. EndPos(f) - 1
             heads == IF f.offset = 0 THEN 0 .. Header - 1 ELSE {}
  <1>1. f.offset \in Nat /\ f.size \in Nat /\ Header \in Nat
    BY FragmentFields, SizeAssumption
  <1>2. IsFiniteSet(data) /\ Cardinality(data) = f.size
    <2>1. Header + f.offset \in Int /\ EndPos(f) - 1 \in Int
      BY <1>1 DEF EndPos
    <2>2. IsFiniteSet(data)
          /\ Cardinality(data) = IF Header + f.offset > EndPos(f) - 1 THEN 0
                                 ELSE EndPos(f) - 1 - (Header + f.offset) + 1
      BY <2>1, FS_Interval
    <2> QED
      BY <1>1, <2>2 DEF EndPos
  <1>3. IsFiniteSet(heads) /\ Cardinality(heads) = IF f.offset = 0 THEN Header ELSE 0
    <2>1. CASE f.offset = 0
      <3>1. 0 \in Int /\ Header - 1 \in Int
        BY <1>1
      <3>2. IsFiniteSet(0 .. Header - 1)
            /\ Cardinality(0 .. Header - 1) = IF 0 > Header - 1 THEN 0 ELSE Header - 1 - 0 + 1
        BY <3>1, FS_Interval
      <3>3. heads = 0 .. Header - 1
        BY <2>1
      <3>4. Header - 1 - 0 + 1 = Header /\ (0 > Header - 1 => Header = 0)
        BY <1>1
      <3> HIDE DEF heads
      <3> QED
        BY <1>1, <2>1, <3>2, <3>3, <3>4
    <2>2. CASE f.offset # 0
      BY <2>2, FS_EmptySet
    <2> QED
      BY <2>1, <2>2
  <1>4. Written(f) = data \cup heads
    BY DEF Written
  <1>5. IsFiniteSet(data \cup heads) /\ IsFiniteSet(data \cap heads)
        /\ Cardinality(data \cup heads)
           = Cardinality(data) + Cardinality(heads) - Cardinality(data \cap heads)
    BY <1>2, <1>3, FS_Union, FS_Intersection
  <1>6. Cardinality(data \cap heads) = 0
    <2>1. data \cap heads = {}
      BY <1>1
    <2> QED
      BY <2>1, FS_EmptySet
  <1> HIDE DEF data, heads
  <1> QED
    BY <1>1, <1>2, <1>3, <1>4, <1>5, <1>6 DEF Grows

\* The units of an entry that were written are finitely many.
LEMMA FilledFinite ==
    ASSUME NEW e \in Entry
    PROVE  IsFiniteSet(Filled(e)) /\ Cardinality(Filled(e)) \in Nat
  <1>1. IsFiniteSet(Unit)
    BY SizeAssumption, FS_Interval DEF Unit
  <1>2. Filled(e) \subseteq Unit
    BY DEF Filled, Entry
  <1> QED
    BY <1>1, <1>2, FS_Subset, FS_CardinalityType

\* add_to_frags counts what it writes, and more if it was there before.
LEMMA AddCounts ==
    ASSUME NEW e \in Entry, NEW f \in Fragment, Fits(f),
           e.wrote_bytes >= Cardinality(Filled(e))
    PROVE  add_to_frags(e, f).wrote_bytes >= Cardinality(Filled(add_to_frags(e, f)))
  <1> DEFINE a == add_to_frags(e, f)
  <1>1. /\ a \in Entry /\ a.wrote_bytes = e.wrote_bytes + Grows(f)
        /\ a.buffer = [u \in Unit |-> IF u \in Written(f) THEN f.packet ELSE e.buffer[u]]
    BY AddFields
  <1> HIDE DEF a
  <1>2. Filled(a) \subseteq Filled(e) \cup Written(f)
    BY <1>1 DEF Filled, Entry
  <1>3. /\ IsFiniteSet(Filled(e)) /\ Cardinality(Filled(e)) \in Nat
        /\ IsFiniteSet(Written(f)) /\ Cardinality(Written(f)) = Grows(f)
    BY FilledFinite, WrittenCount
  <1>4. /\ IsFiniteSet(Filled(e) \cup Written(f))
        /\ Cardinality(Filled(e) \cup Written(f))
           = Cardinality(Filled(e)) + Cardinality(Written(f))
             - Cardinality(Filled(e) \cap Written(f))
    BY <1>3, FS_Union
  <1>5. /\ Cardinality(Filled(e) \cap Written(f)) \in Nat
        /\ Cardinality(Written(f)) \in Nat
    BY <1>3, FS_Intersection, FS_CardinalityType
  <1>6. /\ Cardinality(Filled(a)) <= Cardinality(Filled(e) \cup Written(f))
        /\ Cardinality(Filled(a)) \in Nat
    BY <1>1, <1>2, <1>4, FilledFinite, FS_Subset
  <1>7. e.wrote_bytes \in Nat /\ Grows(f) \in Nat
    BY FragmentFields, SizeAssumption DEF Entry, Grows
  <1>8. a.wrote_bytes >= Cardinality(Filled(a))
    BY <1>1, <1>3, <1>4, <1>5, <1>6, <1>7
  <1> QED
    BY <1>8 DEF a

\* What send_frags hands over lies in the buffer.
LEMMA ImageType ==
    ASSUME NEW e \in Entry
    PROVE  /\ DOMAIN Image(e) \subseteq Unit
           /\ \A u \in DOMAIN Image(e) : Image(e)[u] \in Packet \cup {Junk}
  BY SizeAssumption DEF Image, Entry, Unit

\* Time makes an entry older and changes nothing else in it.
LEMMA OlderEntry ==
    ASSUME NEW e \in Entry
    PROVE  LET o == [e EXCEPT !.first_received = Older(@)]
           IN  /\ o \in Entry
               /\ o.buffer = e.buffer /\ o.wrote_bytes = e.wrote_bytes
               /\ o.end_pos = e.end_pos /\ o.lock = e.lock
               /\ o.first_received = Older(e.first_received)
  <1>1. Older(e.first_received) \in Age
    BY SizeAssumption DEF Older, Age, Entry
  <1> QED
    BY <1>1 DEF Entry

-----------------------------------------------------------------------------
(***************************************************************************)
(* The invariant.                                                          *)
(***************************************************************************)
\* The threads.
ThreadsOK ==
    /\ hashlist_mutex \in {"handler", "timer", NoThread}
    /\ handler \in {"idle", "table", "entry"}
    /\ frag \in Fragment \cup {NoFragment}
    /\ timer \in {"sleep", "lock", "scan"}
    /\ sleep \in 0 .. TIMEOUT
    /\ handler # "idle" => frag \in Fragment
    /\ handler = "entry" <=> hashlist_mutex = "handler"
    /\ timer = "scan" <=> hashlist_mutex = "timer"

\* An entry of the table: it is counted and not complete.
Sound(e) == e.wrote_bytes >= Cardinality(Filled(e)) /\ ~Completes(e)

TableOK ==
    /\ frag_packets \in [Id -> Entry \cup {NoEntry}]
    /\ \A i \in Id : Here(i) => Sound(frag_packets[i])

DeliveredOK == delivered \in [Fragment -> 0 .. Copies]

InBuffer(image) == /\ DOMAIN image \subseteq Unit
                   /\ \A u \in DOMAIN image : image[u] \in Packet \cup {Junk}

SentOK == \A image \in sent : InBuffer(image)

Inv == ThreadsOK /\ TableOK /\ DeliveredOK /\ SentOK /\ EntryInUse

\* A table all of whose entries are sound is sound.
LEMMA NewTable ==
    ASSUME NEW g \in [Id -> Entry \cup {NoEntry}],
           \A i \in Id : g[i] # NoEntry => Sound(g[i]),
           frag_packets' = g
    PROVE  TableOK'
  <1>1. (\A i \in Id : Here(i) => Sound(frag_packets[i]))'
    BY DEF Here, Sound, Filled, Completes
  <1> QED
    BY <1>1 DEF TableOK

\* The same when one entry is stored or removed.
LEMMA StoredEntry ==
    ASSUME TableOK, NEW k \in Id, NEW x \in Entry \cup {NoEntry},
           x # NoEntry => Sound(x),
           frag_packets' = [frag_packets EXCEPT ![k] = x]
    PROVE  TableOK'
  <1> DEFINE g == [frag_packets EXCEPT ![k] = x]
  <1>1. g \in [Id -> Entry \cup {NoEntry}]
    BY DEF TableOK
  <1>2. \A i \in Id : g[i] # NoEntry => Sound(g[i])
    BY DEF TableOK, Here
  <1>3. frag_packets' = g
    OBVIOUS
  <1> HIDE DEF g
  <1> QED
    BY <1>1, <1>2, <1>3, NewTable

\* The entry the handler works on is in the table.
LEMMA EntryAtHand ==
    ASSUME Inv, handler = "entry"
    PROVE  /\ frag \in Fragment /\ frag.id \in Id
           /\ frag_packets[frag.id] \in Entry /\ Sound(frag_packets[frag.id])
  BY FragmentFields DEF Inv, ThreadsOK, TableOK, EntryInUse, Here

\* The state in which the service starts.
LEMMA InitInv == Init => Inv
  <1> SUFFICES ASSUME Init PROVE Inv
    OBVIOUS
  <1>1. ThreadsOK
    BY NamesAssumption, SizeAssumption DEF Init, ThreadsOK
  <1>2. TableOK
    BY DEF Init, TableOK, Here
  <1>3. DeliveredOK /\ SentOK /\ EntryInUse
    BY SizeAssumption DEF Init, DeliveredOK, SentOK, EntryInUse
  <1> QED
    BY <1>1, <1>2, <1>3 DEF Inv

\* A step of Receive.
LEMMA ReceiveInv ==
    ASSUME Inv, NEW f \in Fragment, Receive(f)
    PROVE  Inv'
  <1>1. ThreadsOK'
    BY DEF Inv, ThreadsOK, Receive
  <1>2. TableOK' /\ SentOK'
    BY DEF Inv, TableOK, SentOK, Receive, Here
  <1>3. DeliveredOK'
    BY SizeAssumption DEF Inv, DeliveredOK, Receive
  <1>4. EntryInUse'
    BY DEF EntryInUse, Receive
  <1> QED
    BY <1>1, <1>2, <1>3, <1>4 DEF Inv

\* A step of LockTable: a new entry is sound.
LEMMA LockTableInv ==
    ASSUME Inv, LockTable
    PROVE  Inv'
  <1>1. frag \in Fragment /\ frag.id \in Id
    BY FragmentFields DEF Inv, ThreadsOK, LockTable
  <1>2. ThreadsOK'
    BY NamesAssumption DEF Inv, ThreadsOK, LockTable
  <1>3. DeliveredOK' /\ SentOK'
    BY DEF Inv, DeliveredOK, SentOK, LockTable
  <1>4. TableOK' /\ frag_packets'[frag.id] # NoEntry
    <2>1. CASE frag_packets[frag.id] = NoEntry
      <3>1. PICK age \in Age :
                frag_packets' = [frag_packets EXCEPT ![frag.id] = init_bulk_frag(age)]
        BY <2>1 DEF LockTable
      <3>2. init_bulk_frag(age) \in Entry /\ init_bulk_frag(age) # NoEntry
        BY NewEntry, EntryAssumption
      <3>3. Sound(init_bulk_frag(age))
        BY NewEntry, FS_EmptySet, SizeAssumption DEF Sound, Completes
      <3>4. TableOK'
        BY <1>1, <3>1, <3>2, <3>3, StoredEntry DEF Inv
      <3> QED
        BY <1>1, <3>1, <3>2, <3>4 DEF Inv, TableOK
    <2>2. CASE frag_packets[frag.id] # NoEntry
      BY <2>2 DEF LockTable, Inv, TableOK, Here
    <2> QED
      BY <2>1, <2>2
  <1>5. EntryInUse'
    BY <1>1, <1>4 DEF EntryInUse, Here, LockTable
  <1> QED
    BY <1>2, <1>3, <1>4, <1>5 DEF Inv

\* What TooBig, Keep and Send have in common.
LEMMA WithEntryInv ==
    ASSUME Inv, WithEntry
    PROVE  ThreadsOK' /\ DeliveredOK' /\ EntryInUse'
  <1>1. ThreadsOK'
    BY NamesAssumption DEF Inv, ThreadsOK, WithEntry
  <1> QED
    BY <1>1 DEF Inv, DeliveredOK, EntryInUse, WithEntry

\* A step of TooBig.
LEMMA TooBigInv ==
    ASSUME Inv, TooBig
    PROVE  Inv'
  <1>1. WithEntry /\ handler = "entry"
    BY DEF TooBig, WithEntry
  <1> DEFINE e == frag_packets[frag.id]
             x == [e EXCEPT !.lock = TRUE]
  <1>2. frag.id \in Id /\ e \in Entry /\ Sound(e)
    BY <1>1, EntryAtHand
  <1>3. x \in Entry /\ Sound(x)
    BY <1>2 DEF Entry, Sound, Filled, Completes
  <1>4. frag_packets' = [frag_packets EXCEPT ![frag.id] = x]
    BY DEF TooBig
  <1> HIDE DEF x
  <1>5. TableOK'
    BY <1>2, <1>3, <1>4, StoredEntry DEF Inv
  <1>6. SentOK'
    BY DEF TooBig, Inv, SentOK
  <1> QED
    BY <1>1, <1>5, <1>6, WithEntryInv DEF Inv

\* A step of Keep: what is added is counted, and the entry is not complete.
LEMMA KeepInv ==
    ASSUME Inv, Keep
    PROVE  Inv'
  <1>1. WithEntry /\ handler = "entry" /\ Fits(frag)
    BY DEF Keep, WithEntry
  <1> DEFINE e == frag_packets[frag.id]
             x == add_to_frags(e, frag)
  <1>2. frag \in Fragment /\ frag.id \in Id /\ e \in Entry /\ Sound(e)
    BY <1>1, EntryAtHand
  <1>3. ~Completes(x) /\ frag_packets' = [frag_packets EXCEPT ![frag.id] = x]
    BY DEF Keep
  <1>4. x \in Entry
    BY <1>1, <1>2, AddFields
  <1>5. x.wrote_bytes >= Cardinality(Filled(x))
    BY <1>1, <1>2, AddCounts DEF Sound
  <1> HIDE DEF x
  <1>6. TableOK'
    BY <1>2, <1>3, <1>4, <1>5, StoredEntry DEF Inv, Sound
  <1>7. SentOK'
    BY DEF Keep, Inv, SentOK
  <1> QED
    BY <1>1, <1>6, <1>7, WithEntryInv DEF Inv

\* A step of Send: the packet lies in the buffer.
LEMMA SendInv ==
    ASSUME Inv, Send
    PROVE  Inv'
  <1>1. WithEntry /\ handler = "entry" /\ Fits(frag)
    BY DEF Send, WithEntry
  <1> DEFINE e == frag_packets[frag.id]
             x == add_to_frags(e, frag)
  <1>2. frag \in Fragment /\ frag.id \in Id /\ e \in Entry
    BY <1>1, EntryAtHand
  <1>3. sent' = sent \cup {Image(x)}
    BY DEF Send
  <1>4. x \in Entry
    BY <1>1, <1>2, AddFields
  <1> HIDE DEF x
  <1>5. InBuffer(Image(x))
    BY <1>4, ImageType DEF InBuffer
  <1>6. SentOK'
    BY <1>3, <1>5 DEF Inv, SentOK
  <1>7. TableOK'
    BY <1>2, StoredEntry DEF Send, Inv
  <1> QED
    BY <1>1, <1>6, <1>7, WithEntryInv DEF Inv

\* The steps of the timer that do not touch the table.
LEMMA TimerInv ==
    ASSUME Inv, Wake \/ LockForScan
    PROVE  Inv'
  <1>1. UNCHANGED <<frag_packets, handler, frag, delivered, sent>>
    BY DEF Wake, LockForScan
  <1>2. ThreadsOK'
    BY NamesAssumption DEF Inv, ThreadsOK, Wake, LockForScan
  <1>3. TableOK' /\ DeliveredOK' /\ SentOK'
    BY <1>1 DEF Inv, TableOK, Here, DeliveredOK, SentOK
  <1>4. EntryInUse'
    BY <1>1, NamesAssumption DEF Inv, ThreadsOK, EntryInUse, Here, Wake, LockForScan
  <1> QED
    BY <1>2, <1>3, <1>4 DEF Inv

\* A step of Scan: the handler has no entry in its hands.
LEMMA ScanInv ==
    ASSUME Inv, Scan
    PROVE  Inv'
  <1>1. hashlist_mutex = "timer" /\ handler # "entry"
    BY DEF Inv, ThreadsOK, Scan
  <1>2. ThreadsOK'
    BY <1>1, NamesAssumption, SizeAssumption DEF Inv, ThreadsOK, Scan
  <1>3. DeliveredOK' /\ SentOK' /\ EntryInUse'
    BY <1>1 DEF Inv, DeliveredOK, SentOK, EntryInUse, Scan
  <1>4. TableOK'
    <2> DEFINE g == [i \in Id |->
           IF frag_packets[i] # NoEntry /\ Expired(frag_packets[i])
           THEN NoEntry ELSE frag_packets[i]]
    <2>1. g \in [Id -> Entry \cup {NoEntry}]
      BY DEF Inv, TableOK
    <2>2. \A i \in Id : g[i] # NoEntry => Sound(g[i])
      BY DEF Inv, TableOK, Here
    <2>3. frag_packets' = g
      BY DEF Scan
    <2> HIDE DEF g
    <2> QED
      BY <2>1, <2>2, <2>3, NewTable
  <1> QED
    BY <1>2, <1>3, <1>4 DEF Inv

\* A step of Tick: entries grow older.
LEMMA TickInv ==
    ASSUME Inv, Tick
    PROVE  Inv'
  <1> DEFINE o(e) == [e EXCEPT !.first_received = Older(@)]
             g == [i \in Id |-> IF frag_packets[i] = NoEntry THEN NoEntry
                                ELSE o(frag_packets[i])]
  <1>1. ASSUME NEW i \in Id, frag_packets[i] # NoEntry
        PROVE  o(frag_packets[i]) \in Entry /\ Sound(o(frag_packets[i]))
    <2>1. frag_packets[i] \in Entry /\ Sound(frag_packets[i])
      BY <1>1 DEF Inv, TableOK, Here
    <2> QED
      BY <2>1, OlderEntry DEF Sound, Filled, Completes
  <1>2. frag_packets' = g
    BY DEF Tick
  <1> HIDE DEF o
  <1>3. g \in [Id -> Entry \cup {NoEntry}]
    BY <1>1
  <1>4. \A i \in Id : g[i] # NoEntry => Sound(g[i])
    BY <1>1
  <1>5. \A i \in Id : frag_packets[i] # NoEntry => g[i] # NoEntry
    BY <1>1, EntryAssumption
  <1> HIDE DEF g
  <1>6. TableOK'
    BY <1>2, <1>3, <1>4, NewTable
  <1>7. ThreadsOK'
    BY SizeAssumption DEF Inv, ThreadsOK, Tick
  <1>8. DeliveredOK' /\ SentOK'
    BY DEF Inv, DeliveredOK, SentOK, Tick
  <1>9. EntryInUse'
    <2>1. UNCHANGED <<handler, hashlist_mutex, frag>>
      BY DEF Tick
    <2> QED
      BY <1>2, <1>5, <2>1, EntryAtHand, EntryAssumption DEF Inv, EntryInUse, Here
  <1> QED
    BY <1>6, <1>7, <1>8, <1>9 DEF Inv

\* Every step preserves the invariant.
LEMMA StepInv == Inv /\ [Next]_vars => Inv'
  <1> SUFFICES ASSUME Inv, [Next]_vars PROVE Inv'
    OBVIOUS
  <1>1. ASSUME NEW f \in Fragment, Receive(f) PROVE Inv'
    BY <1>1, ReceiveInv
  <1>2. CASE refrag_packet
    BY <1>2, LockTableInv, TooBigInv, KeepInv, SendInv DEF refrag_packet
  <1>3. CASE pkt_timeout
    BY <1>3, TimerInv, ScanInv DEF pkt_timeout
  <1>4. CASE Tick
    BY <1>4, TickInv
  <1>5. CASE UNCHANGED vars
    BY <1>5 DEF vars, Inv, ThreadsOK, TableOK, Here, DeliveredOK, SentOK, EntryInUse
  <1> QED
    BY <1>1, <1>2, <1>3, <1>4, <1>5 DEF Next

\* The strengthening of the properties below, for every behaviour.
THEOREM Invariance == Spec => []Inv
  BY InitInv, StepInv, PTL DEF Spec

\* Types: the buffer of an entry is never written outside (lines 123-137), and
\* what is sent lies within it.
THEOREM TypeCorrect == Spec => []TypeOK
  <1>1. Inv => TypeOK
    BY DEF Inv, ThreadsOK, TableOK, DeliveredOK, SentOK, InBuffer, TypeOK
  <1> QED
    BY <1>1, Invariance, PTL

\* The handler never uses an entry that the timer freed.
THEOREM NoUseAfterFree == Spec => []EntryInUse
  <1>1. Inv => EntryInUse
    BY DEF Inv
  <1> QED
    BY <1>1, Invariance, PTL

\* Bytes are never counted too low.
THEOREM Counted == Spec => []WrittenIsCounted
  <1>1. Inv => WrittenIsCounted
    BY DEF Inv, TableOK, Sound, WrittenIsCounted
  <1> QED
    BY <1>1, Invariance, PTL

\* A packet all of whose units arrived does not stay in the table: it would have
\* end_pos units filled and fewer counted.
THEOREM CompleteIsSent == Spec => []NothingWithheld
  <1>1. ASSUME Inv, NEW i \in Id, Here(i),
               0 .. frag_packets[i].end_pos - 1 \subseteq Filled(frag_packets[i])
        PROVE  FALSE
    <2> DEFINE e == frag_packets[i]
               n == e.end_pos
    <2>1. e \in Entry /\ Sound(e)
      BY <1>1 DEF Inv, TableOK, Here
    <2>2. n \in Nat /\ e.wrote_bytes \in Nat
      BY <2>1 DEF Entry
    <2>3. 0 \in Int /\ n - 1 \in Int
      BY <2>2
    <2> HIDE DEF n
    <2>4. Cardinality(0 .. n - 1) = IF 0 > n - 1 THEN 0 ELSE n - 1 - 0 + 1
      BY <2>3, FS_Interval
    <2>5. Cardinality(0 .. n - 1) = n
      BY <2>2, <2>4
    <2>6. 0 .. n - 1 \subseteq Filled(e)
      BY <1>1 DEF n
    <2>7. Cardinality(0 .. n - 1) <= Cardinality(Filled(e)) /\ Cardinality(Filled(e)) \in Nat
      BY <2>1, <2>6, FilledFinite, FS_Subset
    <2>8. e.wrote_bytes >= Cardinality(Filled(e)) /\ ~(e.wrote_bytes >= n)
      BY <2>1 DEF Sound, Completes, n
    <2> HIDE DEF e
    <2> QED
      BY <2>2, <2>5, <2>7, <2>8
  <1>2. Inv => NothingWithheld
    BY <1>1 DEF NothingWithheld
  <1> QED
    BY <1>2, Invariance, PTL

-----------------------------------------------------------------------------
(***************************************************************************)
(* Time.  A fragment that does not fit leaves its entry locked, and a      *)
(* handler stuck with it keeps the timer out of the table: what is said of *)
(* time holds when all fragments fit.                                      *)
(***************************************************************************)
\* An entry with its first fragment will expire before two periods are over.
InTime(e, s) == ~e.lock /\ (e.buffer[0] # Junk => e.first_received + s < 2 * TIMEOUT)

TimeInv ==
    /\ timer # "sleep" => sleep = 0
    /\ \A i \in Id : Here(i) => InTime(frag_packets[i], sleep)

\* The time invariant when one entry is stored or removed.
LEMMA StoredInTime ==
    ASSUME Inv, TimeInv, NEW k \in Id, NEW x,
           x # NoEntry => InTime(x, sleep),
           frag_packets' = [frag_packets EXCEPT ![k] = x],
           UNCHANGED <<timer, sleep>>
    PROVE  TimeInv'
  <1>1. (\A i \in Id : Here(i) => InTime(frag_packets[i], sleep))'
    BY DEF Inv, TableOK, TimeInv, Here, InTime
  <1> QED
    BY <1>1 DEF TimeInv

\* Steps of the handler: the first fragment has just been received.
LEMMA HandlerInTime ==
    ASSUME \A f \in Fragment : Fits(f), Inv, TimeInv, refrag_packet
    PROVE  TimeInv'
  <1>1. frag \in Fragment /\ frag.id \in Id
    BY FragmentFields DEF Inv, ThreadsOK, refrag_packet, LockTable, TooBig, Keep, Send, WithEntry
  <1>2. UNCHANGED <<timer, sleep>>
    BY DEF refrag_packet, LockTable, TooBig, Keep, Send, WithEntry
  <1>3. CASE LockTable
    <2>1. CASE frag_packets[frag.id] = NoEntry
      <3>1. PICK age \in Age :
                frag_packets' = [frag_packets EXCEPT ![frag.id] = init_bulk_frag(age)]
        BY <1>3, <2>1 DEF LockTable
      <3>2. init_bulk_frag(age).buffer[0] = Junk /\ ~init_bulk_frag(age).lock
        BY SizeAssumption DEF init_bulk_frag, Unit
      <3> QED
        BY <1>1, <1>2, <3>1, <3>2, StoredInTime DEF InTime
    <2>2. CASE frag_packets[frag.id] # NoEntry
      BY <1>2, <1>3, <2>2 DEF LockTable, TimeInv, Here
    <2> QED
      BY <2>1, <2>2
  <1>4. CASE TooBig
    BY <1>1, <1>4 DEF TooBig
  <1>5. CASE Send
    <2>1. frag_packets' = [frag_packets EXCEPT ![frag.id] = NoEntry]
      BY <1>5 DEF Send
    <2> QED
      BY <1>1, <1>2, <2>1, StoredInTime
  <1>6. CASE Keep
    <2> DEFINE e == frag_packets[frag.id]
               x == add_to_frags(e, frag)
    <2>1. handler = "entry" /\ Fits(frag)
      BY <1>6 DEF Keep, WithEntry
    <2>2. e \in Entry /\ InTime(e, sleep)
      BY <1>1, <2>1, EntryAtHand DEF TimeInv, Inv, EntryInUse, Here
    <2>3. /\ x.lock = e.lock
          /\ x.first_received = IF frag.offset = 0 THEN 0 ELSE e.first_received
          /\ x.buffer = [u \in Unit |->
                            IF u \in Written(frag) THEN frag.packet ELSE e.buffer[u]]
      BY <1>1, <2>1, <2>2, AddFields
    <2>4. frag_packets' = [frag_packets EXCEPT ![frag.id] = x]
      BY <1>6 DEF Keep
    <2> HIDE DEF x, e
    <2>5. frag.offset # 0 => x.buffer[0] = e.buffer[0]
      <3>1. frag.offset # 0 => 0 \notin Written(frag)
        BY <1>1, FragmentFields, SizeAssumption DEF Written
      <3>2. 0 \in Unit
        BY SizeAssumption DEF Unit
      <3> QED
        BY <2>3, <3>1, <3>2
    <2>6. sleep < 2 * TIMEOUT /\ 0 + sleep = sleep
      BY SizeAssumption DEF Inv, ThreadsOK
    <2>7. InTime(x, sleep)
      BY <2>2, <2>3, <2>5, <2>6 DEF InTime
    <2> QED
      BY <1>1, <1>2, <2>4, <2>7, StoredInTime
  <1> QED
    BY <1>3, <1>4, <1>5, <1>6 DEF refrag_packet

\* A scan frees what is TIMEOUT old, and the rest has less than one period to go.
LEMMA ScanInTime ==
    ASSUME Inv, TimeInv, Scan
    PROVE  TimeInv'
  <1>1. ASSUME NEW i \in Id, frag_packets'[i] # NoEntry
        PROVE  InTime(frag_packets'[i], TIMEOUT)
    <2>1. frag_packets'[i] = frag_packets[i] /\ ~Expired(frag_packets[i])
      BY <1>1 DEF Scan
    <2>2. frag_packets[i] \in Entry /\ InTime(frag_packets[i], sleep)
      BY <1>1, <2>1 DEF Inv, TableOK, TimeInv, Here
    <2>3. frag_packets[i].first_received \in Int
      BY <2>2 DEF Entry, Age, Future
    <2> QED
      BY <2>1, <2>2, <2>3, SizeAssumption DEF InTime, Expired
  <1>2. timer' = "sleep" /\ sleep' = TIMEOUT
    BY DEF Scan
  <1> QED
    BY <1>1, <1>2 DEF TimeInv, Here, InTime

\* Time passes only while the timer sleeps: what an entry ages, it sleeps less.
LEMMA TickInTime ==
    ASSUME Inv, TimeInv, Tick
    PROVE  TimeInv'
  <1>1. handler # "entry"
    <2>1. handler = "entry" => frag.id \in Id /\ Here(frag.id)
      BY EntryAtHand, EntryAssumption DEF Here
    <2> QED
      BY <2>1 DEF Tick, HandlerStuck, TimeInv, InTime
  <1>2. timer = "sleep" /\ sleep > 0
    BY <1>1 DEF Tick, TimerAsleep, Inv, ThreadsOK
  <1>3. timer' = "sleep" /\ sleep' = sleep - 1 /\ sleep \in Nat
    BY <1>2, SizeAssumption DEF Tick, Inv, ThreadsOK
  <1>4. ASSUME NEW i \in Id, frag_packets'[i] # NoEntry
        PROVE  InTime(frag_packets'[i], sleep - 1)
    <2> DEFINE e == frag_packets[i]
               o == [e EXCEPT !.first_received = Older(@)]
    <2>1. e # NoEntry /\ frag_packets'[i] = o
      BY <1>4 DEF Tick
    <2>2. e \in Entry /\ InTime(e, sleep)
      BY <2>1 DEF Inv, TableOK, TimeInv, Here
    <2>3. o.lock = e.lock /\ o.buffer = e.buffer /\ o.first_received = Older(e.first_received)
      BY <2>2, OlderEntry
    <2>4. e.first_received \in Int
      BY <2>2 DEF Entry, Age, Future
    <2> HIDE DEF o
    <2>5. /\ Older(e.first_received) \in Int
          /\ Older(e.first_received) <= e.first_received + 1
      BY <2>4 DEF Older
    <2> HIDE DEF e
    <2>6. InTime(o, sleep - 1)
      BY <1>3, <2>2, <2>3, <2>4, <2>5, SizeAssumption DEF InTime
    <2> QED
      BY <2>1, <2>6
  <1> QED
    BY <1>3, <1>4 DEF TimeInv, Here, InTime

\* Every step preserves the time invariant when all fragments fit.
LEMMA StepInTime ==
    ASSUME \A f \in Fragment : Fits(f)
    PROVE  Inv /\ TimeInv /\ [Next]_vars => TimeInv'
  <1> SUFFICES ASSUME Inv, TimeInv, [Next]_vars PROVE TimeInv'
    OBVIOUS
  <1>1. ASSUME NEW f \in Fragment, Receive(f) PROVE TimeInv'
    BY <1>1 DEF Receive, TimeInv, Here
  <1>2. CASE refrag_packet
    BY <1>2, HandlerInTime
  <1>3. CASE Wake \/ LockForScan
    BY <1>3 DEF Wake, LockForScan, TimeInv, Here
  <1>4. CASE Scan
    BY <1>4, ScanInTime
  <1>5. CASE Tick
    BY <1>5, TickInTime
  <1>6. CASE UNCHANGED vars
    BY <1>6 DEF vars, TimeInv, Here
  <1> QED
    BY <1>1, <1>2, <1>3, <1>4, <1>5, <1>6 DEF Next, pkt_timeout

\* When all fragments fit, an incomplete packet is freed before its first
\* fragment is two periods old (lines 19-43).
THEOREM FreedInTime ==
    ASSUME \A f \in Fragment : Fits(f)
    PROVE  Spec => []WithinTwoDeltas
  <1>1. Init => TimeInv
    BY DEF Init, TimeInv, Here
  <1>2. Inv /\ TimeInv => WithinTwoDeltas
    <2> SUFFICES ASSUME Inv, TimeInv, NEW i \in Id, Started(i)
                 PROVE  frag_packets[i].first_received < 2 * TIMEOUT
      BY DEF WithinTwoDeltas
    <2>1. frag_packets[i] \in Entry /\ InTime(frag_packets[i], sleep)
      BY DEF Inv, TableOK, TimeInv, Started, Here
    <2>2. frag_packets[i].first_received \in Int /\ sleep \in Nat
      BY <2>1, SizeAssumption DEF Entry, Age, Future, Inv, ThreadsOK
    <2> QED
      BY <2>1, <2>2, SizeAssumption DEF InTime, Started
  <1>3. Inv /\ TimeInv /\ [Next]_vars => TimeInv'
    BY StepInTime
  <1> QED
    BY <1>1, <1>2, <1>3, Invariance, PTL DEF Spec

-----------------------------------------------------------------------------
(***************************************************************************)
(* What is sent.  A fragment that comes twice is counted twice, two        *)
(* packets with the same identification share an entry, and the last       *)
(* fragment tells where a packet ends: what is said of packets holds when  *)
(* the network delivers what the sources cut, and nothing twice.           *)
(***************************************************************************)
\* Every fragment comes at most once; those with the same identification are of the
\* same packet, do not overlap and end no later than the last one; and none but a
\* last one ends where the buffer ends, as is so when the packets fit in it.
Reassembles ==
    /\ Copies <= 1
    /\ \A f, g \in Fragment : f # g /\ f.id = g.id =>
           /\ f.packet = g.packet
           /\ Written(f) \cap Written(g) = {}
           /\ f.m = 0 => EndPos(g) <= EndPos(f)
    /\ \A f \in Fragment : f.m = 1 => EndPos(f) # BUFFER_FRAGS_SIZE

\* The entry e of the identification i was made from the fragments in K.
Pieces(e, i, K) ==
    /\ \A f \in K : f.id = i /\ Fits(f)
    /\ \A u \in Unit : \/ \E f \in K : u \in Written(f) /\ e.buffer[u] = f.packet
                       \/ e.buffer[u] = Junk /\ \A f \in K : u \notin Written(f)
    /\ e.wrote_bytes = Cardinality(Filled(e))
    /\ \/ \E f \in K : f.m = 0 /\ e.end_pos = EndPos(f)
       \/ e.end_pos = BUFFER_FRAGS_SIZE /\ \A f \in K : f.m = 1

\* A whole packet.
Whole(image) ==
    \E f \in Fragment : f.m = 0 /\ image = [u \in 0 .. EndPos(f) - 1 |-> f.packet]

LEMMA WrittenBefore ==
    ASSUME NEW f \in Fragment
    PROVE  Written(f) \subseteq 0 .. EndPos(f) - 1
  BY FragmentFields, SizeAssumption DEF Written, EndPos

LEMMA NewPieces ==
    ASSUME NEW age \in Age, NEW i
    PROVE  Pieces(init_bulk_frag(age), i, {})
  <1>1. \A u \in Unit : init_bulk_frag(age).buffer[u] = Junk
    BY DEF init_bulk_frag
  <1> QED
    BY <1>1, NewEntry, FS_EmptySet DEF Pieces

\* Only these parts of an entry matter.
LEMMA SamePieces ==
    ASSUME NEW e, NEW x, NEW i, NEW K, Pieces(e, i, K),
           x.buffer = e.buffer, x.wrote_bytes = e.wrote_bytes, x.end_pos = e.end_pos
    PROVE  Pieces(x, i, K)
  BY DEF Pieces, Filled

\* A fragment more.
LEMMA AddPieces ==
    ASSUME Reassembles, NEW e \in Entry, NEW i, NEW K \in SUBSET Fragment, Pieces(e, i, K),
           NEW f \in Fragment, f.id = i, Fits(f), f \notin K
    PROVE  Pieces(add_to_frags(e, f), i, K \cup {f})
  <1> DEFINE a == add_to_frags(e, f)
             L == K \cup {f}
  <1>1. /\ a \in Entry
        /\ a.buffer = [u \in Unit |-> IF u \in Written(f) THEN f.packet ELSE e.buffer[u]]
        /\ a.wrote_bytes = e.wrote_bytes + Grows(f)
        /\ a.end_pos = IF f.m = 0 THEN EndPos(f) ELSE e.end_pos
    BY AddFields
  <1> HIDE DEF a
  <1>2. ASSUME NEW g \in K PROVE Written(g) \cap Written(f) = {} /\ g.id = i /\ Fits(g)
    BY DEF Reassembles, Pieces
  <1>3. ASSUME NEW u \in Unit
        PROVE  \/ \E g \in L : u \in Written(g) /\ a.buffer[u] = g.packet
               \/ a.buffer[u] = Junk /\ \A g \in L : u \notin Written(g)
    <2>1. CASE u \in Written(f)
      BY <1>1, <2>1
    <2>2. CASE u \notin Written(f)
      <3>1. a.buffer[u] = e.buffer[u]
        BY <1>1, <2>2
      <3> QED
        BY <2>2, <3>1 DEF Pieces
    <2> QED
      BY <2>1, <2>2
  <1>4. a.wrote_bytes = Cardinality(Filled(a))
    <2>1. Written(f) \subseteq Unit /\ f.packet # Junk
      BY WrittenInBuffer, FragmentFields, NamesAssumption
    <2>2. Filled(a) = Filled(e) \cup Written(f)
      BY <1>1, <2>1 DEF Filled, Entry
    <2>3. Filled(e) \cap Written(f) = {}
      BY <1>2 DEF Filled, Entry, Pieces
    <2>4. /\ IsFiniteSet(Filled(e)) /\ Cardinality(Filled(e)) \in Nat
          /\ IsFiniteSet(Written(f)) /\ Cardinality(Written(f)) = Grows(f)
      BY FilledFinite, WrittenCount
    <2>5. Cardinality(Filled(a)) = Cardinality(Filled(e)) + Cardinality(Written(f))
                                   - Cardinality(Filled(e) \cap Written(f))
      BY <2>2, <2>4, FS_Union
    <2>6. Cardinality(Filled(e) \cap Written(f)) = 0
      BY <2>3, FS_EmptySet
    <2>7. Grows(f) \in Nat /\ e.wrote_bytes = Cardinality(Filled(e))
      BY FragmentFields, SizeAssumption DEF Pieces, Grows
    <2> QED
      BY <1>1, <2>4, <2>5, <2>6, <2>7
  <1>5. \/ \E g \in L : g.m = 0 /\ a.end_pos = EndPos(g)
        \/ a.end_pos = BUFFER_FRAGS_SIZE /\ \A g \in L : g.m = 1
    BY <1>1, FragmentFields DEF Pieces
  <1>6. \A g \in L : g.id = i /\ Fits(g)
    BY <1>2
  <1>7. Pieces(a, i, L)
    BY <1>3, <1>4, <1>5, <1>6 DEF Pieces
  <1> QED
    BY <1>7 DEF a

\* An entry that is complete holds a whole packet: it has as many units filled as
\* the packet has, and none behind them.
LEMMA CompletePieces ==
    ASSUME Reassembles, NEW e \in Entry, NEW i, NEW K \in SUBSET Fragment, Pieces(e, i, K),
           Completes(e)
    PROVE  Whole(Image(e))
  <1> DEFINE n == e.end_pos
  <1>1. /\ n \in Nat /\ BUFFER_FRAGS_SIZE \in Nat \ {0} /\ n <= BUFFER_FRAGS_SIZE
        /\ Cardinality(Filled(e)) >= n
    BY SizeAssumption DEF Entry, Completes, Pieces
  <1>2. IsFiniteSet(0 .. n - 1) /\ Cardinality(0 .. n - 1) = n
    <2>1. 0 \in Int /\ n - 1 \in Int /\ n \in Nat
      BY <1>1
    <2> HIDE DEF n
    <2>2. IsFiniteSet(0 .. n - 1) /\ Cardinality(0 .. n - 1) = IF 0 > n - 1 THEN 0 ELSE n - 1 - 0 + 1
      BY <2>1, FS_Interval
    <2> QED
      BY <2>1, <2>2
  <1>3. Filled(e) \subseteq 0 .. n - 1 => Filled(e) = 0 .. n - 1
    <2> SUFFICES ASSUME Filled(e) \subseteq 0 .. n - 1
                 PROVE  Filled(e) = 0 .. n - 1
      OBVIOUS
    <2>1. Cardinality(Filled(e)) <= Cardinality(0 .. n - 1) /\ Cardinality(Filled(e)) \in Nat
      BY <1>2, FS_Subset, FilledFinite
    <2>2. Cardinality(Filled(e)) = Cardinality(0 .. n - 1)
      BY <1>1, <1>2, <2>1
    <2> QED
      BY <1>2, <2>2, FS_Subset
  <1>4. \A u \in Filled(e) : u \in Unit /\ \E g \in K : u \in Written(g) /\ e.buffer[u] = g.packet
    BY DEF Filled, Entry, Pieces
  <1>5. \/ \E f \in K : f.m = 0 /\ n = EndPos(f)
        \/ n = BUFFER_FRAGS_SIZE /\ \A f \in K : f.m = 1
    BY DEF Pieces
  <1> HIDE DEF n
  <1>6. ASSUME NEW f \in K, f.m = 0, n = EndPos(f) PROVE Whole(Image(e))
    <2>1. ASSUME NEW g \in K
          PROVE  Written(g) \subseteq 0 .. n - 1 /\ g.packet = f.packet
      <3>1. f \in Fragment /\ g \in Fragment /\ f.id = g.id
        BY DEF Pieces
      <3>2. g.packet = f.packet /\ EndPos(g) <= n
        BY <1>1, <1>6, <3>1 DEF Reassembles
      <3>3. Written(g) \subseteq 0 .. EndPos(g) - 1 /\ EndPos(g) \in Int
        BY <3>1, WrittenBefore, FragmentFields, SizeAssumption DEF EndPos
      <3> QED
        BY <1>1, <3>2, <3>3
    <2>2. Filled(e) \subseteq 0 .. n - 1
      BY <1>4, <2>1
    <2>3. ASSUME NEW u \in 0 .. n - 1 PROVE e.buffer[u] = f.packet
      <3>1. u \in Filled(e)
        BY <1>3, <2>2
      <3>2. PICK g \in K : e.buffer[u] = g.packet
        BY <1>4, <3>1
      <3> QED
        BY <2>1, <3>2
    <2>4. Image(e) = [u \in 0 .. EndPos(f) - 1 |-> f.packet]
      BY <1>6, <2>3 DEF Image, n
    <2> QED
      BY <1>6, <2>4 DEF Whole
  <1>7. ASSUME n = BUFFER_FRAGS_SIZE, \A f \in K : f.m = 1 PROVE FALSE
    <2>1. Filled(e) \subseteq 0 .. n - 1
      BY <1>4, <1>7 DEF Unit
    <2>2. n - 1 \in Filled(e)
      BY <1>1, <1>3, <1>7, <2>1
    <2>3. PICK g \in K : n - 1 \in Written(g)
      BY <1>4, <2>2
    <2>4. g \in Fragment /\ Fits(g) /\ g.m = 1
      BY <1>7 DEF Pieces
    <2>5. EndPos(g) # BUFFER_FRAGS_SIZE
      BY <2>4 DEF Reassembles
    <2>6. EndPos(g) <= BUFFER_FRAGS_SIZE /\ EndPos(g) \in Int /\ n - 1 <= EndPos(g) - 1
      BY <2>3, <2>4, WrittenBefore, FragmentFields, SizeAssumption DEF Fits, EndPos
    <2> QED
      BY <1>1, <1>7, <2>5, <2>6
  <1> QED
    BY <1>5, <1>6, <1>7

\* Every entry is made from fragments that came and are not in the hands of the
\* handler, and what was sent is whole.
PiecesHere(i) ==
    \E K \in SUBSET Fragment : /\ Pieces(frag_packets[i], i, K)
                               /\ \A f \in K : delivered[f] > 0 /\ f # frag

PiecesInv ==
    /\ \A i \in Id : Here(i) => PiecesHere(i)
    /\ handler # "idle" => delivered[frag] > 0
    /\ \A image \in sent : Whole(image)

\* A step that hands over or puts away a fragment or nothing, and changes one entry.
LEMMA OtherPieces ==
    ASSUME PiecesInv, NEW i \in Id, Here(i)', frag_packets'[i] = frag_packets[i],
           \A f \in Fragment : delivered[f] > 0 /\ f # frag => delivered'[f] > 0 /\ f # frag'
    PROVE  PiecesHere(i)'
  <1>1. PICK K \in SUBSET Fragment : /\ Pieces(frag_packets[i], i, K)
                                     /\ \A f \in K : delivered[f] > 0 /\ f # frag
    BY DEF PiecesInv, PiecesHere, Here
  <1>2. Pieces(frag_packets'[i], i, K) /\ \A f \in K : delivered'[f] > 0 /\ f # frag'
    BY <1>1
  <1> QED
    BY <1>2 DEF PiecesHere

LEMMA ReceivePieces ==
    ASSUME Reassembles, Inv, PiecesInv, NEW f \in Fragment, Receive(f)
    PROVE  PiecesInv'
  <1>1. /\ handler = "idle" /\ delivered[f] < Copies /\ Copies <= 1 /\ Copies \in Nat
        /\ delivered' = [delivered EXCEPT ![f] = @ + 1] /\ frag' = f
        /\ frag_packets' = frag_packets /\ sent' = sent
    BY SizeAssumption DEF Receive, Reassembles
  <1>2. delivered \in [Fragment -> 0 .. Copies]
    BY DEF Inv, DeliveredOK
  <1>3. delivered[f] = 0 /\ delivered'[f] = 1
    BY <1>1, <1>2
  <1>4. \A g \in Fragment : delivered[g] > 0 => delivered'[g] > 0 /\ g # frag'
    BY <1>1, <1>2, <1>3
  <1>5. ASSUME NEW i \in Id, Here(i)' PROVE PiecesHere(i)'
    BY <1>1, <1>4, <1>5, OtherPieces
  <1>6. handler' # "idle" => delivered'[frag'] > 0
    BY <1>1, <1>3
  <1> QED
    BY <1>1, <1>5, <1>6 DEF PiecesInv

LEMMA LockTablePieces ==
    ASSUME Inv, PiecesInv, LockTable
    PROVE  PiecesInv'
  <1>1. /\ handler = "table" /\ delivered' = delivered /\ frag' = frag /\ sent' = sent
        /\ frag_packets \in [Id -> Entry \cup {NoEntry}]
    BY DEF LockTable, Inv, TableOK
  <1>2. ASSUME NEW i \in Id, Here(i)' PROVE PiecesHere(i)'
    <2>1. CASE frag_packets'[i] = frag_packets[i]
      BY <1>1, <1>2, <2>1, OtherPieces
    <2>2. CASE frag_packets'[i] # frag_packets[i]
      <3>1. PICK age \in Age : frag_packets'[i] = init_bulk_frag(age)
        BY <1>1, <2>2 DEF LockTable
      <3>2. Pieces(frag_packets'[i], i, {})
        BY <3>1, NewPieces
      <3> QED
        BY <3>2 DEF PiecesHere
    <2> QED
      BY <2>1, <2>2
  <1>3. handler' # "idle" => delivered'[frag'] > 0
    BY <1>1 DEF PiecesInv
  <1> QED
    BY <1>1, <1>2, <1>3 DEF PiecesInv

\* The entry at hand.
LEMMA PiecesAtHand ==
    ASSUME Inv, PiecesInv, handler = "entry"
    PROVE  /\ frag \in Fragment /\ frag.id \in Id /\ frag_packets[frag.id] \in Entry
           /\ delivered[frag] > 0
           /\ \E K \in SUBSET Fragment : /\ Pieces(frag_packets[frag.id], frag.id, K)
                                          /\ \A f \in K : delivered[f] > 0 /\ f # frag
  <1>1. frag \in Fragment /\ frag.id \in Id /\ frag_packets[frag.id] \in Entry
    BY EntryAtHand
  <1>2. Here(frag.id)
    BY DEF Inv, EntryInUse
  <1> QED
    BY <1>1, <1>2 DEF PiecesInv, PiecesHere

\* The handler stores or removes the entry and puts the fragment away.
LEMMA StorePieces ==
    ASSUME Inv, PiecesInv, WithEntry, NEW x,
           frag_packets' = [frag_packets EXCEPT ![frag.id] = x],
           x # NoEntry => \E K \in SUBSET Fragment : /\ Pieces(x, frag.id, K)
                                                    /\ \A f \in K : delivered[f] > 0,
           \A image \in sent' : Whole(image)
    PROVE  PiecesInv'
  <1>1. /\ handler' = "idle" /\ frag' = NoFragment /\ delivered' = delivered
        /\ frag_packets \in [Id -> Entry \cup {NoEntry}]
    BY DEF WithEntry, Inv, TableOK
  <1>2. \A f \in Fragment : f # frag'
    BY <1>1, NamesAssumption
  <1>3. ASSUME NEW i \in Id, Here(i)' PROVE PiecesHere(i)'
    <2>1. CASE i = frag.id
      <3>1. frag_packets'[i] = x /\ x # NoEntry
        BY <1>1, <1>3, <2>1 DEF Here
      <3>2. PICK K \in SUBSET Fragment : Pieces(x, frag.id, K) /\ \A f \in K : delivered[f] > 0
        BY <3>1
      <3>3. Pieces(frag_packets'[i], i, K) /\ \A f \in K : delivered'[f] > 0 /\ f # frag'
        BY <1>1, <1>2, <2>1, <3>1, <3>2
      <3> QED
        BY <3>3 DEF PiecesHere
    <2>2. CASE i # frag.id
      <3>1. frag_packets'[i] = frag_packets[i]
        BY <1>1, <2>2
      <3> QED
        BY <1>1, <1>2, <1>3, <3>1, OtherPieces
    <2> QED
      BY <2>1, <2>2
  <1> QED
    BY <1>1, <1>3 DEF PiecesInv

LEMMA TooBigPieces ==
    ASSUME Inv, PiecesInv, TooBig
    PROVE  PiecesInv'
  <1> DEFINE e == frag_packets[frag.id]
             x == [e EXCEPT !.lock = TRUE]
  <1>1. WithEntry /\ handler = "entry" /\ sent' = sent
        /\ frag_packets' = [frag_packets EXCEPT ![frag.id] = x]
    BY DEF TooBig, WithEntry
  <1>2. PICK K \in SUBSET Fragment : Pieces(e, frag.id, K) /\ \A f \in K : delivered[f] > 0
    BY <1>1, PiecesAtHand
  <1>3. x.buffer = e.buffer /\ x.wrote_bytes = e.wrote_bytes /\ x.end_pos = e.end_pos
    BY <1>1, PiecesAtHand DEF Entry
  <1> HIDE DEF e, x
  <1>4. Pieces(x, frag.id, K)
    BY <1>2, <1>3, SamePieces
  <1>5. \A image \in sent' : Whole(image)
    BY <1>1 DEF PiecesInv
  <1> QED
    BY <1>1, <1>2, <1>4, <1>5, StorePieces

\* What add_to_frags makes of the entry at hand.
LEMMA AddedPieces ==
    ASSUME Reassembles, Inv, PiecesInv, handler = "entry", Fits(frag),
           NEW x, x = add_to_frags(frag_packets[frag.id], frag)
    PROVE  /\ x \in Entry
           /\ \E K \in SUBSET Fragment : Pieces(x, frag.id, K) /\ \A f \in K : delivered[f] > 0
  <1> DEFINE e == frag_packets[frag.id]
             i == frag.id
  <1>1. frag \in Fragment /\ e \in Entry /\ delivered[frag] > 0
    BY PiecesAtHand
  <1>2. PICK K \in SUBSET Fragment : Pieces(e, i, K) /\ \A f \in K : delivered[f] > 0 /\ f # frag
    BY PiecesAtHand
  <1>3. x \in Entry
    BY <1>1, AddFields
  <1>4. frag \notin K /\ x = add_to_frags(e, frag) /\ frag.id = i
    BY <1>2
  <1> HIDE DEF e, i
  <1>5. Pieces(x, i, K \cup {frag})
    BY <1>1, <1>2, <1>4, AddPieces
  <1>6. K \cup {frag} \in SUBSET Fragment /\ \A f \in K \cup {frag} : delivered[f] > 0
    BY <1>1, <1>2
  <1> QED
    BY <1>3, <1>5, <1>6 DEF i

LEMMA KeepPieces ==
    ASSUME Reassembles, Inv, PiecesInv, Keep
    PROVE  PiecesInv'
  <1> DEFINE x == add_to_frags(frag_packets[frag.id], frag)
  <1>1. WithEntry /\ handler = "entry" /\ Fits(frag) /\ sent' = sent
        /\ frag_packets' = [frag_packets EXCEPT ![frag.id] = x]
    BY DEF Keep, WithEntry
  <1>2. \E K \in SUBSET Fragment : Pieces(x, frag.id, K) /\ \A f \in K : delivered[f] > 0
    BY <1>1, AddedPieces
  <1>3. \A image \in sent' : Whole(image)
    BY <1>1 DEF PiecesInv
  <1> HIDE DEF x
  <1> QED
    BY <1>1, <1>2, <1>3, StorePieces

LEMMA SendPieces ==
    ASSUME Reassembles, Inv, PiecesInv, Send
    PROVE  PiecesInv'
  <1> DEFINE x == add_to_frags(frag_packets[frag.id], frag)
  <1>1. WithEntry /\ handler = "entry" /\ Fits(frag) /\ sent' = sent \cup {Image(x)}
        /\ Completes(x) /\ frag_packets' = [frag_packets EXCEPT ![frag.id] = NoEntry]
    BY DEF Send, WithEntry
  <1>2. /\ x \in Entry
        /\ \E K \in SUBSET Fragment : Pieces(x, frag.id, K) /\ \A f \in K : delivered[f] > 0
    BY <1>1, AddedPieces
  <1> HIDE DEF x
  <1>3. Whole(Image(x))
    BY <1>1, <1>2, CompletePieces
  <1>4. \A image \in sent' : Whole(image)
    BY <1>1, <1>3 DEF PiecesInv
  <1> QED
    BY <1>1, <1>4, StorePieces

LEMMA ScanPieces ==
    ASSUME Inv, PiecesInv, Scan
    PROVE  PiecesInv'
  <1>1. handler' = handler /\ frag' = frag /\ delivered' = delivered /\ sent' = sent
    BY DEF Scan
  <1>2. ASSUME NEW i \in Id, Here(i)' PROVE PiecesHere(i)'
    <2>1. frag_packets'[i] = frag_packets[i]
      BY <1>2 DEF Scan, Here
    <2> QED
      BY <1>1, <1>2, <2>1, OtherPieces
  <1> QED
    BY <1>1, <1>2 DEF PiecesInv

LEMMA TickPieces ==
    ASSUME Inv, PiecesInv, Tick
    PROVE  PiecesInv'
  <1>1. handler' = handler /\ frag' = frag /\ delivered' = delivered /\ sent' = sent
    BY DEF Tick
  <1>2. ASSUME NEW i \in Id, Here(i)' PROVE PiecesHere(i)'
    <2> DEFINE e == frag_packets[i]
               x == [e EXCEPT !.first_received = Older(@)]
    <2>1. Here(i) /\ frag_packets'[i] = x
      BY <1>2 DEF Tick, Here
    <2>2. e \in Entry
      BY <2>1 DEF Here, Inv, TableOK
    <2>3. x.buffer = e.buffer /\ x.wrote_bytes = e.wrote_bytes /\ x.end_pos = e.end_pos
      BY <2>2, OlderEntry
    <2>4. PICK K \in SUBSET Fragment : Pieces(e, i, K) /\ \A f \in K : delivered[f] > 0 /\ f # frag
      BY <2>1 DEF PiecesInv, PiecesHere
    <2> HIDE DEF e, x
    <2>5. Pieces(x, i, K)
      BY <2>3, <2>4, SamePieces
    <2> QED
      BY <1>1, <2>1, <2>4, <2>5 DEF PiecesHere
  <1> QED
    BY <1>1, <1>2 DEF PiecesInv

LEMMA StepPieces ==
    ASSUME Reassembles, Inv, PiecesInv, [Next]_vars
    PROVE  PiecesInv'
  <1>1. ASSUME frag_packets' = frag_packets, handler' = handler, frag' = frag,
               delivered' = delivered, sent' = sent
        PROVE  PiecesInv'
    BY <1>1 DEF PiecesInv, PiecesHere, Here
  <1>2. ASSUME NEW f \in Fragment, Receive(f) PROVE PiecesInv'
    BY <1>2, ReceivePieces
  <1>3. CASE refrag_packet
    BY <1>3, LockTablePieces, TooBigPieces, KeepPieces, SendPieces DEF refrag_packet
  <1>4. CASE pkt_timeout
    BY <1>1, <1>4, ScanPieces DEF pkt_timeout, Wake, LockForScan
  <1>5. CASE Tick
    BY <1>5, TickPieces
  <1>6. CASE UNCHANGED vars
    BY <1>1, <1>6 DEF vars
  <1> QED
    BY <1>2, <1>3, <1>4, <1>5, <1>6 DEF Next

\* What is sent is a whole packet, each unit in its place and none that was never
\* written, in whatever order the fragments come and whenever the timer frees what
\* is incomplete (lines 123-154), provided that the sources and the network do what
\* the hypothesis says.
THEOREM WholePackets ==
    ASSUME Reassembles
    PROVE  Spec => []SentWhole
  <1>1. Init => PiecesInv
    BY DEF Init, PiecesInv, Here
  <1>2. Inv /\ PiecesInv /\ [Next]_vars => PiecesInv'
    BY StepPieces
  <1>3. PiecesInv => SentWhole
    BY DEF PiecesInv, SentWhole, Whole
  <1> QED
    BY <1>1, <1>2, <1>3, Invariance, PTL DEF Spec
=============================================================================
