--------------------------- MODULE BulkTcpProofs ---------------------------
(***************************************************************************)
(* Proofs about BulkTcp, for any segments, options, numbers of handlers,   *)
(* buffer size and period.                                                 *)
(***************************************************************************)
EXTENDS BulkTcp, SequenceTheorems, CommonLemmas

Header == [ack : 0 .. SEQ - 1, flags : SUBSET Flags]
Packet == [content : Seq(Nat), head : Header]
Buffer == [content : Seq(Nat), pos : Nat, last_send : Age, head : Header]

ABuffer(c, p, l, hd) == [content |-> c, pos |-> p, last_send |-> l, head |-> hd]

-----------------------------------------------------------------------------
(***************************************************************************)
(* The inductive invariant.                                                *)
(***************************************************************************)
\* Types.
Types ==
    /\ buffer \in Buffer
    /\ lock \in Handler \cup {"timer", NoThread}
    /\ timer \in {"sleep", "lock", "send", "clear", "unlock"}
    /\ sleep \in 0 .. DELTA_SEND
    /\ sent \in Seq(Packet)
    /\ arrived \in Seq(Segment)
    /\ pc \in [Handler -> {"idle", "test", "lock", "insert", "push"}]
    /\ held \in [Handler -> 0 .. Len(arrived)]
    /\ seq \in 0 .. SEQ - 1 /\ opt \in Opt \cup Garbage

\* Who is between taking and giving back the lock has it.
Exclusion ==
    /\ \A h \in Handler : pc[h] \in {"insert", "push"} <=> lock = h
    /\ timer \in {"send", "clear", "unlock"} <=> lock = "timer"

\* A handler at work holds a segment, and one that goes to the buffer has it let
\* through.
Holding ==
    \A h \in Handler :
        /\ pc[h] # "idle" => held[h] > 0
        /\ pc[h] \in {"lock", "insert"} => ~Untouched(arrived[held[h]])

Fits ==
    /\ Empty(buffer) <=> buffer.content = <<>>
    /\ buffer.pos <= BUFFER_SIZE

FlagsOf(a, c) == UNION {a[c[m]].flags : m \in DOMAIN c}

\* A packet, or what is in the buffer, is made of segments that arrived and has
\* their flags.
Made(a, p) == p.content \in Seq(1 .. Len(a)) /\ p.head.flags = FlagsOf(a, p.content)

AllMade ==
    /\ \A k \in DOMAIN sent : Made(arrived, sent[k])
    /\ buffer.content \in Seq(1 .. Len(arrived))
    /\ ~Empty(buffer) => Made(arrived, buffer)

\* Only the segment of a handler that is about to send the buffer may have PSH or FIN.
PushAtHand ==
    \A m \in DOMAIN buffer.content :
        Pushes(arrived[buffer.content[m]]) =>
            \E h \in Handler : pc[h] = "push" /\ held[h] = buffer.content[m]

Inv == Types /\ Exclusion /\ Holding /\ Fits /\ AllMade /\ PushAtHand

\* What the buffer ages the timer sleeps less.
InTime ==
    /\ timer # "sleep" => sleep = 0
    /\ ~Empty(buffer) => /\ buffer.last_send + sleep < 2 * DELTA_SEND
                         /\ timer = "unlock" => buffer.last_send < DELTA_SEND

\* Data is consecutive, and seq is what follows it.
Chain(a, c) == \A m \in 1 .. Len(c) - 1 : a[c[m + 1]].seq = (a[c[m]].seq + a[c[m]].len) % SEQ

Ends(a, c) == (a[c[Len(c)]].seq + a[c[Len(c)]].len) % SEQ

Chained ==
    /\ \A k \in DOMAIN sent : Chain(arrived, sent[k].content)
    /\ Chain(arrived, buffer.content)
    /\ buffer.content # <<>> => seq = Ends(arrived, buffer.content)

-----------------------------------------------------------------------------
(***************************************************************************)
(* Segments and sequences of them.                                         *)
(***************************************************************************)
LEMMA SegmentFields ==
    ASSUME NEW s \in Segment
    PROVE  /\ s.seq \in 0 .. SEQ - 1 /\ s.len \in Nat /\ s.ack \in 0 .. SEQ - 1
           /\ s.flags \in SUBSET Flags /\ s.opt \in Opt
           /\ HdrLen[s.opt] \in Nat \ {0}
           /\ PktLen(s) \in Nat \ {0}
           /\ HeaderOf(s) \in Header /\ HeaderOf(s).flags = s.flags
  BY SegmentAssumption, TcpAssumption DEF PktLen, HeaderOf, Header, Opt

\* Segments that arrive later change nothing about those before.
LEMMA Later ==
    ASSUME NEW a \in Seq(Segment), NEW s \in Segment, NEW c \in Seq(1 .. Len(a))
    PROVE  /\ c \in Seq(1 .. Len(Append(a, s)))
           /\ FlagsOf(Append(a, s), c) = FlagsOf(a, c)
           /\ Chain(Append(a, s), c) <=> Chain(a, c)
           /\ c # <<>> => Ends(Append(a, s), c) = Ends(a, c)
  <1>1. Append(a, s) \in Seq(Segment) /\ Len(Append(a, s)) = Len(a) + 1 /\ Len(a) \in Nat
    OBVIOUS
  <1>2. ASSUME NEW m \in DOMAIN c PROVE c[m] \in 1 .. Len(a) /\ Append(a, s)[c[m]] = a[c[m]]
    <2>1. c[m] \in 1 .. Len(a)
      OBVIOUS
    <2> QED
      BY <2>1
  <1>3. c \in Seq(1 .. Len(Append(a, s)))
    <2>1. 1 .. Len(a) \subseteq 1 .. Len(Append(a, s))
      BY <1>1
    <2> QED
      BY <2>1
  <1>4. FlagsOf(Append(a, s), c) = FlagsOf(a, c)
    BY <1>2 DEF FlagsOf
  <1>5. \A m \in 1 .. Len(c) - 1 : m \in DOMAIN c /\ m + 1 \in DOMAIN c
    OBVIOUS
  <1>6. Chain(Append(a, s), c) <=> Chain(a, c)
    BY <1>2, <1>5 DEF Chain
  <1>7. c # <<>> => Len(c) \in DOMAIN c
    OBVIOUS
  <1>8. c # <<>> => Ends(Append(a, s), c) = Ends(a, c)
    BY <1>2, <1>7 DEF Ends
  <1> QED
    BY <1>3, <1>4, <1>6, <1>8

\* A segment on its own.
LEMMA Alone ==
    ASSUME NEW a \in Seq(Segment), NEW n \in 1 .. Len(a)
    PROVE  /\ <<n>> \in Seq(1 .. Len(a)) /\ <<n>> \in Seq(Nat) /\ <<n>> # <<>>
           /\ FlagsOf(a, <<n>>) = a[n].flags
           /\ Chain(a, <<n>>)
           /\ Ends(a, <<n>>) = (a[n].seq + a[n].len) % SEQ
           /\ DOMAIN <<n>> = {1} /\ <<n>>[1] = n
  <1>1. Len(<<n>>) = 1 /\ DOMAIN <<n>> = {1} /\ <<n>>[1] = n
    OBVIOUS
  <1>2. FlagsOf(a, <<n>>) = a[n].flags
    <2>1. {a[<<n>>[m]].flags : m \in DOMAIN <<n>>} = {a[n].flags}
      BY <1>1
    <2> QED
      BY <2>1 DEF FlagsOf
  <1>3. Chain(a, <<n>>)
    BY <1>1 DEF Chain
  <1>4. Ends(a, <<n>>) = (a[n].seq + a[n].len) % SEQ
    BY <1>1 DEF Ends
  <1>5. <<n>> \in Seq(1 .. Len(a)) /\ <<n>> \in Seq(Nat) /\ <<n>> # <<>>
    OBVIOUS
  <1> QED
    BY <1>1, <1>2, <1>3, <1>4, <1>5

\* A segment behind others.
LEMMA Behind ==
    ASSUME NEW a \in Seq(Segment), NEW c \in Seq(1 .. Len(a)), c # <<>>, NEW n \in 1 .. Len(a),
           NEW d, d = Append(c, n)
    PROVE  /\ d \in Seq(1 .. Len(a)) /\ d \in Seq(Nat) /\ d # <<>>
           /\ Chain(a, c) /\ a[n].seq = Ends(a, c) => Chain(a, d)
           /\ \A m \in DOMAIN d : \/ m \in DOMAIN c /\ d[m] = c[m]
                                  \/ d[m] = n
  <1>1. /\ d \in Seq(1 .. Len(a)) /\ Len(d) = Len(c) + 1 /\ Len(c) \in Nat \ {0}
        /\ d[Len(c) + 1] = n
        /\ \A m \in 1 .. Len(c) : d[m] = c[m]
        /\ DOMAIN d = 1 .. Len(c) + 1 /\ DOMAIN c = 1 .. Len(c)
    OBVIOUS
  <1>2. d \in Seq(Nat) /\ d # <<>>
    <2>1. 1 .. Len(a) \subseteq Nat
      OBVIOUS
    <2> QED
      BY <1>1, <2>1
  <1>3. ASSUME Chain(a, c), a[n].seq = Ends(a, c) PROVE Chain(a, d)
    <2>1. ASSUME NEW m \in 1 .. Len(d) - 1
          PROVE  a[d[m + 1]].seq = (a[d[m]].seq + a[d[m]].len) % SEQ
      <3>1. CASE m = Len(c)
        BY <1>1, <1>3, <3>1 DEF Ends
      <3>2. CASE m # Len(c)
        <4> DEFINE L == Len(c)
        <4>1. L \in Nat \ {0} /\ Len(d) = L + 1
          BY <1>1
        <4> HIDE DEF L
        <4>2. m \in 1 .. L
          BY <4>1
        <4>3. m # L
          BY <3>2 DEF L
        <4>4. m \in 1 .. L - 1 /\ m + 1 \in 1 .. L
          BY <4>1, <4>2, <4>3
        <4> USE DEF L
        <4> QED
          BY <1>1, <1>3, <4>2, <4>4 DEF Chain
      <3> QED
        BY <3>1, <3>2
    <2> QED
      BY <2>1 DEF Chain
  <1>4. \A m \in DOMAIN d : (m \in DOMAIN c /\ d[m] = c[m]) \/ d[m] = n
    BY <1>1
  <1> QED
    BY <1>1, <1>2, <1>3, <1>4

LEMMA BehindFlags ==
    ASSUME NEW a \in Seq(Segment), NEW c \in Seq(1 .. Len(a)), NEW n \in 1 .. Len(a),
           NEW d, d = Append(c, n)
    PROVE  FlagsOf(a, d) = FlagsOf(a, c) \cup a[n].flags
  <1>1. /\ Len(d) = Len(c) + 1 /\ Len(c) \in Nat
        /\ d[Len(c) + 1] = n
        /\ \A m \in 1 .. Len(c) : d[m] = c[m]
        /\ DOMAIN d = 1 .. Len(c) + 1 /\ DOMAIN c = 1 .. Len(c)
    OBVIOUS
  <1>2. {a[d[m]].flags : m \in DOMAIN d} = {a[c[m]].flags : m \in DOMAIN c} \cup {a[n].flags}
    <2>1. \A m \in DOMAIN d : m \in DOMAIN c \/ m = Len(c) + 1
      BY <1>1
    <2>2. DOMAIN c \subseteq DOMAIN d /\ Len(c) + 1 \in DOMAIN d
      BY <1>1
    <2>3. \A m \in DOMAIN c : d[m] = c[m]
      BY <1>1
    <2> QED
      BY <1>1, <2>1, <2>2, <2>3
  <1> QED
    BY <1>2 DEF FlagsOf

\* A packet more is given to send_ip6_packet.
LEMMA OneMore ==
    ASSUME NEW z \in Seq(Packet), NEW p \in Packet
    PROVE  /\ Append(z, p) \in Seq(Packet)
           /\ \A k \in DOMAIN Append(z, p) : \/ k \in DOMAIN z /\ Append(z, p)[k] = z[k]
                                             \/ Append(z, p)[k] = p
  OBVIOUS

\* What send_buffer gives.
LEMMA SendingOne ==
    ASSUME NEW z \in Seq(Packet), NEW b \in Buffer
    PROVE  /\ Image(b) \in Packet
           /\ z \o Sending(b) = IF Empty(b) THEN z ELSE Append(z, Image(b))
  <1>1. Image(b) \in Packet
    BY DEF Image, Packet, Buffer
  <1>2. z \o <<>> = z /\ z \o <<Image(b)>> = Append(z, Image(b))
    BY <1>1
  <1> QED
    BY <1>1, <1>2 DEF Sending

\* What becomes of the parts of a buffer.
LEMMA Parts ==
    ASSUME NEW c, NEW p, NEW l, NEW hd, NEW b, b = ABuffer(c, p, l, hd)
    PROVE  b.content = c /\ b.pos = p /\ b.last_send = l /\ b.head = hd
  BY DEF ABuffer

LEMMA InParts ==
    ASSUME NEW b \in Buffer
    PROVE  /\ b.content \in Seq(Nat) /\ b.pos \in Nat /\ b.last_send \in Age /\ b.head \in Header
           /\ b = ABuffer(b.content, b.pos, b.last_send, b.head)
  BY DEF Buffer, ABuffer

LEMMA FromParts ==
    ASSUME NEW c \in Seq(Nat), NEW p \in Nat, NEW l \in Age, NEW hd \in Header
    PROVE  ABuffer(c, p, l, hd) \in Buffer
  BY DEF Buffer, ABuffer

LEMMA PartsCleared ==
    ASSUME NEW c, NEW p, NEW l, NEW hd
    PROVE  Cleared(ABuffer(c, p, l, hd)) = ABuffer(<<>>, 0, l, hd)
  <1> SUFFICES ASSUME NEW b, b = ABuffer(c, p, l, hd), NEW d, d = Cleared(b)
               PROVE  d = ABuffer(<<>>, 0, l, hd)
    OBVIOUS
  <1> QED
    BY DEF Cleared, ABuffer

LEMMA PartsAdded ==
    ASSUME NEW c, NEW p, NEW l, NEW hd, NEW n, NEW len
    PROVE  add_to_buffer(ABuffer(c, p, l, hd), n, len) =
               ABuffer(Append(c, n), p + len, IF c = <<>> THEN 0 ELSE l, hd)
  <1> SUFFICES ASSUME NEW b, b = ABuffer(c, p, l, hd), NEW e, e = Append(c, n),
                      NEW q, q = p + len, NEW r, r = IF c = <<>> THEN 0 ELSE l
               PROVE  add_to_buffer(b, n, len) = ABuffer(e, q, r, hd)
    OBVIOUS
  <1>1. b.content = c /\ b.pos = p /\ b.last_send = l
    BY Parts
  <1>2. add_to_buffer(b, n, len) = [b EXCEPT !.content = e, !.pos = q, !.last_send = r]
    BY <1>1 DEF add_to_buffer
  <1>3. ASSUME NEW d, d = [b EXCEPT !.content = e, !.pos = q, !.last_send = r]
        PROVE  d = ABuffer(e, q, r, hd)
    BY <1>3 DEF ABuffer
  <1> QED
    BY <1>2, <1>3

LEMMA PartsFirst ==
    ASSUME NEW l, NEW hd, NEW n, NEW len \in Nat
    PROVE  add_to_buffer(ABuffer(<<>>, 0, l, hd), n, len) = ABuffer(<<n>>, len, 0, hd)
  <1> SUFFICES ASSUME NEW b, b = ABuffer(<<>>, 0, l, hd), NEW e, e = <<n>>
               PROVE  add_to_buffer(b, n, len) = ABuffer(e, len, 0, hd)
    OBVIOUS
  <1>1. b.content = <<>> /\ b.pos = 0
    BY Parts
  <1>2. Append(b.content, n) = e /\ b.pos + len = len
    <2>1. Append(<<>>, n) = <<n>>
      OBVIOUS
    <2>2. Append(b.content, n) = e
      BY <1>1, <2>1
    <2>3. b.pos + len = len
      BY <1>1
    <2> QED
      BY <2>2, <2>3
  <1>3. add_to_buffer(b, n, len) = [b EXCEPT !.content = e, !.pos = len, !.last_send = 0]
    BY <1>1, <1>2 DEF add_to_buffer
  <1>4. ASSUME NEW d, d = [b EXCEPT !.content = e, !.pos = len, !.last_send = 0]
        PROVE  d = ABuffer(e, len, 0, hd)
    BY <1>4 DEF ABuffer
  <1> QED
    BY <1>3, <1>4

LEMMA PartsHead ==
    ASSUME NEW c, NEW p, NEW l, NEW hd, NEW x
    PROVE  [ABuffer(c, p, l, hd) EXCEPT !.head = x] = ABuffer(c, p, l, x)
  BY DEF ABuffer

\* An emptied buffer.
LEMMA ClearedBuffer ==
    ASSUME NEW b \in Buffer
    PROVE  /\ Cleared(b) \in Buffer /\ Cleared(b).content = <<>> /\ Cleared(b).pos = 0
           /\ Cleared(b).head = b.head /\ Empty(Cleared(b))
  <1>1. Cleared(b) = ABuffer(<<>>, 0, b.last_send, b.head)
    BY InParts, PartsCleared
  <1>2. <<>> \in Seq(Nat)
    OBVIOUS
  <1>3. Cleared(b) \in Buffer
    <2>1. b.last_send \in Age /\ b.head \in Header /\ 0 \in Nat
      BY InParts
    <2>2. ABuffer(<<>>, 0, b.last_send, b.head) \in Buffer
      BY <1>2, <2>1, FromParts
    <2> QED
      BY <1>1, <2>2
  <1>4. Cleared(b).content = <<>> /\ Cleared(b).pos = 0 /\ Cleared(b).head = b.head
    BY <1>1, Parts
  <1> QED
    BY <1>3, <1>4 DEF Empty

-----------------------------------------------------------------------------
(***************************************************************************)
(* The steps.                                                              *)
(***************************************************************************)
\* The segment a handler at work holds.
LEMMA HeldSegment ==
    ASSUME Inv, NEW h \in Handler, pc[h] # "idle"
    PROVE  /\ held[h] \in 1 .. Len(arrived)
           /\ arrived[held[h]] \in Segment
  <1>1. held[h] \in 0 .. Len(arrived) /\ held[h] > 0 /\ arrived \in Seq(Segment)
    BY DEF Inv, Types, Holding
  <1>2. held[h] \in 1 .. Len(arrived)
    BY <1>1
  <1> QED
    BY <1>1, <1>2

\* What insert_tcp_to_buffer does: the segment starts the buffer, which is sent
\* first if there is something in it, or goes behind what is there.
LEMMA InsertEffect ==
    ASSUME Inv, NEW h \in Handler, insert_tcp_to_buffer(h),
           NEW n, n = held[h], NEW s, s = arrived[n]
    PROVE  /\ n \in 1 .. Len(arrived) /\ s \in Segment /\ ~Untouched(s)
           /\ pc[h] = "insert" /\ lock = h
           /\ \/ /\ sent' = IF Empty(buffer) THEN sent ELSE Append(sent, Image(buffer))
                 /\ buffer' = ABuffer(<<n>>, PktLen(s), 0, HeaderOf(s))
                 /\ seq' = Following(s.seq, s.len)
              \/ /\ ~Empty(buffer) /\ sent' = sent
                 /\ buffer' = ABuffer(Append(buffer.content, n), buffer.pos + s.len,
                                      buffer.last_send, update_tcp_hdr(buffer.head, s))
                 /\ buffer.pos + s.len <= BUFFER_SIZE
                 /\ seq = s.seq /\ seq' = Following(seq, s.len)
           /\ opt' \in Opt \cup Garbage
  <1>1. pc[h] = "insert" /\ lock = h /\ ~Untouched(s)
    BY DEF Inv, Exclusion, Holding, insert_tcp_to_buffer
  <1>2. n \in 1 .. Len(arrived) /\ s \in Segment
    BY <1>1, HeldSegment
  <1>3. buffer \in Buffer /\ sent \in Seq(Packet) /\ opt \in Opt \cup Garbage /\ s.opt \in Opt
    BY <1>2, SegmentFields DEF Inv, Types
  <1>4. opt' \in Opt \cup Garbage
    BY <1>3 DEF insert_tcp_to_buffer
  <1>5. Empty(buffer) <=> buffer.content = <<>>
    BY DEF Inv, Fits
  <1>6. ASSUME NEW b \in Buffer, b.content = <<>>, b.pos = 0
        PROVE  Started(b, n, s) = ABuffer(<<n>>, PktLen(s), 0, HeaderOf(s))
    <2>1. PICK l, hd : b = ABuffer(<<>>, 0, l, hd)
      BY <1>6, InParts
    <2>2. PktLen(s) \in Nat
      BY <1>2, SegmentFields
    <2>3. add_to_buffer(b, n, PktLen(s)) = ABuffer(<<n>>, PktLen(s), 0, hd)
      BY <2>1, <2>2, PartsFirst
    <2> QED
      BY <2>3, PartsHead DEF Started
  <1>7. CASE Apart(s)
    <2>1. /\ sent' = sent \o Sending(buffer)
          /\ buffer' = Started(Cleared(buffer), n, s)
          /\ seq' = Following(s.seq, s.len)
      BY <1>7 DEF insert_tcp_to_buffer
    <2>2. buffer' = ABuffer(<<n>>, PktLen(s), 0, HeaderOf(s))
      BY <1>3, <1>6, <2>1, ClearedBuffer
    <2>3. sent' = IF Empty(buffer) THEN sent ELSE Append(sent, Image(buffer))
      BY <1>3, <2>1, SendingOne
    <2> QED
      BY <1>1, <1>2, <1>4, <2>1, <2>2, <2>3
  <1>8. CASE ~Apart(s) /\ Empty(buffer)
    <2>1. /\ sent' = sent
          /\ buffer' = Started(buffer, n, s)
          /\ seq' = Following(s.seq, s.len)
      BY <1>8 DEF insert_tcp_to_buffer
    <2>2. buffer' = ABuffer(<<n>>, PktLen(s), 0, HeaderOf(s))
      BY <1>3, <1>5, <1>6, <1>8, <2>1 DEF Empty
    <2> QED
      BY <1>1, <1>2, <1>4, <1>8, <2>1, <2>2
  <1>9. CASE ~Apart(s) /\ ~Empty(buffer)
    <2>1. /\ sent' = sent
          /\ buffer' = Merged(buffer, n, s)
          /\ seq' = Following(seq, s.len)
      BY <1>9 DEF insert_tcp_to_buffer
    <2>2. seq = s.seq /\ ~(available_space(buffer, HdrLen[s.opt]) < s.len)
      BY <1>9 DEF Apart
    <2>3. buffer.pos + s.len <= BUFFER_SIZE
      <3>1. ~(BUFFER_SIZE - buffer.pos < s.len)
        BY <1>9, <2>2 DEF available_space
      <3>2. buffer.pos \in Nat /\ s.len \in Nat /\ BUFFER_SIZE \in Nat
        BY <1>2, <1>3, InParts, SegmentFields, BufferAssumption
      <3> QED
        BY <3>1, <3>2
    <2>4. add_to_buffer(buffer, n, s.len) =
              ABuffer(Append(buffer.content, n), buffer.pos + s.len, buffer.last_send, buffer.head)
      <3>1. buffer = ABuffer(buffer.content, buffer.pos, buffer.last_send, buffer.head)
        BY <1>3, InParts
      <3>2. buffer.content # <<>>
        BY <1>5, <1>9
      <3> QED
        BY <3>1, <3>2, PartsAdded
    <2>5. Merged(buffer, n, s) =
              [add_to_buffer(buffer, n, s.len) EXCEPT !.head = update_tcp_hdr(buffer.head, s)]
      <3>1. add_to_buffer(buffer, n, s.len).head = buffer.head
        BY <2>4, Parts
      <3> QED
        BY <3>1 DEF Merged
    <2>6. buffer' = ABuffer(Append(buffer.content, n), buffer.pos + s.len,
                            buffer.last_send, update_tcp_hdr(buffer.head, s))
      BY <2>1, <2>4, <2>5, PartsHead
    <2> QED
      BY <1>1, <1>2, <1>4, <1>9, <2>1, <2>2, <2>3, <2>6
  <1> QED
    BY <1>7, <1>8, <1>9

-----------------------------------------------------------------------------
(***************************************************************************)
(* Inv is inductive: one lemma for each action.                            *)
(***************************************************************************)
LEMMA InitInv == Init => Inv
  <1> SUFFICES ASSUME Init
               PROVE  Inv
    OBVIOUS
  <1>1. buffer = ABuffer(<<>>, 0, 0, NoHead) /\ sent = <<>> /\ arrived = <<>>
    BY DEF Init, InitBuffer, ABuffer
  <1>2. buffer.content = <<>> /\ buffer.pos = 0 /\ Empty(buffer)
    BY <1>1, Parts DEF Empty
  <1>3. NoHead \in Header /\ 0 \in Age /\ BUFFER_SIZE \in Nat /\ DELTA_SEND \in Nat
    BY TcpAssumption, BufferAssumption DEF NoHead, Header, Age
  <1>4. buffer \in Buffer
    <2>1. <<>> \in Seq(Nat)
      OBVIOUS
    <2> QED
      BY <1>1, <1>3, <2>1, FromParts
  <1>5. Types
    <2>1. sent \in Seq(Packet) /\ arrived \in Seq(Segment) /\ Len(arrived) = 0
      BY <1>1
    <2>2. seq \in 0 .. SEQ - 1 /\ opt \in Opt \cup Garbage
      BY TcpAssumption DEF Init
    <2>3. held \in [Handler -> 0 .. Len(arrived)]
      BY <2>1 DEF Init
    <2>4. sleep \in 0 .. DELTA_SEND
      BY <1>3 DEF Init, InitBuffer
    <2> QED
      BY <1>4, <2>1, <2>2, <2>3, <2>4 DEF Types, Init, InitBuffer
  <1>6. Exclusion
    BY BufferAssumption DEF Exclusion, Init, InitBuffer
  <1>7. Holding
    BY DEF Holding, Init
  <1>8. Fits
    BY <1>2, <1>3 DEF Fits
  <1>9. AllMade
    <2>1. DOMAIN sent = {}
      BY <1>1
    <2>2. buffer.content \in Seq(1 .. Len(arrived))
      <3>1. <<>> \in Seq(1 .. Len(arrived))
        OBVIOUS
      <3> QED
        BY <1>2, <3>1
    <2> QED
      BY <1>2, <2>1, <2>2 DEF AllMade
  <1>10. PushAtHand
    BY <1>2 DEF PushAtHand
  <1> QED
    BY <1>5, <1>6, <1>7, <1>8, <1>9, <1>10 DEF Inv

\* Steps that leave the packets alone.
LEMMA Quiet ==
    ASSUME Inv, UNCHANGED <<buffer, sent, arrived>>
    PROVE  Fits' /\ AllMade'
  BY DEF Inv, Fits, AllMade

\* A packet made of segments is sent.
LEMMA SentMade ==
    ASSUME Inv, NEW p \in Packet, Made(arrived, p), sent' = Append(sent, p)
    PROVE  sent' \in Seq(Packet) /\ \A k \in DOMAIN sent' : Made(arrived, sent'[k])
  <1>1. sent \in Seq(Packet) /\ \A k \in DOMAIN sent : Made(arrived, sent[k])
    BY DEF Inv, Types, AllMade
  <1> QED
    BY <1>1, OneMore

\* What the buffer sends is made of segments.
LEMMA ImageMade ==
    ASSUME Inv, ~Empty(buffer)
    PROVE  Image(buffer) \in Packet /\ Made(arrived, Image(buffer))
  <1>1. buffer \in Buffer /\ sent \in Seq(Packet) /\ Made(arrived, buffer)
    BY DEF Inv, Types, AllMade
  <1>2. Image(buffer).content = buffer.content /\ Image(buffer).head = buffer.head
    BY DEF Image
  <1> QED
    BY <1>1, <1>2, SendingOne DEF Made

\* The buffer is emptied.
LEMMA ClearedKeeps ==
    ASSUME Inv, buffer' = Cleared(buffer)
    PROVE  /\ buffer' \in Buffer /\ Fits' /\ PushAtHand'
           /\ buffer'.content = <<>> /\ Empty(buffer')
  <1>1. /\ buffer' \in Buffer /\ buffer'.content = <<>> /\ buffer'.pos = 0 /\ Empty(buffer')
    BY ClearedBuffer DEF Inv, Types
  <1>2. Fits'
    BY <1>1, BufferAssumption DEF Fits
  <1>3. PushAtHand'
    BY <1>1 DEF PushAtHand
  <1> QED
    BY <1>1, <1>2, <1>3

LEMMA ReceiveInv ==
    ASSUME Inv, NEW h \in Handler, NEW s \in Segment, Receive(h, s)
    PROVE  Inv'
  <1>1. /\ arrived' = Append(arrived, s) /\ pc[h] = "idle"
        /\ held' = [held EXCEPT ![h] = Len(arrived) + 1]
        /\ pc' = [pc EXCEPT ![h] = "test"]
        /\ buffer' = buffer /\ lock' = lock /\ timer' = timer /\ sleep' = sleep
        /\ sent' = sent /\ seq' = seq /\ opt' = opt
    BY DEF Receive
  <1>2. /\ arrived \in Seq(Segment) /\ held \in [Handler -> 0 .. Len(arrived)]
        /\ pc \in [Handler -> {"idle", "test", "lock", "insert", "push"}]
        /\ buffer \in Buffer
    BY DEF Inv, Types
  <1>3. PICK L \in Nat : L = Len(arrived)
    BY <1>2
  <1>4. /\ Len(arrived') = L + 1 /\ arrived' \in Seq(Segment)
        /\ \A n \in 1 .. L : arrived'[n] = arrived[n]
    BY <1>1, <1>2, <1>3
  <1>5. held' \in [Handler -> 0 .. Len(arrived')]
    <2>1. held' \in [Handler -> 0 .. L + 1]
      <3>1. ASSUME NEW g \in Handler PROVE held[g] \in 0 .. L + 1
        BY <1>2, <1>3
      <3> QED
        BY <1>1, <1>2, <1>3, <3>1
    <2> QED
      BY <1>4, <2>1
  <1>6. Types'
    BY <1>1, <1>2, <1>4, <1>5 DEF Inv, Types
  <1>7. Exclusion'
    BY <1>1, <1>2 DEF Inv, Exclusion
  <1>8. Holding'
    <2> SUFFICES ASSUME NEW g \in Handler
                 PROVE  /\ pc'[g] # "idle" => held'[g] > 0
                        /\ pc'[g] \in {"lock", "insert"} => ~Untouched(arrived'[held'[g]])
      BY DEF Holding
    <2>1. CASE g = h
      BY <1>1, <1>2, <1>3, <2>1
    <2>2. CASE g # h
      <3>1. pc'[g] = pc[g] /\ held'[g] = held[g]
        BY <1>1, <1>2, <2>2
      <3>2. pc[g] # "idle" => held[g] \in 1 .. L
        BY <1>3, HeldSegment
      <3> QED
        BY <1>4, <3>1, <3>2 DEF Inv, Holding
    <2> QED
      BY <2>1, <2>2
  <1>9. Fits'
    BY <1>1 DEF Inv, Fits
  <1>10. AllMade'
    <2>1. ASSUME NEW p, Made(arrived, p) PROVE Made(arrived', p)
      BY <1>1, <1>2, <2>1, Later DEF Made
    <2>2. /\ \A k \in DOMAIN sent : Made(arrived, sent[k])
          /\ buffer.content \in Seq(1 .. Len(arrived))
          /\ ~Empty(buffer) => Made(arrived, buffer)
      BY DEF Inv, AllMade
    <2>3. buffer.content \in Seq(1 .. Len(arrived'))
      BY <1>1, <1>2, <2>2, Later
    <2> QED
      BY <1>1, <2>1, <2>2, <2>3 DEF AllMade
  <1>11. PushAtHand'
    <2>0. buffer' = buffer
      BY <1>1
    <2> SUFFICES ASSUME NEW m \in DOMAIN buffer.content, Pushes(arrived'[buffer.content[m]])
                 PROVE  \E g \in Handler : pc'[g] = "push" /\ held'[g] = buffer.content[m]
      BY <2>0 DEF PushAtHand
    <2>1. buffer.content[m] \in 1 .. L
      <3>1. buffer.content \in Seq(1 .. L)
        BY <1>3 DEF Inv, AllMade
      <3> QED
        BY <3>1
    <2>2. PICK g \in Handler : pc[g] = "push" /\ held[g] = buffer.content[m]
      BY <1>4, <2>1 DEF Inv, PushAtHand
    <2> QED
      BY <1>1, <1>2, <2>2
  <1> QED
    BY <1>6, <1>7, <1>8, <1>9, <1>10, <1>11 DEF Inv

LEMMA PassOnInv ==
    ASSUME Inv, NEW h \in Handler, PassOn(h)
    PROVE  Inv'
  <1> DEFINE n == held[h]
             p == [content |-> <<n>>, head |-> HeaderOf(arrived[n])]
  <1>1. /\ pc[h] = "test" /\ pc' = [pc EXCEPT ![h] = "idle"] /\ sent' = Append(sent, p)
        /\ buffer' = buffer /\ lock' = lock /\ timer' = timer /\ sleep' = sleep
        /\ arrived' = arrived /\ held' = held /\ seq' = seq /\ opt' = opt
    BY DEF PassOn
  <1>2. n \in 1 .. Len(arrived) /\ arrived[n] \in Segment
    BY <1>1, HeldSegment
  <1>3. /\ pc \in [Handler -> {"idle", "test", "lock", "insert", "push"}]
        /\ arrived \in Seq(Segment)
    BY DEF Inv, Types
  <1>4. p \in Packet /\ Made(arrived, p)
    <2>1. <<n>> \in Seq(Nat) /\ <<n>> \in Seq(1 .. Len(arrived))
          /\ FlagsOf(arrived, <<n>>) = arrived[n].flags
      BY <1>2, <1>3, Alone
    <2>2. HeaderOf(arrived[n]) \in Header /\ HeaderOf(arrived[n]).flags = arrived[n].flags
      BY <1>2, SegmentFields
    <2> QED
      BY <2>1, <2>2 DEF Packet, Made
  <1> HIDE DEF p
  <1>5. sent' \in Seq(Packet) /\ \A k \in DOMAIN sent' : Made(arrived, sent'[k])
    BY <1>1, <1>4, SentMade
  <1>6. Types'
    BY <1>1, <1>3, <1>5 DEF Inv, Types
  <1>7. Exclusion'
    BY <1>1, <1>3 DEF Inv, Exclusion
  <1>8. Holding'
    BY <1>1, <1>3 DEF Inv, Holding
  <1>9. Fits'
    BY <1>1 DEF Inv, Fits
  <1>10. AllMade'
    BY <1>1, <1>5 DEF Inv, AllMade
  <1>11. PushAtHand'
    BY <1>1, <1>3 DEF Inv, PushAtHand
  <1> QED
    BY <1>6, <1>7, <1>8, <1>9, <1>10, <1>11 DEF Inv

LEMMA ToBufferInv ==
    ASSUME Inv, NEW h \in Handler, ToBuffer(h)
    PROVE  Inv'
  <1>1. /\ pc[h] = "test" /\ ~Untouched(arrived[held[h]]) /\ pc' = [pc EXCEPT ![h] = "lock"]
        /\ buffer' = buffer /\ lock' = lock /\ timer' = timer /\ sleep' = sleep
        /\ sent' = sent /\ arrived' = arrived /\ held' = held /\ seq' = seq /\ opt' = opt
    BY DEF ToBuffer
  <1>2. pc \in [Handler -> {"idle", "test", "lock", "insert", "push"}]
    BY DEF Inv, Types
  <1>3. Types'
    BY <1>1, <1>2 DEF Inv, Types
  <1>4. Exclusion'
    BY <1>1, <1>2 DEF Inv, Exclusion
  <1>5. Holding'
    BY <1>1, <1>2 DEF Inv, Holding
  <1>6. Fits' /\ AllMade'
    BY <1>1, Quiet
  <1>7. PushAtHand'
    BY <1>1, <1>2 DEF Inv, PushAtHand
  <1> QED
    BY <1>3, <1>4, <1>5, <1>6, <1>7 DEF Inv

LEMMA LockInv ==
    ASSUME Inv, NEW h \in Handler, Lock(h)
    PROVE  Inv'
  <1>1. /\ pc[h] = "lock" /\ lock = NoThread /\ lock' = h /\ pc' = [pc EXCEPT ![h] = "insert"]
        /\ buffer' = buffer /\ timer' = timer /\ sleep' = sleep
        /\ sent' = sent /\ arrived' = arrived /\ held' = held /\ seq' = seq /\ opt' = opt
    BY DEF Lock
  <1>2. pc \in [Handler -> {"idle", "test", "lock", "insert", "push"}]
    BY DEF Inv, Types
  <1>3. Types'
    BY <1>1, <1>2 DEF Inv, Types
  <1>4. Exclusion'
    <2>1. h # "timer" /\ h # NoThread /\ NoThread # "timer"
      BY BufferAssumption
    <2>2. \A g \in Handler : pc'[g] \in {"insert", "push"} <=> lock' = g
      BY <1>1, <1>2, <2>1, BufferAssumption DEF Inv, Exclusion
    <2>3. timer' \in {"send", "clear", "unlock"} <=> lock' = "timer"
      BY <1>1, <2>1 DEF Inv, Exclusion
    <2> QED
      BY <2>2, <2>3 DEF Exclusion
  <1>5. Holding'
    BY <1>1, <1>2 DEF Inv, Holding
  <1>6. Fits' /\ AllMade'
    BY <1>1, Quiet
  <1>7. PushAtHand'
    BY <1>1, <1>2 DEF Inv, PushAtHand
  <1> QED
    BY <1>3, <1>4, <1>5, <1>6, <1>7 DEF Inv

LEMMA InsertInv ==
    ASSUME Inv, NEW h \in Handler, insert_tcp_to_buffer(h)
    PROVE  Inv'
  <1>0. PICK n, s : n = held[h] /\ s = arrived[n]
    OBVIOUS
  <1>1. /\ n \in 1 .. Len(arrived) /\ s \in Segment /\ ~Untouched(s)
        /\ pc[h] = "insert" /\ lock = h /\ opt' \in Opt \cup Garbage
    BY <1>0, InsertEffect
  <1>2. \/ /\ sent' = IF Empty(buffer) THEN sent ELSE Append(sent, Image(buffer))
           /\ buffer' = ABuffer(<<n>>, PktLen(s), 0, HeaderOf(s))
           /\ seq' = Following(s.seq, s.len)
        \/ /\ ~Empty(buffer) /\ sent' = sent
           /\ buffer' = ABuffer(Append(buffer.content, n), buffer.pos + s.len,
                                buffer.last_send, update_tcp_hdr(buffer.head, s))
           /\ buffer.pos + s.len <= BUFFER_SIZE
           /\ seq = s.seq /\ seq' = Following(seq, s.len)
    BY <1>0, InsertEffect
  <1>3. /\ pc' = [pc EXCEPT ![h] = "push"]
        /\ lock' = lock /\ timer' = timer /\ sleep' = sleep
        /\ arrived' = arrived /\ held' = held
    BY DEF insert_tcp_to_buffer
  <1>4. /\ pc \in [Handler -> {"idle", "test", "lock", "insert", "push"}]
        /\ arrived \in Seq(Segment) /\ buffer \in Buffer
    BY DEF Inv, Types
  <1>5. sent' \in Seq(Packet) /\ \A k \in DOMAIN sent' : Made(arrived, sent'[k])
    <2>1. CASE sent' = sent
      BY <2>1 DEF Inv, Types, AllMade
    <2>2. CASE ~Empty(buffer) /\ sent' = Append(sent, Image(buffer))
      BY <2>2, ImageMade, SentMade
    <2> QED
      BY <1>2, <2>1, <2>2
  \* What the buffer then is.
  <1>6. /\ buffer' \in Buffer /\ Fits' /\ ~Empty(buffer')
        /\ buffer'.content \in Seq(1 .. Len(arrived))
        /\ buffer'.head.flags = FlagsOf(arrived, buffer'.content)
        /\ \A m \in DOMAIN buffer'.content :
               \/ m \in DOMAIN buffer.content /\ buffer'.content[m] = buffer.content[m]
               \/ buffer'.content[m] = n
    <2>1. /\ PktLen(s) \in Nat \ {0} /\ HeaderOf(s) \in Header /\ HeaderOf(s).flags = s.flags
          /\ s.len \in Nat /\ s.ack \in 0 .. SEQ - 1 /\ s.flags \in SUBSET Flags
      BY <1>1, SegmentFields
    <2>2. BUFFER_SIZE \in Nat /\ 0 \in Age
      BY BufferAssumption DEF Age
    <2>3. CASE buffer' = ABuffer(<<n>>, PktLen(s), 0, HeaderOf(s))
      <3>1. /\ buffer'.content = <<n>> /\ buffer'.pos = PktLen(s) /\ buffer'.head = HeaderOf(s)
        BY <2>3, Parts
      <3>2. /\ <<n>> \in Seq(Nat) /\ <<n>> \in Seq(1 .. Len(arrived)) /\ <<n>> # <<>>
            /\ FlagsOf(arrived, <<n>>) = s.flags /\ DOMAIN <<n>> = {1} /\ <<n>>[1] = n
        BY <1>0, <1>1, <1>4, Alone
      <3>3. buffer' \in Buffer
        BY <2>1, <2>2, <2>3, <3>2, FromParts
      <3>4. PktLen(s) < BUFFER_SIZE
        BY <1>1, <2>1, <2>2 DEF Untouched
      <3>5. Fits' /\ ~Empty(buffer')
        BY <2>1, <2>2, <3>1, <3>2, <3>4 DEF Fits, Empty
      <3> QED
        BY <2>1, <3>1, <3>2, <3>3, <3>5
    <2>4. CASE /\ ~Empty(buffer)
               /\ buffer' = ABuffer(Append(buffer.content, n), buffer.pos + s.len,
                                    buffer.last_send, update_tcp_hdr(buffer.head, s))
               /\ buffer.pos + s.len <= BUFFER_SIZE
      <3>1. /\ buffer.pos \in Nat /\ buffer.pos # 0 /\ buffer.last_send \in Age
            /\ buffer.head \in Header
        BY <1>4, <2>4, InParts DEF Empty
      <3>2. PICK c, e, l, x : /\ c = buffer.content /\ e = Append(c, n)
                              /\ l = buffer.last_send /\ x = update_tcp_hdr(buffer.head, s)
        OBVIOUS
      <3>3. PICK q \in Nat : q = buffer.pos + s.len
        BY <2>1, <3>1
      <3>4. /\ buffer' = ABuffer(e, q, l, x)
            /\ q # 0 /\ q <= BUFFER_SIZE
        BY <2>1, <2>4, <3>1, <3>2, <3>3
      <3>5. buffer'.content = e /\ buffer'.pos = q /\ buffer'.head = x
        BY <3>4 DEF ABuffer
      <3>6. /\ c \in Seq(1 .. Len(arrived)) /\ c # <<>>
            /\ buffer.head.flags = FlagsOf(arrived, c)
        BY <2>4, <3>2 DEF Inv, Fits, AllMade, Made
      <3>7. /\ e \in Seq(1 .. Len(arrived)) /\ e \in Seq(Nat) /\ e # <<>>
            /\ FlagsOf(arrived, e) = FlagsOf(arrived, c) \cup arrived[n].flags
            /\ \A m \in DOMAIN e : \/ m \in DOMAIN c /\ e[m] = c[m]
                                   \/ e[m] = n
        <4>1. /\ arrived \in Seq(Segment) /\ n \in 1 .. Len(arrived)
              /\ c \in Seq(1 .. Len(arrived)) /\ c # <<>> /\ e = Append(c, n)
          BY <1>1, <1>4, <3>2, <3>6
        <4>2. e \in Seq(1 .. Len(arrived)) /\ e \in Seq(Nat) /\ e # <<>>
          BY <4>1, Behind
        <4>3. FlagsOf(arrived, e) = FlagsOf(arrived, c) \cup arrived[n].flags
          BY <4>1, BehindFlags
        <4>4. \A m \in DOMAIN e : (m \in DOMAIN c /\ e[m] = c[m]) \/ e[m] = n
          BY <4>1, Behind
        <4> QED
          BY <4>2, <4>3, <4>4
      <3>8. x \in Header /\ x.flags = buffer.head.flags \cup s.flags
        BY <2>1, <3>1, <3>2 DEF update_tcp_hdr, Header
      <3>9. buffer' \in Buffer
        BY <3>1, <3>2, <3>4, <3>8, <3>3, <3>7, FromParts
      <3>10. Fits' /\ ~Empty(buffer')
        BY <3>4, <3>5, <3>7 DEF Fits, Empty
      <3> QED
        BY <1>0, <3>2, <3>6, <3>5, <3>8, <3>9, <3>10, <3>7
    <2> QED
      BY <1>2, <2>3, <2>4
  <1>7. seq' \in 0 .. SEQ - 1
    <2>1. ASSUME NEW q \in Nat, NEW l \in Nat PROVE Following(q, l) \in 0 .. SEQ - 1
      <3>1. (q + l) % SEQ \in Nat /\ SEQ \in Nat /\ SEQ - 1 \in Nat \ {0}
        BY TcpAssumption
      <3>2. ((q + l) % SEQ) % (SEQ - 1) \in 0 .. SEQ - 2
        BY <3>1
      <3> QED
        BY <3>1, <3>2 DEF Following, TCP_MAX_SEG
    <2>2. s.seq \in Nat /\ s.len \in Nat
      BY <1>1, SegmentFields
    <2> QED
      BY <1>2, <2>1, <2>2
  <1>8. Types'
    BY <1>1, <1>3, <1>4, <1>5, <1>6, <1>7 DEF Inv, Types
  <1>9. Exclusion'
    BY <1>1, <1>3, <1>4 DEF Inv, Exclusion
  <1>10. Holding'
    BY <1>1, <1>3, <1>4 DEF Inv, Holding
  <1>11. AllMade'
    BY <1>3, <1>5, <1>6 DEF AllMade, Made
  <1>12. PushAtHand'
    <2> SUFFICES ASSUME NEW m \in DOMAIN buffer'.content, Pushes(arrived[buffer'.content[m]])
                 PROVE  \E g \in Handler : pc'[g] = "push" /\ held'[g] = buffer'.content[m]
      BY <1>3 DEF PushAtHand
    <2>1. CASE buffer'.content[m] = n
      BY <1>0, <1>3, <1>4, <2>1
    <2>2. CASE m \in DOMAIN buffer.content /\ buffer'.content[m] = buffer.content[m]
      <3>1. PICK g \in Handler : pc[g] = "push" /\ held[g] = buffer.content[m]
        BY <2>2 DEF Inv, PushAtHand
      <3>2. g # h
        BY <1>1, <3>1
      <3> QED
        BY <1>3, <1>4, <2>2, <3>1, <3>2
    <2> QED
      BY <1>6, <2>1, <2>2
  <1> QED
    BY <1>6, <1>8, <1>9, <1>10, <1>11, <1>12 DEF Inv

LEMMA PushInv ==
    ASSUME Inv, NEW h \in Handler, Push(h)
    PROVE  Inv'
  <1>1. /\ pc[h] = "push" /\ pc' = [pc EXCEPT ![h] = "idle"] /\ lock' = NoThread
        /\ timer' = timer /\ sleep' = sleep
        /\ arrived' = arrived /\ held' = held /\ seq' = seq /\ opt' = opt
    BY DEF Push
  <1>2. /\ pc \in [Handler -> {"idle", "test", "lock", "insert", "push"}]
        /\ buffer \in Buffer /\ sent \in Seq(Packet)
    BY DEF Inv, Types
  <1>3. lock = h
    BY <1>1 DEF Inv, Exclusion
  <1>4. /\ buffer' \in Buffer /\ sent' \in Seq(Packet)
        /\ Fits' /\ AllMade' /\ PushAtHand'
    <2>1. CASE Pushes(arrived[held[h]])
      <3>1. sent' = sent \o Sending(buffer) /\ buffer' = Cleared(buffer)
        BY <2>1 DEF Push
      <3>2. /\ buffer' \in Buffer /\ Fits' /\ PushAtHand'
            /\ buffer'.content = <<>> /\ Empty(buffer')
        BY <3>1, ClearedKeeps
      <3>3. sent' \in Seq(Packet) /\ \A k \in DOMAIN sent' : Made(arrived, sent'[k])
        <4>1. CASE Empty(buffer)
          BY <1>2, <3>1, <4>1, SendingOne DEF Inv, AllMade
        <4>2. CASE ~Empty(buffer)
          <5>1. sent' = Append(sent, Image(buffer))
            BY <1>2, <3>1, <4>2, SendingOne
          <5> QED
            BY <4>2, <5>1, ImageMade, SentMade
        <4> QED
          BY <4>1, <4>2
      <3>4. <<>> \in Seq(1 .. Len(arrived))
        OBVIOUS
      <3> QED
        BY <1>1, <3>2, <3>3, <3>4 DEF AllMade
    <2>2. CASE ~Pushes(arrived[held[h]])
      <3>1. sent' = sent /\ buffer' = buffer
        BY <2>2 DEF Push
      <3>2. PushAtHand'
        <4> SUFFICES ASSUME NEW m \in DOMAIN buffer.content, Pushes(arrived[buffer.content[m]])
                     PROVE  \E g \in Handler : pc'[g] = "push" /\ held'[g] = buffer.content[m]
          BY <1>1, <3>1 DEF PushAtHand
        <4>1. PICK g \in Handler : pc[g] = "push" /\ held[g] = buffer.content[m]
          BY DEF Inv, PushAtHand
        <4>2. g = h
          BY <1>3, <4>1 DEF Inv, Exclusion
        <4> QED
          BY <2>2, <4>1, <4>2
      <3> QED
        BY <1>1, <1>2, <3>1, <3>2, Quiet
    <2> QED
      BY <2>1, <2>2
  <1>5. Types'
    BY <1>1, <1>2, <1>4 DEF Inv, Types
  <1>6. Exclusion'
    BY <1>1, <1>2, <1>3, BufferAssumption DEF Inv, Exclusion
  <1>7. Holding'
    BY <1>1, <1>2 DEF Inv, Holding
  <1> QED
    BY <1>4, <1>5, <1>6, <1>7 DEF Inv

LEMMA TimerInv ==
    ASSUME Inv, tcp_timedout_2
    PROVE  Inv'
  <1>1. /\ arrived' = arrived /\ pc' = pc /\ held' = held /\ seq' = seq /\ opt' = opt
        /\ Wake \/ LockOld \/ SendOld \/ ClearOld \/ Unlock
    BY DEF tcp_timedout_2, Timer
  <1>2. /\ DELTA_SEND \in Nat /\ "timer" \notin Handler /\ NoThread \notin Handler
        /\ "timer" # NoThread
    BY BufferAssumption
  <1>3. Holding'
    BY <1>1 DEF Inv, Holding
  <1>4. buffer' = buffer => PushAtHand'
    BY <1>1 DEF Inv, PushAtHand
  <1>5. CASE Wake
    <2>1. Types' /\ Exclusion'
      BY <1>1, <1>5 DEF Wake, Inv, Types, Exclusion
    <2>2. Fits' /\ AllMade'
      BY <1>1, <1>5, Quiet DEF Wake
    <2> QED
      BY <1>3, <1>4, <1>5, <2>1, <2>2 DEF Inv, Wake
  <1>6. CASE LockOld
    <2>1. Types' /\ Exclusion'
      BY <1>1, <1>2, <1>6 DEF LockOld, Inv, Types, Exclusion
    <2>2. Fits' /\ AllMade'
      BY <1>1, <1>6, Quiet DEF LockOld
    <2> QED
      BY <1>3, <1>4, <1>6, <2>1, <2>2 DEF Inv, LockOld
  <1>7. CASE SendOld
    <2>1. /\ timer = "send" /\ timer' \in {"clear", "unlock"}
          /\ sent' = IF Old(buffer) THEN sent \o Sending(buffer) ELSE sent
          /\ buffer' = buffer /\ lock' = lock /\ sleep' = sleep
      BY <1>7 DEF SendOld
    <2>2. sent' \in Seq(Packet) /\ \A k \in DOMAIN sent' : Made(arrived, sent'[k])
      <3>1. CASE Old(buffer)
        <4>1. ~Empty(buffer) /\ buffer \in Buffer /\ sent \in Seq(Packet)
          BY <3>1 DEF Old, Inv, Types
        <4>2. sent' = Append(sent, Image(buffer))
          BY <2>1, <3>1, <4>1, SendingOne
        <4> QED
          BY <4>1, <4>2, ImageMade, SentMade
      <3>2. CASE ~Old(buffer)
        BY <2>1, <3>2 DEF Inv, Types, AllMade
      <3> QED
        BY <3>1, <3>2
    <2>3. Types' /\ Exclusion'
      BY <1>1, <2>1, <2>2 DEF Inv, Types, Exclusion
    <2>4. Fits' /\ AllMade'
      BY <1>1, <2>1, <2>2 DEF Inv, Fits, AllMade
    <2> QED
      BY <1>3, <1>4, <2>1, <2>3, <2>4 DEF Inv
  <1>8. CASE ClearOld
    <2>1. /\ timer = "clear" /\ timer' = "unlock" /\ buffer' = Cleared(buffer)
          /\ lock' = lock /\ sleep' = sleep /\ sent' = sent
      BY <1>8 DEF ClearOld
    <2>2. /\ buffer' \in Buffer /\ Fits' /\ PushAtHand'
          /\ buffer'.content = <<>> /\ Empty(buffer')
      BY <2>1, ClearedKeeps
    <2>3. Types' /\ Exclusion'
      BY <1>1, <2>1, <2>2 DEF Inv, Types, Exclusion
    <2>4. AllMade'
      <3>1. <<>> \in Seq(1 .. Len(arrived))
        OBVIOUS
      <3> QED
        BY <1>1, <2>1, <2>2, <3>1 DEF Inv, AllMade
    <2> QED
      BY <1>3, <2>2, <2>3, <2>4 DEF Inv
  <1>9. CASE Unlock
    <2>1. /\ timer = "unlock" /\ timer' = "sleep" /\ lock' = NoThread /\ sleep' = DELTA_SEND
          /\ buffer' = buffer /\ sent' = sent
      BY <1>9 DEF Unlock
    <2>2. Types'
      BY <1>1, <1>2, <2>1 DEF Inv, Types
    <2>3. Exclusion'
      BY <1>1, <1>2, <2>1 DEF Inv, Exclusion
    <2>4. Fits' /\ AllMade'
      BY <1>1, <2>1, Quiet
    <2> QED
      BY <1>3, <1>4, <2>1, <2>2, <2>3, <2>4 DEF Inv
  <1> QED
    BY <1>1, <1>5, <1>6, <1>7, <1>8, <1>9

\* Time passes: the buffer is older, and otherwise as it was.
LEMMA Aged ==
    ASSUME Inv, Tick
    PROVE  /\ buffer' \in Buffer
           /\ buffer'.content = buffer.content /\ buffer'.pos = buffer.pos
           /\ buffer'.head = buffer.head
           /\ buffer'.last_send = IF Empty(buffer) THEN 0
                                  ELSE IF buffer.last_send < 2 * DELTA_SEND
                                       THEN buffer.last_send + 1 ELSE buffer.last_send
  <1>1. PICK a : a = IF Empty(buffer) THEN 0
                     ELSE IF buffer.last_send < 2 * DELTA_SEND
                          THEN buffer.last_send + 1 ELSE buffer.last_send
    OBVIOUS
  <1>2. buffer' = [buffer EXCEPT !.last_send = a]
    BY <1>1 DEF Tick, Elapse
  <1>3. buffer \in Buffer
    BY DEF Inv, Types
  <1>4. a \in Age
    <2>1. buffer.last_send \in Age /\ DELTA_SEND \in Nat
      BY <1>3, BufferAssumption DEF Buffer
    <2> QED
      BY <1>1, <2>1 DEF Age
  <1> QED
    BY <1>1, <1>2, <1>3, <1>4 DEF Buffer

LEMMA TickInv ==
    ASSUME Inv, Tick
    PROVE  Inv'
  <1>1. /\ timer = "sleep" /\ sleep > 0 /\ sleep' = sleep - 1
        /\ lock' = lock /\ timer' = timer /\ sent' = sent
        /\ arrived' = arrived /\ pc' = pc /\ held' = held /\ seq' = seq /\ opt' = opt
    BY DEF Tick, Elapse
  <1>2. /\ buffer' \in Buffer /\ buffer'.content = buffer.content /\ buffer'.pos = buffer.pos
        /\ buffer'.head = buffer.head
    BY Aged
  <1>3. sleep' \in 0 .. DELTA_SEND
    BY <1>1, BufferAssumption DEF Inv, Types
  <1>4. Types' /\ Exclusion' /\ Holding'
    BY <1>1, <1>2, <1>3 DEF Inv, Types, Exclusion, Holding
  <1>5. Fits' /\ PushAtHand'
    BY <1>1, <1>2 DEF Inv, Fits, PushAtHand, Empty
  <1>6. AllMade'
    BY <1>1, <1>2 DEF Inv, AllMade, Made, Empty
  <1> QED
    BY <1>4, <1>5, <1>6 DEF Inv

LEMMA NextInv == Inv /\ [Next]_vars => Inv'
  <1> SUFFICES ASSUME Inv, [Next]_vars
               PROVE  Inv'
    OBVIOUS
  <1>1. ASSUME NEW h \in Handler, NEW s \in Segment, Receive(h, s) PROVE Inv'
    BY <1>1, ReceiveInv
  <1>2. ASSUME NEW h \in Handler, bulk_tcp(h) PROVE Inv'
    BY <1>2, PassOnInv, ToBufferInv, LockInv, InsertInv, PushInv DEF bulk_tcp
  <1>3. CASE tcp_timedout_2
    BY <1>3, TimerInv
  <1>4. CASE Tick
    BY <1>4, TickInv
  <1>5. CASE UNCHANGED vars
    BY <1>5 DEF vars, Inv, Types, Exclusion, Holding, Fits, AllMade, PushAtHand
  <1> QED
    BY <1>1, <1>2, <1>3, <1>4, <1>5 DEF Next

-----------------------------------------------------------------------------
(***************************************************************************)
(* The theorems.                                                           *)
(***************************************************************************)
\* The inductive invariant: threads exclude each other in the buffer, which never
\* grows past its end, and all that is sent or in it is made of segments that arrived.
THEOREM Invariance == Spec => []Inv
  <1>1. Init => Inv
    BY InitInv
  <1>2. Inv /\ [Next]_vars => Inv'
    BY NextInv
  <1> QED
    BY <1>1, <1>2, PTL DEF Spec

\* The types of all variables.
THEOREM TypeCorrect == Spec => []TypeOK
  <1>1. Inv => TypeOK
    <2> SUFFICES ASSUME Inv
                 PROVE  TypeOK
      OBVIOUS
    <2>1. BufferOK
      BY InParts DEF Inv, Types, Fits, BufferOK, Buffer
    <2> QED
      BY <2>1 DEF Inv, Types, TypeOK
  <1> QED
    BY <1>1, Invariance, PTL

\* Nothing is written behind the end of the buffer (lines 25 and 73-80).
THEOREM BufferHolds == Spec => []NoOverrun
  <1>1. Inv => NoOverrun
    BY DEF Inv, Fits, NoOverrun
  <1> QED
    BY <1>1, Invariance, PTL

\* A merged segment has exactly the flags of the segments in it (lines 55-56).
THEOREM FlagsAreKept == Spec => []FlagsKept
  <1>1. Inv => FlagsKept
    <2> SUFFICES ASSUME Inv, NEW k \in DOMAIN sent
                 PROVE  sent[k].head.flags = UNION {s.flags : s \in Members(sent[k].content)}
      BY DEF FlagsKept
    <2>1. sent[k].head.flags = FlagsOf(arrived, sent[k].content)
      BY DEF Inv, AllMade, Made
    <2>2. {s.flags : s \in Members(sent[k].content)} =
              {arrived[sent[k].content[m]].flags : m \in DOMAIN sent[k].content}
      BY DEF Members
    <2> QED
      BY <2>1, <2>2 DEF FlagsOf
  <1> QED
    BY <1>1, Invariance, PTL

\* A segment with PSH or FIN is never left waiting in the buffer (line 50).
THEOREM PushesSent == Spec => []PushNotHeld
  <1>1. Inv => PushNotHeld
    <2> SUFFICES ASSUME Inv, lock = NoThread, NEW s \in Members(buffer.content)
                 PROVE  s.flags \cap {"FIN", "PSH"} = {}
      BY DEF PushNotHeld
    <2>1. PICK m \in DOMAIN buffer.content : s = arrived[buffer.content[m]]
      BY DEF Members
    <2>2. \A h \in Handler : pc[h] # "push"
      BY BufferAssumption DEF Inv, Exclusion
    <2>3. ~Pushes(s)
      BY <2>1, <2>2 DEF Inv, PushAtHand
    <2> QED
      BY <2>3 DEF Pushes
  <1> QED
    BY <1>1, Invariance, PTL

\* Nothing waits in the buffer for two periods of the timer (bulk_buffer.c:155-161,
\* bulk.c:101-110).  What the buffer ages, the timer sleeps less.
LEMMA InTimeStep == Inv /\ InTime /\ [Next]_vars => InTime'
  <1> SUFFICES ASSUME Inv, InTime, [Next]_vars
               PROVE  InTime'
    OBVIOUS
  <1>1. /\ DELTA_SEND \in Nat \ {0} /\ sleep \in 0 .. DELTA_SEND /\ buffer.last_send \in Nat
        /\ buffer \in Buffer
    BY BufferAssumption, InParts DEF Inv, Types, Age
  <1>2. ASSUME UNCHANGED <<buffer, timer, sleep>> PROVE InTime'
    BY <1>2 DEF InTime
  <1>3. ASSUME NEW h \in Handler, insert_tcp_to_buffer(h) PROVE InTime'
    <2>1. timer' = timer /\ sleep' = sleep
      BY <1>3 DEF insert_tcp_to_buffer
    <2>2. timer # "unlock"
      BY <1>3, BufferAssumption DEF insert_tcp_to_buffer, Inv, Exclusion
    <2>3. buffer'.last_send = 0 \/ (~Empty(buffer) /\ buffer'.last_send = buffer.last_send)
      <3>1. PICK n, s : n = held[h] /\ s = arrived[n]
        OBVIOUS
      <3>2. \/ buffer' = ABuffer(<<n>>, PktLen(s), 0, HeaderOf(s))
            \/ /\ ~Empty(buffer)
               /\ buffer' = ABuffer(Append(buffer.content, n), buffer.pos + s.len,
                                    buffer.last_send, update_tcp_hdr(buffer.head, s))
        BY <1>3, <3>1, InsertEffect
      <3> QED
        BY <3>2 DEF ABuffer
    <2>4. 0 + sleep < 2 * DELTA_SEND
      BY <1>1
    <2> QED
      BY <2>1, <2>2, <2>3, <2>4 DEF InTime
  <1>4. ASSUME NEW h \in Handler, Push(h) PROVE InTime'
    <2>1. timer' = timer /\ sleep' = sleep /\ (buffer' = buffer \/ buffer' = Cleared(buffer))
      BY <1>4 DEF Push
    <2>2. Empty(Cleared(buffer))
      BY <1>1, ClearedBuffer
    <2> QED
      BY <2>1, <2>2 DEF InTime
  <1>5. CASE tcp_timedout_2
    <2>1. CASE Wake
      BY <2>1 DEF Wake, InTime
    <2>2. CASE LockOld
      BY <2>2 DEF LockOld, InTime
    <2>3. CASE SendOld
      <3>1. /\ timer = "send" /\ timer' = IF Old(buffer) THEN "clear" ELSE "unlock"
            /\ buffer' = buffer /\ sleep' = sleep
        BY <2>3 DEF SendOld
      <3>2. ~Old(buffer) /\ ~Empty(buffer) => buffer.last_send < DELTA_SEND
        BY <1>1 DEF Old
      <3> QED
        BY <3>1, <3>2 DEF InTime
    <2>4. CASE ClearOld
      <3>1. timer = "clear" /\ timer' = "unlock" /\ buffer' = Cleared(buffer) /\ sleep' = sleep
        BY <2>4 DEF ClearOld
      <3>2. Empty(Cleared(buffer))
        BY <1>1, ClearedBuffer
      <3> QED
        BY <3>1, <3>2 DEF InTime
    <2>5. CASE Unlock
      <3>1. timer = "unlock" /\ timer' = "sleep" /\ buffer' = buffer /\ sleep' = DELTA_SEND
        BY <2>5 DEF Unlock
      <3>2. ~Empty(buffer) => buffer.last_send + DELTA_SEND < 2 * DELTA_SEND
        BY <1>1, <3>1 DEF InTime
      <3> QED
        BY <3>1, <3>2 DEF InTime
    <2> QED
      BY <1>5, <2>1, <2>2, <2>3, <2>4, <2>5 DEF tcp_timedout_2, Timer
  <1>6. CASE Tick
    <2>1. timer = "sleep" /\ timer' = timer /\ sleep > 0 /\ sleep' = sleep - 1
      BY <1>6 DEF Tick, Elapse
    <2>2. /\ buffer'.pos = buffer.pos
          /\ buffer'.last_send = IF Empty(buffer) THEN 0
                                 ELSE IF buffer.last_send < 2 * DELTA_SEND
                                      THEN buffer.last_send + 1 ELSE buffer.last_send
      BY <1>6, Aged
    <2>3. PICK a \in Nat : a = buffer.last_send
      BY <1>1
    <2>4. ~Empty(buffer) => /\ a < 2 * DELTA_SEND
                            /\ (a + 1) + (sleep - 1) < 2 * DELTA_SEND
      BY <1>1, <2>3 DEF InTime
    <2>5. ~Empty(buffer) => buffer'.last_send = a + 1
      BY <2>2, <2>3, <2>4
    <2> QED
      BY <2>1, <2>2, <2>4, <2>5 DEF InTime, Empty
  <1>7. CASE UNCHANGED vars
    BY <1>2, <1>7 DEF vars
  <1>8. ASSUME NEW h \in Handler, NEW s \in Segment, Receive(h, s) PROVE InTime'
    BY <1>2, <1>8 DEF Receive
  <1>9. ASSUME NEW h \in Handler, bulk_tcp(h) PROVE InTime'
    BY <1>2, <1>3, <1>4, <1>9 DEF bulk_tcp, PassOn, ToBuffer, Lock
  <1> QED
    BY <1>5, <1>6, <1>7, <1>8, <1>9 DEF Next

\* No segment stays in the buffer for two periods of the timer (bulk.c 58-77,
\* bulk_buffer.c 150-161).
THEOREM SentInTime == Spec => []WithinTwoDeltas
  <1>1. Init => InTime
    <2> SUFFICES ASSUME Init
                 PROVE  InTime
      OBVIOUS
    <2>1. timer = "sleep" /\ buffer = ABuffer(<<>>, 0, 0, NoHead)
      BY DEF Init, InitBuffer, ABuffer
    <2>2. Empty(buffer)
      BY <2>1, Parts DEF Empty
    <2> QED
      BY <2>1, <2>2 DEF InTime
  <1>2. Inv /\ InTime => WithinTwoDeltas
    <2> SUFFICES ASSUME Inv, InTime, ~Empty(buffer)
                 PROVE  buffer.last_send < 2 * DELTA_SEND
      BY DEF WithinTwoDeltas
    <2>1. /\ DELTA_SEND \in Nat /\ sleep \in Nat /\ buffer.last_send \in Nat
          /\ buffer.last_send + sleep < 2 * DELTA_SEND
      BY BufferAssumption, InParts DEF Inv, Types, InTime, Age
    <2> QED
      BY <2>1
  <1> QED
    BY <1>1, <1>2, InTimeStep, Invariance, PTL DEF Spec

-----------------------------------------------------------------------------
(***************************************************************************)
(* Merged data is consecutive.                                             *)
(***************************************************************************)
\* Without a segment that ends just before the last sequence number, % TCP_MAX_SEG
\* changes nothing.
NoneAtTheEnd == \A s \in Segment : (s.seq + s.len) % SEQ # TCP_MAX_SEG

LEMMA FollowingPlain ==
    ASSUME NoneAtTheEnd, NEW s \in Segment
    PROVE  Following(s.seq, s.len) = (s.seq + s.len) % SEQ
  <1>1. PICK e : e = (s.seq + s.len) % SEQ
    OBVIOUS
  <1>2. e \in 0 .. SEQ - 1 /\ SEQ \in Nat \ {0, 1}
    BY <1>1, SegmentFields, TcpAssumption
  <1>3. e # SEQ - 1
    BY <1>1 DEF NoneAtTheEnd, TCP_MAX_SEG
  <1>4. e % (SEQ - 1) = e
    BY <1>2, <1>3
  <1> QED
    BY <1>1, <1>4 DEF Following, TCP_MAX_SEG

\* A packet of consecutive data is sent.
LEMMA SentChain ==
    ASSUME Inv, Chained, NEW p \in Packet, Chain(arrived, p.content), sent' = Append(sent, p)
    PROVE  \A k \in DOMAIN sent' : Chain(arrived, sent'[k].content)
  <1>1. sent \in Seq(Packet) /\ \A k \in DOMAIN sent : Chain(arrived, sent[k].content)
    BY DEF Inv, Types, Chained
  <1> QED
    BY <1>1, OneMore

LEMMA ImageChain ==
    ASSUME Inv, Chained, ~Empty(buffer), sent' = Append(sent, Image(buffer))
    PROVE  \A k \in DOMAIN sent' : Chain(arrived, sent'[k].content)
  <1>1. Image(buffer) \in Packet
    BY ImageMade
  <1>2. Image(buffer).content = buffer.content
    BY DEF Image
  <1> QED
    BY <1>1, <1>2, SentChain DEF Chained

\* What send_buffer sends is consecutive, and nothing is left.
LEMMA SendingChain ==
    ASSUME Inv, Chained, arrived' = arrived,
           sent' = sent \o Sending(buffer), buffer' = Cleared(buffer)
    PROVE  Chained'
  <1>1. buffer \in Buffer /\ sent \in Seq(Packet)
    BY DEF Inv, Types
  <1>2. \A k \in DOMAIN sent' : Chain(arrived, sent'[k].content)
    <2>1. CASE Empty(buffer)
      BY <1>1, <2>1, SendingOne DEF Chained
    <2>2. CASE ~Empty(buffer)
      BY <1>1, <2>2, SendingOne, ImageChain
    <2> QED
      BY <2>1, <2>2
  <1>3. buffer'.content = <<>>
    BY <1>1, ClearedBuffer
  <1>4. Chain(arrived, <<>>)
    BY DEF Chain
  <1> QED
    BY <1>2, <1>3, <1>4 DEF Chained

LEMMA InsertChain ==
    ASSUME NoneAtTheEnd, Inv, Chained, NEW h \in Handler, insert_tcp_to_buffer(h)
    PROVE  Chained'
  <1>0. PICK n, s : n = held[h] /\ s = arrived[n]
    OBVIOUS
  <1>1. /\ n \in 1 .. Len(arrived) /\ s \in Segment /\ arrived \in Seq(Segment)
        /\ arrived' = arrived
    BY <1>0, InsertEffect DEF insert_tcp_to_buffer, Inv, Types
  <1>2. \/ /\ sent' = IF Empty(buffer) THEN sent ELSE Append(sent, Image(buffer))
           /\ buffer' = ABuffer(<<n>>, PktLen(s), 0, HeaderOf(s))
           /\ seq' = Following(s.seq, s.len)
        \/ /\ ~Empty(buffer) /\ sent' = sent
           /\ buffer' = ABuffer(Append(buffer.content, n), buffer.pos + s.len,
                                buffer.last_send, update_tcp_hdr(buffer.head, s))
           /\ seq = s.seq /\ seq' = Following(seq, s.len)
    BY <1>0, InsertEffect
  <1>3. seq' = (s.seq + s.len) % SEQ
    <2>1. seq' = Following(s.seq, s.len)
      BY <1>2
    <2> QED
      BY <1>1, <2>1, FollowingPlain
  <1>4. \A k \in DOMAIN sent' : Chain(arrived, sent'[k].content)
    BY <1>2, ImageChain DEF Chained
  <1>5. Chain(arrived, buffer'.content) /\ seq' = Ends(arrived, buffer'.content)
    <2>1. CASE buffer' = ABuffer(<<n>>, PktLen(s), 0, HeaderOf(s))
      <3>1. buffer'.content = <<n>>
        BY <2>1 DEF ABuffer
      <3>2. Chain(arrived, <<n>>) /\ Ends(arrived, <<n>>) = (s.seq + s.len) % SEQ
        BY <1>0, <1>1, Alone
      <3> QED
        BY <1>3, <3>1, <3>2
    <2>2. CASE /\ ~Empty(buffer) /\ seq = s.seq
               /\ buffer' = ABuffer(Append(buffer.content, n), buffer.pos + s.len,
                                    buffer.last_send, update_tcp_hdr(buffer.head, s))
      <3>1. PICK c, e : c = buffer.content /\ e = Append(c, n)
        OBVIOUS
      <3>2. buffer'.content = e
        BY <2>2, <3>1 DEF ABuffer
      <3>3. c \in Seq(1 .. Len(arrived)) /\ c # <<>>
        BY <2>2, <3>1 DEF Inv, Fits, AllMade
      <3>4. Chain(arrived, c) /\ arrived[n].seq = Ends(arrived, c)
        BY <1>0, <2>2, <3>1, <3>3 DEF Chained
      <3>5. Chain(arrived, e) /\ Ends(arrived, e) = (arrived[n].seq + arrived[n].len) % SEQ
        <4>1. e = Append(c, n)
          BY <3>1
        <4>2. arrived \in Seq(Segment) /\ n \in 1 .. Len(arrived)
          BY <1>1
        <4>3. Chain(arrived, e)
          BY <3>3, <3>4, <4>1, <4>2, Behind
        <4>4. Ends(arrived, e) = (arrived[n].seq + arrived[n].len) % SEQ
          <5>1. e[Len(e)] = n
            BY <3>3, <4>1
          <5> QED
            BY <5>1 DEF Ends
        <4> QED
          BY <4>3, <4>4
      <3> QED
        BY <1>0, <1>3, <3>2, <3>5
    <2> QED
      BY <1>2, <2>1, <2>2
  <1> QED
    BY <1>1, <1>4, <1>5 DEF Chained

LEMMA ChainedStep ==
    ASSUME NoneAtTheEnd, Inv, Chained, [Next]_vars
    PROVE  Chained'
  <1>1. ASSUME UNCHANGED <<arrived, buffer, sent, seq>> PROVE Chained'
    BY <1>1 DEF Chained
  <1>2. ASSUME NEW h \in Handler, NEW s \in Segment, Receive(h, s) PROVE Chained'
    <2>1. /\ arrived' = Append(arrived, s) /\ arrived \in Seq(Segment)
          /\ buffer' = buffer /\ sent' = sent /\ seq' = seq
      BY <1>2 DEF Receive, Inv, Types
    <2>2. /\ buffer.content \in Seq(1 .. Len(arrived))
          /\ \A k \in DOMAIN sent : sent[k].content \in Seq(1 .. Len(arrived))
      BY DEF Inv, AllMade, Made
    <2>3. ASSUME NEW c \in Seq(1 .. Len(arrived))
          PROVE  /\ Chain(arrived', c) <=> Chain(arrived, c)
                 /\ c # <<>> => Ends(arrived', c) = Ends(arrived, c)
      BY <2>1, Later
    <2> QED
      BY <2>1, <2>2, <2>3 DEF Chained
  <1>3. ASSUME NEW h \in Handler, PassOn(h) PROVE Chained'
    <2>1. PICK n, p : n = held[h] /\ p = [content |-> <<n>>, head |-> HeaderOf(arrived[n])]
      OBVIOUS
    <2>2. /\ pc[h] = "test" /\ sent' = Append(sent, p)
          /\ buffer' = buffer /\ arrived' = arrived /\ seq' = seq
      BY <1>3, <2>1 DEF PassOn
    <2>3. n \in 1 .. Len(arrived) /\ arrived[n] \in Segment /\ arrived \in Seq(Segment)
      BY <2>1, <2>2, HeldSegment DEF Inv, Types
    <2>4. <<n>> \in Seq(Nat) /\ Chain(arrived, <<n>>)
      BY <2>3, Alone
    <2>5. p \in Packet /\ Chain(arrived, p.content)
      BY <2>1, <2>3, <2>4, SegmentFields DEF Packet
    <2> QED
      BY <2>2, <2>5, SentChain DEF Chained
  <1>4. ASSUME NEW h \in Handler, Push(h) PROVE Chained'
    <2>1. arrived' = arrived /\ seq' = seq
      BY <1>4 DEF Push
    <2>2. \/ sent' = sent \o Sending(buffer) /\ buffer' = Cleared(buffer)
          \/ sent' = sent /\ buffer' = buffer
      BY <1>4 DEF Push
    <2> QED
      BY <1>1, <2>1, <2>2, SendingChain
  <1>5. ASSUME NEW h \in Handler, bulk_tcp(h) PROVE Chained'
    BY <1>1, <1>3, <1>4, <1>5, InsertChain DEF bulk_tcp, ToBuffer, Lock
  <1>6. CASE tcp_timedout_2
    <2>1. arrived' = arrived /\ seq' = seq /\ buffer \in Buffer /\ sent \in Seq(Packet)
      BY <1>6 DEF tcp_timedout_2, Inv, Types
    <2>2. CASE SendOld
      <3>1. buffer' = buffer /\ sent' = IF Old(buffer) THEN sent \o Sending(buffer) ELSE sent
        BY <2>2 DEF SendOld
      <3>2. CASE Old(buffer)
        <4>1. ~Empty(buffer)
          BY <3>2 DEF Old
        <4>2. sent' = Append(sent, Image(buffer))
          BY <2>1, <3>1, <3>2, <4>1, SendingOne
        <4> QED
          BY <2>1, <3>1, <4>1, <4>2, ImageChain DEF Chained
      <3> QED
        BY <1>1, <2>1, <3>1, <3>2
    <2>3. CASE ClearOld
      <3>1. buffer' = Cleared(buffer) /\ sent' = sent
        BY <2>3 DEF ClearOld
      <3>2. buffer'.content = <<>>
        BY <2>1, <3>1, ClearedBuffer
      <3>3. Chain(arrived, <<>>)
        BY DEF Chain
      <3> QED
        BY <2>1, <3>1, <3>2, <3>3 DEF Chained
    <2>4. CASE Wake \/ LockOld \/ Unlock
      BY <1>1, <2>1, <2>4 DEF Wake, LockOld, Unlock
    <2> QED
      BY <1>6, <2>2, <2>3, <2>4 DEF tcp_timedout_2, Timer
  <1>7. CASE Tick
    <2>1. arrived' = arrived /\ seq' = seq /\ sent' = sent
      BY <1>7 DEF Tick, Elapse
    <2>2. buffer'.content = buffer.content
      BY <1>7, Aged
    <2> QED
      BY <2>1, <2>2 DEF Chained
  <1>8. CASE UNCHANGED vars
    BY <1>1, <1>8 DEF vars
  <1> QED
    BY <1>2, <1>5, <1>6, <1>7, <1>8 DEF Next

\* If no segment ends just before the last sequence number, the data of merged
\* segments is consecutive, in what is sent and in the buffer (lines 73-92).  The
\* hypothesis is needed: lines 86 and 90 take the next number modulo 2^32 - 1.
THEOREM MergedContiguous ==
    ASSUME NoneAtTheEnd
    PROVE  Spec => []Contiguous
  <1>1. Init => Chained
    <2> SUFFICES ASSUME Init
                 PROVE  Chained
      OBVIOUS
    <2>1. buffer.content = <<>> /\ sent = <<>>
      BY DEF Init, InitBuffer
    <2>2. Chain(arrived, <<>>)
      BY DEF Chain
    <2> QED
      BY <2>1, <2>2 DEF Chained
  <1>2. Inv /\ Chained /\ [Next]_vars => Chained'
    BY ChainedStep
  <1>3. Inv /\ Chained => Contiguous
    <2> SUFFICES ASSUME Inv, Chained, NEW k \in DOMAIN Out
                 PROVE  Chain(arrived, Out[k])
      BY DEF Contiguous, Chain
    <2>1. sent \in Seq(Packet) /\ DOMAIN Out = 1 .. Len(sent) + 1
      BY DEF Inv, Types, Out
    <2>2. CASE k <= Len(sent)
      <3>1. k \in DOMAIN sent /\ Out[k] = sent[k].content
        BY <2>1, <2>2 DEF Out
      <3> QED
        BY <3>1 DEF Chained
    <2>3. CASE ~(k <= Len(sent))
      <3>1. Out[k] = buffer.content
        BY <2>1, <2>3 DEF Out
      <3> QED
        BY <3>1 DEF Chained
    <2> QED
      BY <2>2, <2>3
  <1> QED
    BY <1>1, <1>2, <1>3, Invariance, PTL DEF Spec

-----------------------------------------------------------------------------
(***************************************************************************)
(* Where the segments are: in packets that were sent, one after the other, *)
(* and then in what waits in the buffer.                                   *)
(***************************************************************************)
\* The segments of a packet that went through the buffer.
Passed(a, c) ==
    Concatenation([m \in DOMAIN c |-> IF Untouched(a[c[m]]) THEN <<>> ELSE <<c[m]>>])

LEMMA PassedAppend ==
    ASSUME NEW a, NEW c \in Seq(Nat), NEW n \in Nat
    PROVE  /\ Passed(a, c) \in Seq(Nat)
           /\ Passed(a, Append(c, n)) = IF Untouched(a[n]) THEN Passed(a, c)
                                                               ELSE Append(Passed(a, c), n)
  <1> DEFINE K(d) == [m \in DOMAIN d |-> IF Untouched(a[d[m]]) THEN <<>> ELSE <<d[m]>>]
             s == IF Untouched(a[n]) THEN <<>> ELSE <<n>>
  <1>1. \A d : Passed(a, d) = Concatenation(K(d))
    BY DEF Passed
  <1>2. s \in Seq(Nat) /\ K(c) \in Seq(Seq(Nat))
    <2>1. \A m \in DOMAIN c : (IF Untouched(a[c[m]]) THEN <<>> ELSE <<c[m]>>) \in Seq(Nat)
      OBVIOUS
    <2>2. DOMAIN c = 1 .. Len(c) /\ Len(c) \in Nat
      OBVIOUS
    <2>3. K(c) \in Seq(Seq(Nat))
      BY <2>1, <2>2
    <2> QED
      BY <2>3
  <1>3. K(Append(c, n)) = Append(K(c), s)
    <2> DEFINE L == Len(c)
    <2>1. /\ L \in Nat /\ DOMAIN c = 1 .. L
          /\ Append(c, n) = [m \in 1 .. L + 1 |-> IF m = L + 1 THEN n ELSE c[m]]
      BY AppendIs
    <2> HIDE DEF L
    <2>2. K(Append(c, n)) = [m \in 1 .. L + 1 |-> IF m = L + 1 THEN s ELSE K(c)[m]]
      BY <2>1
    <2>3. Len(K(c)) = L
      BY <2>1
    <2> HIDE DEF K, s
    <2>4. Append(K(c), s) = [m \in 1 .. L + 1 |-> IF m = L + 1 THEN s ELSE K(c)[m]]
      BY <1>2, <2>1, <2>3, AppendIs
    <2> QED
      BY <2>2, <2>4
  <1>4. Concatenation(K(c)) \in Seq(Nat) /\ Concatenation(Append(K(c), s)) = Concatenation(K(c)) \o s
    <2> HIDE DEF K, s
    <2> QED
      BY <1>2, ConcatenationAppend
  <1> HIDE DEF K
  <1>5. Passed(a, Append(c, n)) = Passed(a, c) \o s /\ Passed(a, c) \in Seq(Nat)
    BY <1>1, <1>3, <1>4
  <1> QED
    BY <1>5

LEMMA PassedFew ==
    ASSUME NEW a
    PROVE  /\ Passed(a, <<>>) = <<>>
           /\ \A n \in Nat : Passed(a, <<n>>) = IF Untouched(a[n]) THEN <<>> ELSE <<n>>
  <1>1. Passed(a, <<>>) = <<>>
    <2>1. [m \in DOMAIN <<>> |-> IF Untouched(a[<<>>[m]]) THEN <<>> ELSE <<<<>>[m]>>] = <<>>
      OBVIOUS
    <2> QED
      BY <2>1, ConcatenationEmpty DEF Passed
  <1>2. \A n \in Nat : Append(<<>>, n) = <<n>> /\ <<>> \in Seq(Nat)
    OBVIOUS
  <1> QED
    BY <1>1, <1>2, PassedAppend

\* The segments that went through the buffer, of packets one after the other.
Stream(a, ss) == Concatenation([k \in DOMAIN ss |-> Passed(a, ss[k])])

LEMMA StreamAppend ==
    ASSUME NEW a, NEW ss \in Seq(Seq(Nat)), NEW c \in Seq(Nat)
    PROVE  Stream(a, ss) \in Seq(Nat) /\ Stream(a, Append(ss, c)) = Stream(a, ss) \o Passed(a, c)
  <1> DEFINE T(tt) == [k \in DOMAIN tt |-> Passed(a, tt[k])]
  <1>1. \A d \in Seq(Nat) : Passed(a, d) \in Seq(Nat)
    BY PassedAppend
  <1>2. PICK n \in Nat : n = Len(ss) /\ DOMAIN ss = 1 .. n
    OBVIOUS
  <1>3. \A k \in 1 .. n : ss[k] \in Seq(Nat)
    BY <1>2
  <1>4. T(ss) \in Seq(Seq(Nat)) /\ Len(T(ss)) = n
    BY <1>1, <1>2, <1>3
  <1>5. T(Append(ss, c)) = Append(T(ss), Passed(a, c))
    <2>1. Append(ss, c) = [k \in 1 .. n + 1 |-> IF k = n + 1 THEN c ELSE ss[k]]
      BY <1>2, AppendIs
    <2>2. T(Append(ss, c)) = [k \in 1 .. n + 1 |-> IF k = n + 1 THEN Passed(a, c) ELSE T(ss)[k]]
      BY <1>2, <2>1
    <2> HIDE DEF T
    <2>3. Append(T(ss), Passed(a, c)) =
              [k \in 1 .. n + 1 |-> IF k = n + 1 THEN Passed(a, c) ELSE T(ss)[k]]
      BY <1>1, <1>2, <1>4, AppendIs
    <2> QED
      BY <2>2, <2>3
  <1>6. \A tt : Stream(a, tt) = Concatenation(T(tt))
    BY DEF Stream
  <1> HIDE DEF T
  <1>7. Concatenation(T(ss)) \in Seq(Nat)
        /\ Concatenation(Append(T(ss), Passed(a, c))) = Concatenation(T(ss)) \o Passed(a, c)
    BY <1>1, <1>4, ConcatenationAppend
  <1> QED
    BY <1>5, <1>6, <1>7
LEMMA StreamLater ==
    ASSUME NEW a \in Seq(Segment), NEW s \in Segment, NEW ss,
           \A x : Has(ss, x) => x \in 1 .. Len(a)
    PROVE  Stream(Append(a, s), ss) = Stream(a, ss)
  <1> DEFINE P(aa) == [k \in DOMAIN ss |-> Passed(aa, ss[k])]
             b == Append(a, s)
  <1>1. \A x \in 1 .. Len(a) : b[x] = a[x]
    OBVIOUS
  <1> HIDE DEF b
  <1>2. ASSUME NEW k \in DOMAIN ss PROVE Passed(b, ss[k]) = Passed(a, ss[k])
    <2>1. \A m \in DOMAIN ss[k] : b[ss[k][m]] = a[ss[k][m]]
      BY <1>1 DEF Has, In
    <2> QED
      BY <2>1 DEF Passed
  <1>3. P(b) = P(a)
    BY <1>2
  <1>4. \A aa : Stream(aa, ss) = Concatenation(P(aa))
    BY DEF Stream
  <1> QED
    BY <1>3, <1>4 DEF b

\* A packet of one segment goes in front of what waits.
InFront(F, c, n, a, ss, tt) ==
    Untouched(a[n]) /\ ss = Append(F, c) /\ tt = Append(Append(F, <<n>>), c)

LEMMA PassedInFront ==
    ASSUME NEW F \in Seq(Seq(Nat)), NEW c \in Seq(Nat), NEW n \in Nat, NEW a, NEW ss, NEW tt,
           InFront(F, c, n, a, ss, tt)
    PROVE  Gains(ss, tt, n) /\ Stream(a, tt) = Stream(a, ss)
  <1> USE DEF InFront
  <1> DEFINE G == Append(F, <<n>>)
  <1>1. <<n>> \in Seq(Nat) /\ G \in Seq(Seq(Nat))
    OBVIOUS
  <1>2. /\ \A x : Has(G, x) <=> Has(F, x) \/ x = n
        /\ Unique(G) <=> Unique(F) /\ ~Has(F, n)
    <2>1. /\ \A x : Has(G, x) <=> Has(F, x) \/ In(<<n>>, x)
          /\ Unique(G) <=> Unique(F) /\ Distinct(<<n>>) /\ \A x : ~(In(<<n>>, x) /\ Has(F, x))
      BY <1>1, HasAppend
    <2> HIDE DEF G
    <2> QED
      BY <2>1, InFew
  <1>3. Stream(a, F) \in Seq(Nat) /\ Stream(a, G) = Stream(a, F)
    <2>1. Stream(a, F) \in Seq(Nat) /\ Stream(a, G) = Stream(a, F) \o Passed(a, <<n>>)
      BY <1>1, StreamAppend
    <2>2. Passed(a, <<n>>) = <<>>
      BY PassedFew
    <2> HIDE DEF G
    <2> QED
      BY <2>1, <2>2, Joining
  <1> HIDE DEF G
  <1>4. /\ \A x : Has(ss, x) <=> Has(F, x) \/ In(c, x)
        /\ Unique(ss) <=> Unique(F) /\ Distinct(c) /\ \A x : ~(In(c, x) /\ Has(F, x))
    BY HasAppend
  <1>5. /\ \A x : Has(tt, x) <=> Has(G, x) \/ In(c, x)
        /\ Unique(tt) <=> Unique(G) /\ Distinct(c) /\ \A x : ~(In(c, x) /\ Has(G, x))
    BY <1>1, HasAppend DEF G
  <1>6. Gains(ss, tt, n)
    BY <1>2, <1>4, <1>5 DEF Gains
  <1>7. Stream(a, ss) = Stream(a, F) \o Passed(a, c) /\ Stream(a, tt) = Stream(a, G) \o Passed(a, c)
    BY <1>1, StreamAppend DEF G
  <1> QED
    BY <1>3, <1>6, <1>7

\* A segment goes behind what waits, or makes a packet of its own behind it.
AtTheBack(F, c, n, a, ss, tt) ==
    /\ ~Untouched(a[n]) /\ ss = Append(F, c)
    /\ tt = Append(F, Append(c, n)) \/ tt = Append(Append(F, c), <<n>>)

LEMMA PutBehind ==
    ASSUME NEW F \in Seq(Seq(Nat)), NEW c \in Seq(Nat), NEW n \in Nat, NEW a, NEW ss, NEW tt,
           AtTheBack(F, c, n, a, ss, tt)
    PROVE  Gains(ss, tt, n) /\ Stream(a, tt) = Append(Stream(a, ss), n)
  <1> USE DEF AtTheBack
  <1>0. <<n>> \in Seq(Nat) /\ ss \in Seq(Seq(Nat)) /\ Append(c, n) \in Seq(Nat)
    OBVIOUS
  <1>1. /\ \A x : Has(ss, x) <=> Has(F, x) \/ In(c, x)
        /\ Unique(ss) <=> Unique(F) /\ Distinct(c) /\ \A x : ~(In(c, x) /\ Has(F, x))
        /\ Stream(a, F) \in Seq(Nat) /\ Passed(a, c) \in Seq(Nat)
        /\ Stream(a, ss) = Stream(a, F) \o Passed(a, c)
    BY HasAppend, StreamAppend, PassedAppend
  <1>2. CASE tt = Append(F, Append(c, n))
    <2> DEFINE d == Append(c, n)
    <2>1. /\ \A x : In(d, x) <=> In(c, x) \/ x = n
          /\ Distinct(c) /\ ~In(c, n) => Distinct(d)
      BY InAppend
    <2>0. Passed(a, d) = Append(Passed(a, c), n)
      BY PassedAppend
    <2> HIDE DEF d
    <2>2. /\ \A x : Has(tt, x) <=> Has(F, x) \/ In(d, x)
          /\ Unique(tt) <=> Unique(F) /\ Distinct(d) /\ \A x : ~(In(d, x) /\ Has(F, x))
          /\ Stream(a, tt) = Stream(a, F) \o Passed(a, d)
      BY <1>0, <1>2, HasAppend, StreamAppend DEF d
    <2>3. Gains(ss, tt, n)
      BY <1>1, <2>1, <2>2 DEF Gains
    <2>4. Stream(a, tt) = Append(Stream(a, ss), n)
      <3> DEFINE u == Stream(a, F)
                 v == Passed(a, c)
      <3>1. u \in Seq(Nat) /\ v \in Seq(Nat)
        BY <1>1
      <3> HIDE DEF u, v
      <3>2. u \o Append(v, n) = Append(u \o v, n)
        BY <3>1, Joining
      <3> QED
        BY <1>1, <2>0, <2>2, <3>2 DEF u, v
    <2> QED
      BY <2>3, <2>4
  <1>3. CASE tt = Append(ss, <<n>>)
    <2>1. /\ \A x : Has(tt, x) <=> Has(ss, x) \/ In(<<n>>, x)
          /\ Unique(tt) <=> Unique(ss) /\ Distinct(<<n>>) /\ \A x : ~(In(<<n>>, x) /\ Has(ss, x))
          /\ Stream(a, ss) \in Seq(Nat) /\ Stream(a, tt) = Stream(a, ss) \o Passed(a, <<n>>)
      BY <1>0, <1>3, HasAppend, StreamAppend
    <2>2. Gains(ss, tt, n)
      BY <2>1, InFew DEF Gains
    <2>3. Passed(a, <<n>>) = <<n>>
      BY PassedFew
    <2>4. Stream(a, tt) = Append(Stream(a, ss), n)
      <3>1. Stream(a, tt) = Stream(a, ss) \o <<n>>
        BY <2>1, <2>3
      <3>2. Stream(a, ss) \o <<n>> = Append(Stream(a, ss), n)
        BY <2>1, Joining
      <3> QED
        BY <3>1, <3>2
    <2> QED
      BY <2>2, <2>4
  <1> QED
    BY <1>2, <1>3

\* What waits becomes a packet, and nothing waits.
LEMMA NothingWaits ==
    ASSUME NEW ss \in Seq(Seq(Nat)), NEW tt, tt = Append(ss, <<>>), NEW a
    PROVE  Keeps(ss, tt) /\ Stream(a, tt) = Stream(a, ss)
  <1>1. <<>> \in Seq(Nat)
    OBVIOUS
  <1>2. /\ \A x : Has(tt, x) <=> Has(ss, x) \/ In(<<>>, x)
        /\ Unique(tt) <=> Unique(ss) /\ Distinct(<<>>) /\ \A x : ~(In(<<>>, x) /\ Has(ss, x))
        /\ Stream(a, ss) \in Seq(Nat) /\ Stream(a, tt) = Stream(a, ss) \o Passed(a, <<>>)
    BY <1>1, HasAppend, StreamAppend
  <1>3. Distinct(<<>>) /\ \A x : ~In(<<>>, x)
    BY InFew
  <1>4. Passed(a, <<>>) = <<>>
    BY PassedFew
  <1>5. Stream(a, tt) = Stream(a, ss)
    <2> DEFINE u == Stream(a, ss)
    <2>1. u \in Seq(Nat) /\ u \o <<>> = u
      BY <1>2, Joining
    <2> QED
      BY <1>2, <1>4, <2>1
  <1> QED
    BY <1>2, <1>3, <1>5 DEF Keeps

-----------------------------------------------------------------------------
(***************************************************************************)
(* Nothing is lost, nothing overtakes.                                     *)
(***************************************************************************)
\* The contents of packets that were sent, and what is in the buffer without being
\* among them.
Contents(z) == [k \in 1 .. Len(z) |-> z[k].content]
Waiting == IF timer = "clear" THEN <<>> ELSE buffer.content
Flow == Append(Contents(sent), Waiting)

LEMMA ContentsAppend ==
    ASSUME NEW z \in Seq(Packet), NEW p \in Packet
    PROVE  /\ Contents(z) \in Seq(Seq(Nat))
           /\ Contents(Append(z, p)) = Append(Contents(z), p.content)
  <1> DEFINE n == Len(z)
             K == Contents(z)
  <1>1. /\ n \in Nat /\ DOMAIN z = 1 .. n /\ p.content \in Seq(Nat)
        /\ \A k \in 1 .. n : z[k].content \in Seq(Nat)
    <2>1. \A q \in Packet : q.content \in Seq(Nat)
      BY DEF Packet
    <2>2. \A k \in 1 .. n : z[k] \in Packet
      OBVIOUS
    <2> QED
      BY <2>1, <2>2
  <1>2. K = [k \in 1 .. n |-> z[k].content]
    BY DEF Contents
  <1>3. Append(z, p) = [k \in 1 .. n + 1 |-> IF k = n + 1 THEN p ELSE z[k]]
        /\ Len(Append(z, p)) = n + 1
    BY AppendIs
  <1>4. Contents(Append(z, p)) =
            [k \in 1 .. n + 1 |-> IF k = n + 1 THEN p.content ELSE z[k].content]
    BY <1>1, <1>3 DEF Contents
  <1> HIDE DEF n, K
  <1>5. K \in Seq(Seq(Nat)) /\ Len(K) = n
    BY <1>1, <1>2
  <1>6. Append(K, p.content) = [k \in 1 .. n + 1 |-> IF k = n + 1 THEN p.content ELSE K[k]]
    BY <1>1, <1>5, AppendIs
  <1>7. Append(K, p.content) =
            [k \in 1 .. n + 1 |-> IF k = n + 1 THEN p.content ELSE z[k].content]
    BY <1>1, <1>2, <1>6
  <1> QED
    BY <1>4, <1>5, <1>7 DEF K

LEMMA FlowParts ==
    ASSUME Inv
    PROVE  /\ Contents(sent) \in Seq(Seq(Nat)) /\ Waiting \in Seq(Nat) /\ Flow \in Seq(Seq(Nat))
           /\ \A x : Has(Flow, x) => x \in 1 .. Len(arrived)
  <1>1. sent \in Seq(Packet) /\ buffer \in Buffer
    BY DEF Inv, Types
  <1>2. Contents(sent) \in Seq(Seq(Nat))
    <2>1. \A q \in Packet : q.content \in Seq(Nat)
      BY DEF Packet
    <2>2. \A k \in 1 .. Len(sent) : sent[k].content \in Seq(Nat)
      BY <1>1, <2>1
    <2>3. Len(sent) \in Nat
      BY <1>1
    <2> QED
      BY <2>2, <2>3 DEF Contents
  <1>3. Waiting \in Seq(Nat)
    <2>1. <<>> \in Seq(Nat)
      OBVIOUS
    <2> QED
      BY <1>1, <2>1, InParts DEF Waiting
  <1>4. Flow \in Seq(Seq(Nat))
    BY <1>2, <1>3 DEF Flow
  <1>5. ASSUME NEW x, Has(Flow, x) PROVE x \in 1 .. Len(arrived)
    <2>1. CASE Has(Contents(sent), x)
      <3>1. PICK k \in 1 .. Len(sent) : In(sent[k].content, x)
        BY <2>1 DEF Has, Contents
      <3>2. k \in DOMAIN sent
        BY <1>1, <3>1
      <3>3. sent[k].content \in Seq(1 .. Len(arrived))
        BY <3>2 DEF Inv, AllMade, Made
      <3> QED
        BY <3>1, <3>3 DEF In
    <2>2. CASE In(Waiting, x)
      <3>1. Waiting \in Seq(1 .. Len(arrived))
        <4>1. <<>> \in Seq(1 .. Len(arrived))
          OBVIOUS
        <4> QED
          BY <4>1 DEF Inv, AllMade, Waiting
      <3> QED
        BY <2>2, <3>1 DEF In
    <2> QED
      BY <1>2, <1>3, <1>5, <2>1, <2>2, HasAppend DEF Flow
  <1> QED
    BY <1>2, <1>3, <1>4, <1>5

\* The properties are about these packets.
LEMMA FlowIsOut == Inv => /\ timer # "clear" => Flow = Out
                          /\ InBuffers = Stream(arrived, Flow)
  <1> SUFFICES ASSUME Inv
               PROVE  /\ timer # "clear" => Flow = Out
                      /\ InBuffers = Stream(arrived, Flow)
    OBVIOUS
  <1> DEFINE n == Len(sent)
             K == Contents(sent)
  <1>1. n \in Nat /\ DOMAIN sent = 1 .. n /\ K = [k \in 1 .. n |-> sent[k].content]
    BY DEF Contents, Inv, Types
  <1>2. K \in Seq(Seq(Nat)) /\ Waiting \in Seq(Nat)
    BY FlowParts
  <1>3. Out = [k \in 1 .. n + 1 |-> IF k <= n THEN sent[k].content ELSE buffer.content]
    BY DEF Out
  <1>4. InBuffers = Stream(arrived, Given)
    BY DEF InBuffers, Through, Stream, Passed
  <1> HIDE DEF n, K
  <1>5. Len(K) = n
    BY <1>1
  <1>6. Append(K, Waiting) = [k \in 1 .. n + 1 |-> IF k = n + 1 THEN Waiting ELSE K[k]]
    BY <1>1, <1>2, <1>5, AppendIs
  <1>7. ASSUME timer # "clear" PROVE Flow = Out
    <2>1. Waiting = buffer.content
      BY <1>7 DEF Waiting
    <2>2. \A k \in 1 .. n + 1 : (IF k = n + 1 THEN Waiting ELSE K[k]) =
                                (IF k <= n THEN sent[k].content ELSE buffer.content)
      BY <1>1, <2>1
    <2> QED
      BY <1>3, <1>6, <2>2 DEF Flow, K
  <1>8. CASE timer # "clear"
    BY <1>4, <1>7, <1>8 DEF Given
  <1>9. CASE timer = "clear"
    <2>1. Given = SubSeq(Out, 1, n)
      BY <1>9 DEF Given, n
    <2>2. SubSeq(Out, 1, n) = [k \in 1 .. n |-> Out[k]]
      <3>1. \A q : SubSeq(q, 1, n) = [k \in 1 .. (1 + n) - 1 |-> q[(k + 1) - 1]]
        BY <1>1
      <3> QED
        BY <1>1, <3>1
    <2>3. Given = K
      BY <1>1, <1>3, <2>1, <2>2
    <2>4. Stream(arrived, Flow) = Stream(arrived, K) \o Passed(arrived, <<>>)
          /\ Stream(arrived, K) \in Seq(Nat)
      <3>1. Flow = Append(K, <<>>) /\ <<>> \in Seq(Nat)
        BY <1>9 DEF Flow, Waiting, K
      <3> QED
        BY <1>2, <3>1, StreamAppend
    <2>5. Stream(arrived, Flow) = Stream(arrived, K)
      BY <2>4, PassedFew, Joining
    <2> QED
      BY <1>4, <1>9, <2>3, <2>5
  <1> QED
    BY <1>7, <1>8, <1>9

\* What the steps do to these packets.
FlowSame  == Flow' = Flow
FlowTakes(h) ==
    LET n == held[h]
        s == arrived[n]
    IN  \/ /\ pc[h] = "test" /\ Untouched(s)
           /\ Flow' = Append(Append(Contents(sent), <<n>>), Waiting)
        \/ /\ pc[h] = "insert" /\ ~Untouched(s)
           /\ \/ Flow' = Append(Contents(sent), Append(Waiting, n))
              \/ Flow' = Append(Append(Contents(sent), Waiting), <<n>>)
FlowMoves == Flow' = Append(Flow, <<>>)

LEMMA PassOnFlow ==
    ASSUME Inv, NEW h \in Handler, PassOn(h)
    PROVE  FlowTakes(h)
  <1>1. PICK n, p : n = held[h] /\ p = [content |-> <<n>>, head |-> HeaderOf(arrived[n])]
    OBVIOUS
  <1>2. /\ pc[h] = "test" /\ Untouched(arrived[n]) /\ sent' = Append(sent, p)
        /\ buffer' = buffer /\ timer' = timer
    BY <1>1 DEF PassOn
  <1>3. n \in 1 .. Len(arrived) /\ arrived[n] \in Segment /\ arrived \in Seq(Segment)
        /\ sent \in Seq(Packet)
    BY <1>1, <1>2, HeldSegment DEF Inv, Types
  <1>4. p \in Packet /\ p.content = <<n>>
    BY <1>1, <1>3, SegmentFields, Alone DEF Packet
  <1>5. Contents(sent') = Append(Contents(sent), <<n>>)
    BY <1>2, <1>3, <1>4, ContentsAppend
  <1>6. Waiting' = Waiting
    BY <1>2 DEF Waiting
  <1> QED
    BY <1>1, <1>2, <1>5, <1>6 DEF FlowTakes, Flow

\* The contents of the buffer are sent.
LEMMA ImageFlow ==
    ASSUME Inv, ~Empty(buffer), sent' = Append(sent, Image(buffer))
    PROVE  Contents(sent') = Append(Contents(sent), buffer.content)
  <1>1. Image(buffer) \in Packet /\ sent \in Seq(Packet) /\ Image(buffer).content = buffer.content
    BY ImageMade DEF Inv, Types, Image
  <1> QED
    BY <1>1, ContentsAppend

LEMMA InsertFlow ==
    ASSUME Inv, NEW h \in Handler, insert_tcp_to_buffer(h)
    PROVE  FlowTakes(h)
  <1>0. PICK n, s : n = held[h] /\ s = arrived[n]
    OBVIOUS
  <1>1. /\ pc[h] = "insert" /\ ~Untouched(s) /\ lock = h /\ timer' = timer /\ n \in Nat
        /\ buffer \in Buffer
    <2>1. n \in 1 .. Len(arrived) /\ ~Untouched(s) /\ pc[h] = "insert" /\ lock = h
      BY <1>0, InsertEffect
    <2>2. timer' = timer /\ buffer \in Buffer
      BY DEF insert_tcp_to_buffer, Inv, Types
    <2> QED
      BY <2>1, <2>2
  <1>2. timer # "clear"
    BY <1>1, BufferAssumption DEF Inv, Exclusion
  <1>3. Waiting = buffer.content /\ Waiting' = buffer'.content
    BY <1>1, <1>2 DEF Waiting
  <1>4. \/ /\ sent' = IF Empty(buffer) THEN sent ELSE Append(sent, Image(buffer))
           /\ buffer' = ABuffer(<<n>>, PktLen(s), 0, HeaderOf(s))
        \/ /\ sent' = sent
           /\ buffer' = ABuffer(Append(buffer.content, n), buffer.pos + s.len,
                                buffer.last_send, update_tcp_hdr(buffer.head, s))
    BY <1>0, InsertEffect
  <1>5. CASE Empty(buffer) /\ sent' = sent /\ buffer' = ABuffer(<<n>>, PktLen(s), 0, HeaderOf(s))
    <2>1. buffer.content = <<>> /\ Append(<<>>, n) = <<n>>
      BY <1>5 DEF Inv, Fits
    <2>2. Flow' = Append(Contents(sent), Append(Waiting, n))
      BY <1>3, <1>5, <2>1 DEF Flow, ABuffer
    <2> QED
      BY <1>0, <1>1, <2>2 DEF FlowTakes
  <1>6. CASE /\ ~Empty(buffer) /\ sent' = Append(sent, Image(buffer))
             /\ buffer' = ABuffer(<<n>>, PktLen(s), 0, HeaderOf(s))
    <2>1. Contents(sent') = Append(Contents(sent), buffer.content)
      BY <1>6, ImageFlow
    <2>2. Flow' = Append(Append(Contents(sent), Waiting), <<n>>)
      BY <1>3, <1>6, <2>1 DEF Flow, ABuffer
    <2> QED
      BY <1>0, <1>1, <2>2 DEF FlowTakes
  <1>7. CASE /\ sent' = sent
             /\ buffer' = ABuffer(Append(buffer.content, n), buffer.pos + s.len,
                                  buffer.last_send, update_tcp_hdr(buffer.head, s))
    <2>1. Flow' = Append(Contents(sent), Append(Waiting, n))
      BY <1>3, <1>7 DEF Flow, ABuffer
    <2> QED
      BY <1>0, <1>1, <2>1 DEF FlowTakes
  <1> QED
    BY <1>4, <1>5, <1>6, <1>7

LEMMA PushFlow ==
    ASSUME Inv, NEW h \in Handler, Push(h)
    PROVE  FlowSame \/ FlowMoves
  <1>1. /\ pc[h] = "push" /\ lock = h /\ timer' = timer /\ buffer \in Buffer /\ sent \in Seq(Packet)
    BY DEF Push, Inv, Types, Exclusion
  <1>2. timer # "clear"
    BY <1>1, BufferAssumption DEF Inv, Exclusion
  <1>3. Waiting = buffer.content /\ Waiting' = buffer'.content
    BY <1>1, <1>2 DEF Waiting
  <1>4. CASE sent' = sent /\ buffer' = buffer
    BY <1>3, <1>4 DEF FlowSame, Flow
  <1>5. CASE sent' = sent \o Sending(buffer) /\ buffer' = Cleared(buffer)
    <2>1. buffer'.content = <<>>
      BY <1>1, <1>5, ClearedBuffer
    <2>2. CASE Empty(buffer)
      <3>1. buffer.content = <<>> /\ sent' = sent
        BY <1>1, <1>5, <2>2, SendingOne DEF Inv, Fits
      <3> QED
        BY <1>3, <2>1, <3>1 DEF FlowSame, Flow
    <2>3. CASE ~Empty(buffer)
      <3>1. sent' = Append(sent, Image(buffer))
        BY <1>1, <1>5, <2>3, SendingOne
      <3>2. Contents(sent') = Append(Contents(sent), buffer.content)
        BY <2>3, <3>1, ImageFlow
      <3> QED
        BY <1>3, <2>1, <3>2 DEF FlowMoves, Flow
    <2> QED
      BY <2>2, <2>3
  <1> QED
    BY <1>4, <1>5 DEF Push

LEMMA TimerFlow ==
    ASSUME Inv, Timer
    PROVE  FlowSame \/ FlowMoves
  <1>1. buffer \in Buffer /\ sent \in Seq(Packet)
    BY DEF Inv, Types
  <1>2. CASE Wake \/ LockOld \/ Unlock
    <2>1. /\ sent' = sent /\ buffer' = buffer /\ timer # "clear" /\ timer' # "clear"
      BY <1>2 DEF Wake, LockOld, Unlock
    <2> QED
      BY <2>1 DEF FlowSame, Flow, Waiting
  <1>3. CASE SendOld
    <2>1. /\ timer = "send" /\ timer' = IF Old(buffer) THEN "clear" ELSE "unlock"
          /\ buffer' = buffer /\ sent' = IF Old(buffer) THEN sent \o Sending(buffer) ELSE sent
      BY <1>3 DEF SendOld
    <2>2. CASE Old(buffer)
      <3>1. ~Empty(buffer) /\ sent' = Append(sent, Image(buffer))
        BY <1>1, <2>1, <2>2, SendingOne DEF Old
      <3>2. Contents(sent') = Append(Contents(sent), buffer.content)
        BY <3>1, ImageFlow
      <3> QED
        BY <2>1, <2>2, <3>2 DEF FlowMoves, Flow, Waiting
    <2>3. CASE ~Old(buffer)
      BY <2>1, <2>3 DEF FlowSame, Flow, Waiting
    <2> QED
      BY <2>2, <2>3
  <1>4. CASE ClearOld
    <2>1. timer = "clear" /\ timer' = "unlock" /\ buffer' = Cleared(buffer) /\ sent' = sent
      BY <1>4 DEF ClearOld
    <2>2. buffer'.content = <<>>
      BY <1>1, <2>1, ClearedBuffer
    <2> QED
      BY <2>1, <2>2 DEF FlowSame, Flow, Waiting
  <1> QED
    BY <1>2, <1>3, <1>4 DEF Timer

\* Every segment that arrived is in one place only: a hand, or the packets above.
Once ==
    /\ Unique(Flow)
    /\ \A h \in Handler : InHand(h) => ~Has(Flow, held[h])
    /\ \A g, h \in Handler : InHand(g) /\ InHand(h) /\ held[g] = held[h] => g = h
    /\ \A n \in 1 .. Len(arrived) :
           Has(Flow, n) \/ \E h \in Handler : InHand(h) /\ held[h] = n

\* A step that leaves the hands alone.
LEMMA OnceQuiet ==
    ASSUME Once, arrived' = arrived, held' = held, Keeps(Flow, Flow'),
           \A h \in Handler : InHand(h)' <=> InHand(h)
    PROVE  Once'
  BY DEF Once, Keeps

\* A handler gives its segment away.
LEMMA OnceTaken ==
    ASSUME Once, arrived' = arrived, held' = held, NEW h \in Handler, InHand(h),
           Gains(Flow, Flow', held[h]), ~InHand(h)',
           \A g \in Handler : g # h => (InHand(g)' <=> InHand(g))
    PROVE  Once'
  <1>1. Unique(Flow')
    BY DEF Once, Gains
  <1>2. ASSUME NEW g \in Handler, InHand(g)' PROVE ~Has(Flow', held[g])
    <2>1. g # h /\ InHand(g)
      BY <1>2
    <2>2. held[g] # held[h] /\ ~Has(Flow, held[g])
      BY <2>1 DEF Once
    <2> QED
      BY <2>2 DEF Gains
  <1>3. \A f, g \in Handler : InHand(f)' /\ InHand(g)' /\ held[f] = held[g] => f = g
    BY DEF Once
  <1>4. ASSUME NEW n \in 1 .. Len(arrived)
        PROVE  Has(Flow', n) \/ \E g \in Handler : InHand(g)' /\ held[g] = n
    <2>1. CASE Has(Flow, n) \/ n = held[h]
      BY <2>1 DEF Gains
    <2>2. CASE ~Has(Flow, n) /\ n # held[h]
      <3>1. PICK g \in Handler : InHand(g) /\ held[g] = n
        BY <2>2 DEF Once
      <3> QED
        BY <2>2, <3>1
    <2> QED
      BY <2>1, <2>2
  <1> QED
    BY <1>1, <1>2, <1>3, <1>4 DEF Once

LEMMA OnceReceive ==
    ASSUME Inv, Once, NEW h \in Handler, NEW s \in Segment, Receive(h, s)
    PROVE  Once'
  <1>1. PICK n \in Nat : n = Len(arrived)
    BY DEF Inv, Types
  <1>2. /\ pc[h] = "idle" /\ arrived' = Append(arrived, s)
        /\ held' = [held EXCEPT ![h] = n + 1] /\ pc' = [pc EXCEPT ![h] = "test"]
        /\ buffer' = buffer /\ sent' = sent /\ timer' = timer
    BY <1>1 DEF Receive
  <1>3. /\ held \in [Handler -> 0 .. n] /\ arrived \in Seq(Segment)
        /\ pc \in [Handler -> {"idle", "test", "lock", "insert", "push"}]
    BY <1>1 DEF Inv, Types
  <1>4. Flow' = Flow
    BY <1>2 DEF Flow, Waiting
  <1>5. Len(arrived') = n + 1
    BY <1>1, <1>2, <1>3
  <1>6. ~Has(Flow, n + 1)
    <2>1. \A x : Has(Flow, x) => x \in 1 .. n
      BY <1>1, FlowParts
    <2> QED
      BY <2>1
  <1>7. \A g \in Handler : g # h => (InHand(g)' <=> InHand(g)) /\ held'[g] = held[g] /\ held[g] # n + 1
    BY <1>2, <1>3 DEF InHand
  <1>8. InHand(h)' /\ held'[h] = n + 1 /\ ~InHand(h)
    BY <1>2, <1>3 DEF InHand
  <1>9. \A g \in Handler : InHand(g)' => ~Has(Flow, held'[g])
    BY <1>6, <1>7, <1>8 DEF Once
  <1>10. \A f, g \in Handler : InHand(f)' /\ InHand(g)' /\ held'[f] = held'[g] => f = g
    BY <1>7, <1>8 DEF Once
  <1>11. ASSUME NEW m \in 1 .. n + 1
         PROVE  Has(Flow, m) \/ \E g \in Handler : InHand(g)' /\ held'[g] = m
    <2>1. CASE m = n + 1
      BY <1>8, <2>1
    <2>2. CASE m \in 1 .. n
      BY <1>1, <1>7, <1>8, <2>2 DEF Once
    <2> QED
      BY <2>1, <2>2
  <1> QED
    BY <1>4, <1>5, <1>9, <1>10, <1>11 DEF Once

\* What a step gives the packets and the stream.
LEMMA TakesGains ==
    ASSUME Inv, NEW h \in Handler, FlowTakes(h)
    PROVE  /\ Gains(Flow, Flow', held[h])
           /\ pc[h] = "test" => Stream(arrived, Flow') = Stream(arrived, Flow)
           /\ pc[h] = "insert" => Stream(arrived, Flow') = Append(Stream(arrived, Flow), held[h])
  <1> DEFINE F == Contents(sent)
             c == Waiting
             n == held[h]
             ss == Flow
             tt == Flow'
  <1>1. F \in Seq(Seq(Nat)) /\ c \in Seq(Nat) /\ ss = Append(F, c)
    BY FlowParts DEF Flow
  <1>2. n \in Nat
    BY DEF Inv, Types
  <1>3. \/ pc[h] = "test" /\ InFront(F, c, n, arrived, ss, tt)
        \/ pc[h] = "insert" /\ AtTheBack(F, c, n, arrived, ss, tt)
    BY <1>1 DEF FlowTakes, InFront, AtTheBack
  <1> HIDE DEF F, c, n, ss, tt
  <1>4. CASE pc[h] = "test" /\ InFront(F, c, n, arrived, ss, tt)
    <2>1. Gains(ss, tt, n) /\ Stream(arrived, tt) = Stream(arrived, ss)
      BY <1>1, <1>2, <1>4, PassedInFront
    <2> QED
      BY <1>4, <2>1 DEF ss, tt, n
  <1>5. CASE pc[h] = "insert" /\ AtTheBack(F, c, n, arrived, ss, tt)
    <2>1. Gains(ss, tt, n) /\ Stream(arrived, tt) = Append(Stream(arrived, ss), n)
      BY <1>1, <1>2, <1>5, PutBehind
    <2> QED
      BY <1>5, <2>1 DEF ss, tt, n
  <1> QED
    BY <1>3, <1>4, <1>5

LEMMA MovesKeeps ==
    ASSUME Inv, FlowSame \/ FlowMoves
    PROVE  Keeps(Flow, Flow') /\ Stream(arrived, Flow') = Stream(arrived, Flow)
  <1>1. CASE FlowSame
    BY <1>1 DEF FlowSame, Keeps
  <1>2. CASE FlowMoves
    <2>1. Flow \in Seq(Seq(Nat)) /\ Flow' = Append(Flow, <<>>)
      BY <1>2, FlowParts DEF FlowMoves
    <2> QED
      BY <2>1, NothingWaits
  <1> QED
    BY <1>1, <1>2

LEMMA OnceStep == Inv /\ Once /\ [Next]_vars => Once'
  <1> SUFFICES ASSUME Inv, Once, [Next]_vars
               PROVE  Once'
    OBVIOUS
  <1>1. pc \in [Handler -> {"idle", "test", "lock", "insert", "push"}]
    BY DEF Inv, Types
  <1>2. ASSUME NEW h \in Handler, NEW s \in Segment, Receive(h, s) PROVE Once'
    BY <1>2, OnceReceive
  <1>3. ASSUME NEW h \in Handler, PassOn(h) \/ insert_tcp_to_buffer(h) PROVE Once'
    <2>1. Gains(Flow, Flow', held[h])
      BY <1>3, PassOnFlow, InsertFlow, TakesGains
    <2>2. \/ pc[h] = "test" /\ pc' = [pc EXCEPT ![h] = "idle"]
          \/ pc[h] = "insert" /\ pc' = [pc EXCEPT ![h] = "push"]
      BY <1>3 DEF PassOn, insert_tcp_to_buffer
    <2>3. InHand(h) /\ ~InHand(h)' /\ \A g \in Handler : g # h => (InHand(g)' <=> InHand(g))
      BY <1>1, <2>2 DEF InHand
    <2>4. arrived' = arrived /\ held' = held
      BY <1>3 DEF PassOn, insert_tcp_to_buffer
    <2> QED
      BY <2>1, <2>3, <2>4, OnceTaken
  <1>4. ASSUME NEW h \in Handler, ToBuffer(h) \/ Lock(h) PROVE Once'
    <2>1. FlowSame
      BY <1>4 DEF ToBuffer, Lock, FlowSame, Flow, Waiting
    <2>2. \A g \in Handler : InHand(g)' <=> InHand(g)
      BY <1>1, <1>4 DEF ToBuffer, Lock, InHand
    <2>3. arrived' = arrived /\ held' = held
      BY <1>4 DEF ToBuffer, Lock
    <2> QED
      BY <2>1, <2>2, <2>3, MovesKeeps, OnceQuiet
  <1>5. ASSUME NEW h \in Handler, Push(h) PROVE Once'
    <2>1. \A g \in Handler : InHand(g)' <=> InHand(g)
      BY <1>1, <1>5 DEF Push, InHand
    <2>2. arrived' = arrived /\ held' = held
      BY <1>5 DEF Push
    <2> QED
      BY <1>5, <2>1, <2>2, PushFlow, MovesKeeps, OnceQuiet
  <1>6. CASE tcp_timedout_2
    <2>1. arrived' = arrived /\ held' = held /\ Timer /\ \A g \in Handler : InHand(g)' <=> InHand(g)
      BY <1>6 DEF tcp_timedout_2, InHand
    <2> QED
      BY <2>1, TimerFlow, MovesKeeps, OnceQuiet
  <1>7. CASE Tick
    <2>1. /\ arrived' = arrived /\ held' = held /\ sent' = sent /\ timer' = timer
          /\ buffer'.content = buffer.content /\ \A g \in Handler : InHand(g)' <=> InHand(g)
      BY <1>7, Aged DEF Tick, Elapse, InHand
    <2>2. FlowSame
      BY <2>1 DEF FlowSame, Flow, Waiting
    <2> QED
      BY <2>1, <2>2, MovesKeeps, OnceQuiet
  <1>8. CASE UNCHANGED vars
    <2>1. FlowSame /\ arrived' = arrived /\ held' = held /\ \A g \in Handler : InHand(g)' <=> InHand(g)
      BY <1>8 DEF vars, FlowSame, Flow, Waiting, InHand
    <2> QED
      BY <2>1, MovesKeeps, OnceQuiet
  <1> QED
    BY <1>2, <1>3, <1>4, <1>5, <1>6, <1>7, <1>8 DEF Next, bulk_tcp

LEMMA OnceInvariant == Spec => []Once
  <1>1. Init => Once
    <2> SUFFICES ASSUME Init
                 PROVE  Once
      OBVIOUS
    <2>1. /\ sent = <<>> /\ buffer.content = <<>> /\ timer = "sleep" /\ arrived = <<>>
          /\ pc = [h \in Handler |-> "idle"]
      BY DEF Init, InitBuffer
    <2>2. Flow = Append(<<>>, <<>>)
      <3>1. Contents(<<>>) = <<>>
        BY DEF Contents
      <3> QED
        BY <2>1, <3>1 DEF Flow, Waiting
    <2>3. DOMAIN Flow = {1} /\ Flow[1] = <<>>
      BY <2>2
    <2>4. Unique(Flow) /\ \A x : ~Has(Flow, x)
      BY <2>3 DEF Unique, Has, In
    <2>5. Len(arrived) = 0 /\ \A h \in Handler : ~InHand(h)
      BY <2>1 DEF InHand
    <2> QED
      BY <2>4, <2>5 DEF Once
  <1> QED
    BY <1>1, OnceStep, Invariance, PTL DEF Spec

\* Every segment received is in the hands of a thread, in the buffer or sent, and
\* in one place only (bulk_tcp.c 46-53, bulk_buffer.c 153-161).
THEOREM SegmentsNotLost == Spec => []NothingLost
  <1>1. Inv /\ Once => NothingLost
    <2> SUFFICES ASSUME Inv, Once, timer # "clear", NEW n \in 1 .. Len(arrived)
                 PROVE  Cardinality({h \in Handler : InHand(h) /\ held[h] = n})
                        + Cardinality({a \in Places : Number(a) = n}) = 1
      BY DEF NothingLost
    <2> DEFINE H == {h \in Handler : InHand(h) /\ held[h] = n}
               P == {a \in Places : Number(a) = n}
    <2>1. Flow = Out
      BY FlowIsOut
    <2>2. \A a : a \in P <=> \E k \in DOMAIN Out : \E m \in DOMAIN Out[k] :
                                  a = <<k, m>> /\ Out[k][m] = n
      <3>1. \A a : a \in Places <=> \E k \in DOMAIN Out : \E m \in DOMAIN Out[k] : a = <<k, m>>
        BY DEF Places
      <3>2. \A k, m : Number(<<k, m>>) = Out[k][m]
        BY DEF Number
      <3> QED
        BY <3>1, <3>2
    <2>3. \A a, b \in P : a = b
      <3> SUFFICES ASSUME NEW a \in P, NEW b \in P
                   PROVE  a = b
        OBVIOUS
      <3>1. PICK k \in DOMAIN Out : \E m \in DOMAIN Out[k] : a = <<k, m>> /\ Out[k][m] = n
        BY <2>2
      <3>2. PICK l \in DOMAIN Out : \E i \in DOMAIN Out[l] : b = <<l, i>> /\ Out[l][i] = n
        BY <2>2
      <3>3. PICK m \in DOMAIN Out[k] : a = <<k, m>> /\ Out[k][m] = n
        BY <3>1
      <3>4. PICK i \in DOMAIN Out[l] : b = <<l, i>> /\ Out[l][i] = n
        BY <3>2
      <3>5. k = l /\ m = i
        BY <2>1, <3>3, <3>4 DEF Once, Unique
      <3> QED
        BY <3>3, <3>4, <3>5
    <2>4. P # {} <=> Has(Flow, n)
      BY <2>1, <2>2 DEF Has, In
    <2>5. \A g, h \in H : g = h
      BY DEF Once
    <2>6. H # {} => ~Has(Flow, n)
      BY DEF Once
    <2>7. Has(Flow, n) \/ H # {}
      BY DEF Once
    <2> HIDE DEF H, P
    <2>8. /\ Cardinality(P) = IF P = {} THEN 0 ELSE 1
          /\ Cardinality(H) = IF H = {} THEN 0 ELSE 1
      BY <2>3, <2>5, AtMostOne
    <2>9. Cardinality(H) + Cardinality(P) = 1
      BY <2>4, <2>6, <2>7, <2>8
    <2> QED
      BY <2>9 DEF H, P
  <1> QED
    BY <1>1, OnceInvariant, Invariance, PTL

\* The stream of the segments that go through the buffer only grows at its end, by
\* the segment of the handler that has the lock: no segment overtakes one that was
\* inserted before it (bulk_tcp.c 73-92, bulk_buffer.c 153-161).
THEOREM SegmentsInOrder == Spec => InOrder
  <1> DEFINE Grows == \/ InBuffers' = InBuffers
                      \/ \E h \in Handler : lock = h /\ InBuffers' = Append(InBuffers, held[h])
             A == Stream(arrived, Flow)
             Same == InBuffers = A
  <1>1. Inv /\ Same' /\ [Next]_vars => Grows
    <2> SUFFICES ASSUME Inv, Same', [Next]_vars
                 PROVE  Grows
      OBVIOUS
    <2>1. InBuffers = A
      BY FlowIsOut
    <2>2. InBuffers' = A'
      OBVIOUS
    <2>3. ASSUME arrived' = arrived, FlowSame \/ FlowMoves PROVE Grows
      <3>1. Stream(arrived, Flow') = Stream(arrived, Flow)
        BY <2>3, MovesKeeps
      <3> QED
        BY <2>1, <2>2, <2>3, <3>1
    <2>4. ASSUME NEW h \in Handler, NEW s \in Segment, Receive(h, s) PROVE Grows
      <3>1. arrived' = Append(arrived, s) /\ Flow' = Flow /\ arrived \in Seq(Segment)
        BY <2>4 DEF Receive, Flow, Waiting, Inv, Types
      <3>2. Stream(Append(arrived, s), Flow) = Stream(arrived, Flow)
        BY <3>1, FlowParts, StreamLater
      <3> QED
        BY <2>1, <2>2, <3>1, <3>2
    <2>5. ASSUME NEW h \in Handler, PassOn(h) PROVE Grows
      <3>1. Stream(arrived, Flow') = Stream(arrived, Flow) /\ arrived' = arrived
        BY <2>5, PassOnFlow, TakesGains DEF PassOn
      <3> QED
        BY <2>1, <2>2, <3>1
    <2>6. ASSUME NEW h \in Handler, insert_tcp_to_buffer(h) PROVE Grows
      <3>1. /\ Stream(arrived, Flow') = Append(Stream(arrived, Flow), held[h])
            /\ arrived' = arrived /\ lock = h
        BY <2>6, InsertFlow, TakesGains DEF insert_tcp_to_buffer, Inv, Exclusion
      <3> QED
        BY <2>1, <2>2, <3>1
    <2>7. ASSUME NEW h \in Handler, ToBuffer(h) \/ Lock(h) PROVE Grows
      <3>1. FlowSame /\ arrived' = arrived
        BY <2>7 DEF ToBuffer, Lock, FlowSame, Flow, Waiting
      <3> QED
        BY <2>3, <3>1
    <2>8. ASSUME NEW h \in Handler, Push(h) PROVE Grows
      <3>1. arrived' = arrived
        BY <2>8 DEF Push
      <3> QED
        BY <2>3, <2>8, <3>1, PushFlow
    <2>9. CASE tcp_timedout_2
      <3>1. arrived' = arrived /\ Timer
        BY <2>9 DEF tcp_timedout_2
      <3> QED
        BY <2>3, <3>1, TimerFlow
    <2>10. CASE Tick
      <3>1. /\ arrived' = arrived /\ sent' = sent /\ timer' = timer
            /\ buffer'.content = buffer.content
        BY <2>10, Aged DEF Tick, Elapse
      <3> QED
        BY <2>3, <3>1 DEF FlowSame, Flow, Waiting
    <2>11. CASE UNCHANGED vars
      BY <2>3, <2>11 DEF vars, FlowSame, Flow, Waiting
    <2> HIDE DEF Grows
    <2> QED
      BY <2>4, <2>5, <2>6, <2>7, <2>8, <2>9, <2>10, <2>11 DEF Next, bulk_tcp
  <1>2. Inv => Same
    BY FlowIsOut
  <1>3. Inv /\ Same' /\ [Next]_vars => [Grows]_vars
    BY <1>1
  <1> QED
    BY <1>2, <1>3, Invariance, PTL DEF Spec, InOrder

=============================================================================
