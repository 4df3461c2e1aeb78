--------------------------- MODULE BulkPktProofs ---------------------------
(***************************************************************************)
(* Proofs about BulkPkt, for any lengths of packets, numbers of handlers,  *)
(* buffer size and period.                                                 *)
(***************************************************************************)
EXTENDS BulkPkt, CommonLemmas

Packet == [content : Seq(Nat), head : {NoHead}]
Buffer == [content : Seq(Nat), pos : Nat, last_send : Age, head : {NoHead}]

ABuffer(c, p, l) == [content |-> c, pos |-> p, last_send |-> l, head |-> NoHead]

-----------------------------------------------------------------------------
(***************************************************************************)
(* The inductive invariant.                                                *)
(***************************************************************************)
\* Types.
Types ==
    /\ buffer \in Buffer
    /\ lock \in Handler \cup {"timer", NoThread}
    /\ timer \in {"sleep", "lock", "send", "clear", "unlock"}
    /\ sleep \in 0 .. DELTA_SEND
    /\ sent \in Seq(Packet)
    /\ arrived \in Seq(Size)
    /\ pc \in [Handler -> {"idle", "test", "lock", "insert", "unlock"}]
    /\ held \in [Handler -> 0 .. Len(arrived)]

\* Who is between taking and giving back the lock has it.
Exclusion ==
    /\ \A h \in Handler : pc[h] \in {"insert", "unlock"} <=> lock = h
    /\ timer \in {"send", "clear", "unlock"} <=> lock = "timer"

\* A handler at work holds a packet, and one that goes to the buffer is not too big.
Holding ==
    \A h \in Handler :
        /\ pc[h] # "idle" => held[h] > 0
        /\ pc[h] \in {"lock", "insert"} => ~TooBig(held[h])

\* The headers, and packets behind them.
Formed(c) == c = <<>> \/ (Len(c) > 1 /\ c[1] = 0)

\* So is all that was sent, and what is in the buffer, of packets that arrived.
AllFormed ==
    /\ Empty(buffer) <=> buffer.content = <<>>
    /\ Formed(buffer.content) /\ buffer.content \in Seq(0 .. Len(arrived))
    /\ \A k \in DOMAIN sent :
           Formed(sent[k].content) /\ sent[k].content \in Seq(0 .. Len(arrived))

Inv == Types /\ Exclusion /\ Holding /\ AllFormed

-----------------------------------------------------------------------------
(***************************************************************************)
(* Buffers and packets.                                                    *)
(***************************************************************************)
LEMMA InParts ==
    ASSUME NEW b \in Buffer
    PROVE  /\ b.content \in Seq(Nat) /\ b.pos \in Nat /\ b.last_send \in Age
           /\ b = ABuffer(b.content, b.pos, b.last_send)
  BY DEF Buffer, ABuffer, NoHead

LEMMA FromParts ==
    ASSUME NEW c \in Seq(Nat), NEW p \in Nat, NEW l \in Age
    PROVE  ABuffer(c, p, l) \in Buffer
  BY DEF Buffer, ABuffer, NoHead

LEMMA Parts ==
    ASSUME NEW c, NEW p, NEW l, NEW b, b = ABuffer(c, p, l)
    PROVE  b.content = c /\ b.pos = p /\ b.last_send = l
  BY DEF ABuffer

LEMMA PartsCleared ==
    ASSUME NEW c, NEW p, NEW l
    PROVE  Cleared(ABuffer(c, p, l)) = ABuffer(<<>>, 0, l)
  <1> SUFFICES ASSUME NEW b, b = ABuffer(c, p, l), NEW d, d = Cleared(b)
               PROVE  d = ABuffer(<<>>, 0, l)
    OBVIOUS
  <1> QED
    BY DEF Cleared, ABuffer

LEMMA PartsFirst ==
    ASSUME NEW l, NEW n, NEW len \in Nat
    PROVE  add_to_buffer(ABuffer(<<>>, 0, l), n, len) = ABuffer(<<n>>, len, 0)
  <1> SUFFICES ASSUME NEW b, b = ABuffer(<<>>, 0, l), NEW e, e = <<n>>
               PROVE  add_to_buffer(b, n, len) = ABuffer(e, len, 0)
    OBVIOUS
  <1>1. b.content = <<>> /\ b.pos = 0
    BY Parts
  <1>2. Append(b.content, n) = e /\ b.pos + len = len
    <2>1. Append(<<>>, n) = <<n>>
      OBVIOUS
    <2>2. Append(b.content, n) = e
      BY <1>1, <2>1
    <2>3. b.pos + len = len
      BY <1>1
    <2> QED
      BY <2>2, <2>3
  <1>3. add_to_buffer(b, n, len) = [b EXCEPT !.content = e, !.pos = len, !.last_send = 0]
    BY <1>1, <1>2 DEF add_to_buffer
  <1>4. ASSUME NEW d, d = [b EXCEPT !.content = e, !.pos = len, !.last_send = 0]
        PROVE  d = ABuffer(e, len, 0)
    BY <1>4 DEF ABuffer
  <1> QED
    BY <1>3, <1>4

LEMMA PartsBehind ==
    ASSUME NEW c, c # <<>>, NEW p, NEW l, NEW n, NEW len
    PROVE  add_to_buffer(ABuffer(c, p, l), n, len) = ABuffer(Append(c, n), p + len, l)
  <1> SUFFICES ASSUME NEW b, b = ABuffer(c, p, l), NEW e, e = Append(c, n), NEW q, q = p + len
               PROVE  add_to_buffer(b, n, len) = ABuffer(e, q, l)
    OBVIOUS
  <1>1. b.content = c /\ b.pos = p /\ b.last_send = l
    BY DEF ABuffer
  <1>2. add_to_buffer(b, n, len) = [b EXCEPT !.content = e, !.pos = q, !.last_send = l]
    BY <1>1 DEF add_to_buffer
  <1>3. ASSUME NEW d, d = [b EXCEPT !.content = e, !.pos = q, !.last_send = l]
        PROVE  d = ABuffer(e, q, l)
    BY <1>3 DEF ABuffer
  <1> QED
    BY <1>2, <1>3

\* An emptied buffer.
LEMMA ClearedBuffer ==
    ASSUME NEW b \in Buffer
    PROVE  /\ Cleared(b) = ABuffer(<<>>, 0, b.last_send)
           /\ Cleared(b) \in Buffer /\ Cleared(b).content = <<>> /\ Cleared(b).pos = 0
  <1>1. Cleared(b) = ABuffer(<<>>, 0, b.last_send)
    BY InParts, PartsCleared
  <1>2. <<>> \in Seq(Nat) /\ 0 \in Nat /\ b.last_send \in Age
    BY InParts
  <1>3. ABuffer(<<>>, 0, b.last_send) \in Buffer
    BY <1>2, FromParts
  <1>4. Cleared(b).content = <<>> /\ Cleared(b).pos = 0
    BY <1>1, Parts
  <1> QED
    BY <1>1, <1>3, <1>4

\* What send_buffer gives.
LEMMA SendingOne ==
    ASSUME NEW z \in Seq(Packet), NEW b \in Buffer
    PROVE  /\ Image(b) \in Packet /\ Image(b).content = b.content
           /\ z \o Sending(b) = IF Empty(b) THEN z ELSE Append(z, Image(b))
  <1>1. Image(b) \in Packet /\ Image(b).content = b.content
    BY DEF Image, Packet, Buffer
  <1>2. z \o <<>> = z /\ z \o <<Image(b)>> = Append(z, Image(b))
    BY <1>1
  <1> QED
    BY <1>1, <1>2 DEF Sending

\* A packet more is given to send_ip6_packet.
LEMMA OneMore ==
    ASSUME NEW z \in Seq(Packet), NEW p \in Packet
    PROVE  /\ Append(z, p) \in Seq(Packet)
           /\ \A k \in DOMAIN Append(z, p) : \/ k \in DOMAIN z /\ Append(z, p)[k] = z[k]
                                             \/ Append(z, p)[k] = p
  OBVIOUS

\* A packet goes behind the headers, or behind other packets.
LEMMA FormedMore ==
    ASSUME NEW m \in Nat, NEW n \in 1 .. m
    PROVE  /\ Append(Append(<<>>, 0), n) = <<0, n>>
           /\ Formed(<<0, n>>) /\ <<0, n>> \in Seq(0 .. m) /\ <<0, n>> \in Seq(Nat)
           /\ \A c \in Seq(0 .. m) : c # <<>> /\ Formed(c) =>
                  Formed(Append(c, n)) /\ Append(c, n) \in Seq(0 .. m)
                  /\ Append(c, n) # <<>>
           /\ <<>> \in Seq(0 .. m) /\ Formed(<<>>)
  <1>1. Append(Append(<<>>, 0), n) = <<0, n>>
    <2>1. Append(<<>>, 0) = <<0>>
      OBVIOUS
    <2>2. Append(<<0>>, n) = [i \in 1 .. 2 |-> IF i = 2 THEN n ELSE 0]
      <3>1. <<0>> \in Seq(Nat) /\ Len(<<0>>) = 1 /\ n \in Nat /\ <<0>>[1] = 0
        OBVIOUS
      <3>2. Append(<<0>>, n) = [i \in 1 .. 1 + 1 |-> IF i = 1 + 1 THEN n ELSE <<0>>[i]]
        BY <3>1, AppendIs
      <3>3. 1 + 1 = 2 /\ \A i \in 1 .. 2 : i = 1 \/ i = 2
        OBVIOUS
      <3> QED
        BY <3>1, <3>2, <3>3
    <2>3. <<0, n>> = [i \in 1 .. 2 |-> IF i = 2 THEN n ELSE 0]
      OBVIOUS
    <2> QED
      BY <2>1, <2>2, <2>3
  <1>2. n \in Nat /\ n \in 0 .. m /\ 0 \in 0 .. m
    OBVIOUS
  <1>3. <<0, n>> \in Seq(0 .. m) /\ <<0, n>> \in Seq(Nat) /\ Len(<<0, n>>) = 2 /\ <<0, n>>[1] = 0
    BY <1>2
  <1>4. ASSUME NEW c \in Seq(0 .. m), c # <<>>, Formed(c)
        PROVE  Formed(Append(c, n)) /\ Append(c, n) \in Seq(0 .. m) /\ Append(c, n) # <<>>
    <2>1. Len(c) > 1 /\ c[1] = 0
      BY <1>4 DEF Formed
    <2>2. /\ Append(c, n) \in Seq(0 .. m) /\ Len(Append(c, n)) = Len(c) + 1
          /\ Append(c, n)[1] = 0 /\ Append(c, n) # <<>> /\ Len(c) \in Nat
      BY <1>2, <2>1
    <2> QED
      BY <2>1, <2>2 DEF Formed
  <1>5. <<>> \in Seq(0 .. m) /\ Formed(<<>>)
    BY DEF Formed
  <1> QED
    BY <1>1, <1>3, <1>4, <1>5 DEF Formed

-----------------------------------------------------------------------------
(***************************************************************************)
(* The steps.                                                              *)
(***************************************************************************)
\* The packet a handler at work holds.
LEMMA HeldPacket ==
    ASSUME Inv, NEW h \in Handler, pc[h] # "idle"
    PROVE  /\ held[h] \in 1 .. Len(arrived) /\ arrived[held[h]] \in Size
           /\ arrived[held[h]] \in Nat
  <1>1. held[h] \in 0 .. Len(arrived) /\ held[h] > 0 /\ arrived \in Seq(Size)
    BY DEF Inv, Types, Holding
  <1>2. held[h] \in 1 .. Len(arrived)
    BY <1>1
  <1>3. arrived[held[h]] \in Size
    BY <1>1, <1>2
  <1> QED
    BY <1>2, <1>3, PktAssumption

\* What the lines under the lock do: a packet that does not fit has the buffer sent,
\* one that finds it empty puts the headers in front, one that fits goes behind.
LEMMA InsertEffect ==
    ASSUME Inv, NEW h \in Handler, Insert(h), NEW n, n = held[h], NEW l, l = arrived[n]
    PROVE  /\ n \in 1 .. Len(arrived) /\ l \in Size /\ l \in Nat /\ l < BUFFER_SIZE
           /\ pc[h] = "insert" /\ lock = h
           /\ \/ /\ sent' = IF Empty(buffer) THEN sent ELSE Append(sent, Image(buffer))
                 /\ buffer' = ABuffer(<<0, n>>, HdrSize + l, 0)
              \/ /\ ~Empty(buffer) /\ sent' = sent
                 /\ buffer.pos + l <= BUFFER_SIZE
                 /\ buffer' = ABuffer(Append(buffer.content, n), buffer.pos + l,
                                      buffer.last_send)
  <1>1. pc[h] = "insert" /\ lock = h /\ ~TooBig(n)
    BY DEF Inv, Exclusion, Holding, Insert
  <1>2. n \in 1 .. Len(arrived) /\ l \in Size /\ l \in Nat
    BY <1>1, HeldPacket
  <1>3. /\ buffer \in Buffer /\ sent \in Seq(Packet) /\ buffer.pos \in Nat /\ BUFFER_SIZE \in Nat
        /\ HdrSize \in Nat
    BY InParts, BufferAssumption, PktAssumption DEF Inv, Types
  <1>4. l < BUFFER_SIZE
    BY <1>1, <1>2, <1>3 DEF TooBig
  <1>5. Empty(buffer) <=> buffer.content = <<>>
    BY DEF Inv, AllFormed
  <1>6. ASSUME NEW b \in Buffer, b.content = <<>>, b.pos = 0
        PROVE  add_to_buffer(WithHeader(b), n, l) = ABuffer(<<0, n>>, HdrSize + l, 0)
    <2>1. b = ABuffer(<<>>, 0, b.last_send)
      BY <1>6, InParts
    <2>2. WithHeader(b) = add_to_buffer(b, 0, HdrSize)
      BY <1>6 DEF WithHeader, Empty
    <2>3. WithHeader(b) = ABuffer(<<0>>, HdrSize, 0)
      BY <1>3, <2>1, <2>2, PartsFirst
    <2>4. <<0>> # <<>> /\ <<0, n>> = Append(<<0>>, n)
      <3>1. Append(<<>>, 0) = <<0>> /\ n \in 1 .. Len(arrived) /\ Len(arrived) \in Nat
        BY <1>2 DEF Inv, Types
      <3>2. Append(Append(<<>>, 0), n) = <<0, n>>
        BY <3>1, FormedMore
      <3> QED
        BY <3>1, <3>2
    <2>5. add_to_buffer(ABuffer(<<0>>, HdrSize, 0), n, l) =
              ABuffer(Append(<<0>>, n), HdrSize + l, 0)
      <3>1. PICK c : c = <<0>> /\ c # <<>>
        BY <2>4
      <3>2. add_to_buffer(ABuffer(c, HdrSize, 0), n, l) = ABuffer(Append(c, n), HdrSize + l, 0)
        <4>1. c # <<>>
          BY <3>1
        <4> QED
          BY <4>1, PartsBehind
      <3> QED
        BY <3>1, <3>2
    <2> QED
      BY <2>3, <2>4, <2>5
  <1>7. CASE Full(n)
    <2>1. /\ sent' = sent \o Sending(buffer)
          /\ buffer' = add_to_buffer(WithHeader(Cleared(buffer)), n, l)
      BY <1>7 DEF Insert
    <2>2. buffer' = ABuffer(<<0, n>>, HdrSize + l, 0)
      BY <1>3, <1>6, <2>1, ClearedBuffer
    <2>3. sent' = IF Empty(buffer) THEN sent ELSE Append(sent, Image(buffer))
      BY <1>3, <2>1, SendingOne
    <2> QED
      BY <1>1, <1>2, <1>4, <2>2, <2>3
  <1>8. CASE ~Full(n) /\ Empty(buffer)
    <2>1. sent' = sent /\ buffer' = add_to_buffer(WithHeader(buffer), n, l)
      BY <1>8 DEF Insert
    <2>2. buffer' = ABuffer(<<0, n>>, HdrSize + l, 0)
      BY <1>3, <1>5, <1>6, <1>8, <2>1 DEF Empty
    <2> QED
      BY <1>1, <1>2, <1>4, <1>8, <2>1, <2>2
  <1>9. CASE ~Full(n) /\ ~Empty(buffer)
    <2>1. sent' = sent /\ buffer' = add_to_buffer(buffer, n, l)
      BY <1>9 DEF Insert, WithHeader
    <2>2. buffer.pos + l <= BUFFER_SIZE
      <3>1. ~(BUFFER_SIZE - buffer.pos < l)
        BY <1>9 DEF Full, available_space
      <3> QED
        BY <1>2, <1>3, <3>1
    <2>3. buffer = ABuffer(buffer.content, buffer.pos, buffer.last_send)
      BY <1>3, InParts
    <2>4. add_to_buffer(buffer, n, l) =
              ABuffer(Append(buffer.content, n), buffer.pos + l, buffer.last_send)
      <3>1. buffer.content # <<>>
        BY <1>5, <1>9
      <3> QED
        BY <2>3, <3>1, PartsBehind
    <2> QED
      BY <1>1, <1>2, <1>4, <1>9, <2>1, <2>2, <2>4
  <1> QED
    BY <1>7, <1>8, <1>9

\* What the buffer sends.
LEMMA ImageFormed ==
    ASSUME Inv, ~Empty(buffer), sent' = Append(sent, Image(buffer)), arrived' = arrived
    PROVE  /\ sent' \in Seq(Packet)
           /\ \A k \in DOMAIN sent' :
                  Formed(sent'[k].content) /\ sent'[k].content \in Seq(0 .. Len(arrived))
  <1>1. buffer \in Buffer /\ sent \in Seq(Packet)
    BY DEF Inv, Types
  <1>2. Image(buffer) \in Packet /\ Image(buffer).content = buffer.content
    BY <1>1, SendingOne
  <1>3. /\ sent' \in Seq(Packet)
        /\ \A k \in DOMAIN sent' : (k \in DOMAIN sent /\ sent'[k] = sent[k]) \/ sent'[k] = Image(buffer)
    BY <1>1, <1>2, OneMore
  <1> QED
    BY <1>2, <1>3 DEF Inv, AllFormed

LEMMA InitInv ==
    ASSUME Init
    PROVE  Inv
  <1>1. /\ buffer = ABuffer(<<>>, 0, 0) /\ lock = NoThread /\ timer = "sleep"
        /\ sleep = DELTA_SEND /\ sent = <<>> /\ arrived = <<>>
        /\ pc = [h \in Handler |-> "idle"] /\ held = [h \in Handler |-> 0]
    BY DEF Init, InitBuffer, ABuffer
  <1>2. DELTA_SEND \in Nat /\ NoThread \notin Handler /\ NoThread # "timer"
    BY BufferAssumption
  <1>3. buffer \in Buffer /\ buffer.content = <<>> /\ buffer.pos = 0
    <2>1. <<>> \in Seq(Nat) /\ 0 \in Age
      BY <1>2 DEF Age
    <2>2. ABuffer(<<>>, 0, 0) \in Buffer
      BY <2>1, FromParts
    <2> QED
      BY <1>1, <2>2, Parts
  <1>4. Types
    BY <1>1, <1>2, <1>3 DEF Types
  <1>5. Exclusion /\ Holding
    BY <1>1, <1>2 DEF Exclusion, Holding
  <1>6. AllFormed
    <2>1. <<>> \in Seq(0 .. Len(arrived)) /\ DOMAIN sent = {}
      BY <1>1
    <2> QED
      BY <1>3, <2>1 DEF AllFormed, Formed, Empty
  <1> QED
    BY <1>4, <1>5, <1>6 DEF Inv

LEMMA ReceiveInv ==
    ASSUME Inv, NEW h \in Handler, NEW l \in Size, Receive(h, l)
    PROVE  Inv'
  <1>1. PICK m \in Nat : m = Len(arrived)
    BY DEF Inv, Types
  <1>2. /\ pc[h] = "idle" /\ arrived' = Append(arrived, l)
        /\ held' = [held EXCEPT ![h] = m + 1] /\ pc' = [pc EXCEPT ![h] = "test"]
        /\ buffer' = buffer /\ lock' = lock /\ timer' = timer /\ sleep' = sleep /\ sent' = sent
    BY <1>1 DEF Receive
  <1>3. arrived \in Seq(Size) /\ held \in [Handler -> 0 .. m]
        /\ pc \in [Handler -> {"idle", "test", "lock", "insert", "unlock"}]
    BY <1>1 DEF Inv, Types
  <1>4. /\ arrived' \in Seq(Size) /\ Len(arrived') = m + 1
        /\ \A k \in 1 .. m : arrived'[k] = arrived[k]
    BY <1>1, <1>2, <1>3
  <1>5. held' \in [Handler -> 0 .. m + 1]
    BY <1>2, <1>3
  <1>6. Types'
    BY <1>2, <1>3, <1>4, <1>5 DEF Inv, Types
  <1>7. Exclusion'
    BY <1>2, <1>3 DEF Inv, Exclusion
  <1>8. Holding'
    <2> SUFFICES ASSUME NEW g \in Handler
                 PROVE  /\ pc'[g] # "idle" => held'[g] > 0
                        /\ pc'[g] \in {"lock", "insert"} => ~(arrived'[held'[g]] >= BUFFER_SIZE)
      BY DEF Holding, TooBig
    <2>1. CASE g = h
      BY <1>2, <1>3, <2>1
    <2>2. CASE g # h
      <3>1. pc'[g] = pc[g] /\ held'[g] = held[g] /\ held[g] \in 0 .. m
        BY <1>2, <1>3, <2>2
      <3>2. pc[g] # "idle" => held[g] > 0 /\ arrived'[held[g]] = arrived[held[g]]
        BY <1>4, <3>1 DEF Inv, Holding
      <3> QED
        BY <3>1, <3>2 DEF Inv, Holding, TooBig
    <2> QED
      BY <2>1, <2>2
  <1>9. AllFormed'
    <2>1. \A c \in Seq(0 .. m) : c \in Seq(0 .. m + 1)
      <3>1. 0 .. m \subseteq 0 .. m + 1
        OBVIOUS
      <3> QED
        BY <3>1
    <2> QED
      BY <1>1, <1>2, <1>4, <2>1 DEF Inv, AllFormed
  <1> QED
    BY <1>6, <1>7, <1>8, <1>9 DEF Inv

\* A step that leaves the buffer, what was sent and what arrived alone.
LEMMA Quiet ==
    ASSUME Inv, buffer' = buffer, sent' = sent, arrived' = arrived
    PROVE  AllFormed'
  BY DEF Inv, AllFormed

LEMMA TestInv ==
    ASSUME Inv, NEW h \in Handler, Test(h) \/ Lock(h) \/ Release(h)
    PROVE  Inv'
  <1>1. /\ buffer' = buffer /\ timer' = timer /\ sleep' = sleep /\ sent' = sent
        /\ arrived' = arrived /\ held' = held
    BY DEF Test, Lock, Release
  <1>2. /\ pc \in [Handler -> {"idle", "test", "lock", "insert", "unlock"}]
        /\ "timer" \notin Handler /\ NoThread \notin Handler /\ "timer" # NoThread
    BY BufferAssumption DEF Inv, Types
  <1>3. CASE Test(h)
    BY <1>1, <1>2, <1>3, Quiet DEF Test, Inv, Types, Exclusion, Holding, TooBig
  <1>4. CASE Lock(h)
    <2>1. /\ pc[h] = "lock" /\ lock = NoThread /\ lock' = h /\ pc' = [pc EXCEPT ![h] = "insert"]
      BY <1>4 DEF Lock
    <2>2. Types'
      BY <1>1, <1>2, <2>1 DEF Inv, Types
    <2>3. Exclusion'
      BY <1>1, <1>2, <2>1 DEF Inv, Exclusion
    <2>4. Holding'
      BY <1>1, <1>2, <2>1 DEF Inv, Holding, TooBig
    <2> QED
      BY <1>1, <2>2, <2>3, <2>4, Quiet DEF Inv
  <1>5. CASE Release(h)
    <2>1. /\ pc[h] = "unlock" /\ lock' = NoThread /\ pc' = [pc EXCEPT ![h] = "idle"]
      BY <1>5 DEF Release
    <2>2. Types'
      BY <1>1, <1>2, <2>1 DEF Inv, Types
    <2>3. Exclusion'
      BY <1>1, <1>2, <2>1 DEF Inv, Exclusion
    <2>4. Holding'
      BY <1>1, <1>2, <2>1 DEF Inv, Holding, TooBig
    <2> QED
      BY <1>1, <2>2, <2>3, <2>4, Quiet DEF Inv
  <1> QED
    BY <1>3, <1>4, <1>5

LEMMA InsertInv ==
    ASSUME Inv, NEW h \in Handler, Insert(h)
    PROVE  Inv'
  <1>0. PICK n, l : n = held[h] /\ l = arrived[n]
    OBVIOUS
  <1>1. /\ n \in 1 .. Len(arrived) /\ l \in Nat /\ pc[h] = "insert" /\ lock = h
        /\ \/ /\ sent' = IF Empty(buffer) THEN sent ELSE Append(sent, Image(buffer))
              /\ buffer' = ABuffer(<<0, n>>, HdrSize + l, 0)
           \/ /\ ~Empty(buffer) /\ sent' = sent
              /\ buffer' = ABuffer(Append(buffer.content, n), buffer.pos + l, buffer.last_send)
    BY <1>0, InsertEffect
  <1>2. /\ pc' = [pc EXCEPT ![h] = "unlock"] /\ lock' = lock /\ timer' = timer
        /\ sleep' = sleep /\ arrived' = arrived /\ held' = held
    BY DEF Insert
  <1>3. PICK m \in Nat : m = Len(arrived)
    BY DEF Inv, Types
  <1>4. /\ buffer.content \in Seq(Nat) /\ buffer.pos \in Nat /\ buffer.last_send \in Age
        /\ HdrSize \in Nat \ {0} /\ 0 \in Age /\ n \in Nat /\ DELTA_SEND \in Nat
    BY <1>1, InParts, PktAssumption, BufferAssumption DEF Inv, Types, Age
  <1>5. /\ sent' \in Seq(Packet)
        /\ \A k \in DOMAIN sent' :
               Formed(sent'[k].content) /\ sent'[k].content \in Seq(0 .. Len(arrived))
    <2>1. CASE sent' = sent
      BY <2>1 DEF Inv, Types, AllFormed
    <2>2. CASE ~Empty(buffer) /\ sent' = Append(sent, Image(buffer))
      BY <1>2, <2>2, ImageFormed
    <2> QED
      BY <1>1, <2>1, <2>2
  <1>6. /\ buffer' \in Buffer /\ buffer'.pos # 0 /\ buffer'.content # <<>>
        /\ Formed(buffer'.content) /\ buffer'.content \in Seq(0 .. Len(arrived))
    <2>1. CASE buffer' = ABuffer(<<0, n>>, HdrSize + l, 0)
      <3>1. /\ <<0, n>> \in Seq(Nat) /\ Formed(<<0, n>>) /\ <<0, n>> \in Seq(0 .. Len(arrived))
            /\ <<0, n>> # <<>>
        <4>1. n \in 1 .. m
          BY <1>1, <1>3
        <4> QED
          BY <1>3, <4>1, FormedMore
      <3>2. HdrSize + l \in Nat \ {0}
        BY <1>1, <1>4
      <3>3. ABuffer(<<0, n>>, HdrSize + l, 0) \in Buffer
        BY <1>4, <3>1, <3>2, FromParts
      <3>4. buffer'.content = <<0, n>> /\ buffer'.pos = HdrSize + l
        BY <2>1, Parts
      <3> QED
        BY <2>1, <3>1, <3>2, <3>3, <3>4
    <2>2. CASE /\ ~Empty(buffer)
               /\ buffer' = ABuffer(Append(buffer.content, n), buffer.pos + l, buffer.last_send)
      <3> DEFINE c == Append(buffer.content, n)
                 q == buffer.pos + l
      <3>1. buffer.pos # 0 /\ q \in Nat \ {0} /\ c \in Seq(Nat)
        BY <1>1, <1>4, <2>2 DEF Empty
      <3>2. Formed(c) /\ c \in Seq(0 .. Len(arrived)) /\ c # <<>>
        <4>1. /\ buffer.content \in Seq(0 .. m) /\ buffer.content # <<>>
              /\ Formed(buffer.content) /\ n \in 1 .. m
          BY <1>1, <1>3, <2>2 DEF Inv, AllFormed
        <4> QED
          BY <1>3, <4>1, FormedMore
      <3> HIDE DEF c, q
      <3>3. buffer' = ABuffer(c, q, buffer.last_send)
        BY <2>2 DEF c, q
      <3>4. ABuffer(c, q, buffer.last_send) \in Buffer
        BY <1>4, <3>1, FromParts
      <3>5. buffer'.content = c /\ buffer'.pos = q
        BY <3>3, Parts
      <3> QED
        BY <3>1, <3>2, <3>3, <3>4, <3>5
    <2> QED
      BY <1>1, <2>1, <2>2
  <1>7. Types'
    BY <1>2, <1>5, <1>6 DEF Inv, Types
  <1>8. Exclusion' /\ Holding'
    BY <1>1, <1>2 DEF Inv, Types, Exclusion, Holding, TooBig
  <1>9. AllFormed'
    BY <1>2, <1>5, <1>6 DEF AllFormed, Empty
  <1> QED
    BY <1>7, <1>8, <1>9 DEF Inv

LEMMA TimerInv ==
    ASSUME Inv, pkt_timedout
    PROVE  Inv'
  <1>1. /\ arrived' = arrived /\ pc' = pc /\ held' = held
        /\ Wake \/ LockOld \/ SendOld \/ ClearOld \/ Unlock
    BY DEF pkt_timedout, Timer
  <1>2. /\ DELTA_SEND \in Nat /\ "timer" \notin Handler /\ NoThread \notin Handler
        /\ "timer" # NoThread
    BY BufferAssumption
  <1>3. Holding'
    BY <1>1 DEF Inv, Holding, TooBig
  <1>4. CASE Wake
    BY <1>1, <1>3, <1>4, Quiet DEF Wake, Inv, Types, Exclusion
  <1>5. CASE LockOld
    BY <1>1, <1>2, <1>3, <1>5, Quiet DEF LockOld, Inv, Types, Exclusion
  <1>6. CASE SendOld
    <2>1. /\ timer = "send" /\ timer' \in {"clear", "unlock"}
          /\ sent' = IF Old(buffer) THEN sent \o Sending(buffer) ELSE sent
          /\ buffer' = buffer /\ lock' = lock /\ sleep' = sleep
      BY <1>6 DEF SendOld
    <2>2. /\ sent' \in Seq(Packet)
          /\ \A k \in DOMAIN sent' :
                 Formed(sent'[k].content) /\ sent'[k].content \in Seq(0 .. Len(arrived))
      <3>1. CASE Old(buffer)
        <4>1. ~Empty(buffer) /\ buffer \in Buffer /\ sent \in Seq(Packet)
          BY <3>1 DEF Old, Inv, Types
        <4>2. sent' = Append(sent, Image(buffer))
          BY <2>1, <3>1, <4>1, SendingOne
        <4> QED
          BY <1>1, <4>1, <4>2, ImageFormed
      <3>2. CASE ~Old(buffer)
        BY <2>1, <3>2 DEF Inv, Types, AllFormed
      <3> QED
        BY <3>1, <3>2
    <2>3. Types' /\ Exclusion'
      BY <1>1, <2>1, <2>2 DEF Inv, Types, Exclusion
    <2>4. AllFormed'
      BY <1>1, <2>1, <2>2 DEF Inv, AllFormed
    <2> QED
      BY <1>3, <2>3, <2>4 DEF Inv
  <1>7. CASE ClearOld
    <2>1. /\ timer = "clear" /\ timer' = "unlock" /\ buffer' = Cleared(buffer)
          /\ lock' = lock /\ sleep' = sleep /\ sent' = sent
      BY <1>7 DEF ClearOld
    <2>2. buffer' \in Buffer /\ buffer'.content = <<>> /\ buffer'.pos = 0
      BY <2>1, ClearedBuffer DEF Inv, Types
    <2>3. Types' /\ Exclusion'
      BY <1>1, <2>1, <2>2 DEF Inv, Types, Exclusion
    <2>4. AllFormed'
      <3>1. <<>> \in Seq(0 .. Len(arrived))
        OBVIOUS
      <3> QED
        BY <1>1, <2>1, <2>2, <3>1 DEF Inv, AllFormed, Formed, Empty
    <2> QED
      BY <1>3, <2>3, <2>4 DEF Inv
  <1>8. CASE Unlock
    <2>1. /\ timer = "unlock" /\ timer' = "sleep" /\ lock' = NoThread /\ sleep' = DELTA_SEND
          /\ buffer' = buffer /\ sent' = sent
      BY <1>8 DEF Unlock
    <2>2. Types'
      BY <1>1, <1>2, <2>1 DEF Inv, Types
    <2>3. Exclusion'
      BY <1>1, <1>2, <2>1 DEF Inv, Exclusion
    <2> QED
      BY <1>1, <1>3, <2>1, <2>2, <2>3, Quiet DEF Inv
  <1> QED
    BY <1>1, <1>4, <1>5, <1>6, <1>7, <1>8

\* Time passes: the buffer is older, and otherwise as it was.
LEMMA Aged ==
    ASSUME Inv, Tick
    PROVE  /\ buffer' \in Buffer
           /\ buffer'.content = buffer.content /\ buffer'.pos = buffer.pos
  <1>1. PICK a : a = IF Empty(buffer) THEN 0
                     ELSE IF buffer.last_send < 2 * DELTA_SEND
                          THEN buffer.last_send + 1 ELSE buffer.last_send
    OBVIOUS
  <1>2. buffer' = [buffer EXCEPT !.last_send = a]
    BY <1>1 DEF Tick, Elapse
  <1>3. buffer \in Buffer
    BY DEF Inv, Types
  <1>4. a \in Age
    <2>1. buffer.last_send \in Age /\ DELTA_SEND \in Nat
      BY <1>3, BufferAssumption DEF Buffer
    <2> QED
      BY <1>1, <2>1 DEF Age
  <1> QED
    BY <1>2, <1>3, <1>4 DEF Buffer

LEMMA TickInv ==
    ASSUME Inv, Tick
    PROVE  Inv'
  <1>1. /\ timer = "sleep" /\ sleep > 0 /\ sleep' = sleep - 1
        /\ lock' = lock /\ timer' = timer /\ sent' = sent
        /\ arrived' = arrived /\ pc' = pc /\ held' = held
    BY DEF Tick, Elapse
  <1>2. buffer' \in Buffer /\ buffer'.content = buffer.content /\ buffer'.pos = buffer.pos
    BY Aged
  <1>3. sleep' \in 0 .. DELTA_SEND
    BY <1>1, BufferAssumption DEF Inv, Types
  <1>4. Types' /\ Exclusion' /\ Holding'
    BY <1>1, <1>2, <1>3 DEF Inv, Types, Exclusion, Holding, TooBig
  <1>5. AllFormed'
    BY <1>1, <1>2 DEF Inv, AllFormed, Empty
  <1> QED
    BY <1>4, <1>5 DEF Inv

LEMMA NextInv == Inv /\ [Next]_vars => Inv'
  <1> SUFFICES ASSUME Inv, [Next]_vars
               PROVE  Inv'
    OBVIOUS
  <1>1. ASSUME NEW h \in Handler, NEW l \in Size, Receive(h, l) PROVE Inv'
    BY <1>1, ReceiveInv
  <1>2. ASSUME NEW h \in Handler, bulk_packet(h) PROVE Inv'
    BY <1>2, TestInv, InsertInv DEF bulk_packet
  <1>3. CASE pkt_timedout
    BY <1>3, TimerInv
  <1>4. CASE Tick
    BY <1>4, TickInv
  <1>5. CASE UNCHANGED vars
    BY <1>5 DEF vars, Inv, Types, Exclusion, Holding, AllFormed, TooBig
  <1> QED
    BY <1>1, <1>2, <1>3, <1>4, <1>5 DEF Next

-----------------------------------------------------------------------------
(***************************************************************************)
(* The theorems on the buffer.                                             *)
(***************************************************************************)
\* The inductive invariant: threads exclude each other in the buffer, and what is in
\* it or was sent is headers with packets that arrived behind them (bulk_pkt.c
\* 97-113, bulk_buffer.c 147-163).
THEOREM Invariance == Spec => []Inv
  <1>1. Init => Inv
    BY InitInv
  <1>2. Inv /\ [Next]_vars => Inv'
    BY NextInv
  <1> QED
    BY <1>1, <1>2, PTL DEF Spec

\* No packet that is let through is too long to be alone in a buffer, behind headers:
\* line 78 compares its length without them.
RoomForHeaders == \A l \in Size : l >= BUFFER_SIZE \/ HdrSize + l <= BUFFER_SIZE

\* Nothing is written behind the end of the buffer (lines 100-110), if the packets are
\* such.
THEOREM BufferHolds ==
    ASSUME RoomForHeaders
    PROVE  Spec => []PreHolds
  <1>1. Init => PreHolds
    BY BufferAssumption DEF Init, InitBuffer, PreHolds
  <1>2. Inv /\ PreHolds /\ [Next]_vars => PreHolds'
    <2> SUFFICES ASSUME Inv, PreHolds, [Next]_vars
                 PROVE  buffer'.pos <= BUFFER_SIZE
      BY DEF PreHolds
    <2>1. ASSUME NEW h \in Handler, Insert(h) PROVE buffer'.pos <= BUFFER_SIZE
      <3>0. PICK n, l : n = held[h] /\ l = arrived[n]
        OBVIOUS
      <3>1. /\ l \in Size /\ l \in Nat /\ l < BUFFER_SIZE
            /\ \/ buffer' = ABuffer(<<0, n>>, HdrSize + l, 0)
               \/ /\ buffer.pos + l <= BUFFER_SIZE
                  /\ buffer' = ABuffer(Append(buffer.content, n), buffer.pos + l,
                                       buffer.last_send)
        BY <2>1, <3>0, InsertEffect
      <3>2. HdrSize + l <= BUFFER_SIZE
        <4>1. ~(l >= BUFFER_SIZE)
          BY <3>1, BufferAssumption
        <4> QED
          BY <3>1, <4>1 DEF RoomForHeaders
      <3> QED
        BY <3>1, <3>2, Parts
    <2>2. CASE buffer' = buffer
      BY <2>2 DEF PreHolds
    <2>3. CASE pkt_timedout
      <3>1. buffer' = buffer \/ buffer' = Cleared(buffer)
        BY <2>3 DEF pkt_timedout, Timer, Wake, LockOld, SendOld, ClearOld, Unlock
      <3>2. Cleared(buffer).pos = 0
        BY ClearedBuffer DEF Inv, Types
      <3> QED
        BY <2>2, <3>1, <3>2, BufferAssumption
    <2>4. CASE Tick
      BY <2>4, Aged DEF PreHolds
    <2> QED
      BY <2>1, <2>2, <2>3, <2>4 DEF Next, bulk_packet, Receive, Test, Lock, Release, vars
  <1> QED
    BY <1>1, <1>2, Invariance, PTL DEF Spec

-----------------------------------------------------------------------------
(***************************************************************************)
(* Debulking gives every packet back.                                      *)
(***************************************************************************)
\* What is behind the headers.
LEMMA Stripped ==
    ASSUME NEW c \in Seq(Nat)
    PROVE  /\ debulk(c) \in Seq(Nat)
           /\ c # <<>> => /\ DOMAIN debulk(c) = 1 .. Len(c) - 1
                         /\ \A i \in 1 .. Len(c) - 1 : debulk(c)[i] = c[i + 1]
           /\ \A n \in Nat : c # <<>> => debulk(Append(c, n)) = Append(debulk(c), n)
  <1>1. CASE c = <<>>
    BY <1>1 DEF debulk
  <1>2. CASE c # <<>>
    <2>1. debulk(c) = Tail(c) /\ Tail(c) \in Seq(Nat) /\ Len(Tail(c)) = Len(c) - 1
      BY <1>2 DEF debulk
    <2>2. \A i \in 1 .. Len(c) - 1 : Tail(c)[i] = c[i + 1]
      BY <1>2
    <2>3. ASSUME NEW n \in Nat PROVE debulk(Append(c, n)) = Append(debulk(c), n)
      <3>1. Append(c, n) # <<>> /\ debulk(Append(c, n)) = Tail(Append(c, n))
        BY DEF debulk
      <3>2. Tail(Append(c, n)) = Append(Tail(c), n)
        BY <1>2
      <3> QED
        BY <2>1, <3>1, <3>2
    <2> QED
      BY <2>1, <2>2, <2>3
  <1> QED
    BY <1>1, <1>2

LEMMA StrippedFew ==
    /\ debulk(<<>>) = <<>>
    /\ \A n \in Nat : debulk(<<0, n>>) = <<n>>
  <1>1. debulk(<<>>) = <<>>
    BY DEF debulk
  <1>2. ASSUME NEW n \in Nat PROVE debulk(<<0, n>>) = <<n>>
    BY DEF debulk
  <1> QED
    BY <1>1, <1>2

\* The packets behind the headers of all that was sent, and in the buffer without
\* being among it.
Contents(z) == [k \in 1 .. Len(z) |-> debulk(z[k].content)]
Waiting == IF timer = "clear" THEN <<>> ELSE debulk(buffer.content)
Flow == Append(Contents(sent), Waiting)

LEMMA ContentsAppend ==
    ASSUME NEW z \in Seq(Packet), NEW p \in Packet
    PROVE  /\ Contents(z) \in Seq(Seq(Nat))
           /\ Contents(Append(z, p)) = Append(Contents(z), debulk(p.content))
  <1> DEFINE n == Len(z)
             K == Contents(z)
             d == debulk(p.content)
  <1>0. \A q \in Packet : debulk(q.content) \in Seq(Nat)
    <2>1. \A q \in Packet : q.content \in Seq(Nat)
      BY DEF Packet
    <2> QED
      BY <2>1, Stripped
  <1>1. /\ n \in Nat /\ DOMAIN z = 1 .. n /\ d \in Seq(Nat)
        /\ \A k \in 1 .. n : debulk(z[k].content) \in Seq(Nat)
    <2>1. \A k \in 1 .. n : z[k] \in Packet
      OBVIOUS
    <2> QED
      BY <1>0, <2>1
  <1>2. K = [k \in 1 .. n |-> debulk(z[k].content)]
    BY DEF Contents
  <1>3. Append(z, p) = [k \in 1 .. n + 1 |-> IF k = n + 1 THEN p ELSE z[k]]
        /\ Len(Append(z, p)) = n + 1
    BY AppendIs
  <1>4. Contents(Append(z, p)) =
            [k \in 1 .. n + 1 |-> IF k = n + 1 THEN d ELSE debulk(z[k].content)]
    <2> DEFINE y == Append(z, p)
    <2>1. Contents(y) = [k \in 1 .. n + 1 |-> debulk(y[k].content)]
      BY <1>3 DEF Contents
    <2>2. \A k \in 1 .. n + 1 : y[k] = IF k = n + 1 THEN p ELSE z[k]
      BY <1>3
    <2> HIDE DEF y
    <2>3. \A k \in 1 .. n + 1 : debulk(y[k].content) =
                                IF k = n + 1 THEN d ELSE debulk(z[k].content)
      BY <2>2
    <2> QED
      BY <2>1, <2>3 DEF y
  <1> HIDE DEF n, K, d
  <1>5. K \in Seq(Seq(Nat)) /\ Len(K) = n
    BY <1>1, <1>2
  <1>6. Append(K, d) = [k \in 1 .. n + 1 |-> IF k = n + 1 THEN d ELSE K[k]]
    BY <1>1, <1>5, AppendIs
  <1>7. Append(K, d) = [k \in 1 .. n + 1 |-> IF k = n + 1 THEN d ELSE debulk(z[k].content)]
    BY <1>1, <1>2, <1>6
  <1> QED
    BY <1>4, <1>5, <1>7 DEF K, d

LEMMA FlowParts ==
    ASSUME Inv
    PROVE  /\ Contents(sent) \in Seq(Seq(Nat)) /\ Waiting \in Seq(Nat) /\ Flow \in Seq(Seq(Nat))
           /\ \A x : Has(Flow, x) => x \in 0 .. Len(arrived)
  <1>1. sent \in Seq(Packet) /\ buffer \in Buffer /\ buffer.content \in Seq(Nat)
    BY InParts DEF Inv, Types
  <1>2. Contents(sent) \in Seq(Seq(Nat))
    <2>1. \A q \in Packet : q.content \in Seq(Nat)
      BY DEF Packet
    <2>2. \A k \in 1 .. Len(sent) : sent[k] \in Packet
      BY <1>1
    <2>3. \A k \in 1 .. Len(sent) : debulk(sent[k].content) \in Seq(Nat)
      BY <2>1, <2>2, Stripped
    <2>4. Len(sent) \in Nat
      BY <1>1
    <2> QED
      BY <2>3, <2>4 DEF Contents
  <1>3. Waiting \in Seq(Nat)
    <2>1. <<>> \in Seq(Nat)
      OBVIOUS
    <2> QED
      BY <1>1, <2>1, Stripped DEF Waiting
  <1>4. Flow \in Seq(Seq(Nat))
    BY <1>2, <1>3 DEF Flow
  <1>5. ASSUME NEW m \in Nat, NEW c \in Seq(0 .. m), NEW x, In(debulk(c), x) PROVE x \in 0 .. m
    <2>1. c \in Seq(Nat)
      <3>1. 0 .. m \subseteq Nat
        OBVIOUS
      <3> QED
        BY <3>1
    <2>2. CASE c = <<>>
      <3>1. In(<<>>, x)
        BY <1>5, <2>2, StrippedFew
      <3> QED
        BY <3>1, InFew
    <2>3. CASE c # <<>>
      <3>1. PICK i \in 1 .. Len(c) - 1 : x = c[i + 1]
        BY <1>5, <2>1, <2>3, Stripped DEF In
      <3>2. i + 1 \in 1 .. Len(c)
        BY <2>1, <3>1
      <3> QED
        BY <3>1, <3>2
    <2> QED
      BY <2>2, <2>3
  <1>6. ASSUME NEW x, Has(Flow, x) PROVE x \in 0 .. Len(arrived)
    <2>0. Len(arrived) \in Nat
      BY DEF Inv, Types
    <2>1. CASE Has(Contents(sent), x)
      <3>1. PICK k \in 1 .. Len(sent) : In(debulk(sent[k].content), x)
        BY <2>1 DEF Has, Contents
      <3>2. k \in DOMAIN sent
        BY <1>1, <3>1
      <3>3. sent[k].content \in Seq(0 .. Len(arrived))
        BY <3>2 DEF Inv, AllFormed
      <3> QED
        BY <1>5, <2>0, <3>1, <3>3
    <2>2. CASE In(Waiting, x)
      <3>1. In(debulk(buffer.content), x)
        BY <2>2, InFew DEF Waiting
      <3>2. buffer.content \in Seq(0 .. Len(arrived))
        BY DEF Inv, AllFormed
      <3> QED
        BY <1>5, <2>0, <3>1, <3>2
    <2> QED
      BY <1>2, <1>3, <1>6, <2>1, <2>2, HasAppend DEF Flow
  <1> QED
    BY <1>2, <1>3, <1>4, <1>6

\* The properties are about these packets.
LEMMA OutStripped ==
    ASSUME Inv, timer # "clear"
    PROVE  Flow = [k \in DOMAIN Out |-> debulk(Out[k])]
  <1> DEFINE n == Len(sent)
             K == Contents(sent)
  <1>1. n \in Nat /\ DOMAIN sent = 1 .. n /\ K = [k \in 1 .. n |-> debulk(sent[k].content)]
    BY DEF Contents, Inv, Types
  <1>2. K \in Seq(Seq(Nat)) /\ Waiting \in Seq(Nat) /\ Waiting = debulk(buffer.content)
    BY FlowParts DEF Waiting
  <1>3. Out = [k \in 1 .. n + 1 |-> IF k <= n THEN sent[k].content ELSE buffer.content]
    BY DEF Out
  <1> HIDE DEF n, K
  <1>4. Flow = [k \in 1 .. n + 1 |-> IF k = n + 1 THEN Waiting ELSE K[k]]
    <2>1. Len(K) = n
      BY <1>1
    <2> QED
      BY <1>1, <1>2, <2>1, AppendIs DEF Flow, K
  <1>5. \A k \in 1 .. n + 1 : debulk(Out[k]) = IF k = n + 1 THEN Waiting ELSE K[k]
    <2>1. \A k \in 1 .. n + 1 : Out[k] = IF k <= n THEN sent[k].content ELSE buffer.content
      BY <1>3
    <2>2. \A k \in 1 .. n + 1 : k = n + 1 \/ (k <= n /\ k \in 1 .. n /\ k # n + 1)
      BY <1>1
    <2>3. \A k \in 1 .. n : K[k] = debulk(sent[k].content)
      BY <1>1
    <2>4. ~(n + 1 <= n) /\ n + 1 \in 1 .. n + 1
      BY <1>1
    <2> QED
      BY <1>2, <2>1, <2>2, <2>3, <2>4
  <1> QED
    BY <1>3, <1>4, <1>5

LEMMA FlowIsOut == Inv => Debulked = Concatenation(Flow)
  <1> SUFFICES ASSUME Inv
               PROVE  Debulked = Concatenation(Flow)
    OBVIOUS
  <1> DEFINE n == Len(sent)
             K == Contents(sent)
  <1>1. n \in Nat /\ DOMAIN sent = 1 .. n /\ K = [k \in 1 .. n |-> debulk(sent[k].content)]
    BY DEF Contents, Inv, Types
  <1>2. K \in Seq(Seq(Nat))
    BY FlowParts
  <1>3. Out = [k \in 1 .. n + 1 |-> IF k <= n THEN sent[k].content ELSE buffer.content]
    BY DEF Out
  <1>4. Debulked = Concatenation([k \in DOMAIN Given |-> debulk(Given[k])])
    BY DEF Debulked
  <1> HIDE DEF n, K
  <1>6. CASE timer # "clear"
    BY <1>4, <1>6, OutStripped DEF Given
  <1>7. CASE timer = "clear"
    <2>1. Given = SubSeq(Out, 1, n)
      BY <1>7 DEF Given, n
    <2>2. SubSeq(Out, 1, n) = [k \in 1 .. n |-> Out[k]]
      <3>1. \A q : SubSeq(q, 1, n) = [k \in 1 .. (1 + n) - 1 |-> q[(k + 1) - 1]]
        BY <1>1
      <3> QED
        BY <1>1, <3>1
    <2>3. \A k \in 1 .. n : Out[k] = sent[k].content
      BY <1>1, <1>3
    <2>4. Given = [k \in 1 .. n |-> sent[k].content]
      BY <2>1, <2>2, <2>3
    <2>5. [k \in DOMAIN Given |-> debulk(Given[k])] = K
      BY <1>1, <2>4
    <2>6. Flow = Append(K, <<>>) /\ <<>> \in Seq(Nat)
      BY <1>7 DEF Flow, Waiting, K
    <2>7. /\ Concatenation(Flow) = Concatenation(K) \o <<>>
          /\ Concatenation(K) \in Seq(Nat)
      BY <1>2, <2>6, ConcatenationAppend
    <2> QED
      BY <1>4, <2>5, <2>7, Joining
  <1> QED
    BY <1>6, <1>7

\* What the steps do to these packets.
FlowSame  == Flow' = Flow
FlowMoves == Flow' = Append(Flow, <<>>)
FlowTakes(h) ==
    \/ Flow' = Append(Contents(sent), Append(Waiting, held[h]))
    \/ Flow' = Append(Flow, <<held[h]>>)

\* The contents of the buffer are sent.
LEMMA ImageFlow ==
    ASSUME Inv, ~Empty(buffer), sent' = Append(sent, Image(buffer))
    PROVE  Contents(sent') = Append(Contents(sent), debulk(buffer.content))
  <1>1. Image(buffer) \in Packet /\ sent \in Seq(Packet) /\ Image(buffer).content = buffer.content
    BY SendingOne DEF Inv, Types
  <1> QED
    BY <1>1, ContentsAppend

LEMMA InsertFlow ==
    ASSUME Inv, NEW h \in Handler, Insert(h)
    PROVE  FlowTakes(h)
  <1>0. PICK n, l : n = held[h] /\ l = arrived[n]
    OBVIOUS
  <1>1. n \in 1 .. Len(arrived) /\ lock = h /\ timer' = timer
    BY <1>0, InsertEffect DEF Insert
  <1>2. n \in Nat /\ buffer.content \in Seq(Nat)
    BY <1>1, InParts DEF Inv, Types
  <1>3. timer # "clear"
    BY <1>1, BufferAssumption DEF Inv, Exclusion
  <1>4. Waiting = debulk(buffer.content) /\ Waiting' = debulk(buffer'.content)
    BY <1>1, <1>3 DEF Waiting
  <1>5. CASE /\ sent' = IF Empty(buffer) THEN sent ELSE Append(sent, Image(buffer))
             /\ buffer' = ABuffer(<<0, n>>, HdrSize + l, 0)
    <2>1. Waiting' = <<n>>
      <3>1. buffer'.content = <<0, n>>
        BY <1>5 DEF ABuffer
      <3> QED
        BY <1>2, <1>4, <3>1, StrippedFew
    <2>2. CASE Empty(buffer)
      <3>1. buffer.content = <<>> /\ Append(<<>>, n) = <<n>>
        BY <2>2 DEF Inv, AllFormed
      <3>2. Waiting = <<>>
        BY <1>4, <3>1, StrippedFew
      <3> QED
        BY <1>0, <1>5, <2>1, <2>2, <3>1, <3>2 DEF FlowTakes, Flow
    <2>3. CASE ~Empty(buffer)
      <3>1. Contents(sent') = Append(Contents(sent), Waiting)
        BY <1>4, <1>5, <2>3, ImageFlow
      <3> QED
        BY <1>0, <2>1, <3>1 DEF FlowTakes, Flow
    <2> QED
      BY <2>2, <2>3
  <1>6. CASE /\ ~Empty(buffer) /\ sent' = sent
             /\ buffer' = ABuffer(Append(buffer.content, n), buffer.pos + l, buffer.last_send)
    <2>1. buffer'.content = Append(buffer.content, n)
      BY <1>6 DEF ABuffer
    <2>2. buffer.content # <<>>
      BY <1>6 DEF Inv, AllFormed
    <2>3. Waiting' = Append(Waiting, n)
      BY <1>2, <1>4, <2>1, <2>2, Stripped
    <2> QED
      BY <1>0, <1>6, <2>3 DEF FlowTakes, Flow
  <1> QED
    BY <1>0, <1>5, <1>6, InsertEffect

LEMMA TimerFlow ==
    ASSUME Inv, Timer
    PROVE  FlowSame \/ FlowMoves
  <1>1. buffer \in Buffer /\ sent \in Seq(Packet)
    BY DEF Inv, Types
  <1>2. CASE Wake \/ LockOld \/ Unlock
    <2>1. /\ sent' = sent /\ buffer' = buffer /\ timer # "clear" /\ timer' # "clear"
      BY <1>2 DEF Wake, LockOld, Unlock
    <2> QED
      BY <2>1 DEF FlowSame, Flow, Waiting
  <1>3. CASE SendOld
    <2>1. /\ timer = "send" /\ timer' = IF Old(buffer) THEN "clear" ELSE "unlock"
          /\ buffer' = buffer /\ sent' = IF Old(buffer) THEN sent \o Sending(buffer) ELSE sent
      BY <1>3 DEF SendOld
    <2>2. CASE Old(buffer)
      <3>1. ~Empty(buffer) /\ sent' = Append(sent, Image(buffer))
        BY <1>1, <2>1, <2>2, SendingOne DEF Old
      <3>2. Contents(sent') = Append(Contents(sent), debulk(buffer.content))
        BY <3>1, ImageFlow
      <3> QED
        BY <2>1, <2>2, <3>2 DEF FlowMoves, Flow, Waiting
    <2>3. CASE ~Old(buffer)
      BY <2>1, <2>3 DEF FlowSame, Flow, Waiting
    <2> QED
      BY <2>2, <2>3
  <1>4. CASE ClearOld
    <2>1. timer = "clear" /\ timer' = "unlock" /\ buffer' = Cleared(buffer) /\ sent' = sent
      BY <1>4 DEF ClearOld
    <2>2. debulk(buffer'.content) = <<>>
      BY <1>1, <2>1, ClearedBuffer, StrippedFew
    <2> QED
      BY <2>1, <2>2 DEF FlowSame, Flow, Waiting
  <1> QED
    BY <1>2, <1>3, <1>4 DEF Timer

\* Everything but an insertion leaves the packets where they are.
LEMMA OtherFlow ==
    ASSUME Inv, [Next]_vars, \A h \in Handler : ~Insert(h)
    PROVE  FlowSame \/ FlowMoves
  <1>1. CASE sent' = sent /\ buffer'.content = buffer.content /\ timer' = timer
    BY <1>1 DEF FlowSame, Flow, Waiting
  <1>2. CASE Timer
    BY <1>2, TimerFlow
  <1>3. CASE Tick
    BY <1>1, <1>3, Aged DEF Tick, Elapse
  <1> QED
    BY <1>1, <1>2, <1>3
       DEF Next, bulk_packet, pkt_timedout, Receive, Test, Lock, Release, vars

\* What that gives the numbers in them and their sequence.
LEMMA MovesKeeps ==
    ASSUME Inv, FlowSame \/ FlowMoves
    PROVE  Keeps(Flow, Flow') /\ Concatenation(Flow') = Concatenation(Flow)
  <1>1. CASE FlowSame
    BY <1>1 DEF FlowSame, Keeps
  <1>2. CASE FlowMoves
    <2> DEFINE F == Flow
    <2>1. F \in Seq(Seq(Nat)) /\ Flow' = Append(F, <<>>) /\ <<>> \in Seq(Nat)
      BY <1>2, FlowParts DEF FlowMoves
    <2> HIDE DEF F
    <2>2. /\ \A x : Has(Append(F, <<>>), x) <=> Has(F, x)
          /\ Unique(F) => Unique(Append(F, <<>>))
      BY <2>1, HasAppend, InFew
    <2>3. Concatenation(Append(F, <<>>)) = Concatenation(F)
      <3>1. Concatenation(Append(F, <<>>)) = Concatenation(F) \o <<>> /\ Concatenation(F) \in Seq(Nat)
        BY <2>1, ConcatenationAppend
      <3> QED
        BY <3>1, Joining
    <2> QED
      BY <2>1, <2>2, <2>3 DEF Keeps, F
  <1> QED
    BY <1>1, <1>2

LEMMA TakesGains ==
    ASSUME Inv, NEW h \in Handler, FlowTakes(h)
    PROVE  /\ Gains(Flow, Flow', held[h])
           /\ Concatenation(Flow') = Append(Concatenation(Flow), held[h])
  <1> DEFINE K == Contents(sent)
             c == Waiting
             F == Flow
             G == Flow'
             n == held[h]
  <1>1. K \in Seq(Seq(Nat)) /\ c \in Seq(Nat) /\ F \in Seq(Seq(Nat)) /\ F = Append(K, c) /\ n \in Nat
    BY FlowParts DEF Flow, Inv, Types
  <1>2. G = Append(K, Append(c, n)) \/ G = Append(F, <<n>>)
    BY DEF FlowTakes
  <1> SUFFICES Gains(F, G, n) /\ Concatenation(G) = Append(Concatenation(F), n)
    OBVIOUS
  <1> HIDE DEF K, c, F, G, n
  <1>3. <<n>> \in Seq(Nat) /\ Append(c, n) \in Seq(Nat)
    BY <1>1
  <1>4. /\ Concatenation(F) = Concatenation(K) \o c
        /\ Concatenation(K) \in Seq(Nat) /\ Concatenation(F) \in Seq(Nat)
    BY <1>1, ConcatenationAppend
  <1>5. CASE G = Append(K, Append(c, n))
    <2>1. Concatenation(G) = Append(Concatenation(F), n)
      <3>1. Concatenation(G) = Concatenation(K) \o Append(c, n)
        BY <1>1, <1>3, <1>5, ConcatenationAppend
      <3> QED
        BY <1>1, <1>4, <3>1, Joining
    <2>2. /\ \A x : In(Append(c, n), x) <=> In(c, x) \/ x = n
          /\ Distinct(c) /\ ~In(c, n) => Distinct(Append(c, n))
      BY <1>1, InAppend
    <2>3. /\ \A x : Has(F, x) <=> Has(K, x) \/ In(c, x)
          /\ Unique(F) <=> Unique(K) /\ Distinct(c) /\ \A x : ~(In(c, x) /\ Has(K, x))
      BY <1>1, HasAppend
    <2> DEFINE d == Append(c, n)
    <2>4. d \in Seq(Nat) /\ G = Append(K, d)
      BY <1>3, <1>5
    <2>5. /\ \A x : In(d, x) <=> In(c, x) \/ x = n
          /\ Distinct(c) /\ ~In(c, n) => Distinct(d)
      BY <2>2
    <2> HIDE DEF d
    <2>6. /\ \A x : Has(G, x) <=> Has(K, x) \/ In(d, x)
          /\ Unique(G) <=> Unique(K) /\ Distinct(d) /\ \A x : ~(In(d, x) /\ Has(K, x))
      BY <1>1, <2>4, HasAppend
    <2>7. Gains(F, G, n)
      BY <2>3, <2>5, <2>6 DEF Gains
    <2> QED
      BY <2>1, <2>7
  <1>6. CASE G = Append(F, <<n>>)
    <2>1. Concatenation(G) = Append(Concatenation(F), n)
      <3>1. Concatenation(G) = Concatenation(F) \o <<n>>
        BY <1>1, <1>3, <1>6, ConcatenationAppend
      <3> QED
        BY <1>1, <1>4, <3>1, Joining
    <2> DEFINE d == <<n>>
    <2>2. d \in Seq(Nat) /\ G = Append(F, d) /\ Distinct(d) /\ \A x : In(d, x) <=> x = n
      BY <1>3, <1>6, InFew
    <2> HIDE DEF d
    <2>3. /\ \A x : Has(G, x) <=> Has(F, x) \/ In(d, x)
          /\ Unique(G) <=> Unique(F) /\ Distinct(d) /\ \A x : ~(In(d, x) /\ Has(F, x))
      BY <1>1, <2>2, HasAppend
    <2>4. Gains(F, G, n)
      BY <2>2, <2>3 DEF Gains
    <2> QED
      BY <2>1, <2>4
  <1> QED
    BY <1>2, <1>5, <1>6

\* Every packet that arrived is in one place only, a hand or the packets above,
\* unless it was too big.
Once ==
    /\ Unique(Flow)
    /\ \A h \in Handler : InHand(h) => ~Has(Flow, held[h])
    /\ \A g, h \in Handler : InHand(g) /\ InHand(h) /\ held[g] = held[h] => g = h
    /\ \A n \in 1 .. Len(arrived) :
           IF TooBig(n) THEN ~Has(Flow, n)
           ELSE Has(Flow, n) \/ \E h \in Handler : InHand(h) /\ held[h] = n

\* A step that leaves the packets where they are, and all hands, but that a handler
\* may drop a packet that is too big.
LEMMA OnceQuiet ==
    ASSUME Inv, Once, arrived' = arrived, held' = held, Keeps(Flow, Flow'),
           \A h \in Handler : \/ InHand(h)' <=> InHand(h)
                              \/ InHand(h) /\ TooBig(held[h])
    PROVE  Once'
  <1>1. \A h \in Handler : InHand(h)' => InHand(h)
    OBVIOUS
  <1>2. Unique(Flow') /\ \A x : Has(Flow', x) <=> Has(Flow, x)
    BY DEF Once, Keeps
  <1>3. ASSUME NEW n \in 1 .. Len(arrived)
        PROVE  IF TooBig(n) THEN ~Has(Flow', n)
               ELSE Has(Flow', n) \/ \E h \in Handler : InHand(h)' /\ held[h] = n
    BY <1>2 DEF Once
  <1>4. \A n : TooBig(n)' <=> TooBig(n)
    BY DEF TooBig
  <1>5. \A h \in Handler : InHand(h)' => ~Has(Flow', held[h])
    BY <1>1, <1>2 DEF Once
  <1>6. \A g, h \in Handler : InHand(g)' /\ InHand(h)' /\ held[g] = held[h] => g = h
    BY <1>1 DEF Once
  <1> QED
    BY <1>2, <1>3, <1>4, <1>5, <1>6 DEF Once

\* A handler puts its packet into the buffer.
LEMMA OnceTaken ==
    ASSUME Inv, Once, arrived' = arrived, held' = held, NEW h \in Handler, InHand(h),
           ~TooBig(held[h]), Gains(Flow, Flow', held[h]), ~InHand(h)',
           \A g \in Handler : g # h => (InHand(g)' <=> InHand(g))
    PROVE  Once'
  <1>1. Unique(Flow')
    BY DEF Once, Gains
  <1>2. ASSUME NEW g \in Handler, InHand(g)' PROVE ~Has(Flow', held[g])
    <2>1. g # h /\ InHand(g)
      BY <1>2
    <2>2. held[g] # held[h] /\ ~Has(Flow, held[g])
      BY <2>1 DEF Once
    <2> QED
      BY <2>2 DEF Gains
  <1>3. \A f, g \in Handler : InHand(f)' /\ InHand(g)' /\ held[f] = held[g] => f = g
    BY DEF Once
  <1>4. ASSUME NEW n \in 1 .. Len(arrived)
        PROVE  IF TooBig(n) THEN ~Has(Flow', n)
               ELSE Has(Flow', n) \/ \E g \in Handler : InHand(g)' /\ held[g] = n
    <2>1. CASE n = held[h]
      BY <2>1 DEF Gains
    <2>2. CASE n # held[h]
      <3>1. Has(Flow', n) <=> Has(Flow, n)
        BY <2>2 DEF Gains
      <3>2. ~TooBig(n) /\ ~Has(Flow, n) => \E g \in Handler : InHand(g)' /\ held[g] = n
        <4> SUFFICES ASSUME ~TooBig(n), ~Has(Flow, n)
                     PROVE  \E g \in Handler : InHand(g)' /\ held[g] = n
          OBVIOUS
        <4>1. PICK g \in Handler : InHand(g) /\ held[g] = n
          BY DEF Once
        <4> QED
          BY <2>2, <4>1
      <3> QED
        BY <3>1, <3>2 DEF Once
    <2> QED
      BY <2>1, <2>2
  <1>5. \A n : TooBig(n)' <=> TooBig(n)
    BY DEF TooBig
  <1> QED
    BY <1>1, <1>2, <1>3, <1>4, <1>5 DEF Once

LEMMA OnceReceive ==
    ASSUME Inv, Once, NEW h \in Handler, NEW l \in Size, Receive(h, l)
    PROVE  Once'
  <1>1. PICK n \in Nat : n = Len(arrived)
    BY DEF Inv, Types
  <1>2. /\ pc[h] = "idle" /\ arrived' = Append(arrived, l)
        /\ held' = [held EXCEPT ![h] = n + 1] /\ pc' = [pc EXCEPT ![h] = "test"]
        /\ buffer' = buffer /\ sent' = sent /\ timer' = timer
    BY <1>1 DEF Receive
  <1>3. /\ held \in [Handler -> 0 .. n] /\ arrived \in Seq(Size)
        /\ pc \in [Handler -> {"idle", "test", "lock", "insert", "unlock"}]
    BY <1>1 DEF Inv, Types
  <1>4. Flow' = Flow
    BY <1>2 DEF Flow, Waiting
  <1>5. Len(arrived') = n + 1 /\ \A m \in 1 .. n : arrived'[m] = arrived[m]
    BY <1>1, <1>2, <1>3
  <1>6. ~Has(Flow, n + 1)
    <2>1. \A x : Has(Flow, x) => x \in 0 .. n
      BY <1>1, FlowParts
    <2> QED
      BY <2>1
  <1>7. \A g \in Handler : g # h => (InHand(g)' <=> InHand(g)) /\ held'[g] = held[g] /\ held[g] # n + 1
    BY <1>2, <1>3 DEF InHand
  <1>8. InHand(h)' /\ held'[h] = n + 1 /\ ~InHand(h)
    BY <1>2, <1>3 DEF InHand
  <1>9. \A g \in Handler : InHand(g)' => ~Has(Flow, held'[g])
    BY <1>6, <1>7, <1>8 DEF Once
  <1>10. \A f, g \in Handler : InHand(f)' /\ InHand(g)' /\ held'[f] = held'[g] => f = g
    BY <1>7, <1>8 DEF Once
  <1>11. ASSUME NEW m \in 1 .. n + 1
         PROVE  IF TooBig(m)' THEN ~Has(Flow, m)
                ELSE Has(Flow, m) \/ \E g \in Handler : InHand(g)' /\ held'[g] = m
    <2>1. CASE m = n + 1
      BY <1>6, <1>8, <2>1
    <2>2. CASE m \in 1 .. n
      <3>1. TooBig(m)' <=> TooBig(m)
        BY <1>5, <2>2 DEF TooBig
      <3>2. IF TooBig(m) THEN ~Has(Flow, m)
            ELSE Has(Flow, m) \/ \E g \in Handler : InHand(g) /\ held[g] = m
        BY <1>1, <2>2 DEF Once
      <3> QED
        BY <1>7, <1>8, <3>1, <3>2
    <2> QED
      BY <2>1, <2>2
  <1> QED
    BY <1>4, <1>5, <1>9, <1>10, <1>11 DEF Once

LEMMA OnceStep == Inv /\ Once /\ [Next]_vars => Once'
  <1> SUFFICES ASSUME Inv, Once, [Next]_vars
               PROVE  Once'
    OBVIOUS
  <1>1. pc \in [Handler -> {"idle", "test", "lock", "insert", "unlock"}]
    BY DEF Inv, Types
  <1>2. ASSUME NEW h \in Handler, NEW l \in Size, Receive(h, l) PROVE Once'
    BY <1>2, OnceReceive
  <1>3. ASSUME NEW h \in Handler, Insert(h) PROVE Once'
    <2>1. Gains(Flow, Flow', held[h])
      BY <1>3, InsertFlow, TakesGains
    <2>2. /\ pc[h] = "insert" /\ pc' = [pc EXCEPT ![h] = "unlock"]
          /\ arrived' = arrived /\ held' = held /\ ~TooBig(held[h])
      BY <1>3 DEF Insert, Inv, Holding
    <2>3. InHand(h) /\ ~InHand(h)' /\ \A g \in Handler : g # h => (InHand(g)' <=> InHand(g))
      BY <1>1, <2>2 DEF InHand
    <2> QED
      BY <2>1, <2>2, <2>3, OnceTaken
  <1>4. CASE \A h \in Handler : ~Insert(h) /\ \A l \in Size : ~Receive(h, l)
    <2>1. Keeps(Flow, Flow')
      BY <1>4, OtherFlow, MovesKeeps
    <2>2. ASSUME NEW h \in Handler, Test(h) \/ Lock(h) \/ Release(h) PROVE Once'
      <3>1. arrived' = arrived /\ held' = held
        BY <2>2 DEF Test, Lock, Release
      <3>2. \/ pc[h] = "test" /\ TooBig(held[h]) /\ pc' = [pc EXCEPT ![h] = "idle"]
            \/ pc[h] = "test" /\ pc' = [pc EXCEPT ![h] = "lock"]
            \/ pc[h] = "lock" /\ pc' = [pc EXCEPT ![h] = "insert"]
            \/ pc[h] = "unlock" /\ pc' = [pc EXCEPT ![h] = "idle"]
        BY <2>2 DEF Test, Lock, Release
      <3>3. \A g \in Handler : g # h => pc'[g] = pc[g]
        BY <1>1, <3>2
      <3>4. \/ pc[h] = "test" /\ TooBig(held[h])
            \/ pc[h] = "test" /\ pc'[h] = "lock"
            \/ pc[h] = "lock" /\ pc'[h] = "insert"
            \/ pc[h] = "unlock" /\ pc'[h] = "idle"
        BY <1>1, <3>2
      <3>5. \A g \in Handler : (InHand(g)' <=> InHand(g)) \/ (InHand(g) /\ TooBig(held[g]))
        BY <3>3, <3>4 DEF InHand
      <3> QED
        BY <2>1, <3>1, <3>5, OnceQuiet
    <2>3. CASE pkt_timedout \/ Tick \/ UNCHANGED vars
      <3>1. arrived' = arrived /\ held' = held /\ pc' = pc
        BY <2>3 DEF pkt_timedout, Tick, vars
      <3> QED
        BY <2>1, <3>1, OnceQuiet DEF InHand
    <2> QED
      BY <1>4, <2>2, <2>3 DEF Next, bulk_packet
  <1> QED
    BY <1>2, <1>3, <1>4

LEMMA OnceInvariant == Spec => []Once
  <1>1. Init => Once
    <2> SUFFICES ASSUME Init
                 PROVE  Once
      OBVIOUS
    <2>1. /\ sent = <<>> /\ buffer.content = <<>> /\ timer = "sleep" /\ arrived = <<>>
          /\ pc = [h \in Handler |-> "idle"]
      BY DEF Init, InitBuffer
    <2>2. Flow = Append(<<>>, <<>>)
      <3>1. Contents(<<>>) = <<>>
        BY DEF Contents
      <3> QED
        BY <2>1, <3>1, StrippedFew DEF Flow, Waiting
    <2>3. DOMAIN Flow = {1} /\ Flow[1] = <<>>
      BY <2>2
    <2>4. Unique(Flow) /\ \A x : ~Has(Flow, x)
      BY <2>3 DEF Unique, Has, In
    <2>5. Len(arrived) = 0 /\ \A h \in Handler : ~InHand(h)
      BY <2>1 DEF InHand
    <2> QED
      BY <2>4, <2>5 DEF Once
  <1> QED
    BY <1>1, OnceStep, Invariance, PTL DEF Spec

\* A packet behind headers is at the same place as after debulking, one further.
LEMMA PlacesStripped ==
    ASSUME Inv, timer # "clear", NEW n \in Nat \ {0}
    PROVE  /\ DOMAIN Flow = DOMAIN Out
           /\ \A k \in DOMAIN Out, m \in Nat :
                  m \in DOMAIN Out[k] /\ Out[k][m] = n =>
                      m - 1 \in DOMAIN Flow[k] /\ Flow[k][m - 1] = n
           /\ \A k \in DOMAIN Flow : \A i \in DOMAIN Flow[k] :
                  Flow[k][i] = n => i \in Nat /\ i + 1 \in DOMAIN Out[k] /\ Out[k][i + 1] = n
  <1>1. DOMAIN Flow = DOMAIN Out /\ \A k \in DOMAIN Out : Flow[k] = debulk(Out[k])
    BY OutStripped
  <1>2. \A k \in DOMAIN Out : Out[k] \in Seq(Nat) /\ Formed(Out[k])
    <2>1. Len(sent) \in Nat /\ DOMAIN sent = 1 .. Len(sent) /\ sent \in Seq(Packet)
      BY DEF Inv, Types
    <2>2. buffer.content \in Seq(Nat) /\ Formed(buffer.content)
      BY InParts DEF Inv, Types, AllFormed
    <2>3. \A q \in Packet : q.content \in Seq(Nat)
      BY DEF Packet
    <2>4. \A k \in DOMAIN sent : sent[k].content \in Seq(Nat) /\ Formed(sent[k].content)
      BY <2>1, <2>3 DEF Inv, AllFormed
    <2>5. ASSUME NEW k \in DOMAIN Out
          PROVE  \/ k \in DOMAIN sent /\ Out[k] = sent[k].content
                 \/ Out[k] = buffer.content
      BY <2>1 DEF Out
    <2> QED
      BY <2>2, <2>4, <2>5
  <1>3. ASSUME NEW c \in Seq(Nat), Formed(c), NEW m \in DOMAIN c, c[m] = n
        PROVE  m - 1 \in DOMAIN debulk(c) /\ debulk(c)[m - 1] = n
    <2>1. c # <<>> /\ m \in 1 .. Len(c) /\ m # 1 /\ Len(c) \in Nat
      BY <1>3 DEF Formed
    <2>2. m - 1 \in 1 .. Len(c) - 1 /\ (m - 1) + 1 = m
      BY <2>1
    <2> QED
      BY <1>3, <2>1, <2>2, Stripped
  <1>4. ASSUME NEW c \in Seq(Nat), NEW i \in DOMAIN debulk(c), debulk(c)[i] = n
        PROVE  i \in Nat /\ i + 1 \in DOMAIN c /\ c[i + 1] = n
    <2>1. c # <<>>
      BY <1>4, StrippedFew
    <2>2. /\ DOMAIN debulk(c) = 1 .. Len(c) - 1
          /\ \A j \in 1 .. Len(c) - 1 : debulk(c)[j] = c[j + 1]
      BY <2>1, Stripped
    <2>3. i \in 1 .. Len(c) - 1 /\ c[i + 1] = n
      BY <1>4, <2>2
    <2>4. Len(c) \in Nat /\ DOMAIN c = 1 .. Len(c)
      OBVIOUS
    <2> QED
      BY <2>3, <2>4
  <1> QED
    BY <1>1, <1>2, <1>3, <1>4

\* No bulk is without its headers, and every packet that is not too big is in the hands
\* of a handler or in one place of what is sent (bulk_pkt.c 78-113, bulk_buffer.c
\* 153-161).
THEOREM PacketsOnce == Spec => []EachOnce
  <1>1. Inv /\ Once => EachOnce
    <2> SUFFICES ASSUME Inv, Once, timer # "clear"
                 PROVE  /\ \A k \in DOMAIN Out : Out[k] # <<>> => Out[k][1] = 0 /\ Len(Out[k]) > 1
                        /\ \A n \in 1 .. Len(arrived) :
                              LET places == {a \in Places : Number(a) = n}
                              IN  IF TooBig(n) \/ \E h \in Handler : InHand(h) /\ held[h] = n
                                  THEN places = {} ELSE Cardinality(places) = 1
      BY DEF EachOnce
    <2>1. \A k \in DOMAIN Out : Out[k] # <<>> => Out[k][1] = 0 /\ Len(Out[k]) > 1
      <3>1. Len(sent) \in Nat /\ DOMAIN sent = 1 .. Len(sent)
        BY DEF Inv, Types
      <3>2. \A k \in DOMAIN Out : (k \in DOMAIN sent /\ Out[k] = sent[k].content) \/ Out[k] = buffer.content
        BY <3>1 DEF Out
      <3> QED
        BY <3>2 DEF Inv, AllFormed, Formed
    <2>2. ASSUME NEW n \in 1 .. Len(arrived)
          PROVE  LET places == {a \in Places : Number(a) = n}
                 IN  IF TooBig(n) \/ \E h \in Handler : InHand(h) /\ held[h] = n
                     THEN places = {} ELSE Cardinality(places) = 1
      <3> DEFINE P == {a \in Places : Number(a) = n}
      <3>0. n \in Nat \ {0}
        BY DEF Inv, Types
      <3>1. \A a : a \in P <=> \E k \in DOMAIN Out : \E m \in DOMAIN Out[k] :
                                    a = <<k, m>> /\ Out[k][m] = n
        <4>1. \A a : a \in Places <=> \E k \in DOMAIN Out : \E m \in DOMAIN Out[k] : a = <<k, m>>
          BY DEF Places
        <4>2. \A k, m : Number(<<k, m>>) = Out[k][m]
          BY DEF Number
        <4> QED
          BY <4>1, <4>2
      <3>2. \A k \in DOMAIN Out : \A m \in DOMAIN Out[k] : m \in Nat
        <4>1. \A q \in Packet : q.content \in Seq(Nat)
          BY DEF Packet
        <4>2. buffer.content \in Seq(Nat) /\ sent \in Seq(Packet)
          BY InParts DEF Inv, Types
        <4>3. \A k \in DOMAIN Out : Out[k] \in Seq(Nat)
          BY <4>1, <4>2 DEF Out
        <4> QED
          BY <4>3
      <3> HIDE DEF P
      <3>3. P # {} => Has(Flow, n)
        BY <3>0, <3>1, <3>2, PlacesStripped DEF Has, In
      <3>4. Has(Flow, n) => P # {}
        <4> SUFFICES ASSUME Has(Flow, n)
                     PROVE  P # {}
          OBVIOUS
        <4>1. PICK k \in DOMAIN Flow : In(Flow[k], n)
          BY DEF Has
        <4>2. PICK i \in DOMAIN Flow[k] : Flow[k][i] = n
          BY <4>1 DEF In
        <4>3. k \in DOMAIN Out /\ i + 1 \in DOMAIN Out[k] /\ Out[k][i + 1] = n
          BY <3>0, <4>2, PlacesStripped
        <4>4. <<k, i + 1>> \in P
          BY <3>1, <4>3
        <4> QED
          BY <4>4
      <3>5. \A a, b \in P : a = b
        <4> SUFFICES ASSUME NEW a \in P, NEW b \in P
                     PROVE  a = b
          OBVIOUS
        <4>1. PICK k \in DOMAIN Out : \E m \in DOMAIN Out[k] : a = <<k, m>> /\ Out[k][m] = n
          BY <3>1
        <4>2. PICK l \in DOMAIN Out : \E i \in DOMAIN Out[l] : b = <<l, i>> /\ Out[l][i] = n
          BY <3>1
        <4>3. PICK m \in DOMAIN Out[k] : a = <<k, m>> /\ Out[k][m] = n
          BY <4>1
        <4>4. PICK i \in DOMAIN Out[l] : b = <<l, i>> /\ Out[l][i] = n
          BY <4>2
        <4>5. /\ k \in DOMAIN Flow /\ m \in Nat /\ m - 1 \in DOMAIN Flow[k] /\ Flow[k][m - 1] = n
              /\ l \in DOMAIN Flow /\ i \in Nat /\ i - 1 \in DOMAIN Flow[l] /\ Flow[l][i - 1] = n
          BY <3>0, <3>2, <4>3, <4>4, PlacesStripped
        <4>6. k = l /\ m - 1 = i - 1
          BY <4>5 DEF Once, Unique
        <4>7. m = i
          BY <4>5, <4>6
        <4> QED
          BY <4>3, <4>4, <4>6, <4>7
      <3>6. Cardinality(P) = IF P = {} THEN 0 ELSE 1
        BY <3>5, AtMostOne
      <3>7. IF TooBig(n) \/ \E h \in Handler : InHand(h) /\ held[h] = n
            THEN P = {} ELSE Cardinality(P) = 1
        BY <3>3, <3>4, <3>6 DEF Once
      <3> QED
        BY <3>7 DEF P
    <2> QED
      BY <2>1, <2>2
  <1> QED
    BY <1>1, OnceInvariant, Invariance, PTL

\* What debulking makes of all that was sent and of the buffer only grows at its end,
\* by the packet of the handler that has the lock (bulk_pkt.c 100-110, and 154-161 of
\* bulk_buffer.c).
THEOREM PacketsRestored == Spec => DebulkRestores
  <1> DEFINE Grows == \/ Debulked' = Debulked
                      \/ \E h \in Handler : lock = h /\ Debulked' = Append(Debulked, held[h])
             Same == Debulked = Concatenation(Flow)
  <1>1. Inv /\ Same' /\ [Next]_vars => Grows
    <2> SUFFICES ASSUME Inv, Same', [Next]_vars
                 PROVE  Grows
      OBVIOUS
    <2>1. Debulked = Concatenation(Flow) /\ Debulked' = Concatenation(Flow')
      BY FlowIsOut
    <2>2. ASSUME NEW h \in Handler, Insert(h) PROVE Grows
      <3>1. Concatenation(Flow') = Append(Concatenation(Flow), held[h]) /\ lock = h
        BY <2>2, InsertFlow, TakesGains DEF Insert, Inv, Exclusion
      <3> QED
        BY <2>1, <3>1
    <2>3. CASE \A h \in Handler : ~Insert(h)
      BY <2>1, <2>3, OtherFlow, MovesKeeps
    <2> QED
      BY <2>2, <2>3
  <1>2. Inv => Same
    BY FlowIsOut
  <1> HIDE DEF Same
  <1>3. Inv /\ Same' /\ [Next]_vars => [Grows]_vars
    BY <1>1
  <1> QED
    BY <1>2, <1>3, Invariance, PTL DEF Spec, DebulkRestores
=============================================================================
