---------------------------- MODULE ServiceProofs ---------------------------
(***************************************************************************)
(* The flow tables give each key one flow, and the service uses them so,   *)
(* keeps the frame of each packet it works on and has each packet in one   *)
(* place: for any threads, consumers, keys, frames and arrivals.           *)
(***************************************************************************)
EXTENDS Service, CommonLemmas

(***************************************************************************)
(* The look-ups, which FlowTable specifies on their own.                   *)
(***************************************************************************)
Place == {"idle", "rdlock", "find", "wrlock", "again", "add", "unlock", "done"}

TableTypeOK ==
    /\ flows \in Seq([in : Nat, key : Hash])
    /\ readers \subseteq Thread /\ writer \in Thread \cup {NoThread}
    /\ at \in [Thread -> Place]
    /\ key \in [Thread -> Key]
    /\ level \in [Thread -> 1 .. Levels]
    /\ table \in [Thread -> Nat] /\ res \in [Thread -> Nat]

\* What rwlock keeps apart.
LockHeld ==
    /\ writer # NoThread => readers = {}
    /\ \A t \in Thread :
          /\ at[t] = "find" => t \in readers
          /\ t \in readers => at[t] \in {"find", "unlock"}
          /\ at[t] \in {"again", "add"} => writer = t
          /\ writer = t => at[t] \in {"again", "add", "unlock"}

\* What the second look-up found still holds when the flow is added.
StillMissing == \A t \in Thread : at[t] = "add" => Matches(t) = {}

Sought(t) == [in |-> table[t], key |-> key[t][level[t]]]

\* The result of a look-up is the flow that was sought.
FlowFound ==
    \A t \in Thread :
        /\ at[t] \in {"unlock", "done"} => res[t] \in DOMAIN flows /\ flows[res[t]] = Sought(t)
        /\ at[t] = "done" => level[t] = Levels

TableInv == TableTypeOK /\ LockHeld /\ StillMissing /\ FlowFound /\ OneFlowPerKey
-----------------------------------------------------------------------------
\* Two matches would be two flows with one key.
LEMMA FindReturns ==
    ASSUME TableTypeOK, OneFlowPerKey, NEW t \in Thread
    PROVE  /\ HASH_FIND(t) \in Nat
           /\ Matches(t) # {} =>
                  HASH_FIND(t) \in DOMAIN flows /\ flows[HASH_FIND(t)] = Sought(t)
  <1> DEFINE M == Matches(t)
  <1>1. M = {f \in DOMAIN flows : flows[f] = Sought(t)}
    BY DEF Matches, Sought
  <1>2. DOMAIN flows \subseteq Nat
    BY DEF TableTypeOK
  <1>3. CASE M = {}
    BY <1>3 DEF HASH_FIND
  <1>4. CASE M # {}
    <2>1. PICK f \in M : TRUE
      BY <1>4
    <2>2. \A g \in M : g = f
      BY <1>1 DEF OneFlowPerKey
    <2>3. \A g \in M : g <= f
      BY <2>2, <1>1, <1>2
    <2>4. HASH_FIND(t) \in M
      BY <1>4, <2>1, <2>3 DEF HASH_FIND
    <2> QED
      BY <2>4, <1>1, <1>2
  <1> QED
    BY <1>3, <1>4

LEMMA InitInv == InitTable => TableInv
  <1> SUFFICES ASSUME InitTable PROVE TableInv
    OBVIOUS
  <1> USE DEF InitTable
  <1>1. Key # {}
    <2>1. PICK h \in Hash : TRUE
      BY TableAssumption
    <2>2. [i \in 1 .. Levels |-> h] \in Key
      BY <2>1 DEF Key
    <2> QED
      BY <2>2
  <1>2. (CHOOSE k \in Key : TRUE) \in Key
    BY <1>1
  <1>3. TableTypeOK
    BY <1>2, TableAssumption DEF TableTypeOK, Place
  <1> QED
    BY <1>3, TableAssumption DEF TableInv, LockHeld, StillMissing, FlowFound, OneFlowPerKey

LEMMA CallStep ==
    ASSUME TableInv, NEW t \in Thread, NEW k \in Key, Call(t, k)
    PROVE  TableInv'
  <1> USE DEF TableInv, Call, Go
  <1>1. TableTypeOK'
    BY TableAssumption DEF TableTypeOK, Place
  <1>2. LockHeld'
    BY DEF TableTypeOK, LockHeld
  <1>3. \A u \in Thread : at'[u] # "rdlock" => at'[u] = at[u] /\ u # t /\ key'[u] = key[u]
                             /\ level'[u] = level[u] /\ table'[u] = table[u]
    BY DEF TableTypeOK
  <1>4. StillMissing'
    BY <1>3 DEF StillMissing, Matches
  <1>5. FlowFound'
    BY <1>3 DEF FlowFound, Sought
  <1> QED
    BY <1>1, <1>2, <1>4, <1>5 DEF OneFlowPerKey

LEMMA RdLockStep ==
    ASSUME TableInv, NEW t \in Thread, RdLock(t)
    PROVE  TableInv'
  <1> USE DEF TableInv, RdLock, Go
  <1>1. TableTypeOK'
    BY DEF TableTypeOK, Place
  <1>2. LockHeld'
    BY TableAssumption DEF TableTypeOK, LockHeld
  <1>3. StillMissing' /\ FlowFound'
    BY DEF TableTypeOK, StillMissing, Matches, FlowFound, Sought
  <1> QED
    BY <1>1, <1>2, <1>3 DEF OneFlowPerKey

LEMMA FindSharedStep ==
    ASSUME TableInv, NEW t \in Thread, FindShared(t)
    PROVE  TableInv'
  <1> USE DEF TableInv, FindShared, Go
  <1>0. HASH_FIND(t) \in Nat /\ (Matches(t) # {} =>
            HASH_FIND(t) \in DOMAIN flows /\ flows[HASH_FIND(t)] = Sought(t))
    BY FindReturns
  <1>1. TableTypeOK'
    BY <1>0 DEF TableTypeOK, Place
  <1>2. LockHeld'
    BY TableAssumption DEF TableTypeOK, LockHeld
  <1>3. StillMissing'
    BY DEF TableTypeOK, StillMissing, Matches
  <1>4. FlowFound'
    BY <1>0 DEF TableTypeOK, FlowFound, Sought
  <1> QED
    BY <1>1, <1>2, <1>3, <1>4 DEF OneFlowPerKey

LEMMA WrLockStep ==
    ASSUME TableInv, NEW t \in Thread, WrLock(t)
    PROVE  TableInv'
  <1> USE DEF TableInv, WrLock, Go
  <1>1. TableTypeOK'
    BY DEF TableTypeOK, Place
  <1>2. LockHeld'
    BY TableAssumption DEF TableTypeOK, LockHeld
  <1>3. StillMissing' /\ FlowFound'
    BY DEF TableTypeOK, StillMissing, Matches, FlowFound, Sought
  <1> QED
    BY <1>1, <1>2, <1>3 DEF OneFlowPerKey

LEMMA FindAgainStep ==
    ASSUME TableInv, NEW t \in Thread, FindAgain(t)
    PROVE  TableInv'
  <1> USE DEF TableInv, FindAgain, Go
  <1>0. HASH_FIND(t) \in Nat /\ (Matches(t) # {} =>
            HASH_FIND(t) \in DOMAIN flows /\ flows[HASH_FIND(t)] = Sought(t))
    BY FindReturns
  <1>1. TableTypeOK'
    BY <1>0 DEF TableTypeOK, Place
  <1>2. LockHeld'
    BY TableAssumption DEF TableTypeOK, LockHeld
  <1>3. StillMissing'
    BY DEF TableTypeOK, StillMissing, Matches
  <1>4. FlowFound'
    BY <1>0 DEF TableTypeOK, FlowFound, Sought
  <1> QED
    BY <1>1, <1>2, <1>3, <1>4 DEF OneFlowPerKey

LEMMA AddStep ==
    ASSUME TableInv, NEW t \in Thread, Add(t)
    PROVE  TableInv'
  <1> USE DEF TableInv, Add, Go
  <1> DEFINE n == Len(flows) + 1
  <1>1. Sought(t) \in [in : Nat, key : Hash]
    BY DEF Sought, TableTypeOK, Key
  <1>2. flows' = Append(flows, Sought(t)) /\ flows' \in Seq([in : Nat, key : Hash])
    BY <1>1 DEF Sought, TableTypeOK
  <1>3. DOMAIN flows' = DOMAIN flows \cup {n} /\ n \notin DOMAIN flows /\ n \in Nat
    BY <1>2 DEF TableTypeOK
  <1>4. flows'[n] = Sought(t) /\ \A f \in DOMAIN flows : flows'[f] = flows[f]
    BY <1>2 DEF TableTypeOK
  <1>5. TableTypeOK'
    BY <1>2, <1>3 DEF TableTypeOK, Place
  <1>6. LockHeld'
    BY TableAssumption DEF TableTypeOK, LockHeld
  <1>7. StillMissing'
    <2>1. \A u \in Thread : at'[u] # "add"
      BY TableAssumption DEF TableTypeOK, LockHeld
    <2> QED
      BY <2>1 DEF StillMissing
  <1>8. FlowFound'
    BY <1>3, <1>4 DEF TableTypeOK, FlowFound, Sought
  <1>9. OneFlowPerKey'
    <2>1. \A f \in DOMAIN flows : flows[f] # Sought(t)
      BY DEF StillMissing, Matches, Sought
    <2> QED
      BY <2>1, <1>3, <1>4 DEF OneFlowPerKey
  <1> QED
    BY <1>5, <1>6, <1>7, <1>8, <1>9

LEMMA UnlockStep ==
    ASSUME TableInv, NEW t \in Thread, Unlock(t)
    PROVE  TableInv'
  <1> USE DEF TableInv, Unlock, Go
  <1>1. TableTypeOK'
    <2>1. level' \in [Thread -> 1 .. Levels]
      BY TableAssumption DEF TableTypeOK
    <2>2. table' \in [Thread -> Nat] /\ at' \in [Thread -> Place]
      BY DEF TableTypeOK, Place
    <2> QED
      BY <2>1, <2>2 DEF TableTypeOK
  <1>2. LockHeld'
    BY TableAssumption DEF TableTypeOK, LockHeld
  <1>3. \A u \in Thread : u # t => at'[u] = at[u] /\ level'[u] = level[u] /\ table'[u] = table[u]
    BY DEF TableTypeOK
  <1>4. \/ at'[t] = "rdlock"
        \/ at'[t] = "done" /\ level'[t] = level[t] /\ level[t] = Levels /\ table'[t] = table[t]
    BY TableAssumption DEF TableTypeOK
  <1>5. StillMissing'
    BY <1>3, <1>4 DEF StillMissing, Matches
  <1>6. FlowFound'
    BY <1>3, <1>4 DEF FlowFound, Sought
  <1> QED
    BY <1>1, <1>2, <1>5, <1>6 DEF OneFlowPerKey

LEMMA ReturnStep ==
    ASSUME TableInv, NEW t \in Thread, Return(t)
    PROVE  TableInv'
  <1> USE DEF TableInv, Return, Go
  <1>1. TableTypeOK'
    BY DEF TableTypeOK, Place
  <1>2. LockHeld'
    BY TableAssumption DEF TableTypeOK, LockHeld
  <1>3. StillMissing' /\ FlowFound'
    BY DEF TableTypeOK, StillMissing, Matches, FlowFound, Sought
  <1> QED
    BY <1>1, <1>2, <1>3 DEF OneFlowPerKey

LEMMA TableStutter ==
    ASSUME TableInv, UNCHANGED tableVars
    PROVE  TableInv'
  BY DEF TableInv, tableVars, TableTypeOK, LockHeld, StillMissing, Matches, FlowFound, Sought,
         OneFlowPerKey

\* rwlock keeps a handler that adds a flow apart from all others, and what it looked
\* up again still holds.
THEOREM TableInvariance == SpecTable => []TableInv
  <1>1. TableInv /\ [NextTable]_tableVars => TableInv'
    <2> SUFFICES ASSUME TableInv, [NextTable]_tableVars PROVE TableInv'
      OBVIOUS
    <2>1. ASSUME NEW t \in Thread, LookUp(t) PROVE TableInv'
      BY <2>1, RdLockStep, FindSharedStep, WrLockStep, FindAgainStep, AddStep, UnlockStep
         DEF LookUp
    <2>2. ASSUME NEW t \in Thread, Return(t) PROVE TableInv'
      BY <2>2, ReturnStep
    <2>3. ASSUME NEW t \in Thread, NEW k \in Key, Call(t, k) PROVE TableInv'
      BY <2>3, CallStep
    <2> QED
      BY <2>1, <2>2, <2>3, TableStutter DEF NextTable
  <1> QED
    BY <1>1, InitInv, PTL DEF SpecTable

\* No two flows have one key in one table, whichever handlers look it up at the same
\* time (flow.c 48-62 and 89-115).
THEOREM TableUnique == SpecTable => []OneFlowPerKey
  <1>1. TableInv => OneFlowPerKey
    BY DEF TableInv
  <1> QED
    BY <1>1, TableInvariance, PTL

\* A look-up returns the flow of its own arguments, at the last level.
THEOREM TableReturns == SpecTable => []FlowReturned
  <1>1. TableInv => FlowReturned
    BY DEF TableInv, FlowFound, Sought, FlowReturned, OwnFlow
  <1> QED
    BY <1>1, TableInvariance, PTL
-----------------------------------------------------------------------------
(***************************************************************************)
(* The packets that are handed over, and their frames.                     *)
(***************************************************************************)
Item   == {"main"} \X Nat
Ring   == 0 .. Frames - 1
Status == {"unused", "valid", "lent"}
FrameContent == [packet : Nat, status : Status]

Steps  == {"wait", "service", "look up", "send", "create", "back", "outer", "inner", "next"}

ServiceTypeOK ==
    /\ arrived \in Seq(Key) /\ read \in 0 .. Len(arrived)
    /\ frame \in [Ring -> FrameContent]
    /\ step \in [Sender -> Steps]
    /\ sent \in [{"main"} -> Nat]
    /\ queue \in Seq(Item) /\ waiting \in Seq(Consumers)
    /\ got \in [Consumers -> Item \cup {NoItem}] /\ el \in [Consumers -> Item \cup {NoItem}]

Holds(fr, n, s) == fr[FrameOf(n)] = [packet |-> n, status |-> s]

\* The packets before this one are no longer in the queue.
Oldest == read - Len(queue)

\* Either main or the consumers run the service.
OneMode ==
    /\ n_threads \in Nat
    /\ n_threads = 0 => queue = <<>> /\ \A c \in Consumers : step[c] = "wait" /\ got[c] = NoItem
    /\ n_threads > 0 => step["main"] = "wait" /\ sent["main"] = read

\* The queue holds the last packets taken from the ring, in their order.
QueueInOrder ==
    /\ waiting # <<>> => queue = <<>>
    /\ \A k \in DOMAIN queue : queue[k] = <<"main", Oldest + k - 1>>
    /\ Len(queue) <= read

HasGot(c) == got[c] # NoItem
HasEl(c)  == step[c] # "wait"

\* Each packet assigned or obtained has left the queue, and is in one place.
OwnPackets ==
    /\ \A c \in Consumers : HasGot(c) => got[c] \in Item /\ got[c][2] < Oldest
    /\ \A c \in Consumers : HasEl(c) => el[c] \in Item /\ el[c][2] < Oldest
    /\ \A c, d \in Consumers : HasGot(c) /\ HasGot(d) /\ got[c][2] = got[d][2] => c = d
    /\ \A c, d \in Consumers : HasEl(c) /\ HasEl(d) /\ el[c][2] = el[d][2] => c = d
    /\ \A c, d \in Consumers : HasGot(c) /\ HasEl(d) => got[c][2] # el[d][2]

\* The frames of the packets in the ring, and of those handed over.
RingFrames ==
    /\ \A n \in read .. Len(arrived) - 1 : Holds(frame, n, "valid")
    /\ step["main"] # "wait" => read > 0 /\ Holds(frame, read - 1, "valid")

LentFrames ==
    /\ \A n \in Oldest .. read - 1 : Holds(frame, n, "lent")
    /\ \A c \in Consumers : HasGot(c) => Holds(frame, got[c][2], "lent")
    /\ \A c \in Consumers : HasEl(c) => Holds(frame, el[c][2], "lent")

ServiceInv ==
    ServiceTypeOK /\ OneMode /\ QueueInOrder /\ OwnPackets /\ RingFrames /\ LentFrames
-----------------------------------------------------------------------------
LEMMA FrameInRing == \A n \in Nat : FrameOf(n) \in Ring
  BY ServiceAssumption DEF FrameOf, Ring

LEMMA Threads ==
    /\ "main" \in Thread /\ "main" \in Sender /\ Consumers \subseteq Thread
    /\ Consumers \subseteq Sender /\ Thread \subseteq Sender /\ "timer" \in Sender
    /\ "main" \notin Consumers /\ "timer" \notin Thread
  BY ServiceAssumption DEF Sender

\* Frames that hold different packets are different frames.
LEMMA OtherFrame ==
    ASSUME NEW m \in Nat, NEW n \in Nat, NEW fr, NEW s, NEW u,
           Holds(fr, m, s), Holds(fr, n, u), m # n
    PROVE  FrameOf(m) # FrameOf(n)
  BY DEF Holds

\* The numbers of the packets that are on their way.
LEMMA PacketNumbers ==
    ASSUME ServiceInv
    PROVE  /\ Oldest \in Nat /\ Oldest <= read /\ read \in Nat
           /\ \A c \in Consumers : HasGot(c) => got[c][2] \in Nat
           /\ \A c \in Consumers : HasEl(c) => el[c][2] \in Nat
  <1> USE DEF ServiceInv
  <1>1. read \in Nat /\ Len(queue) \in Nat /\ Len(queue) <= read
    BY DEF ServiceTypeOK, QueueInOrder
  <1>2. \A i \in Item : i[2] \in Nat
    BY DEF Item
  <1> QED
    BY <1>1, <1>2 DEF OwnPackets, Oldest

LEMMA InitService == Init => ServiceInv
  <1> SUFFICES ASSUME Init PROVE ServiceInv
    OBVIOUS
  <1> USE Threads, ServiceAssumption DEF Init, Handoff!Init
  <1>1. ServiceTypeOK
    <2>1. frame \in [Ring -> FrameContent]
      BY DEF Ring, FrameContent, Status
    <2>2. arrived \in Seq(Key) /\ read \in 0 .. Len(arrived)
      OBVIOUS
    <2>3. step \in [Sender -> Steps] /\ sent \in [{"main"} -> Nat]
      BY DEF Steps
    <2> QED
      BY <2>1, <2>2, <2>3 DEF ServiceTypeOK
  <1>2. OneMode /\ QueueInOrder
    <2>1. n_threads \in Nat
      BY FS_CardinalityType
    <2> QED
      BY <2>1 DEF OneMode, QueueInOrder, Oldest
  <1>3. OwnPackets /\ RingFrames /\ LentFrames
    BY DEF OwnPackets, RingFrames, LentFrames, HasGot, HasEl, Oldest
  <1> QED
    BY <1>1, <1>2, <1>3 DEF ServiceInv

LEMMA ArriveStep ==
    ASSUME ServiceInv, NEW k \in Key, Arrive(k)
    PROVE  ServiceInv'
  <1> USE DEF ServiceInv, Arrive, handoffVars
  <1>0. PICK n \in Nat : n = Len(arrived)
    BY DEF ServiceTypeOK
  <1>1. FrameOf(n) \in Ring
    BY FrameInRing
  <1>2. arrived' \in Seq(Key) /\ Len(arrived') = n + 1
    BY <1>0 DEF ServiceTypeOK
  <1>3. frame' = [frame EXCEPT ![FrameOf(n)] = [packet |-> n, status |-> "valid"]]
    BY <1>0
  <1>4. ServiceTypeOK'
    <2>1. [packet |-> n, status |-> "valid"] \in FrameContent
      BY DEF FrameContent, Status
    <2>2. frame' \in [Ring -> FrameContent]
      BY <1>1, <1>3, <2>1 DEF ServiceTypeOK
    <2>3. read' \in 0 .. Len(arrived')
      BY <1>0, <1>2 DEF ServiceTypeOK
    <2> QED
      BY <1>2, <2>2, <2>3 DEF ServiceTypeOK
  <1>5. ASSUME NEW m \in Nat, NEW s, Holds(frame, m, s), s # "unused"
        PROVE  Holds(frame', m, s)
    <2>1. FrameOf(m) # FrameOf(n)
      BY <1>5, <1>0 DEF Holds
    <2> QED
      BY <2>1, <1>3, <1>5, FrameInRing DEF Holds, ServiceTypeOK
  <1>6. Holds(frame', n, "valid")
    BY <1>1, <1>3 DEF Holds, ServiceTypeOK
  <1>7. OneMode' /\ QueueInOrder' /\ OwnPackets'
    BY DEF OneMode, QueueInOrder, OwnPackets, HasGot, HasEl, Oldest
  <1>8. RingFrames'
    <2>1. \A m \in read' .. Len(arrived') - 1 : m = n \/ m \in read .. Len(arrived) - 1
      BY <1>0, <1>2 DEF ServiceTypeOK
    <2>2. \A m \in read .. Len(arrived) - 1 : m \in Nat
      BY DEF ServiceTypeOK
    <2>3. read > 0 => read - 1 \in Nat
      BY DEF ServiceTypeOK
    <2> QED
      BY <2>1, <2>2, <2>3, <1>5, <1>6 DEF RingFrames
  <1>9. LentFrames'
    <2>1. \A m \in Oldest .. read - 1 : m \in Nat
      BY PacketNumbers
    <2>2. Oldest' = Oldest /\ \A c \in Consumers : HasGot(c)' = HasGot(c) /\ HasEl(c)' = HasEl(c)
      BY DEF Oldest, HasGot, HasEl
    <2> QED
      BY <2>1, <2>2, <1>5, PacketNumbers DEF LentFrames
  <1> QED
    BY <1>4, <1>7, <1>8, <1>9

LEMMA CallBackStep ==
    ASSUME ServiceInv, CallBack
    PROVE  ServiceInv'
  <1> USE DEF ServiceInv, CallBack, Step, Ready, handoffVars
  <1>0. step'["main"] # "wait" /\ \A c \in Consumers : step'[c] = "wait" /\ ~HasGot(c)
    BY Threads DEF ServiceTypeOK, OneMode, HasGot
  <1>1. read \in Nat /\ read' = read + 1 /\ Holds(frame, read, "valid")
    BY DEF ServiceTypeOK, RingFrames
  <1>2. ServiceTypeOK'
    <2>1. step' \in [Sender -> Steps]
      BY DEF ServiceTypeOK, Steps
    <2> QED
      BY <2>1, <1>1 DEF ServiceTypeOK
  <1>3. OneMode'
    BY <1>0 DEF OneMode, HasGot
  <1>4. QueueInOrder' /\ OwnPackets' /\ LentFrames'
    BY <1>0, <1>1 DEF OneMode, QueueInOrder, OwnPackets, LentFrames, HasGot, HasEl, Oldest
  <1>5. RingFrames'
    BY <1>0, <1>1 DEF RingFrames, ServiceTypeOK
  <1> QED
    BY <1>2, <1>3, <1>4, <1>5

\* What a step to or from a frame leaves alone.
LEMMA FrameSet ==
    ASSUME ServiceTypeOK, NEW n \in Nat, NEW s \in Status, Holds(frame, n, "valid") \/ Holds(frame, n, "lent"),
           frame' = [frame EXCEPT ![FrameOf(n)].status = s]
    PROVE  /\ frame' \in [Ring -> FrameContent]
           /\ Holds(frame', n, s)
           /\ \A m \in Nat, u \in Status : m # n /\ Holds(frame, m, u) => Holds(frame', m, u)
  <1>1. FrameOf(n) \in Ring /\ frame[FrameOf(n)] \in FrameContent /\ frame[FrameOf(n)].packet = n
    BY FrameInRing DEF Holds, ServiceTypeOK
  <1>2. [frame[FrameOf(n)] EXCEPT !.status = s] = [packet |-> n, status |-> s]
    BY <1>1 DEF FrameContent
  <1>3. frame' = [frame EXCEPT ![FrameOf(n)] = [packet |-> n, status |-> s]]
    BY <1>2
  <1>4. [packet |-> n, status |-> s] \in FrameContent
    BY DEF FrameContent
  <1>5. frame' \in [Ring -> FrameContent] /\ Holds(frame', n, s)
    BY <1>1, <1>3, <1>4 DEF ServiceTypeOK, Holds
  <1>6. ASSUME NEW m \in Nat, NEW u \in Status, m # n, Holds(frame, m, u)
        PROVE  Holds(frame', m, u)
    <2>1. FrameOf(m) # FrameOf(n)
      BY <1>1, <1>6 DEF Holds
    <2> QED
      BY <2>1, <1>3, <1>6, FrameInRing DEF Holds, ServiceTypeOK
  <1> QED
    BY <1>5, <1>6

LEMMA ProduceStep ==
    ASSUME ServiceInv, Produce
    PROVE  ServiceInv'
  <1> USE DEF ServiceInv, Produce, Ready
  <1>0. PICK n \in Nat : n = read
    BY DEF ServiceTypeOK
  <1>1. /\ read' = n + 1 /\ n < Len(arrived) /\ Holds(frame, n, "valid")
        /\ frame' = [frame EXCEPT ![FrameOf(n)].status = "lent"]
        /\ sent["main"] = n /\ sent'["main"] = n + 1 /\ sent' \in [{"main"} -> Nat]
    <2>1. read' = n + 1 /\ n < Len(arrived)
          /\ frame' = [frame EXCEPT ![FrameOf(n)].status = "lent"]
      BY <1>0 DEF ServiceTypeOK
    <2>2. Holds(frame, n, "valid")
      BY <1>0, <2>1 DEF ServiceTypeOK, RingFrames
    <2>3. sent["main"] = n /\ sent \in [{"main"} -> Nat]
      BY <1>0 DEF OneMode, ServiceTypeOK
    <2>4. sent' = [sent EXCEPT !["main"] = @ + 1]
      BY DEF Handoff!PutQueued, Handoff!PutServed
    <2>5. sent'["main"] = n + 1 /\ sent' \in [{"main"} -> Nat]
      BY <1>0, <2>3, <2>4
    <2> QED
      BY <2>1, <2>2, <2>3, <2>5
  <1>2. /\ frame' \in [Ring -> FrameContent] /\ Holds(frame', n, "lent")
        /\ \A m \in Nat, u \in Status : m # n /\ Holds(frame, m, u) => Holds(frame', m, u)
    BY <1>1, FrameSet DEF Status
  <1>3. <<"main", n>> \in Item
    BY DEF Item
  <1>4. OneMode' /\ RingFrames'
    <2>1. \A m \in read' .. Len(arrived) - 1 : m \in Nat /\ m # n /\ m \in read .. Len(arrived) - 1
      BY <1>0, <1>1 DEF ServiceTypeOK
    <2>2. step["main"] = "wait"
      BY DEF OneMode
    <2>3. RingFrames'
      BY <2>1, <2>2, <1>2 DEF RingFrames, Status
    <2> QED
      BY <2>3, <1>0, <1>1 DEF OneMode
  <1>5. CASE Handoff!PutQueued("main")
    <2> USE <1>5 DEF Handoff!PutQueued
    <2>1. queue' = Append(queue, <<"main", n>>) /\ queue' \in Seq(Item) /\ Len(queue') = Len(queue) + 1
      BY <1>0, <1>1, <1>3 DEF ServiceTypeOK
    <2>2. ServiceTypeOK'
      BY <2>1, <1>0, <1>1, <1>2 DEF ServiceTypeOK
    <2>3. Oldest' = Oldest
      BY <2>1, <1>0, <1>1 DEF Oldest, ServiceTypeOK
    <2>4. QueueInOrder'
      <3>1. \A k \in DOMAIN queue : queue'[k] = queue[k]
        BY <2>1 DEF ServiceTypeOK
      <3>2. DOMAIN queue' = DOMAIN queue \cup {Len(queue) + 1} /\ queue'[Len(queue) + 1] = <<"main", n>>
        BY <2>1 DEF ServiceTypeOK
      <3>3. n = Oldest + (Len(queue) + 1) - 1 /\ Len(queue') <= read'
        BY <2>1, <1>0, <1>1 DEF Oldest, ServiceTypeOK, QueueInOrder
      <3> QED
        BY <3>1, <3>2, <3>3, <2>3 DEF QueueInOrder
    <2>5. OwnPackets'
      BY <2>3 DEF OwnPackets, HasGot, HasEl
    <2>6. LentFrames'
      <3>1. \A m \in Oldest .. read' - 1 : m = n \/ (m \in Oldest .. read - 1 /\ m \in Nat /\ m # n)
        BY <1>0, <1>1, PacketNumbers
      <3>2. \A c \in Consumers : HasGot(c) => got[c][2] # n
        BY <1>0, PacketNumbers DEF OwnPackets
      <3>3. \A c \in Consumers : HasEl(c) => el[c][2] # n
        BY <1>0, PacketNumbers DEF OwnPackets
      <3> QED
        BY <3>1, <3>2, <3>3, <2>3, <1>2, PacketNumbers DEF LentFrames, HasGot, HasEl, Status
    <2> QED
      BY <1>4, <2>2, <2>4, <2>5, <2>6
  <1>6. CASE Handoff!PutServed("main")
    <2> USE <1>6 DEF Handoff!PutServed
    <2>1. PICK d \in Consumers : d = Head(waiting)
      BY DEF ServiceTypeOK
    <2>2. got' = [got EXCEPT ![d] = <<"main", n>>] /\ queue = <<>> /\ queue' = queue
      BY <2>1, <1>0, <1>1 DEF QueueInOrder
    <2>3. ServiceTypeOK'
      <3>1. got' \in [Consumers -> Item \cup {NoItem}]
        BY <2>2, <1>3 DEF ServiceTypeOK
      <3>2. waiting' \in Seq(Consumers)
        BY DEF ServiceTypeOK
      <3> QED
        BY <3>1, <3>2, <2>2, <1>0, <1>1, <1>2 DEF ServiceTypeOK
    <2>4. Oldest = n /\ Oldest' = n + 1
      BY <2>2, <1>0, <1>1 DEF Oldest
    <2>5. QueueInOrder'
      BY <2>2, <1>1 DEF QueueInOrder
    <2> HIDE DEF ServiceInv, Produce, Ready, Handoff!PutServed
    <2>6. /\ got'[d] = <<"main", n>> /\ got'[d][2] = n
          /\ \A c \in Consumers : c # d => got'[c] = got[c]
      <3>1. got \in [Consumers -> Item \cup {NoItem}]
        BY DEF ServiceInv, ServiceTypeOK
      <3> QED
        BY <3>1, <2>1, <2>2
    <2>7. /\ \A c \in Consumers : HasGot(c) => got[c][2] < n /\ got[c][2] \in Nat
          /\ \A c \in Consumers : HasEl(c) => el[c][2] < n /\ el[c][2] \in Nat
      BY <2>4, PacketNumbers DEF OwnPackets, ServiceInv
    <2>8. \A c \in Consumers :
              /\ c # d => got'[c] = got[c]
              /\ step'[c] = step[c] /\ el'[c] = el[c]
      BY <2>6 DEF HasGot, HasEl, Produce, Handoff!PutServed
    <2>9. \A c \in Consumers : got'[c] # NoItem => got'[c] \in Item /\ got'[c][2] < Oldest'
      BY <2>4, <2>6, <2>7, <2>8, <1>3 DEF OwnPackets, ServiceInv, HasGot, HasEl
    <2>10. \A c \in Consumers : step'[c] # "wait" => el'[c] \in Item /\ el'[c][2] < Oldest'
      BY <2>4, <2>7, <2>8 DEF OwnPackets, ServiceInv, HasGot, HasEl
    <2>11. \A c, e \in Consumers : got'[c] # NoItem /\ got'[e] # NoItem /\ got'[c][2] = got'[e][2] => c = e
      BY <2>6, <2>7, <2>8 DEF OwnPackets, ServiceInv, HasGot, HasEl
    <2>12. \A c, e \in Consumers : got'[c] # NoItem /\ step'[e] # "wait" => got'[c][2] # el'[e][2]
      BY <2>6, <2>7, <2>8 DEF OwnPackets, ServiceInv, HasGot, HasEl
    <2>13. OwnPackets'
      BY <2>8, <2>9, <2>10, <2>11, <2>12 DEF OwnPackets, ServiceInv, HasGot, HasEl
    <2>14. LentFrames'
      <3>1. \A m \in Oldest' .. read' - 1 : FALSE
        BY <2>4, <1>1
      <3>2. \A c \in Consumers : got'[c] # NoItem => Holds(frame', got'[c][2], "lent")
        BY <2>6, <2>7, <2>8, <1>2 DEF LentFrames, Status, ServiceInv, HasGot, HasEl
      <3>3. \A c \in Consumers : step'[c] # "wait" => Holds(frame', el'[c][2], "lent")
        BY <2>7, <2>8, <1>2 DEF LentFrames, Status, ServiceInv, HasGot, HasEl
      <3> QED
        BY <3>1, <3>2, <3>3 DEF LentFrames, HasGot, HasEl
    <2> QED
      BY <1>4, <2>3, <2>5, <2>13, <2>14 DEF ServiceInv
  <1> QED
    BY <1>5, <1>6

LEMMA AskStep ==
    ASSUME ServiceInv, NEW c \in Consumers, Ask(c)
    PROVE  ServiceInv'
  <1>1. ServiceTypeOK /\ got \in [Consumers -> Item \cup {NoItem}]
    BY DEF ServiceInv, ServiceTypeOK
  <1>2. CASE Handoff!AskServed(c)
    <2> USE DEF Ask, Handoff!AskServed
    <2>1. PICK n \in Nat : n = Oldest
      BY PacketNumbers
    <2>2. /\ queue # <<>> /\ queue \in Seq(Item) /\ Head(queue) = queue[1] /\ Len(queue) > 0
          /\ Len(queue) \in Nat
      BY <1>2, <1>1 DEF ServiceTypeOK
    <2>3. /\ queue' = Tail(queue) /\ queue' \in Seq(Item) /\ Len(queue') = Len(queue) - 1
          /\ \A k \in DOMAIN queue' : k + 1 \in DOMAIN queue /\ queue'[k] = queue[k + 1] /\ k \in Nat
      BY <1>2, <2>2
    <2>4. Head(queue) = <<"main", n>> /\ Head(queue) \in Item
      BY <2>1, <2>2 DEF ServiceInv, QueueInOrder, Item
    <2>5. got' = [got EXCEPT ![c] = <<"main", n>>]
      BY <1>2, <2>4
    <2>6. read' = read /\ frame' = frame /\ step' = step /\ el' = el /\ waiting' = waiting /\ got[c] = NoItem
      BY <1>2
    <2>7. /\ got'[c] = <<"main", n>> /\ got'[c][2] = n
          /\ \A d \in Consumers : d # c => got'[d] = got[d]
      BY <1>1, <2>5
    <2>8. ServiceTypeOK'
      <3>1. got' \in [Consumers -> Item \cup {NoItem}]
        BY <1>1, <2>4, <2>5
      <3> QED
        BY <1>1, <1>2, <2>3, <3>1 DEF ServiceTypeOK
    <2>9. Oldest' = n + 1 /\ n < read
      BY <2>1, <2>2, <2>3, <2>6, PacketNumbers DEF Oldest
    <2>10. OneMode'
      <3>1. n_threads # 0
        BY <2>2 DEF ServiceInv, OneMode
      <3> QED
        BY <3>1, <1>2 DEF ServiceInv, OneMode
    <2>11. QueueInOrder'
      <3>1. waiting' = <<>>
        BY <2>2, <2>6 DEF ServiceInv, QueueInOrder
      <3>2. \A k \in DOMAIN queue' : queue'[k] = <<"main", Oldest' + k - 1>>
        BY <2>1, <2>3, <2>9 DEF ServiceInv, QueueInOrder
      <3>3. Len(queue') <= read'
        BY <2>2, <2>3, <2>6, PacketNumbers DEF ServiceInv, QueueInOrder
      <3> QED
        BY <3>1, <3>2, <3>3 DEF QueueInOrder
    <2>12. /\ \A d \in Consumers : HasGot(d) => got[d][2] < n /\ got[d][2] \in Nat
           /\ \A d \in Consumers : HasEl(d) => el[d][2] < n /\ el[d][2] \in Nat
      BY <2>1, PacketNumbers DEF ServiceInv, OwnPackets
    <2>13. OwnPackets'
      <3>1. \A d \in Consumers : got'[d] # NoItem => got'[d] \in Item /\ got'[d][2] < Oldest'
        BY <2>4, <2>7, <2>9, <2>12 DEF ServiceInv, OwnPackets, HasGot
      <3>2. \A d \in Consumers : step'[d] # "wait" => el'[d] \in Item /\ el'[d][2] < Oldest'
        BY <2>6, <2>9, <2>12 DEF ServiceInv, OwnPackets, HasEl
      <3>3. \A d, e \in Consumers : got'[d] # NoItem /\ got'[e] # NoItem /\ got'[d][2] = got'[e][2] => d = e
        BY <2>7, <2>12 DEF ServiceInv, OwnPackets, HasGot
      <3>4. \A d, e \in Consumers : got'[d] # NoItem /\ step'[e] # "wait" => got'[d][2] # el'[e][2]
        BY <2>6, <2>7, <2>12 DEF ServiceInv, OwnPackets, HasGot, HasEl
      <3> QED
        BY <2>6, <3>1, <3>2, <3>3, <3>4 DEF ServiceInv, OwnPackets, HasGot, HasEl
    <2>14. LentFrames'
      <3>1. \A m \in Oldest' .. read' - 1 : m \in Oldest .. read - 1
        BY <2>1, <2>6, <2>9, PacketNumbers
      <3>2. n \in Oldest .. read - 1
        BY <2>1, <2>9, PacketNumbers
      <3> QED
        BY <2>6, <2>7, <3>1, <3>2 DEF ServiceInv, LentFrames, HasGot, HasEl
    <2>15. RingFrames'
      BY <1>2 DEF ServiceInv, RingFrames
    <2> QED
      BY <2>8, <2>10, <2>11, <2>13, <2>14, <2>15 DEF ServiceInv
  <1>3. CASE Handoff!AskWaits(c)
    <2> USE DEF Ask, Handoff!AskWaits
    <2>1. ServiceTypeOK'
      <3>1. waiting' \in Seq(Consumers)
        BY <1>1, <1>3 DEF ServiceTypeOK
      <3> QED
        BY <1>1, <1>3, <3>1 DEF ServiceTypeOK
    <2>2. OneMode' /\ QueueInOrder' /\ RingFrames'
      BY <1>3 DEF ServiceInv, OneMode, QueueInOrder, RingFrames, Oldest
    <2>3. OwnPackets' /\ LentFrames'
      BY <1>3 DEF ServiceInv, OwnPackets, LentFrames, HasGot, HasEl, Oldest
    <2> QED
      BY <2>1, <2>2, <2>3 DEF ServiceInv
  <1> QED
    BY <1>2, <1>3 DEF Ask

LEMMA ObtainStep ==
    ASSUME ServiceInv, NEW c \in Consumers, Obtain(c)
    PROVE  ServiceInv'
  <1>1. /\ ServiceTypeOK /\ step \in [Sender -> Steps] /\ c \in Sender
        /\ got \in [Consumers -> Item \cup {NoItem}] /\ el \in [Consumers -> Item \cup {NoItem}]
    BY Threads DEF ServiceInv, ServiceTypeOK
  <1>2. /\ UNCHANGED <<arrived, read, frame, sent, queue, waiting, n_threads>>
        /\ got[c] # NoItem /\ step[c] = "wait" /\ step' = [step EXCEPT ![c] = "service"]
        /\ el' = [el EXCEPT ![c] = got[c]] /\ got' = [got EXCEPT ![c] = NoItem]
    BY DEF Obtain, Step, Handoff!Finish
  <1>3. /\ got'[c] = NoItem /\ el'[c] = got[c] /\ step'[c] = "service" /\ step'["main"] = step["main"]
        /\ \A d \in Consumers : d # c => got'[d] = got[d] /\ el'[d] = el[d] /\ step'[d] = step[d]
    BY <1>1, <1>2, Threads
  <1>4. ServiceTypeOK'
    <2>1. step' \in [Sender -> Steps]
      BY <1>1, <1>2 DEF Steps
    <2>2. got' \in [Consumers -> Item \cup {NoItem}] /\ el' \in [Consumers -> Item \cup {NoItem}]
      BY <1>1, <1>2
    <2> QED
      BY <1>1, <1>2, <2>1, <2>2 DEF ServiceTypeOK
  <1>5. OneMode' /\ QueueInOrder' /\ RingFrames'
    BY <1>2, <1>3 DEF ServiceInv, OneMode, QueueInOrder, RingFrames, Oldest
  <1>6. OwnPackets'
    <2>1. Oldest' = Oldest
      BY <1>2 DEF Oldest
    <2>2. \A d \in Consumers : got'[d] # NoItem => got'[d] \in Item /\ got'[d][2] < Oldest'
      BY <1>3, <2>1 DEF ServiceInv, OwnPackets, HasGot
    <2>3. \A d \in Consumers : step'[d] # "wait" => el'[d] \in Item /\ el'[d][2] < Oldest'
      BY <1>2, <1>3, <2>1 DEF ServiceInv, OwnPackets, HasGot, HasEl
    <2>4. \A d, e \in Consumers : step'[d] # "wait" /\ step'[e] # "wait" /\ el'[d][2] = el'[e][2] => d = e
      BY <1>2, <1>3 DEF ServiceInv, OwnPackets, HasGot, HasEl
    <2>5. \A d, e \in Consumers : got'[d] # NoItem /\ step'[e] # "wait" => got'[d][2] # el'[e][2]
      BY <1>2, <1>3 DEF ServiceInv, OwnPackets, HasGot, HasEl
    <2> QED
      BY <1>3, <2>2, <2>3, <2>4, <2>5 DEF ServiceInv, OwnPackets, HasGot, HasEl
  <1>7. LentFrames'
    BY <1>2, <1>3 DEF ServiceInv, LentFrames, HasGot, HasEl, Oldest
  <1> QED
    BY <1>4, <1>5, <1>6, <1>7 DEF ServiceInv

\* What a thread that works has in its hands.
LEMMA HeldFrame ==
    ASSUME ServiceInv, NEW t \in Thread, step[t] # "wait"
    PROVE  /\ Held(t) \in Nat /\ Held(t) < read
           /\ Holds(frame, Held(t), IF t = "main" THEN "valid" ELSE "lent")
  <1>1. CASE t = "main"
    BY <1>1, PacketNumbers DEF ServiceInv, RingFrames, Held
  <1>2. CASE t # "main"
    <2>1. t \in Consumers
      BY <1>2, ServiceAssumption
    <2> QED
      BY <1>2, <2>1, PacketNumbers DEF ServiceInv, OwnPackets, LentFrames, HasEl, Held
  <1> QED
    BY <1>1, <1>2

LEMMA GiveBackStep ==
    ASSUME ServiceInv, NEW t \in Thread, GiveBack(t)
    PROVE  ServiceInv'
  <1>1. ServiceTypeOK /\ step \in [Sender -> Steps] /\ t \in Sender
    BY Threads DEF ServiceInv, ServiceTypeOK
  <1>2. /\ UNCHANGED <<arrived, read, sent, queue, waiting, got, el, n_threads>>
        /\ step[t] = "back" /\ step' = [step EXCEPT ![t] = "wait"]
        /\ frame' = [frame EXCEPT ![FrameOf(Held(t))].status = "unused"]
    BY DEF GiveBack, Step, handoffVars
  <1>3. PICK n \in Nat : n = Held(t)
    BY <1>2, HeldFrame
  <1>4. n < read /\ Holds(frame, n, IF t = "main" THEN "valid" ELSE "lent")
    BY <1>2, <1>3, HeldFrame
  <1>5. /\ frame' \in [Ring -> FrameContent]
        /\ \A m \in Nat, u \in Status : m # n /\ Holds(frame, m, u) => Holds(frame', m, u)
    BY <1>1, <1>2, <1>3, <1>4, FrameSet DEF Status
  <1>6. /\ step' \in [Sender -> Steps] /\ step'[t] = "wait"
        /\ \A s \in Sender : s # t => step'[s] = step[s]
    BY <1>1, <1>2 DEF Steps
  <1>7. ServiceTypeOK'
    BY <1>1, <1>2, <1>5, <1>6 DEF ServiceTypeOK
  <1>8. OneMode' /\ QueueInOrder'
    BY <1>2, <1>6, Threads DEF ServiceInv, OneMode, QueueInOrder, Oldest
  <1>9. OwnPackets'
    BY <1>2, <1>6, Threads DEF ServiceInv, OwnPackets, HasGot, HasEl, Oldest
  <1>10. \A m \in read .. Len(arrived) - 1 : Holds(frame', m, "valid")
    <2>1. \A m \in read .. Len(arrived) - 1 : m \in Nat /\ m # n
      BY <1>4, PacketNumbers
    <2> QED
      BY <2>1, <1>5 DEF ServiceInv, RingFrames, Status
  <1>11. CASE t = "main"
    <2>1. n_threads = 0
      BY <1>2, <1>11 DEF ServiceInv, OneMode
    <2>2. Oldest = read /\ \A c \in Consumers : ~HasGot(c) /\ ~HasEl(c)
      BY <2>1, PacketNumbers DEF ServiceInv, OneMode, HasGot, HasEl, Oldest
    <2>3. \A m \in Oldest .. read - 1 : FALSE
      BY <2>2, PacketNumbers
    <2>4. LentFrames'
      BY <2>2, <2>3, <1>2, <1>6, <1>11, Threads DEF LentFrames, HasGot, HasEl, Oldest
    <2>5. RingFrames'
      BY <1>2, <1>6, <1>10, <1>11 DEF RingFrames
    <2> QED
      BY <1>7, <1>8, <1>9, <2>4, <2>5 DEF ServiceInv
  <1>12. CASE t # "main"
    <2>1. t \in Consumers /\ n = el[t][2] /\ step[t] # "wait"
      BY <1>2, <1>3, <1>12, ServiceAssumption DEF Held
    <2>2. step["main"] = "wait" /\ step'["main"] = "wait"
      BY <2>1, <1>6, <1>12, Threads DEF ServiceInv, OneMode
    <2>3. RingFrames'
      BY <2>2, <1>2, <1>10 DEF RingFrames
    <2>4. n < Oldest
      BY <2>1 DEF ServiceInv, OwnPackets, HasEl
    <2>5. \A m \in Oldest .. read - 1 : m \in Nat /\ m # n
      BY <2>4, PacketNumbers
    <2>6. \A c \in Consumers : got[c] # NoItem => got[c][2] \in Nat /\ got[c][2] # n
      BY <2>1, PacketNumbers DEF ServiceInv, OwnPackets, HasGot, HasEl
    <2>7. \A c \in Consumers : step'[c] # "wait" =>
              step[c] # "wait" /\ el[c][2] \in Nat /\ el[c][2] # n
      BY <2>1, <1>6, PacketNumbers, Threads DEF ServiceInv, OwnPackets, HasEl
    <2>8. LentFrames'
      BY <2>5, <2>6, <2>7, <1>2, <1>5 DEF ServiceInv, LentFrames, HasGot, HasEl, Oldest, Status
    <2> QED
      BY <1>7, <1>8, <1>9, <2>3, <2>8 DEF ServiceInv
  <1> QED
    BY <1>11, <1>12

\* The steps within a service leave the ring and the hand-off alone.
Internal ==
    /\ UNCHANGED keep
    /\ step' \in [Sender -> Steps]
    /\ \A t \in Thread : (step'[t] = "wait") <=> (step[t] = "wait")

LEMMA StepWithin ==
    ASSUME ServiceTypeOK, NEW s \in Sender, NEW from \in Steps, NEW to \in Steps, Step(s, from, to),
           UNCHANGED keep, s \in Thread => from # "wait" /\ to # "wait"
    PROVE  Internal
  <1>1. step \in [Sender -> Steps]
    BY DEF ServiceTypeOK
  <1> QED
    BY <1>1, Threads DEF Step, Internal

LEMMA HandleWithin ==
    ASSUME ServiceTypeOK, NEW t \in Thread,
           FindFlow(t) \/ Forward(t) \/ Lookup(t) \/ Insert(t) \/ Output(t)
    PROVE  Internal
  <1>1. t \in Sender /\ t # "timer" /\ step \in [Sender -> Steps]
    BY Threads DEF ServiceTypeOK
  <1>2. CASE FindFlow(t)
    BY <1>1, <1>2, StepWithin DEF FindFlow, Steps
  <1>3. CASE Forward(t)
    BY <1>1, <1>3, StepWithin DEF Forward, Steps
  <1>4. CASE Lookup(t)
    BY <1>1, <1>4 DEF Lookup, Internal
  <1>5. CASE Insert(t)
    <2>1. UNCHANGED keep /\ (Step(t, "look up", "back") \/ Step(t, "look up", "send"))
      BY <1>5 DEF Insert
    <2> QED
      BY <1>1, <2>1, StepWithin DEF Steps
  <1>6. CASE Output(t)
    <2>1. UNCHANGED keep /\ (Step(t, "send", "create") \/ Step(t, "create", "back"))
      BY <1>1, <1>6 DEF Output, LockSocket, Send, NoFrame, After
    <2> QED
      BY <1>1, <2>1, StepWithin DEF Steps
  <1> QED
    BY <1>2, <1>3, <1>4, <1>5, <1>6

LEMMA TimerWithin ==
    ASSUME ServiceTypeOK, tcp_timedout_2
    PROVE  Internal
  <1>1. "timer" \in Sender /\ "timer" \notin Thread /\ step \in [Sender -> Steps]
    BY Threads DEF ServiceTypeOK
  <1> USE DEF walkKeep
  <1>2. CASE Wake
    BY <1>1, <1>2, StepWithin DEF Wake, Steps
  <1>3. CASE Enter
    <2>1. UNCHANGED keep /\ (Step("timer", "outer", "wait") \/ Step("timer", "outer", "inner"))
      BY <1>3 DEF Enter
    <2> QED
      BY <1>1, <2>1, StepWithin DEF Steps
  <1>4. CASE Leave
    BY <1>1, <1>4, StepWithin DEF Leave, Steps
  <1>5. CASE VisitYoung
    BY <1>1, <1>5 DEF VisitYoung, Internal
  <1>6. CASE VisitOld
    BY <1>1, <1>6, StepWithin DEF VisitOld, Steps
  <1>7. CASE Advance
    BY <1>1, <1>7, StepWithin DEF Advance, Steps
  <1>8. CASE Output("timer")
    <2>1. UNCHANGED keep /\ (Step("timer", "send", "create") \/ Step("timer", "create", "next"))
      BY <1>8 DEF Output, LockSocket, Send, NoFrame, After
    <2> QED
      BY <1>1, <2>1, StepWithin DEF Steps
  <1> QED
    BY <1>2, <1>3, <1>4, <1>5, <1>6, <1>7, <1>8 DEF tcp_timedout_2

LEMMA InternalStep ==
    ASSUME ServiceInv, Internal
    PROVE  ServiceInv'
  <1>1. UNCHANGED <<arrived, frame, read, sent, queue, waiting, got, el, n_threads>>
    BY DEF Internal, keep, handoffVars
  <1>2. /\ step' \in [Sender -> Steps]
        /\ \A t \in Thread : (step'[t] = "wait") <=> (step[t] = "wait")
    BY DEF Internal
  <1>3. ServiceTypeOK'
    BY <1>1, <1>2 DEF ServiceInv, ServiceTypeOK
  <1>4. OneMode' /\ QueueInOrder' /\ RingFrames'
    BY <1>1, <1>2, Threads DEF ServiceInv, OneMode, QueueInOrder, RingFrames, Oldest
  <1>5. OwnPackets' /\ LentFrames'
    BY <1>1, <1>2, Threads DEF ServiceInv, OwnPackets, LentFrames, HasGot, HasEl, Oldest
  <1> QED
    BY <1>3, <1>4, <1>5 DEF ServiceInv

LEMMA ServiceStutter ==
    ASSUME ServiceInv, UNCHANGED vars
    PROVE  ServiceInv'
  <1>1. UNCHANGED keep /\ step' = step
    BY DEF vars, keep
  <1>2. Internal
    BY <1>1 DEF Internal, ServiceInv, ServiceTypeOK
  <1> QED
    BY <1>2, InternalStep

\* Each packet between the ring and the end of its service is in one hand, and its
\* frame is lent to it.
THEOREM ServiceInvariance == Spec => []ServiceInv
  <1>1. ServiceInv /\ [Next]_vars => ServiceInv'
    <2> SUFFICES ASSUME ServiceInv, [Next]_vars PROVE ServiceInv'
      OBVIOUS
    <2>1. ASSUME NEW t \in Thread, handle(t) PROVE ServiceInv'
      BY <2>1, HandleWithin, InternalStep, GiveBackStep DEF handle, ServiceInv
    <2>2. CASE tcp_timedout_2
      BY <2>2, TimerWithin, InternalStep DEF ServiceInv
    <2> QED
      BY <2>1, <2>2, ArriveStep, ProduceStep, CallBackStep, AskStep, ObtainStep, ServiceStutter
         DEF Next
  <1> QED
    BY <1>1, InitService, PTL DEF Spec

\* While a service works on a packet its frame still holds that packet, for any number
\* of consumers and frames: a frame is lent until the consumer that has its packet
\* gives it back.
THEOREM FramesKept == Spec => []FrameKept
  <1>1. ServiceInv => FrameKept
    <2> SUFFICES ASSUME ServiceInv, NEW t \in Thread, step[t] # "wait"
                 PROVE  frame[FrameOf(Held(t))].packet = Held(t)
      BY DEF FrameKept
    <2>1. PICK s \in Status : Holds(frame, Held(t), s)
      BY HeldFrame DEF Status
    <2> QED
      BY <2>1 DEF Holds
  <1> QED
    BY <1>1, ServiceInvariance, PTL

\* A service uses the tables as FlowTable says: each step is a step of a look-up with
\* the key of the packet in hand, or leaves the tables alone.
THEOREM UsesTables == Spec => SpecTable
  <1>1. Init => InitTable
    BY DEF Init
  <1>2. ServiceInv /\ [Next]_vars => [NextTable]_tableVars
    <2> SUFFICES ASSUME ServiceInv, [Next]_vars PROVE [NextTable]_tableVars
      OBVIOUS
    <2>1. ASSUME NEW t \in Thread, handle(t) PROVE [NextTable]_tableVars
      <3>1. CASE FindFlow(t)
        <4>1. Held(t) \in Nat /\ Held(t) < read
          BY <3>1, HeldFrame DEF FindFlow, Step
        <4>2. Held(t) + 1 \in DOMAIN arrived /\ arrived[Held(t) + 1] \in Key
          BY <4>1 DEF ServiceInv, ServiceTypeOK
        <4> QED
          BY <3>1, <4>2 DEF FindFlow, NextTable
      <3>2. CASE Lookup(t) \/ Insert(t)
        BY <3>2 DEF Lookup, Insert, NextTable
      <3>3. CASE Forward(t) \/ Output(t) \/ GiveBack(t)
        BY <3>3 DEF Forward, Output, LockSocket, Send, NoFrame, GiveBack
      <3> QED
        BY <2>1, <3>1, <3>2, <3>3 DEF handle
    <2>2. CASE tcp_timedout_2
      BY <2>2 DEF tcp_timedout_2, Wake, Enter, Leave, VisitYoung, VisitOld, Advance, Output,
                  LockSocket, Send, NoFrame, walkKeep
    <2>3. ASSUME NEW c \in Consumers, Ask(c) \/ Obtain(c) PROVE [NextTable]_tableVars
      BY <2>3 DEF Ask, Obtain
    <2>4. CASE Produce \/ CallBack \/ \E k \in Key : Arrive(k)
      BY <2>4 DEF Produce, CallBack, Arrive
    <2>5. CASE UNCHANGED vars
      BY <2>5 DEF vars
    <2> QED
      BY <2>1, <2>2, <2>3, <2>4, <2>5 DEF Next
  <1> QED
    BY <1>1, <1>2, ServiceInvariance, PTL DEF Spec, SpecTable

\* All packets of a connection meet in one buffer, whichever consumers work on them.
THEOREM ConnectionsMeet == Spec => []OneFlowPerKey
  BY UsesTables, TableUnique, PTL
-----------------------------------------------------------------------------
(***************************************************************************)
(* Every packet is in one place.                                           *)
(***************************************************************************)
Sent == {"send", "create"}

Buffers == [packets : SUBSET Nat, lock : Sender \cup {NoThread}, seen : BOOLEAN]

PlaceTypeOK ==
    /\ DOMAIN buffer = DOMAIN flows /\ \A f \in DOMAIN buffer : buffer[f] \in Buffers
    /\ out \in [Sender -> SUBSET Nat] /\ left \subseteq Nat /\ faults \in Nat
    /\ \A s \in Sender : step[s] \notin Sent => out[s] = {}

\* The timer is at a flow or at the end of a table.
WalkOK ==
    /\ {walk.fl, walk.tmp1, walk.f, walk.tmp2} \subseteq DOMAIN flows \cup {0}
    /\ walk = [fl |-> walk.fl, tmp1 |-> walk.tmp1, f |-> walk.f, tmp2 |-> walk.tmp2]

\* A packet whose service has not yet put it anywhere: in the ring, in the queue,
\* assigned to a consumer or in the hands of a thread.
Coming == {n \in Nat : \/ n >= Oldest
                       \/ \E c \in Consumers : HasGot(c) /\ got[c][2] = n
                       \/ \E t \in Thread : Working(t) /\ Held(t) = n}

Settled == {n \in Nat : \/ \E f \in DOMAIN buffer : n \in buffer[f].packets
                        \/ \E s \in Sender : n \in out[s]
                        \/ n \in left}

\* Nothing the service has put somewhere is still coming, and it is in one place.
Disjoint ==
    /\ Settled \cap Coming = {}
    /\ \A f, g \in DOMAIN buffer : f # g => buffer[f].packets \cap buffer[g].packets = {}
    /\ \A s, u \in Sender : s # u => out[s] \cap out[u] = {}
    /\ \A f \in DOMAIN buffer, s \in Sender : buffer[f].packets \cap out[s] = {}
    /\ \A f \in DOMAIN buffer : buffer[f].packets \cap left = {}
    /\ \A s \in Sender : out[s] \cap left = {}

\* A consumer that waits has nothing assigned, and waits once.
WaitersFree ==
    \A k \in DOMAIN waiting :
        got[waiting[k]] = NoItem /\ \A j \in DOMAIN waiting : waiting[j] = waiting[k] => j = k

NoneMissing == faults = 0 => Nat = Coming \cup Settled

PlaceInv == PlaceTypeOK /\ WalkOK /\ WaitersFree /\ Disjoint /\ NoneMissing
-----------------------------------------------------------------------------
\* The walk goes to a flow or ends.
LEMMA LeastIsMember ==
    ASSUME NEW n \in Nat, NEW S, S \subseteq 1 .. n
    PROVE  LeastOf(S) \in S \cup {0}
  <1>1. CASE S = {}
    BY <1>1 DEF LeastOf
  <1>2. CASE S # {}
    <2>1. \E f \in S : \A g \in S : f <= g
      <3> SUFFICES ASSUME \A f \in S : \E g \in S : g < f
                   PROVE  FALSE
        OBVIOUS
      <3> DEFINE B == {k \in 0 .. n : \A j \in S : k < j}
      <3>1. 0 \in B
        OBVIOUS
      <3>2. ASSUME NEW k \in B, k < n PROVE k + 1 \in B
        <4>1. k \in 0 .. n /\ \A j \in S : k < j /\ j \in 1 .. n
          BY <3>2
        <4>2. k + 1 \notin S
          <5>1. ASSUME k + 1 \in S PROVE FALSE
            <6>1. PICK g \in S : g < k + 1
              BY <5>1
            <6> QED
              BY <4>1, <6>1
          <5> QED
            BY <5>1
        <4>3. \A j \in S : k + 1 < j
          BY <4>1, <4>2
        <4> QED
          BY <4>1, <4>3, <3>2
      <3>3. B \subseteq 0 .. n /\ \A k \in B : k < n => k + 1 \in B
        BY <3>2
      <3>4. n \in B => \A j \in S : n < j
        OBVIOUS
      <3> HIDE DEF B
      <3>5. B = 0 .. n
        BY <3>1, <3>3, Induct
      <3>6. \A j \in S : n < j /\ j \in 1 .. n
        BY <3>4, <3>5
      <3>7. PICK j \in S : TRUE
        BY <1>2
      <3>8. n < j /\ j <= n /\ j \in Int
        BY <3>6, <3>7
      <3> QED
        BY <3>8
    <2> QED
      BY <2>1, <1>2 DEF LeastOf
  <1> QED
    BY <1>1, <1>2

\* No packet has two hands, and what is in hand has left the queue.
LEMMA HeldAlone ==
    ASSUME ServiceInv, NEW t \in Thread, step[t] # "wait"
    PROVE  /\ Held(t) \in Nat /\ Held(t) < Oldest
           /\ \A u \in Thread : step[u] # "wait" /\ Held(u) = Held(t) => u = t
           /\ \A c \in Consumers : HasGot(c) => got[c][2] # Held(t)
  <1>1. CASE t = "main"
    <2>1. n_threads = 0 /\ queue = <<>> /\ \A c \in Consumers : step[c] = "wait" /\ got[c] = NoItem
      BY <1>1 DEF ServiceInv, OneMode
    <2>2. Held(t) = read - 1 /\ Oldest = read /\ read \in Nat /\ read > 0
      BY <1>1, <2>1 DEF ServiceInv, RingFrames, ServiceTypeOK, Held, Oldest
    <2>3. \A u \in Thread : u \in Consumers \/ u = "main"
      BY ServiceAssumption
    <2> QED
      BY <1>1, <2>1, <2>2, <2>3 DEF HasGot
  <1>2. CASE t # "main"
    <2>1. \A u \in Thread : u = "main" \/ u \in Consumers
      BY ServiceAssumption
    <2>2. step["main"] = "wait"
      BY <1>2, <2>1 DEF ServiceInv, OneMode
    <2>3. \A u \in Consumers : Held(u) = el[u][2]
      BY Threads DEF Held
    <2> QED
      BY <1>2, <2>1, <2>2, <2>3, PacketNumbers DEF ServiceInv, OwnPackets, HasEl, HasGot
  <1> QED
    BY <1>1, <1>2

\* Ring, queue and assignment are left alone.
Still == UNCHANGED <<read, queue, got, el>>

LEMMA ComingStill ==
    ASSUME Still, \A t \in Thread : Working(t)' <=> Working(t)
    PROVE  Coming' = Coming
  BY DEF Still, Coming, Oldest, HasGot, Held

LEMMA ComingLess ==
    ASSUME ServiceInv, Still, NEW t \in Thread, Working(t), ~Working(t)',
           \A u \in Thread : u # t => (Working(u)' <=> Working(u))
    PROVE  Coming' = Coming \ {Held(t)} /\ Held(t) \in Coming
  <1>1. /\ Oldest' = Oldest /\ \A c \in Consumers : HasGot(c)' = HasGot(c) /\ got'[c] = got[c]
        /\ \A u \in Thread : Held(u)' = Held(u)
    BY DEF Still, Oldest, HasGot, Held
  <1>2. \A u \in Thread : Working(u) => step[u] # "wait"
    BY DEF Working
  <1>3. /\ Held(t) \in Nat /\ ~(Held(t) >= Oldest)
        /\ \A u \in Thread : Working(u) /\ Held(u) = Held(t) => u = t
        /\ \A c \in Consumers : HasGot(c) => got[c][2] # Held(t)
    BY <1>2, HeldAlone, PacketNumbers
  <1> QED
    BY <1>1, <1>3 DEF Coming

\* The hand-off moves a packet from hand to hand.
LEMMA ComingPut ==
    ASSUME ServiceInv, WaitersFree, Produce
    PROVE  Coming' = Coming
  <1>1. /\ read \in Nat /\ read' = read + 1 /\ queue \in Seq(Item) /\ UNCHANGED <<el, step>>
        /\ sent["main"] = read /\ n_threads > 0 /\ step["main"] = "wait"
        /\ got \in [Consumers -> Item \cup {NoItem}]
    BY DEF Produce, ServiceInv, ServiceTypeOK, OneMode, Handoff!PutQueued, Handoff!PutServed
  <1>2. \A t \in Thread : Working(t)' = Working(t) /\ (Working(t) => Held(t)' = Held(t))
    BY <1>1 DEF Working, Held
  <1>3. CASE Handoff!PutQueued("main")
    <2>1. queue' = Append(queue, <<"main", read>>) /\ got' = got
      BY <1>1, <1>3 DEF Handoff!PutQueued
    <2>2. Oldest' = Oldest
      BY <1>1, <2>1 DEF Oldest
    <2> QED
      BY <1>2, <2>1, <2>2 DEF Coming, HasGot
  <1>4. CASE Handoff!PutServed("main")
    <2>1. PICK d \in Consumers : d = Head(waiting) /\ waiting # <<>>
      BY <1>4 DEF Handoff!PutServed, ServiceInv, ServiceTypeOK
    <2>2. got' = [got EXCEPT ![d] = <<"main", read>>] /\ queue' = queue /\ queue = <<>>
      BY <1>1, <1>4, <2>1 DEF Handoff!PutServed, ServiceInv, QueueInOrder
    <2>3. Oldest = read /\ Oldest' = read + 1
      BY <1>1, <2>2 DEF Oldest
    <2>4. got[d] = NoItem
      <3>1. 1 \in DOMAIN waiting /\ d = waiting[1]
        BY <2>1 DEF ServiceInv, ServiceTypeOK
      <3> QED
        BY <3>1 DEF WaitersFree
    <2>5. /\ got'[d] # NoItem /\ got'[d][2] = read
          /\ \A c \in Consumers : c # d => got'[c] = got[c]
      BY <1>1, <2>2, ServiceAssumption
    <2>6. \A n \in Nat : n >= Oldest <=> n >= Oldest' \/ n = read
      BY <1>1, <2>3
    <2>7. \A n \in Nat : (\E c \in Consumers : HasGot(c)' /\ got'[c][2] = n)
              <=> n = read \/ \E c \in Consumers : HasGot(c) /\ got[c][2] = n
      BY <2>4, <2>5 DEF HasGot
    <2> QED
      BY <1>2, <2>6, <2>7 DEF Coming
  <1> QED
    BY <1>3, <1>4 DEF Produce

LEMMA ComingCalled ==
    ASSUME ServiceInv, CallBack
    PROVE  Coming' = Coming
  <1>1. /\ read \in Nat /\ read' = read + 1 /\ UNCHANGED <<queue, got, el>>
        /\ queue = <<>> /\ step \in [Sender -> Steps] /\ step["main"] = "wait"
        /\ step' = [step EXCEPT !["main"] = "service"]
    BY DEF CallBack, Step, handoffVars, ServiceInv, ServiceTypeOK, OneMode
  <1>2. Oldest = read /\ Oldest' = read + 1
    BY <1>1 DEF Oldest
  <1>3. Working("main")' /\ Held("main")' = read /\ ~Working("main")
    BY <1>1, Threads DEF Working, Held
  <1>4. \A t \in Thread : t # "main" => Working(t)' = Working(t) /\ Held(t)' = Held(t)
    BY <1>1, Threads DEF Working, Held
  <1>5. \A n \in Nat : (\E t \in Thread : Working(t)' /\ Held(t)' = n)
            <=> n = read \/ \E t \in Thread : Working(t) /\ Held(t) = n
    BY <1>3, <1>4, Threads
  <1>6. \A n \in Nat : n >= Oldest <=> n >= Oldest' \/ n = read
    BY <1>1, <1>2
  <1> QED
    BY <1>1, <1>5, <1>6 DEF Coming, HasGot

LEMMA ComingAsked ==
    ASSUME ServiceInv, NEW c \in Consumers, Ask(c)
    PROVE  Coming' = Coming
  <1>1. UNCHANGED <<read, step, el>> /\ \A t \in Thread : Working(t)' = Working(t) /\ Held(t)' = Held(t)
    BY DEF Ask, Working, Held, Handoff!AskServed, Handoff!AskWaits
  <1>2. CASE Handoff!AskServed(c)
    <2>1. /\ queue # <<>> /\ queue \in Seq(Item) /\ Len(queue) \in Nat /\ Len(queue) > 0
          /\ Len(queue') = Len(queue) - 1 /\ Head(queue) = queue[1] /\ got[c] = NoItem
          /\ got' = [got EXCEPT ![c] = Head(queue)] /\ got \in [Consumers -> Item \cup {NoItem}]
      BY <1>2 DEF Handoff!AskServed, ServiceInv, ServiceTypeOK
    <2>2. Oldest \in Nat /\ Oldest' = Oldest + 1
      BY <1>1, <2>1, PacketNumbers DEF Oldest
    <2>3. Head(queue) = <<"main", Oldest>>
      BY <2>1, <2>2 DEF ServiceInv, QueueInOrder
    <2>4. /\ got'[c] # NoItem /\ got'[c][2] = Oldest
          /\ \A d \in Consumers : d # c => got'[d] = got[d]
      <3>1. PICK n \in Nat : n = Oldest
        BY <2>2
      <3>2. got' = [got EXCEPT ![c] = <<"main", n>>]
        BY <2>1, <2>3, <3>1
      <3>3. <<"main", n>> \in {"main"} \X Nat /\ <<"main", n>>[2] = n
        OBVIOUS
      <3>4. <<"main", n>> # NoItem
        BY <3>3, ServiceAssumption
      <3> QED
        BY <2>1, <3>1, <3>2, <3>3, <3>4
    <2>5. \A n \in Nat : n >= Oldest <=> n >= Oldest' \/ n = Oldest
      BY <2>2
    <2>6. \A n \in Nat : (\E d \in Consumers : HasGot(d)' /\ got'[d][2] = n)
              <=> n = Oldest \/ \E d \in Consumers : HasGot(d) /\ got[d][2] = n
      BY <2>1, <2>4 DEF HasGot
    <2> QED
      BY <1>1, <2>5, <2>6 DEF Coming
  <1>3. CASE Handoff!AskWaits(c)
    BY <1>1, <1>3 DEF Handoff!AskWaits, Coming, Oldest, HasGot
  <1> QED
    BY <1>2, <1>3 DEF Ask

LEMMA ComingObtained ==
    ASSUME ServiceInv, NEW c \in Consumers, Obtain(c)
    PROVE  Coming' = Coming
  <1>1. /\ UNCHANGED <<read, queue>> /\ got[c] # NoItem /\ step[c] = "wait"
        /\ step \in [Sender -> Steps] /\ step' = [step EXCEPT ![c] = "service"]
        /\ got \in [Consumers -> Item \cup {NoItem}] /\ el \in [Consumers -> Item \cup {NoItem}]
        /\ el' = [el EXCEPT ![c] = got[c]] /\ got' = [got EXCEPT ![c] = NoItem]
    BY DEF Obtain, Step, Handoff!Finish, ServiceInv, ServiceTypeOK
  <1>2. /\ got'[c] = NoItem /\ \A d \in Consumers : d # c => got'[d] = got[d]
        /\ Working(c)' /\ Held(c)' = got[c][2] /\ ~Working(c)
    BY <1>1, Threads DEF Working, Held
  <1>3. \A t \in Thread : t # c => Working(t)' = Working(t) /\ Held(t)' = Held(t)
    <2>1. \A t \in Thread : t = "main" \/ t \in Consumers
      BY ServiceAssumption
    <2> QED
      BY <1>1, <2>1, Threads DEF Working, Held
  <1>4. Oldest' = Oldest
    BY <1>1 DEF Oldest
  <1>5. \A n \in Nat : (\E t \in Thread : Working(t)' /\ Held(t)' = n)
            <=> n = got[c][2] \/ \E t \in Thread : Working(t) /\ Held(t) = n
    BY <1>2, <1>3, Threads
  <1>6. \A n \in Nat : (\E d \in Consumers : HasGot(d) /\ got[d][2] = n)
            <=> n = got[c][2] \/ \E d \in Consumers : HasGot(d)' /\ got'[d][2] = n
    BY <1>1, <1>2 DEF HasGot
  <1> QED
    BY <1>4, <1>5, <1>6 DEF Coming

LEMMA WaitersStep ==
    ASSUME ServiceInv, WaitersFree, [Next]_vars
    PROVE  WaitersFree'
  <1>1. got \in [Consumers -> Item \cup {NoItem}] /\ waiting \in Seq(Consumers)
    BY DEF ServiceInv, ServiceTypeOK
  <1>2. ASSUME UNCHANGED <<waiting, got>> PROVE WaitersFree'
    BY <1>2 DEF WaitersFree
  <1>3. CASE Produce
    <2>1. CASE Handoff!PutQueued("main")
      BY <1>2, <2>1 DEF Handoff!PutQueued
    <2>2. CASE Handoff!PutServed("main")
      <3>1. /\ waiting # <<>> /\ waiting' = Tail(waiting) /\ Head(waiting) = waiting[1]
            /\ got' = [got EXCEPT ![waiting[1]] = <<"main", sent["main"]>>]
        BY <1>1, <2>2 DEF Handoff!PutServed
      <3>2. /\ 1 \in DOMAIN waiting
            /\ \A k \in DOMAIN waiting' : /\ k + 1 \in DOMAIN waiting /\ waiting'[k] = waiting[k + 1]
                                          /\ waiting[k + 1] \in Consumers /\ k \in Nat \ {0}
        BY <1>1, <3>1
      <3>3. \A k \in DOMAIN waiting' : waiting'[k] # waiting[1]
        BY <3>2 DEF WaitersFree
      <3>4. \A k \in DOMAIN waiting' : got'[waiting'[k]] = NoItem
        BY <1>1, <3>1, <3>2, <3>3 DEF WaitersFree
      <3>5. \A j, k \in DOMAIN waiting' : waiting'[j] = waiting'[k] => j = k
        BY <3>2 DEF WaitersFree
      <3> QED
        BY <3>4, <3>5 DEF WaitersFree
    <2> QED
      BY <1>3, <2>1, <2>2 DEF Produce
  <1>4. ASSUME NEW c \in Consumers, Ask(c) PROVE WaitersFree'
    <2>1. CASE Handoff!AskServed(c)
      <3>1. waiting = <<>> /\ waiting' = <<>>
        BY <1>1, <2>1 DEF Handoff!AskServed, ServiceInv, QueueInOrder
      <3> QED
        BY <3>1 DEF WaitersFree
    <2>2. CASE Handoff!AskWaits(c)
      <3>1. /\ waiting' = Append(waiting, c) /\ got' = got /\ got[c] = NoItem
            /\ \A k \in DOMAIN waiting : waiting[k] # c
        BY <2>2 DEF Handoff!AskWaits
      <3>2. /\ DOMAIN waiting' = DOMAIN waiting \cup {Len(waiting) + 1}
            /\ waiting'[Len(waiting) + 1] = c /\ \A k \in DOMAIN waiting : waiting'[k] = waiting[k]
        BY <1>1, <3>1
      <3> QED
        BY <3>1, <3>2 DEF WaitersFree
    <2> QED
      BY <1>4, <2>1, <2>2 DEF Ask
  <1>5. ASSUME NEW c \in Consumers, Obtain(c) PROVE WaitersFree'
    BY <1>1, <1>5 DEF WaitersFree, Obtain, Handoff!Finish
  <1>6. ASSUME NEW t \in Thread, handle(t) PROVE UNCHANGED <<waiting, got>>
    BY <1>6 DEF handle, FindFlow, Forward, Lookup, Insert, Output, LockSocket, Send, NoFrame, GiveBack,
                keep, handoffVars
  <1>7. CASE tcp_timedout_2
    BY <1>2, <1>7 DEF tcp_timedout_2, Wake, Enter, Leave, VisitYoung, VisitOld, Advance, Output,
                LockSocket, Send, NoFrame, walkKeep, keep, handoffVars
  <1>8. CASE CallBack \/ (\E k \in Key : Arrive(k)) \/ UNCHANGED vars
    BY <1>2, <1>8 DEF CallBack, Arrive, vars, handoffVars
  <1> QED
    BY <1>2, <1>3, <1>4, <1>5, <1>6, <1>7, <1>8 DEF Next
-----------------------------------------------------------------------------
\* Steps that change no place.
Unmoved ==
    /\ UNCHANGED <<out, left, faults>>
    /\ \A f \in DOMAIN buffer' :
          buffer'[f].packets = IF f \in DOMAIN buffer THEN buffer[f].packets ELSE {}
    /\ DOMAIN buffer \subseteq DOMAIN buffer'

LEMMA UnmovedStep ==
    ASSUME Disjoint, NoneMissing, Unmoved, Coming' = Coming
    PROVE  Disjoint' /\ NoneMissing'
  <1>1. Settled' = Settled
    BY DEF Settled, Unmoved
  <1>2. Disjoint'
    <2>1. Settled' \cap Coming' = {}
      BY <1>1 DEF Disjoint
    <2>2. \A f \in DOMAIN buffer' :
              \/ buffer'[f].packets = {}
              \/ (f \in DOMAIN buffer /\ buffer'[f].packets = buffer[f].packets)
      BY DEF Unmoved
    <2> QED
      BY <2>1, <2>2 DEF Disjoint, Unmoved
  <1> QED
    BY <1>1, <1>2 DEF NoneMissing, Unmoved

\* What a sender sends is sent, or lost.
LEMMA SentStep ==
    ASSUME PlaceInv, NEW s \in Sender, Send(s) \/ NoFrame(s), Coming' = Coming
    PROVE  Disjoint' /\ NoneMissing'
  <1>1. /\ out' = [out EXCEPT ![s] = {}] /\ out \in [Sender -> SUBSET Nat]
        /\ DOMAIN buffer' = DOMAIN buffer
        /\ \A f \in DOMAIN buffer : buffer'[f].packets = buffer[f].packets
    <2>1. buffer' = Released(s) /\ \A f \in DOMAIN buffer : buffer[f] \in Buffers
      BY DEF Send, NoFrame, PlaceInv, PlaceTypeOK
    <2> QED
      BY <2>1 DEF Send, NoFrame, PlaceInv, PlaceTypeOK, Released, Buffers
  <1>2. out'[s] = {} /\ \A u \in Sender : u # s => out'[u] = out[u]
    BY <1>1
  <1>3. CASE Send(s)
    <2>1. left' = left \cup out[s] /\ faults' = faults
      BY <1>3 DEF Send
    <2>2. Settled' = Settled
      BY <1>1, <1>2, <2>1 DEF Settled
    <2>3. Disjoint'
      BY <1>1, <1>2, <2>1, <2>2 DEF PlaceInv, Disjoint
    <2> QED
      BY <2>1, <2>2, <2>3 DEF PlaceInv, NoneMissing
  <1>4. CASE NoFrame(s)
    <2>1. left' = left /\ faults' = faults + 1 /\ faults \in Nat
      BY <1>4 DEF NoFrame, PlaceInv, PlaceTypeOK
    <2>2. Settled' \subseteq Settled
      BY <1>1, <1>2, <2>1 DEF Settled
    <2>3. Disjoint'
      BY <1>1, <1>2, <2>1, <2>2 DEF PlaceInv, Disjoint
    <2> QED
      BY <2>1, <2>3 DEF NoneMissing
  <1> QED
    BY <1>3, <1>4

\* A buffer is emptied into the hands of a sender, a packet comes into a buffer, or both:
\* `new' is in hand before, `into' is the buffer and what it holds afterwards.
Move(s, f, new, kept, gone) ==
    /\ new \subseteq Coming /\ Coming' = Coming \ new
    /\ out[s] = {} /\ out' = [out EXCEPT ![s] = gone]
    /\ kept \cup gone = buffer[f].packets \cup new /\ kept \cap gone = {}
    /\ DOMAIN buffer' = DOMAIN buffer /\ buffer'[f].packets = kept
    /\ \A g \in DOMAIN buffer : g # f => buffer'[g].packets = buffer[g].packets
    /\ UNCHANGED <<left, faults>>

LEMMA MoveStep ==
    ASSUME PlaceInv, NEW s \in Sender, NEW f \in DOMAIN buffer,
           NEW new, NEW kept, NEW gone, Move(s, f, new, kept, gone)
    PROVE  Disjoint' /\ NoneMissing'
  <1> USE DEF Move
  <1>0. new \subseteq Nat
    BY DEF Coming
  <1>1. out'[s] = gone /\ \A u \in Sender : u # s => out'[u] = out[u]
    BY DEF PlaceInv, PlaceTypeOK
  <1>2. new \cap Settled = {}
    BY DEF PlaceInv, Disjoint
  <1>3. Settled' = Settled \cup new
    <2>1. ASSUME NEW n \in Settled' PROVE n \in Settled \cup new
      <3>1. \/ \E g \in DOMAIN buffer : n \in buffer'[g].packets
            \/ \E u \in Sender : n \in out'[u]
            \/ n \in left
        BY DEF Settled
      <3>2. n \in kept \/ n \in gone => n \in buffer[f].packets \/ n \in new
        OBVIOUS
      <3> QED
        BY <1>1, <3>1, <3>2 DEF Settled
    <2>2. ASSUME NEW n \in Settled \cup new PROVE n \in Settled'
      <3>1. n \in Nat /\ (n \in buffer[f].packets \/ n \in new => n \in kept \/ n \in gone)
        BY <1>0 DEF Settled
      <3>2. \/ n \in new
            \/ \E g \in DOMAIN buffer : n \in buffer[g].packets
            \/ \E u \in Sender : n \in out[u]
            \/ n \in left
        BY DEF Settled
      <3> QED
        BY <1>1, <3>1, <3>2 DEF Settled
    <2> QED
      BY <2>1, <2>2
  <1>4. Settled' \cap Coming' = {}
    BY <1>3 DEF PlaceInv, Disjoint
  <1>5. /\ \A g \in DOMAIN buffer : new \cap buffer[g].packets = {}
        /\ \A u \in Sender : new \cap out[u] = {}
        /\ new \cap left = {}
    <2>1. \A n \in new : n \in Nat /\ n \notin Settled
      BY <1>0, <1>2
    <2> QED
      BY <2>1 DEF Settled
  <1>6. \A g, h \in DOMAIN buffer' : g # h => buffer'[g].packets \cap buffer'[h].packets = {}
    BY <1>5 DEF PlaceInv, Disjoint
  <1>7. \A u, v \in Sender : u # v => out'[u] \cap out'[v] = {}
    BY <1>1, <1>5 DEF PlaceInv, Disjoint
  <1>8. ASSUME NEW g \in DOMAIN buffer, NEW u \in Sender
        PROVE  buffer'[g].packets \cap out'[u] = {}
    <2>1. buffer[g].packets \cap out[u] = {} /\ buffer[f].packets \cap out[u] = {}
      BY DEF PlaceInv, Disjoint
    <2>2. g # f => buffer[f].packets \cap buffer[g].packets = {}
      BY DEF PlaceInv, Disjoint
    <2>3. CASE u = s
      BY <1>1, <1>5, <2>2, <2>3
    <2>4. CASE u # s
      BY <1>1, <1>5, <2>1, <2>4
    <2> QED
      BY <2>3, <2>4
  <1>9. /\ \A g \in DOMAIN buffer' : buffer'[g].packets \cap left' = {}
        /\ \A u \in Sender : out'[u] \cap left' = {}
    BY <1>1, <1>5 DEF PlaceInv, Disjoint
  <1> QED
    <2>1. Disjoint'
      BY <1>4, <1>6, <1>7, <1>8, <1>9 DEF Disjoint
    <2>2. new \subseteq Nat /\ Coming' \cup Settled' = Coming \cup Settled
      BY <1>0, <1>3
    <2> QED
      BY <2>1, <2>2 DEF PlaceInv, NoneMissing
-----------------------------------------------------------------------------
LEMMA InitPlace == Init => PlaceInv
  <1> SUFFICES ASSUME Init PROVE PlaceInv
    OBVIOUS
  <1> USE DEF Init, InitTable, Handoff!Init
  <1>1. PlaceTypeOK /\ WalkOK
    BY DEF PlaceTypeOK, WalkOK
  <1>2. Settled = {} /\ WaitersFree
    BY DEF Settled, WaitersFree
  <1>3. Oldest = 0
    <2>1. read = 0 /\ queue = <<>>
      OBVIOUS
    <2>2. read = 0 /\ Len(queue) = 0
      BY <2>1
    <2> HIDE DEF Init
    <2> QED
      BY <2>2 DEF Oldest
  <1>4. Disjoint
    BY <1>2 DEF Disjoint
  <1>5. NoneMissing
    <2>1. \A n \in Nat : n >= Oldest
      BY <1>3
    <2>2. Coming = Nat
      BY <2>1 DEF Coming
    <2> QED
      BY <1>2, <2>2 DEF NoneMissing
  <1> QED
    BY <1>1, <1>2, <1>4, <1>5 DEF PlaceInv

\* Flows are added, never taken away, and a look-up adds one for its own buffer.
LEMMA FlowsGrow ==
    ASSUME TableInv, [NextTable]_tableVars
    PROVE  DOMAIN flows \subseteq DOMAIN flows'
  <1>1. ASSUME NEW t \in Thread, Add(t) PROVE DOMAIN flows \subseteq DOMAIN flows'
    BY <1>1 DEF Add, TableInv, TableTypeOK
  <1>2. ASSUME NEW t \in Thread, LookUp(t) \/ Return(t) \/ \E k \in Key : Call(t, k), ~Add(t)
        PROVE  flows' = flows
    BY <1>2 DEF LookUp, RdLock, FindShared, WrLock, FindAgain, Unlock, Return, Call
  <1> QED
    BY <1>1, <1>2 DEF NextTable, tableVars

\* Where the walk goes next.
LEMMA WalkSteps ==
    ASSUME TableInv, NEW f \in DOMAIN flows \cup {0}, NEW g \in DOMAIN flows \cup {0}
    PROVE  /\ First(f) \in DOMAIN flows \cup {0} /\ Succ(f) \in DOMAIN flows \cup {0}
  <1>1. PICK n \in Nat : DOMAIN flows = 1 .. n
    BY DEF TableInv, TableTypeOK
  <1>2. \A S : S \subseteq 1 .. n => LeastOf(S) \in S \cup {0}
    BY LeastIsMember
  <1>3. /\ {h \in DOMAIN flows : flows[h].in = f} \subseteq 1 .. n
        /\ {h \in DOMAIN flows : h > f /\ flows[h].in = flows[f].in} \subseteq 1 .. n
    BY <1>1
  <1> QED
    BY <1>1, <1>2, <1>3 DEF First, Succ

LEMMA WalkStep ==
    ASSUME TableInv, WalkOK, [Next]_vars, DOMAIN flows \subseteq DOMAIN flows'
    PROVE  WalkOK'
  <1>1. ASSUME UNCHANGED walk PROVE WalkOK'
    BY <1>1 DEF WalkOK
  <1>2. ASSUME NEW f \in DOMAIN flows \cup {0}, Outer(f) \/ Inner(f) PROVE WalkOK'
    <2>1. Succ(f) \in DOMAIN flows \cup {0}
      BY WalkSteps
    <2> QED
      BY <1>2, <2>1 DEF WalkOK, Outer, Inner
  <1>3. First(0) \in DOMAIN flows \cup {0} /\ First(walk.fl) \in DOMAIN flows \cup {0}
    BY WalkSteps DEF WalkOK
  <1>4. walk.tmp1 \in DOMAIN flows \cup {0} /\ walk.tmp2 \in DOMAIN flows \cup {0}
    BY DEF WalkOK
  <1>5. CASE Wake \/ Enter \/ Leave \/ VisitYoung \/ Advance
    BY <1>2, <1>3, <1>4, <1>5 DEF Wake, Enter, Leave, VisitYoung, Advance
  <1>6. CASE VisitOld \/ \E s \in Sender : Output(s)
    BY <1>1, <1>6 DEF VisitOld, Output, LockSocket, Send, NoFrame
  <1>7. ASSUME NEW t \in Thread, handle(t), ~Output(t) PROVE UNCHANGED walk
    BY <1>7 DEF handle, FindFlow, Forward, Lookup, Insert, GiveBack
  <1>8. CASE Produce \/ CallBack \/ (\E c \in Consumers : Ask(c) \/ Obtain(c))
             \/ (\E k \in Key : Arrive(k)) \/ UNCHANGED vars
    BY <1>1, <1>8 DEF Produce, CallBack, Ask, Obtain, Arrive, vars
  <1> QED
    BY <1>1, <1>5, <1>6, <1>7, <1>8, Threads DEF Next, tcp_timedout_2

-----------------------------------------------------------------------------
PlaceKept == PlaceTypeOK' /\ Disjoint' /\ NoneMissing'

\* Steps that touch no packet but move one from hand to hand.
LEMMA SamePlaces ==
    ASSUME PlaceInv, UNCHANGED <<flows, buffer, out, left, faults>>, Coming' = Coming,
           \A s \in Sender : step[s] \in Sent => step'[s] \in Sent
    PROVE  PlaceKept
  <1>1. PlaceTypeOK'
    BY DEF PlaceInv, PlaceTypeOK
  <1>2. Unmoved
    BY DEF Unmoved, PlaceInv, PlaceTypeOK, Buffers
  <1> QED
    BY <1>1, <1>2, UnmovedStep DEF PlaceKept, PlaceInv

\* A step within a loop, of a thread whose packet stays in hand.
LEMMA SameHand ==
    ASSUME ServiceInv, UNCHANGED keep, NEW s \in Sender, NEW from, NEW to, Step(s, from, to),
           from \in {"service", "look up"} <=> to \in {"service", "look up"}
    PROVE  Coming' = Coming
  <1>1. step' = [step EXCEPT ![s] = to] /\ step[s] = from /\ step \in [Sender -> Steps] /\ Still
    BY DEF Step, ServiceInv, ServiceTypeOK, keep, handoffVars, Still
  <1>2. ASSUME NEW t \in Thread PROVE Working(t)' <=> Working(t)
    <2>1. t = s \/ step'[t] = step[t]
      BY <1>1, Threads
    <2>2. t = s => (Working(t)' <=> Working(t))
      BY <1>1 DEF Working
    <2> QED
      BY <2>1, <2>2 DEF Working
  <1> QED
    BY <1>1, <1>2, ComingStill

LEMMA ArrivePlace ==
    ASSUME ServiceInv, PlaceInv, NEW k \in Key, Arrive(k)
    PROVE  PlaceKept
  <1>1. Still /\ UNCHANGED <<step, tableVars, buffer, out, left, faults>>
    BY DEF Arrive, Still, handoffVars
  <1>2. Coming' = Coming
    BY <1>1, ComingStill DEF Working
  <1> QED
    BY <1>1, <1>2, SamePlaces DEF tableVars

LEMMA HandOffPlace ==
    ASSUME ServiceInv, PlaceInv,
           Produce \/ CallBack \/ \E c \in Consumers : Ask(c) \/ Obtain(c)
    PROVE  PlaceKept
  <1>1. Coming' = Coming
    BY ComingPut, ComingCalled, ComingAsked, ComingObtained DEF PlaceInv
  <1>2. UNCHANGED <<tableVars, buffer, out, left, faults>>
    BY DEF Produce, CallBack, Ask, Obtain
  <1>3. step' = step \/ \E s \in Sender : Step(s, "wait", "service")
    BY Threads DEF Produce, CallBack, Ask, Obtain, Handoff!AskServed
  <1>4. \A s \in Sender : step[s] \in Sent => step'[s] \in Sent
    BY <1>3 DEF Step, Sent, ServiceInv, ServiceTypeOK
  <1> QED
    BY <1>1, <1>2, <1>4, SamePlaces DEF tableVars

LEMMA QuietPlace ==
    ASSUME ServiceInv, PlaceInv, NEW t \in Sender,
           \/ t \in Thread /\ (FindFlow(t) \/ GiveBack(t))
           \/ LockSocket(t)
           \/ t = "timer" /\ (Wake \/ Enter \/ Leave \/ Advance)
    PROVE  PlaceKept
  <1>1. Still /\ UNCHANGED <<flows, buffer, out, left, faults>>
    BY DEF FindFlow, GiveBack, LockSocket, Wake, Enter, Leave, Advance, keep, walkKeep, Still,
           handoffVars, tableVars, Call
  <1>2. PICK from \in Steps, to \in Steps :
            /\ Step(t, from, to)
            /\ from \in {"service", "look up"} <=> to \in {"service", "look up"}
            /\ from \in Sent => to \in Sent
    BY DEF FindFlow, GiveBack, LockSocket, Wake, Enter, Leave, Advance, Steps, Sent
  <1>3. step' = [step EXCEPT ![t] = to] /\ step[t] = from /\ step \in [Sender -> Steps]
    BY <1>2 DEF Step, ServiceInv, ServiceTypeOK
  <1>4. Coming' = Coming
    <2>1. UNCHANGED keep \/ GiveBack(t)
      BY DEF FindFlow, LockSocket, Wake, Enter, Leave, Advance, walkKeep
    <2>2. CASE UNCHANGED keep
      BY <1>2, <2>2, SameHand
    <2>3. CASE GiveBack(t)
      <3>1. \A u \in Thread : Working(u)' <=> Working(u)
        BY <1>3, <2>3, Threads DEF GiveBack, Step, Working
      <3> QED
        BY <1>1, <3>1, ComingStill
    <2> QED
      BY <2>1, <2>2, <2>3
  <1>5. \A s \in Sender : step[s] \in Sent => step'[s] \in Sent
    BY <1>2, <1>3
  <1> QED
    BY <1>1, <1>4, <1>5, SamePlaces

\* A thread ends its work on a packet.
LEMMA WorkEnds ==
    ASSUME ServiceInv, UNCHANGED keep, NEW t \in Thread, NEW from \in {"service", "look up"},
           NEW to \in {"send", "back"}, Step(t, from, to)
    PROVE  /\ Coming' = Coming \ {Held(t)} /\ Held(t) \in Coming /\ Held(t) \in Nat
           /\ \A s \in Sender : s # t => step'[s] = step[s]
           /\ step'[t] = to
  <1>1. /\ step' = [step EXCEPT ![t] = to] /\ step[t] = from /\ step \in [Sender -> Steps] /\ Still
    BY DEF Step, ServiceInv, ServiceTypeOK, keep, handoffVars, Still
  <1>2. Working(t) /\ ~Working(t)' /\ \A u \in Thread : u # t => (Working(u)' <=> Working(u))
    BY <1>1, Threads DEF Working
  <1>3. Coming' = Coming \ {Held(t)} /\ Held(t) \in Coming
    BY <1>1, <1>2, ComingLess
  <1> QED
    BY <1>1, <1>3, Threads DEF Coming

LEMMA ForwardPlace ==
    ASSUME ServiceInv, PlaceInv, NEW t \in Thread, Forward(t)
    PROVE  PlaceKept
  <1>1. PICK h \in Nat : h = Held(t) /\ h \in Coming /\ Coming' = Coming \ {h}
    BY WorkEnds DEF Forward
  <1>2. step'[t] = "send" /\ \A s \in Sender : s # t => step'[s] = step[s]
    BY WorkEnds DEF Forward
  <1>3. /\ out \in [Sender -> SUBSET Nat] /\ out[t] = {} /\ t \in Sender
        /\ out' = [out EXCEPT ![t] = {h}] /\ UNCHANGED <<flows, buffer, left, faults>>
    BY <1>1, Threads DEF Forward, Step, Sent, PlaceInv, PlaceTypeOK, tableVars
  <1>4. out'[t] = {h} /\ \A s \in Sender : s # t => out'[s] = out[s]
    BY <1>3
  <1>5. PlaceTypeOK'
    BY <1>2, <1>3, <1>4 DEF PlaceInv, PlaceTypeOK, Sent
  <1>6. h \notin Settled
    BY <1>1 DEF PlaceInv, Disjoint
  <1>7. Settled' = Settled \cup {h}
    BY <1>3, <1>4 DEF Settled
  <1>8. Disjoint'
    BY <1>1, <1>3, <1>4, <1>6, <1>7 DEF PlaceInv, Disjoint, Settled
  <1>9. NoneMissing'
    BY <1>1, <1>3, <1>7 DEF PlaceInv, NoneMissing
  <1> QED
    BY <1>5, <1>8, <1>9 DEF PlaceKept

LEMMA LookupPlace ==
    ASSUME ServiceInv, PlaceInv, TableInv, NEW t \in Thread, Lookup(t)
    PROVE  PlaceKept
  <1>1. DOMAIN flows \subseteq DOMAIN flows'
    BY FlowsGrow DEF Lookup, NextTable
  <1>2. /\ DOMAIN buffer = DOMAIN flows /\ DOMAIN buffer' = DOMAIN flows'
        /\ \A f \in DOMAIN buffer' :
              buffer'[f] = IF f \in DOMAIN buffer THEN buffer[f] ELSE init_bulk_buffer
        /\ UNCHANGED <<out, left, faults, step>> /\ Still
    BY DEF Lookup, PlaceInv, PlaceTypeOK, keep, handoffVars, Still
  <1>3. init_bulk_buffer \in Buffers /\ init_bulk_buffer.packets = {}
    BY DEF init_bulk_buffer, Buffers
  <1>4. PlaceTypeOK'
    BY <1>2, <1>3 DEF PlaceInv, PlaceTypeOK
  <1>5. Unmoved
    BY <1>1, <1>2, <1>3 DEF Unmoved
  <1>6. Coming' = Coming
    BY <1>2, ComingStill DEF Working
  <1> QED
    BY <1>4, <1>5, <1>6, UnmovedStep DEF PlaceKept, PlaceInv

\* The packet in hand comes into its buffer, and the buffer may be sent.
LEMMA InsertPlace ==
    ASSUME ServiceInv, PlaceInv, TableInv, NEW t \in Thread, Insert(t)
    PROVE  PlaceKept
  <1>1. PICK f \in DOMAIN flows : f = res[t]
    BY DEF Insert, Return, Go, TableInv, FlowFound
  <1>2. PICK to \in {"send", "back"} : Step(t, "look up", to)
    BY DEF Insert
  <1>3. PICK h \in Nat : h = Held(t) /\ h \in Coming /\ Coming' = Coming \ {h}
    BY <1>2, WorkEnds DEF Insert
  <1>4. step'[t] = to /\ \A s \in Sender : s # t => step'[s] = step[s]
    BY <1>2, WorkEnds DEF Insert
  <1>5. /\ t \in Sender /\ out \in [Sender -> SUBSET Nat] /\ out[t] = {}
        /\ f \in DOMAIN buffer /\ buffer[f] \in Buffers /\ UNCHANGED <<flows, left, faults>>
        /\ DOMAIN buffer = DOMAIN flows
    BY <1>1, <1>2, Threads DEF Insert, Step, Sent, PlaceInv, PlaceTypeOK, Return
  <1>6. h \notin buffer[f].packets /\ buffer[f].packets \subseteq Nat
    BY <1>3, <1>5 DEF PlaceInv, Disjoint, Settled, Buffers
  <1>7. ASSUME NEW kept \in SUBSET Nat, NEW gone \in SUBSET Nat,
               kept \cup gone = buffer[f].packets \cup {h}, kept \cap gone = {},
               DOMAIN buffer' = DOMAIN buffer, buffer'[f] \in Buffers, buffer'[f].packets = kept,
               \A g \in DOMAIN buffer : g # f => buffer'[g] = buffer[g],
               out' = [out EXCEPT ![t] = gone], to = "back" => gone = {}
        PROVE  PlaceKept
    <2>1. \A s \in Sender : step'[s] \notin Sent => out'[s] = {}
      BY <1>4, <1>5, <1>7 DEF PlaceInv, PlaceTypeOK, Sent
    <2>2. PlaceTypeOK'
      BY <1>5, <1>7, <2>1 DEF PlaceInv, PlaceTypeOK
    <2>3. {h} \in SUBSET Nat /\ {h} \subseteq Coming
      BY <1>3
    <2>4. \A g \in DOMAIN buffer : g # f => buffer'[g].packets = buffer[g].packets
      BY <1>7
    <2>5. Move(t, f, {h}, kept, gone)
      BY <1>3, <1>5, <1>7, <2>3, <2>4 DEF Move
    <2>6. Disjoint' /\ NoneMissing'
      BY <1>5, <2>5, MoveStep
    <2> QED
      BY <2>2, <2>6 DEF PlaceKept
  <1>8. CASE Step(t, "look up", "back") /\ out' = out
             /\ buffer' = [buffer EXCEPT ![f].packets = @ \cup {h}]
    <2>1. out' = [out EXCEPT ![t] = {}]
      BY <1>5, <1>8
    <2>2. /\ DOMAIN buffer' = DOMAIN buffer /\ \A g \in DOMAIN buffer : g # f => buffer'[g] = buffer[g]
          /\ buffer'[f] = [buffer[f] EXCEPT !.packets = @ \cup {h}]
      BY <1>5, <1>8
    <2>3. buffer'[f] \in Buffers /\ buffer'[f].packets = buffer[f].packets \cup {h}
      BY <1>5, <1>6, <2>2 DEF Buffers
    <2>4. buffer[f].packets \cup {h} \in SUBSET Nat /\ {} \in SUBSET Nat
      BY <1>6
    <2> QED
      BY <1>7, <2>1, <2>2, <2>3, <2>4
  <1>9. ASSUME NEW kept \in SUBSET Nat, NEW gone \in SUBSET Nat, Step(t, "look up", "send"),
               kept \cup gone = buffer[f].packets \cup {h}, kept \cap gone = {},
               out' = [out EXCEPT ![t] = gone],
               buffer' = [buffer EXCEPT ![f] = [packets |-> kept, lock |-> t, seen |-> FALSE]]
        PROVE  PlaceKept
    <2>1. to = "send"
      <3>1. step'[t] = "send"
        BY <1>5, <1>9 DEF Step, ServiceInv, ServiceTypeOK
      <3> QED
        BY <1>4, <3>1
    <2>2. /\ DOMAIN buffer' = DOMAIN buffer /\ \A g \in DOMAIN buffer : g # f => buffer'[g] = buffer[g]
          /\ buffer'[f] = [packets |-> kept, lock |-> t, seen |-> FALSE]
      BY <1>5, <1>9
    <2>3. buffer'[f] \in Buffers /\ buffer'[f].packets = kept
      BY <1>5, <2>2 DEF Buffers
    <2> QED
      BY <1>7, <1>9, <2>1, <2>2, <2>3
  <1>10. CASE Step(t, "look up", "send") /\ out' = [out EXCEPT ![t] = buffer[f].packets]
              /\ buffer' = [buffer EXCEPT ![f] = [packets |-> {h}, lock |-> t, seen |-> FALSE]]
    <2>1. {h} \in SUBSET Nat /\ buffer[f].packets \in SUBSET Nat /\ {h} \cap buffer[f].packets = {}
      BY <1>6
    <2>2. {h} \cup buffer[f].packets = buffer[f].packets \cup {h}
      OBVIOUS
    <2> QED
      BY <1>9, <1>10, <2>1, <2>2
  <1>11. CASE Step(t, "look up", "send") /\ out' = [out EXCEPT ![t] = buffer[f].packets \cup {h}]
              /\ buffer' = [buffer EXCEPT ![f] = [packets |-> {}, lock |-> t, seen |-> FALSE]]
    <2>1. {} \in SUBSET Nat /\ buffer[f].packets \cup {h} \in SUBSET Nat
      BY <1>6
    <2>2. /\ {} \cup (buffer[f].packets \cup {h}) = buffer[f].packets \cup {h}
          /\ {} \cap (buffer[f].packets \cup {h}) = {}
      OBVIOUS
    <2> QED
      BY <1>9, <1>11, <2>1, <2>2
  <1> QED
    BY <1>1, <1>3, <1>8, <1>10, <1>11 DEF Insert

LEMMA VisitPlace ==
    ASSUME ServiceInv, PlaceInv, VisitYoung \/ VisitOld
    PROVE  PlaceKept
  <1> DEFINE f == walk.f
  <1>1. /\ f \in DOMAIN buffer /\ buffer[f] \in Buffers /\ DOMAIN buffer = DOMAIN flows
        /\ UNCHANGED <<flows, left, faults>> /\ UNCHANGED keep /\ "timer" \in Sender
        /\ out \in [Sender -> SUBSET Nat]
    BY Threads DEF PlaceInv, PlaceTypeOK, WalkOK, VisitYoung, VisitOld, walkKeep, tableVars
  <1> HIDE DEF f
  <1>2. CASE VisitYoung
    <2>1. PICK seen \in BOOLEAN : buffer' = [buffer EXCEPT ![f].seen = seen]
      BY <1>2 DEF VisitYoung, f
    <2>2. /\ DOMAIN buffer' = DOMAIN buffer
          /\ \A g \in DOMAIN buffer : buffer'[g].packets = buffer[g].packets /\ buffer'[g] \in Buffers
      BY <1>1, <2>1 DEF Buffers, PlaceInv, PlaceTypeOK
    <2>3. UNCHANGED <<out, step>> /\ Still
      BY <1>1, <1>2 DEF VisitYoung, keep, handoffVars, Still
    <2>4. PlaceTypeOK'
      BY <1>1, <2>2, <2>3 DEF PlaceInv, PlaceTypeOK
    <2>5. Unmoved
      BY <1>1, <2>2, <2>3 DEF Unmoved
    <2>6. Coming' = Coming
      BY <2>3, ComingStill DEF Working
    <2> QED
      BY <2>4, <2>5, <2>6, UnmovedStep DEF PlaceKept, PlaceInv
  <1>3. CASE VisitOld
    <2>1. /\ Step("timer", "inner", "send") /\ out' = [out EXCEPT !["timer"] = buffer[f].packets]
          /\ buffer' = [buffer EXCEPT ![f] = [packets |-> {}, lock |-> "timer", seen |-> FALSE]]
      BY <1>3 DEF VisitOld, f
    <2>2. /\ DOMAIN buffer' = DOMAIN buffer /\ \A g \in DOMAIN buffer : g # f => buffer'[g] = buffer[g]
          /\ buffer'[f] = [packets |-> {}, lock |-> "timer", seen |-> FALSE]
      BY <1>1, <2>1
    <2>3. buffer'[f] \in Buffers /\ buffer'[f].packets = {} /\ buffer[f].packets \in SUBSET Nat
      BY <1>1, <2>2 DEF Buffers
    <2>4. step'["timer"] = "send" /\ \A s \in Sender : s # "timer" => step'[s] = step[s]
      BY <1>1, <2>1 DEF Step, ServiceInv, ServiceTypeOK
    <2>5. out["timer"] = {}
      BY <1>1, <2>1 DEF Step, PlaceInv, PlaceTypeOK, Sent
    <2>6. PlaceTypeOK'
      <3>1. \A s \in Sender : step'[s] \notin Sent => out'[s] = {}
        BY <1>1, <2>1, <2>4 DEF PlaceInv, PlaceTypeOK, Sent
      <3> QED
        BY <1>1, <2>1, <2>2, <2>3, <3>1 DEF PlaceInv, PlaceTypeOK
    <2>7. Coming' = Coming
      BY <1>1, <2>1, Threads, SameHand
    <2>8. Move("timer", f, {}, {}, buffer[f].packets)
      BY <1>1, <2>1, <2>2, <2>3, <2>5, <2>7 DEF Move
    <2>9. Disjoint' /\ NoneMissing'
      BY <1>1, <2>8, MoveStep
    <2> QED
      BY <2>6, <2>9 DEF PlaceKept
  <1> QED
    BY <1>2, <1>3

LEMMA SendPlace ==
    ASSUME ServiceInv, PlaceInv, NEW s \in Sender, Send(s) \/ NoFrame(s)
    PROVE  PlaceKept
  <1>1. /\ Step(s, "create", After(s)) /\ After(s) \in {"back", "next"} /\ UNCHANGED keep
        /\ UNCHANGED flows /\ buffer' = Released(s) /\ out' = [out EXCEPT ![s] = {}]
        /\ left' \in {left, left \cup out[s]} /\ faults' \in {faults, faults + 1}
    BY DEF Send, NoFrame, After, tableVars
  <1>2. Coming' = Coming
    BY <1>1, SameHand
  <1>3. Disjoint' /\ NoneMissing'
    BY <1>2, SentStep
  <1>4. /\ DOMAIN buffer' = DOMAIN buffer
        /\ \A f \in DOMAIN buffer : buffer[f] \in Buffers /\ buffer'[f] \in Buffers
    BY <1>1 DEF Released, Buffers, PlaceInv, PlaceTypeOK
  <1>5. /\ out \in [Sender -> SUBSET Nat] /\ step \in [Sender -> Steps]
        /\ out' \in [Sender -> SUBSET Nat] /\ left' \subseteq Nat /\ faults' \in Nat
    BY <1>1 DEF PlaceInv, PlaceTypeOK, ServiceInv, ServiceTypeOK
  <1>6. \A u \in Sender : step'[u] \notin Sent => out'[u] = {}
    BY <1>1, <1>5 DEF Step, Sent, PlaceInv, PlaceTypeOK
  <1>7. PlaceTypeOK'
    BY <1>1, <1>4, <1>5, <1>6 DEF PlaceInv, PlaceTypeOK
  <1> QED
    BY <1>3, <1>7 DEF PlaceKept

LEMMA PlaceStep ==
    ASSUME ServiceInv, TableInv, PlaceInv, [Next]_vars
    PROVE  PlaceKept
  <1>1. ASSUME NEW t \in Thread, handle(t) PROVE PlaceKept
    BY <1>1, Threads, QuietPlace, ForwardPlace, LookupPlace, InsertPlace, SendPlace
       DEF handle, Output
  <1>2. CASE tcp_timedout_2
    BY <1>2, Threads, QuietPlace, VisitPlace, SendPlace DEF tcp_timedout_2, Output
  <1>3. CASE UNCHANGED vars
    <2>1. Still /\ UNCHANGED <<step, flows, buffer, out, left, faults>>
      BY <1>3 DEF vars, handoffVars, tableVars, Still
    <2>2. Coming' = Coming
      BY <2>1, ComingStill DEF Working
    <2> QED
      BY <2>1, <2>2, SamePlaces
  <1> QED
    BY <1>1, <1>2, <1>3, ArrivePlace, HandOffPlace DEF Next

\* Whatever the interleaving, a packet is coming or has been put in one place.
THEOREM PlaceInvariance == Spec => []PlaceInv
  <1>1. ServiceInv /\ TableInv /\ PlaceInv /\ [Next]_vars /\ [NextTable]_tableVars => PlaceInv'
    BY PlaceStep, WaitersStep, WalkStep, FlowsGrow DEF PlaceInv, PlaceKept
  <1>2. SpecTable => [][NextTable]_tableVars
    BY PTL DEF SpecTable
  <1> QED
    BY <1>1, <1>2, InitPlace, ServiceInvariance, UsesTables, TableInvariance, PTL DEF Spec

\* The places a coming packet is in: one, and only if it is coming.
LEMMA ComingOnce ==
    ASSUME ServiceInv, NEW n \in Nat
    PROVE  LET a == Cardinality({t \in Thread : Working(t) /\ Held(t) = n})
               r == IF n >= read THEN 1 ELSE 0
               q == Cardinality({k \in DOMAIN queue : queue[k] = <<"main", n>>})
               g == Cardinality({c \in Consumers : got[c] = <<"main", n>>})
           IN  {a, r, q, g} \subseteq Nat /\ a + r + q + g = IF n \in Coming THEN 1 ELSE 0
  <1> DEFINE A == {t \in Thread : Working(t) /\ Held(t) = n}
             Q == {k \in DOMAIN queue : queue[k] = <<"main", n>>}
             G == {c \in Consumers : got[c] = <<"main", n>>}
             r == IF n >= read THEN 1 ELSE 0
  <1>1. /\ Oldest \in Nat /\ Oldest <= read /\ read \in Nat /\ Len(queue) \in Nat
        /\ Oldest = read - Len(queue) /\ DOMAIN queue = 1 .. Len(queue)
    BY PacketNumbers DEF Oldest, ServiceInv, ServiceTypeOK
  <1>2. \A t \in A : n < Oldest /\ G = {} /\ \A u \in A : u = t
    <2> SUFFICES ASSUME NEW t \in A PROVE n < Oldest /\ G = {} /\ \A u \in A : u = t
      OBVIOUS
    <2>1. \A u \in A : u \in Thread /\ step[u] # "wait" /\ Held(u) = n
      BY DEF Working
    <2>2. /\ Held(t) < Oldest /\ \A u \in Thread : step[u] # "wait" /\ Held(u) = Held(t) => u = t
          /\ \A c \in Consumers : HasGot(c) => got[c][2] # Held(t)
      BY <2>1, HeldAlone
    <2>3. \A c \in Consumers : got[c] = <<"main", n>> => HasGot(c)
      BY ServiceAssumption DEF HasGot
    <2> QED
      BY <2>1, <2>2, <2>3
  <1>3. \A c \in Consumers : got[c] = <<"main", n>> <=> HasGot(c) /\ got[c][2] = n
    <2> SUFFICES ASSUME NEW c \in Consumers
                 PROVE  got[c] = <<"main", n>> <=> HasGot(c) /\ got[c][2] = n
      OBVIOUS
    <2>1. got[c] = <<"main", n>> => HasGot(c)
      BY ServiceAssumption DEF HasGot
    <2>2. HasGot(c) => got[c] \in Item
      BY DEF ServiceInv, OwnPackets
    <2>3. \A i \in Item : i[2] = n => i = <<"main", n>>
      BY DEF Item
    <2> QED
      BY <2>1, <2>2, <2>3
  <1>4. \A c \in G : n < Oldest /\ \A d \in G : c = d
    BY <1>3 DEF ServiceInv, OwnPackets
  <1>5. \A k \in 1 .. Len(queue) : queue[k] = <<"main", n>> <=> k = n - Oldest + 1
    <2>1. \A k \in 1 .. Len(queue) : queue[k] = <<"main", Oldest + k - 1>>
      BY <1>1 DEF ServiceInv, QueueInOrder
    <2>2. \A k \in 1 .. Len(queue) : Oldest + k - 1 = n <=> k = n - Oldest + 1
      BY <1>1
    <2> QED
      BY <2>1, <2>2
  <1>6. Q # {} <=> n >= Oldest /\ n < read
    <2>1. Q # {} <=> n - Oldest + 1 \in 1 .. Len(queue)
      BY <1>1, <1>5
    <2>2. n - Oldest + 1 \in 1 .. Len(queue) <=> n >= Oldest /\ n < read
      BY <1>1
    <2> QED
      BY <2>1, <2>2
  <1>7. \A j, k \in Q : j = k
    BY <1>1, <1>5
  <1>8. n \in Coming <=> n >= Oldest \/ G # {} \/ A # {}
    BY <1>3 DEF Coming
  <1> HIDE DEF A, Q, G
  <1>9. /\ Cardinality(A) = IF A = {} THEN 0 ELSE 1
        /\ Cardinality(Q) = IF Q = {} THEN 0 ELSE 1
        /\ Cardinality(G) = IF G = {} THEN 0 ELSE 1
    BY <1>2, <1>4, <1>7, AtMostOne
  <1>10. A # {} => n < Oldest /\ G = {}
    BY <1>2
  <1>11. G # {} => n < Oldest
    BY <1>4
  <1>12. /\ {Cardinality(A), r, Cardinality(Q), Cardinality(G)} \subseteq Nat
         /\ Cardinality(A) + r + Cardinality(Q) + Cardinality(G) = IF n \in Coming THEN 1 ELSE 0
    BY <1>1, <1>6, <1>8, <1>9, <1>10, <1>11
  <1> QED
    BY <1>12 DEF A, Q, G

LEMMA SettledOnce ==
    ASSUME PlaceInv, NEW n \in Nat
    PROVE  LET b == Cardinality({f \in DOMAIN buffer : n \in buffer[f].packets})
               o == Cardinality({s \in Sender : n \in out[s]})
               l == IF n \in left THEN 1 ELSE 0
           IN  {b, o, l} \subseteq Nat /\ b + o + l = IF n \in Settled THEN 1 ELSE 0
  <1> DEFINE B == {f \in DOMAIN buffer : n \in buffer[f].packets}
             O == {s \in Sender : n \in out[s]}
             l == IF n \in left THEN 1 ELSE 0
  <1>1. \A f \in B : O = {} /\ n \notin left /\ \A g \in B : f = g
    BY DEF PlaceInv, Disjoint
  <1>2. \A s \in O : n \notin left /\ \A u \in O : s = u
    BY DEF PlaceInv, Disjoint
  <1>3. n \in Settled <=> B # {} \/ O # {} \/ n \in left
    BY DEF Settled
  <1> HIDE DEF B, O
  <1>4. /\ Cardinality(B) = IF B = {} THEN 0 ELSE 1
        /\ Cardinality(O) = IF O = {} THEN 0 ELSE 1
    BY <1>1, <1>2, AtMostOne
  <1>5. /\ {Cardinality(B), Cardinality(O), l} \subseteq Nat
        /\ Cardinality(B) + Cardinality(O) + l = IF n \in Settled THEN 1 ELSE 0
    BY <1>1, <1>2, <1>3, <1>4
  <1> QED
    BY <1>5 DEF B, O

\* A packet is in the ring, on its way to a consumer, in the hands of a thread, in one
\* buffer, being sent or sent: never in two places, and nowhere only if a socket had no
\* frame for it.  For any consumers, frames and arrivals, with and without threads.
THEOREM PacketsInOnePlace == Spec => []InOnePlace
  <1>1. ServiceInv /\ PlaceInv => InOnePlace
    <2> SUFFICES ASSUME ServiceInv, PlaceInv, NEW n \in Nat
                 PROVE  Copies(n) = 1 \/ (Copies(n) = 0 /\ faults > 0)
      BY DEF InOnePlace, ServiceInv, ServiceTypeOK
    <2> DEFINE a == Cardinality({t \in Thread : Working(t) /\ Held(t) = n})
               b == Cardinality({f \in DOMAIN buffer : n \in buffer[f].packets})
               o == Cardinality({s \in Sender : n \in out[s]})
               l == IF n \in left THEN 1 ELSE 0
               r == IF n >= read THEN 1 ELSE 0
               q == Cardinality({k \in DOMAIN queue : queue[k] = <<"main", n>>})
               g == Cardinality({c \in Consumers : got[c] = <<"main", n>>})
    <2>1. Copies(n) = a + b + o + l + r + q + g
      BY DEF Copies
    <2>2. {a, r, q, g} \subseteq Nat /\ a + r + q + g = IF n \in Coming THEN 1 ELSE 0
      BY ComingOnce
    <2>3. {b, o, l} \subseteq Nat /\ b + o + l = IF n \in Settled THEN 1 ELSE 0
      BY SettledOnce
    <2>4. /\ ~(n \in Coming /\ n \in Settled) /\ faults \in Nat
          /\ n \notin Coming /\ n \notin Settled => faults > 0
      <3>1. faults \in Nat /\ ~(n \in Coming /\ n \in Settled)
        BY DEF PlaceInv, PlaceTypeOK, Disjoint
      <3>2. faults = 0 => n \in Coming \/ n \in Settled
        BY DEF PlaceInv, NoneMissing
      <3> QED
        BY <3>1, <3>2
    <2> HIDE DEF a, b, o, l, r, q, g
    <2> QED
      BY <2>1, <2>2, <2>3, <2>4
  <1> QED
    BY <1>1, ServiceInvariance, PlaceInvariance, PTL
=============================================================================
