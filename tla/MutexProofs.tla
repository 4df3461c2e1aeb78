---------------------------- MODULE MutexProofs ----------------------------
(***************************************************************************)
(* Proofs about the two structures that threads share under a mutex: the   *)
(* ring of pc_buffer.c (PCBuffer) and the lists of mode tcp_list           *)
(* (BulkList).                                                             *)
(*                                                                         *)
(* The safety of the mutex hand-off, for any finite sets of threads and    *)
(* any ring size of at least two.                                          *)
(*                                                                         *)
(* The lists of a flow are in order, every segment is handed over once,    *)
(* and what is merged is contiguous, for any flows, segments and threads.  *)
(***************************************************************************)
EXTENDS PCBuffer, BulkList, FiniteSetTheorems, SequenceTheorems, CommonLemmas

-----------------------------------------------------------------------------
(* Facts about the ring. *)

LEMMA RingMod ==
    ASSUME NEW n \in Nat, NEW d \in Nat, d > 0
    PROVE  /\ n < d => n % d = n
           /\ n >= d /\ n < d + d => n % d = n - d
           /\ n = d + d => n % d = 0
<1>1. ASSUME n < d PROVE n % d = n
  BY <1>1, SMT
<1>2. ASSUME n >= d, n < d + d PROVE n % d = n - d
  BY <1>2, SMT
<1>3. ASSUME n = d + d PROVE n % d = 0
  BY <1>3, SMT
<1> QED
  BY <1>1, <1>2, <1>3

\* Advancing a position goes once round the ring.
LEMMA AdvanceIsNext ==
    ASSUME NEW r \in Slots, NEW k \in 0 .. PC_BUFFER_SIZE
    PROVE  /\ Advance(r) \in Slots
           /\ Advance((r + k) % PC_BUFFER_SIZE) = (r + k + 1) % PC_BUFFER_SIZE
           /\ k > 0 => (Advance(r) + (k - 1)) % PC_BUFFER_SIZE = (r + k) % PC_BUFFER_SIZE
<1> DEFINE d == PC_BUFFER_SIZE
<1>1. d \in Nat /\ d > 1 /\ r \in Nat /\ r < d /\ k \in Nat /\ k <= d
  BY SizeAssumption DEF Slots
<1>3. Advance(r) \in Slots
  BY <1>1 DEF Advance, Slots
<1>4. \A n \in Nat : n < d + d => n % d = IF n < d THEN n ELSE n - d
  BY <1>1, RingMod
<1>5. \A n \in Nat : n = d + d => n % d = 0
  BY <1>1, RingMod
<1> HIDE DEF d
<1>6. Advance((r + k) % d) = (r + k + 1) % d
  <2>1. CASE r + k < d
    BY <2>1, <1>1, <1>4 DEF Advance, d
  <2>2. CASE ~(r + k < d) /\ r + k + 1 < d + d
    BY <2>2, <1>1, <1>4 DEF Advance, d
  <2>3. CASE r + k + 1 = d + d
    BY <2>3, <1>1, <1>4, <1>5 DEF Advance, d
  <2> QED
    BY <2>1, <2>2, <2>3, <1>1
<1>7. k > 0 => (Advance(r) + (k - 1)) % d = (r + k) % d
  BY <1>1, <1>4 DEF Advance, d
<1> QED
  BY <1>3, <1>6, <1>7 DEF d

-----------------------------------------------------------------------------
(* Counting threads. *)

LEMMA Move ==
    ASSUME NEW S, IsFiniteSet(S), NEW t
    PROVE  /\ IsFiniteSet(S \cup {t}) /\ IsFiniteSet(S \ {t})
           /\ Cardinality(S) \in Nat
           /\ t \notin S => Cardinality(S \cup {t}) = Cardinality(S) + 1
           /\ t \in S => Cardinality(S \ {t}) = Cardinality(S) - 1
BY FS_AddElement, FS_RemoveElement, FS_CardinalityType

LEMMA CountsAreFinite ==
    ASSUME NEW T \in {Producers, Consumers}
    PROVE  /\ IsFiniteSet(Before(T)) /\ IsFiniteSet(After(T))
           /\ Cardinality(Before(T)) \in Nat /\ Cardinality(After(T)) \in Nat
<1>1. IsFiniteSet(T) /\ Before(T) \subseteq T /\ After(T) \subseteq T
  BY ThreadAssumption DEF Before, After
<1> QED
  BY <1>1, FS_Subset, FS_CardinalityType

\* A step that leaves a thread on the same side of its use of the ring, or that
\* is taken by a thread of the other kind, does not change the counts.
LEMMA SameCounts ==
    ASSUME NEW t \in Thread, NEW from, NEW to, TypeOK, Goto(t, from, to),
           NEW T \in {Producers, Consumers},
           \/ t \notin T
           \/ from \in {"lock", "use"} /\ to \in {"lock", "use"}
           \/ from \in {"unlock", "post"} /\ to \in {"unlock", "post"}
    PROVE  Before(T)' = Before(T) /\ After(T)' = After(T)
<1> T \subseteq Thread
  BY DEF Thread
<1>1. \A u \in T : (pc'[u] \in {"lock", "use"}) <=> (pc[u] \in {"lock", "use"})
  BY DEF TypeOK, Goto
<1>2. \A u \in T : (pc'[u] \in {"unlock", "post"}) <=> (pc[u] \in {"unlock", "post"})
  BY DEF TypeOK, Goto
<1> QED
  BY <1>1, <1>2 DEF Before, After

LEMMA WaitCounts ==
    ASSUME NEW T \in {Producers, Consumers}, NEW t \in T, TypeOK, Goto(t, "idle", "lock")
    PROVE  /\ Cardinality(Before(T)') = Cardinality(Before(T)) + 1
           /\ After(T)' = After(T)
<1>0. T \subseteq Thread
  BY DEF Thread
<1>1. Before(T)' = Before(T) \cup {t} /\ t \notin Before(T)
  BY <1>0 DEF TypeOK, Goto, Before
<1>2. After(T)' = After(T)
  BY <1>0 DEF TypeOK, Goto, After
<1> QED
  BY <1>1, <1>2, Move, CountsAreFinite

LEMMA UseCounts ==
    ASSUME NEW T \in {Producers, Consumers}, NEW t \in T, TypeOK, Goto(t, "use", "unlock")
    PROVE  /\ Cardinality(Before(T)') = Cardinality(Before(T)) - 1
           /\ Cardinality(After(T)') = Cardinality(After(T)) + 1
<1>0. T \subseteq Thread
  BY DEF Thread
<1>1. Before(T)' = Before(T) \ {t} /\ t \in Before(T)
  BY <1>0 DEF TypeOK, Goto, Before
<1>2. After(T)' = After(T) \cup {t} /\ t \notin After(T)
  BY <1>0 DEF TypeOK, Goto, After
<1> QED
  BY <1>1, <1>2, Move, CountsAreFinite

LEMMA PostCounts ==
    ASSUME NEW T \in {Producers, Consumers}, NEW t \in T, TypeOK, Goto(t, "post", "idle")
    PROVE  /\ Before(T)' = Before(T)
           /\ Cardinality(After(T)') = Cardinality(After(T)) - 1
<1>0. T \subseteq Thread
  BY DEF Thread
<1>1. Before(T)' = Before(T)
  BY <1>0 DEF TypeOK, Goto, Before
<1>2. After(T)' = After(T) \ {t} /\ t \in After(T)
  BY <1>0 DEF TypeOK, Goto, After
<1> QED
  BY <1>1, <1>2, Move, CountsAreFinite

-----------------------------------------------------------------------------
THEOREM TypeCorrect == Spec => []TypeOK
<1>1. Init => TypeOK
  BY SizeAssumption DEF Init, TypeOK, Slots, Labels
<1>2. TypeOK /\ [Next]_vars => TypeOK'
  <2> SUFFICES ASSUME TypeOK, [Next]_vars PROVE TypeOK'
    OBVIOUS
  <2> USE DEF TypeOK, Goto, Labels
  <2>1. ASSUME NEW t \in Thread, SemWait(t) PROVE TypeOK'
    BY <2>1 DEF SemWait, Waits
  <2>2. ASSUME NEW t \in Thread, MutexLock(t) PROVE TypeOK'
    BY <2>2 DEF MutexLock
  <2>3. ASSUME NEW p \in Producers, Put(p) PROVE TypeOK'
    <3>1. <<p, sent[p]>> \in Item
      BY DEF Item
    <3>2. Advance(writepos) \in Slots
      BY SizeAssumption DEF Advance, Slots
    <3>3. /\ buffer' \in [Slots -> Item \cup {NoItem}]
          /\ pc' \in [Thread -> Labels]
          /\ sent' \in [Producers -> Nat]
      <4>1. buffer' \in [Slots -> Item \cup {NoItem}]
        BY <3>1, <2>3 DEF Put
      <4>2. pc' \in [Thread -> Labels]
        BY <2>3 DEF Put
      <4>3. sent' \in [Producers -> Nat]
        BY <2>3 DEF Put
      <4> QED
        BY <4>1, <4>2, <4>3
    <3> QED
      BY <3>2, <3>3, <2>3 DEF Put
  <2>4. ASSUME NEW c \in Consumers, Take(c) PROVE TypeOK'
    <3>1. Advance(readpos) \in Slots
      BY SizeAssumption DEF Advance, Slots
    <3>2. pc' \in [Thread -> Labels] /\ el' \in [Consumers -> Item \cup {NoItem}]
      BY <2>4 DEF Take
    <3> QED
      BY <3>1, <3>2, <2>4 DEF Take
  <2>5. ASSUME NEW t \in Thread, MutexUnlock(t) PROVE TypeOK'
    BY <2>5 DEF MutexUnlock
  <2>6. ASSUME NEW t \in Thread, SemPost(t) PROVE TypeOK'
    BY <2>6 DEF SemPost, Posts
  <2>7. CASE UNCHANGED vars
    BY <2>7 DEF vars
  <2> QED
    BY <2>1, <2>2, <2>3, <2>4, <2>5, <2>6, <2>7
    DEF Next, producer_mut_service, consumer_mut_service, Thread
<1> QED
  BY <1>1, <1>2, PTL DEF Spec

-----------------------------------------------------------------------------
(* The inductive invariant. *)

LEMMA KindsDiffer ==
    /\ \A p \in Producers : p \notin Consumers /\ p \in Thread
                            /\ Waits(p) = "empty" /\ Posts(p) = "full"
    /\ \A c \in Consumers : c \notin Producers /\ c \in Thread
                            /\ Waits(c) = "full" /\ Posts(c) = "empty"
BY ThreadAssumption DEF Thread, Waits, Posts

LEMMA TokensConservedStep ==
    ASSUME TypeOK, TokensConserved, Next
    PROVE  TokensConserved'
<1> DEFINE bp == Cardinality(Before(Producers))
           ap == Cardinality(After(Producers))
           bc == Cardinality(Before(Consumers))
           ac == Cardinality(After(Consumers))
           e == sem["empty"]
           f == sem["full"]
<1>0. /\ bp \in Nat /\ ap \in Nat /\ bc \in Nat /\ ac \in Nat
      /\ e \in Nat /\ f \in Nat /\ in \in Int /\ PC_BUFFER_SIZE \in Nat
  BY CountsAreFinite, SizeAssumption DEF TypeOK
<1>1. /\ e + bp + ac + in = PC_BUFFER_SIZE - 1
      /\ f + bc + ap = in
  BY DEF TokensConserved
<1> SUFFICES /\ e' + bp' + ac' + in' = PC_BUFFER_SIZE - 1
             /\ f' + bc' + ap' = in'
  BY DEF TokensConserved
<1>2. ASSUME NEW p \in Producers, producer_mut_service(p)
      PROVE  /\ e' + bp' + ac' + in' = PC_BUFFER_SIZE - 1
             /\ f' + bc' + ap' = in'
  <2>0. p \in Thread /\ p \notin Consumers /\ Waits(p) = "empty" /\ Posts(p) = "full"
    BY KindsDiffer
  <2>1. CASE SemWait(p)
    <3>1. e' = e - 1 /\ f' = f /\ in' = in
      BY <2>0, <2>1 DEF SemWait, TypeOK
    <3>2. bp' = bp + 1 /\ ap' = ap /\ bc' = bc /\ ac' = ac
      BY <2>0, <2>1, WaitCounts, SameCounts DEF SemWait
    <3> QED
      BY <1>0, <1>1, <3>1, <3>2
  <2>2. CASE MutexLock(p)
    <3>1. e' = e /\ f' = f /\ in' = in
      BY <2>2 DEF MutexLock
    <3>2. bp' = bp /\ ap' = ap /\ bc' = bc /\ ac' = ac
      BY <2>0, <2>2, SameCounts DEF MutexLock
    <3> QED
      BY <1>1, <3>1, <3>2
  <2>3. CASE Put(p)
    <3>1. e' = e /\ f' = f /\ in' = in + 1
      BY <2>3 DEF Put
    <3>2. bp' = bp - 1 /\ ap' = ap + 1 /\ bc' = bc /\ ac' = ac
      BY <2>0, <2>3, UseCounts, SameCounts DEF Put
    <3> QED
      BY <1>0, <1>1, <3>1, <3>2
  <2>4. CASE MutexUnlock(p)
    <3>1. e' = e /\ f' = f /\ in' = in
      BY <2>4 DEF MutexUnlock
    <3>2. bp' = bp /\ ap' = ap /\ bc' = bc /\ ac' = ac
      BY <2>0, <2>4, SameCounts DEF MutexUnlock
    <3> QED
      BY <1>1, <3>1, <3>2
  <2>5. CASE SemPost(p)
    <3>1. e' = e /\ f' = f + 1 /\ in' = in
      BY <2>0, <2>5 DEF SemPost, TypeOK
    <3>2. bp' = bp /\ ap' = ap - 1 /\ bc' = bc /\ ac' = ac
      BY <2>0, <2>5, PostCounts, SameCounts DEF SemPost
    <3> QED
      BY <1>0, <1>1, <3>1, <3>2
  <2> QED
    BY <1>2, <2>1, <2>2, <2>3, <2>4, <2>5 DEF producer_mut_service
<1>3. ASSUME NEW c \in Consumers, consumer_mut_service(c)
      PROVE  /\ e' + bp' + ac' + in' = PC_BUFFER_SIZE - 1
             /\ f' + bc' + ap' = in'
  <2>0. c \in Thread /\ c \notin Producers /\ Waits(c) = "full" /\ Posts(c) = "empty"
    BY KindsDiffer
  <2>1. CASE SemWait(c)
    <3>1. e' = e /\ f' = f - 1 /\ in' = in
      BY <2>0, <2>1 DEF SemWait, TypeOK
    <3>2. bc' = bc + 1 /\ ap' = ap /\ bp' = bp /\ ac' = ac
      BY <2>0, <2>1, WaitCounts, SameCounts DEF SemWait
    <3> QED
      BY <1>0, <1>1, <3>1, <3>2
  <2>2. CASE MutexLock(c)
    <3>1. e' = e /\ f' = f /\ in' = in
      BY <2>2 DEF MutexLock
    <3>2. bp' = bp /\ ap' = ap /\ bc' = bc /\ ac' = ac
      BY <2>0, <2>2, SameCounts DEF MutexLock
    <3> QED
      BY <1>1, <3>1, <3>2
  <2>3. CASE Take(c)
    <3>1. e' = e /\ f' = f /\ in' = in - 1
      BY <2>3 DEF Take
    <3>2. bc' = bc - 1 /\ ac' = ac + 1 /\ bp' = bp /\ ap' = ap
      BY <2>0, <2>3, UseCounts, SameCounts DEF Take
    <3>3. e' + bp' + ac' + in' = PC_BUFFER_SIZE - 1
      <4>1. e + bp + (ac + 1) + (in - 1) = e + bp + ac + in
        BY <1>0
      <4> QED
        BY <4>1, <1>1, <3>1, <3>2
    <3>4. f' + bc' + ap' = in'
      BY <1>0, <1>1, <3>1, <3>2
    <3> QED
      BY <3>3, <3>4
  <2>4. CASE MutexUnlock(c)
    <3>1. e' = e /\ f' = f /\ in' = in
      BY <2>4 DEF MutexUnlock
    <3>2. bp' = bp /\ ap' = ap /\ bc' = bc /\ ac' = ac
      BY <2>0, <2>4, SameCounts DEF MutexUnlock
    <3> QED
      BY <1>1, <3>1, <3>2
  <2>5. CASE SemPost(c)
    <3>1. e' = e + 1 /\ f' = f /\ in' = in
      BY <2>0, <2>5 DEF SemPost, TypeOK
    <3>2. bc' = bc /\ ac' = ac - 1 /\ bp' = bp /\ ap' = ap
      BY <2>0, <2>5, PostCounts, SameCounts DEF SemPost
    <3> QED
      BY <1>0, <1>1, <3>1, <3>2
  <2> QED
    BY <1>3, <2>1, <2>2, <2>3, <2>4, <2>5 DEF consumer_mut_service
<1> QED
  BY <1>2, <1>3 DEF Next

LEMMA CountBounds ==
    ASSUME TypeOK, TokensConserved
    PROVE  /\ in \in 0 .. PC_BUFFER_SIZE - 1
           /\ NoOverrun
<1>0. /\ \A T \in {Producers, Consumers} :
             Cardinality(Before(T)) \in Nat /\ Cardinality(After(T)) \in Nat
      /\ sem["empty"] \in Nat /\ sem["full"] \in Nat /\ in \in Int
      /\ PC_BUFFER_SIZE \in Nat
  BY CountsAreFinite, SizeAssumption DEF TypeOK
<1>1. in \in 0 .. PC_BUFFER_SIZE - 1
  BY <1>0 DEF TokensConserved
<1>2. ASSUME NEW T \in {Producers, Consumers}, NEW t \in T, pc[t] = "use"
      PROVE  Cardinality(Before(T)) >= 1
  <2>1. t \in Before(T) /\ IsFiniteSet(Before(T))
    BY <1>2, CountsAreFinite DEF Before
  <2>2. Cardinality(Before(T) \ {t}) = Cardinality(Before(T)) - 1
    BY <2>1, Move
  <2>3. Cardinality(Before(T) \ {t}) \in Nat
    BY <2>1, Move
  <2> QED
    BY <2>2, <2>3, <1>0
<1>3. ASSUME NEW p \in Producers, pc[p] = "use"
      PROVE  in \in 0 .. PC_BUFFER_SIZE - 2
  <2>1. Cardinality(Before(Producers)) >= 1
    BY <1>2, <1>3
  <2> QED
    BY <2>1, <1>0, <1>1 DEF TokensConserved
<1>4. ASSUME NEW c \in Consumers, pc[c] = "use"
      PROVE  in \in 1 .. PC_BUFFER_SIZE - 1
  <2>1. Cardinality(Before(Consumers)) >= 1
    BY <1>2, <1>4
  <2> QED
    BY <2>1, <1>0, <1>1 DEF TokensConserved
<1> QED
  BY <1>1, <1>3, <1>4 DEF NoOverrun

LEMMA PositionsAgreeStep ==
    ASSUME TypeOK, TokensConserved, PositionsAgree, Next
    PROVE  PositionsAgree'
<1>1. readpos \in Slots /\ in \in 0 .. PC_BUFFER_SIZE - 1 /\ PC_BUFFER_SIZE \in Nat
  BY CountBounds, SizeAssumption DEF TypeOK
<1>2. CASE \E p \in Producers : Put(p)
  <2>1. writepos' = Advance(writepos) /\ in' = in + 1 /\ readpos' = readpos
    BY <1>2 DEF Put
  <2>2. Advance((readpos + in) % PC_BUFFER_SIZE) = (readpos + in + 1) % PC_BUFFER_SIZE
    <3>1. in \in 0 .. PC_BUFFER_SIZE
      BY <1>1
    <3> QED
      BY <1>1, <3>1, AdvanceIsNext, Zenon
  <2>3. readpos + in + 1 = readpos + (in + 1)
    BY <1>1 DEF Slots
  <2> QED
    BY <2>1, <2>2, <2>3 DEF PositionsAgree
<1>3. CASE \E c \in Consumers : Take(c)
  <2>1. readpos' = Advance(readpos) /\ in' = in - 1 /\ writepos' = writepos
    BY <1>3 DEF Take
  <2>2. in > 0
    BY <1>1, <1>3, CountBounds DEF NoOverrun, Take, Goto
  <2>3. (Advance(readpos) + (in - 1)) % PC_BUFFER_SIZE = (readpos + in) % PC_BUFFER_SIZE
    BY <1>1, <2>2, AdvanceIsNext
  <2> QED
    BY <2>1, <2>3 DEF PositionsAgree
<1>4. CASE UNCHANGED <<readpos, writepos, in>>
  BY <1>4 DEF PositionsAgree
<1> QED
  BY <1>2, <1>3, <1>4
  DEF Next, producer_mut_service, consumer_mut_service, SemWait, MutexLock,
      MutexUnlock, SemPost

LEMMA MutualExclusionStep ==
    ASSUME TypeOK, MutualExclusion, NEW t \in Thread,
           \/ SemWait(t) \/ MutexLock(t) \/ MutexUnlock(t) \/ SemPost(t)
           \/ Put(t) \/ Take(t)
    PROVE  MutualExclusion'
<1>0. "free" \notin Thread
  BY ThreadAssumption DEF Thread
<1> USE DEF MutualExclusion, Goto, TypeOK
<1>1. CASE SemWait(t)
  BY <1>0, <1>1 DEF SemWait
<1>2. CASE MutexLock(t)
  BY <1>0, <1>2 DEF MutexLock
<1>3. CASE Put(t) \/ Take(t)
  BY <1>0, <1>3 DEF Put, Take
<1>4. CASE MutexUnlock(t)
  BY <1>0, <1>4 DEF MutexUnlock
<1>5. CASE SemPost(t)
  BY <1>0, <1>5 DEF SemPost
<1> QED
  BY <1>1, <1>2, <1>3, <1>4, <1>5

-----------------------------------------------------------------------------
THEOREM Invariance == Spec => []Inv
<1>1. Init => TypeOK
  BY SizeAssumption DEF Init, TypeOK, Slots, Labels
<1>2. Init => MutualExclusion /\ PositionsAgree
  <2> SUFFICES ASSUME Init PROVE MutualExclusion /\ PositionsAgree
    OBVIOUS
  <2>1. \A t \in Thread : pc[t] = "idle" /\ mutex # t
    BY ThreadAssumption DEF Init, Thread
  <2>2. (0 + 0) % PC_BUFFER_SIZE = 0
    BY SizeAssumption, RingMod
  <2> QED
    BY <2>1, <2>2 DEF Init, MutualExclusion, PositionsAgree
<1>3. Init => TokensConserved
  <2> SUFFICES ASSUME Init PROVE TokensConserved
    OBVIOUS
  <2>1. \A T \in {Producers, Consumers} : Before(T) = {} /\ After(T) = {}
    BY DEF Init, Before, After, Thread
  <2>2. Cardinality({}) = 0
    BY FS_EmptySet
  <2>3. sem["empty"] = PC_BUFFER_SIZE - 1 /\ sem["full"] = 0 /\ in = 0
    BY DEF Init
  <2>4. PC_BUFFER_SIZE - 1 + 0 + 0 + 0 = PC_BUFFER_SIZE - 1 /\ 0 + 0 + 0 = 0
    BY SizeAssumption
  <2> QED
    BY <2>1, <2>2, <2>3, <2>4 DEF TokensConserved
<1>4. Inv /\ TypeOK' /\ [Next]_vars => Inv'
  <2> SUFFICES ASSUME Inv, TypeOK', [Next]_vars PROVE Inv'
    OBVIOUS
  <2>1. CASE Next
    <3>1. MutualExclusion'
      BY <2>1, MutualExclusionStep
      DEF Inv, Next, producer_mut_service, consumer_mut_service, Thread
    <3> QED
      BY <2>1, <3>1, TokensConservedStep, PositionsAgreeStep DEF Inv
  <2>2. CASE UNCHANGED vars
    BY <2>2 DEF vars, Inv, TypeOK, MutualExclusion, TokensConserved, PositionsAgree,
       Before, After
  <2> QED
    BY <2>1, <2>2
<1> QED
  BY <1>1, <1>2, <1>3, <1>4, TypeCorrect, PTL DEF Spec, Inv

\* No semaphore token is lost or made up (pc_buffer.c:100-118).
THEOREM Tokens == Spec => []TokensConserved
<1>1. Inv => TokensConserved
  BY DEF Inv
<1> QED
  BY <1>1, Invariance, PTL

\* A producer never overwrites a packet still to be read, and a consumer never
\* reads an empty ring (multi_threading.c:28-31 and 74-77).
THEOREM Capacity == Spec => []NoOverrun
<1>1. Inv => NoOverrun
  BY CountBounds DEF Inv
<1> QED
  BY <1>1, Invariance, PTL

\* Only the thread that locked the mutex is inside the ring.
THEOREM Exclusion == Spec => []MutualExclusion
<1>1. Inv => MutualExclusion
  BY DEF Inv
<1> QED
  BY <1>1, Invariance, PTL

-----------------------------------------------------------------------------
(***************************************************************************)
(* The ring implements PacketQueue.                                        *)
(***************************************************************************)
\* The slots from readpos on hold the packets that are in the ring.
Filled == \A k \in 0 .. in - 1 : buffer[(readpos + k) % PC_BUFFER_SIZE] \in Item

LEMMA IsAppended ==
    ASSUME NEW S, NEW n \in Nat, NEW x \in S, NEW q \in [1 .. n -> S],
           NEW r \in [1 .. n + 1 -> S], \A k \in 1 .. n : r[k] = q[k], r[n + 1] = x
    PROVE  r = Append(q, x)
<1>1. q \in Seq(S) /\ Len(q) = n
  OBVIOUS
<1>2. PICK a : a = Append(q, x)
  OBVIOUS
<1>3. a \in [1 .. n + 1 -> S] /\ a[n + 1] = x /\ \A k \in 1 .. n : a[k] = q[k]
  <2>1. a \in Seq(S) /\ Len(a) = n + 1
    BY <1>1, <1>2, AppendProperties
  <2>2. a[n + 1] = x /\ \A k \in 1 .. n : a[k] = q[k]
    BY <1>1, <1>2, AppendProperties
  <2> QED
    BY <2>1, <2>2, LenProperties
<1>4. \A k \in 1 .. n + 1 : a[k] = r[k]
  BY <1>3
<1>5. a = r
  BY <1>3, <1>4
<1> QED
  BY <1>2, <1>5

LEMMA TailIs ==
    ASSUME NEW S, NEW n \in Nat, NEW q \in [1 .. n + 1 -> S],
           NEW r \in [1 .. n -> S], \A k \in 1 .. n : r[k] = q[k + 1]
    PROVE  r = Tail(q) /\ Head(q) = q[1] /\ q # <<>>
<1>1. q \in Seq(S) /\ Len(q) = n + 1
  OBVIOUS
<1>2. PICK a : a = Tail(q)
  OBVIOUS
<1>3. a \in [1 .. n -> S] /\ \A k \in 1 .. n : a[k] = q[k + 1]
  <2>1. q # <<>>
    BY <1>1
  <2>2. a \in Seq(S) /\ Len(a) = n
    BY <1>1, <1>2, <2>1, HeadTailProperties
  <2>3. \A k \in 1 .. n : a[k] = q[k + 1]
    BY <1>1, <1>2, <2>1, HeadTailProperties
  <2> QED
    BY <2>2, <2>3, LenProperties
<1>4. a = r
  BY <1>3
<1>5. Head(q) = q[1] /\ q # <<>>
  BY <1>1
<1> QED
  BY <1>2, <1>4, <1>5

\* The packet a position holds, and that positions less than the ring apart differ.
LEMMA SlotsOfRing ==
    ASSUME NEW r \in Slots, NEW j \in 0 .. PC_BUFFER_SIZE - 1
    PROVE  /\ (r + j) % PC_BUFFER_SIZE \in Slots
           /\ \A k \in 0 .. j - 1 : (r + k) % PC_BUFFER_SIZE # (r + j) % PC_BUFFER_SIZE
           /\ (r + 0) % PC_BUFFER_SIZE = r
<1> DEFINE d == PC_BUFFER_SIZE
<1>1. d \in Nat /\ d > 1 /\ r \in Nat /\ r < d /\ j \in Nat /\ j < d
  BY SizeAssumption DEF Slots
<1>2. \A n \in Nat : n < d + d => n % d = IF n < d THEN n ELSE n - d
  BY <1>1, RingMod
<1> HIDE DEF d
<1>3. (r + j) % d \in 0 .. d - 1
  BY <1>1, <1>2
<1>4. \A k \in 0 .. j - 1 : (r + k) % d # (r + j) % d
  BY <1>1, <1>2
<1>5. (r + 0) % d = r
  BY <1>1, <1>2
<1> QED
  BY <1>3, <1>4, <1>5 DEF d, Slots

\* The packets not yet assigned, d of those in the ring being assigned already.
QueueOf(b, r, i, d) == [k \in 1 .. i - d |-> b[(r + (k - 1 + d)) % PC_BUFFER_SIZE]]

LEMMA QueueIs ==
    ASSUME NEW b, NEW r \in Slots, NEW i \in 0 .. PC_BUFFER_SIZE - 1, NEW d \in {0, 1}, d <= i,
           \A k \in 0 .. i - 1 : b[(r + k) % PC_BUFFER_SIZE] \in Item
    PROVE  /\ QueueOf(b, r, i, d) \in [1 .. i - d -> Item]
           /\ \A k \in 1 .. i - d : QueueOf(b, r, i, d)[k] = b[(r + (k - 1 + d)) % PC_BUFFER_SIZE]
<1>1. \A k \in 1 .. i - d : k - 1 + d \in 0 .. i - 1
  BY SizeAssumption
<1> QED
  BY <1>1 DEF QueueOf

\* Which packets are queued depends on whether a consumer is taking one.
LEMMA QueueNow ==
    ASSUME NEW r \in Nat, r = readpos, NEW i \in Nat, i = in
    PROVE  /\ ~Taking => Queue = QueueOf(buffer, r, i, 0)
           /\ Taking => Queue = QueueOf(buffer, r, i, 1)
<1>1. \A k \in 1 .. i : r + k - 1 = r + (k - 1 + 0) /\ r + k - 0 = r + (k - 1 + 1)
  OBVIOUS
<1>2. CASE ~Taking
  BY <1>1, <1>2 DEF Queue, QueueOf
<1>3. CASE Taking
  BY <1>1, <1>3 DEF Queue, QueueOf
<1> QED
  BY <1>2, <1>3

LEMMA QueueThen ==
    ASSUME NEW r \in Nat, r = readpos', NEW i \in Nat, i = in'
    PROVE  /\ ~Taking' => Queue' = QueueOf(buffer', r, i, 0)
           /\ Taking' => Queue' = QueueOf(buffer', r, i, 1)
<1>1. \A k \in 1 .. i : r + k - 1 = r + (k - 1 + 0) /\ r + k - 0 = r + (k - 1 + 1)
  OBVIOUS
<1>2. PICK d : d = IF Taking' THEN 1 ELSE 0
  OBVIOUS
<1>3. PICK e : e = IF Taking' THEN 0 ELSE 1
  OBVIOUS
<1>4. Queue' = [k \in 1 .. i - d |-> buffer'[(r + k - e) % PC_BUFFER_SIZE]]
  BY <1>2, <1>3 DEF Queue
<1>5. CASE ~Taking'
  <2>1. d = 0 /\ e = 1
    BY <1>2, <1>3, <1>5
  <2>2. \A k \in 1 .. i - 0 : r + k - 1 = r + (k - 1 + 0)
    BY <1>1
  <2> QED
    BY <1>4, <1>5, <2>1, <2>2 DEF QueueOf
<1>6. CASE Taking'
  <2>1. d = 1 /\ e = 0
    BY <1>2, <1>3, <1>6
  <2>2. \A k \in 1 .. i - 1 : r + k - 0 = r + (k - 1 + 1)
    BY <1>1
  <2> QED
    BY <1>4, <1>6, <2>1, <2>2 DEF QueueOf
<1> QED
  BY <1>5, <1>6

\* What the invariant says of the variables of the ring.
LEMMA RingFacts ==
    ASSUME Inv
    PROVE  /\ readpos \in Slots /\ readpos \in Nat /\ in \in Nat /\ in \in 0 .. PC_BUFFER_SIZE - 1
           /\ writepos = (readpos + in) % PC_BUFFER_SIZE
           /\ PC_BUFFER_SIZE \in Nat
<1>1. in \in 0 .. PC_BUFFER_SIZE - 1
  BY CountBounds DEF Inv
<1> QED
  BY <1>1, SizeAssumption DEF Inv, TypeOK, PositionsAgree, Slots

\* One thread at a time uses the ring.
LEMMA OneUses ==
    ASSUME Inv, NEW t \in Thread, NEW u \in Thread, pc[t] = "use", pc[u] = "use"
    PROVE  t = u
BY DEF Inv, MutualExclusion

LEMMA PutFills ==
    ASSUME Inv, Filled, NEW p \in Producers, Put(p)
    PROVE  /\ in' = in + 1 /\ in < PC_BUFFER_SIZE - 1 /\ readpos' = readpos
           /\ \A k \in 0 .. in - 1 : buffer'[(readpos + k) % PC_BUFFER_SIZE] =
                                         buffer[(readpos + k) % PC_BUFFER_SIZE]
           /\ buffer'[(readpos + in) % PC_BUFFER_SIZE] = <<p, sent[p]>>
           /\ <<p, sent[p]>> \in Item
<1>1. in' = in + 1 /\ readpos' = readpos /\ buffer' = [buffer EXCEPT ![writepos] = <<p, sent[p]>>]
  BY DEF Put
<1>2. in < PC_BUFFER_SIZE - 1
  BY RingFacts, CountBounds DEF Inv, NoOverrun, Put, Goto
<1>3. \A k \in 0 .. in - 1 : (readpos + k) % PC_BUFFER_SIZE # writepos
  BY RingFacts, SlotsOfRing
<1>4. \A k \in 0 .. in - 1 : (readpos + k) % PC_BUFFER_SIZE \in Slots
  BY RingFacts, SlotsOfRing
<1>5. writepos \in Slots /\ buffer \in [Slots -> Item \cup {NoItem}] /\ sent \in [Producers -> Nat]
  BY DEF Inv, TypeOK
<1>6. buffer'[(readpos + in) % PC_BUFFER_SIZE] = <<p, sent[p]>>
  BY <1>1, <1>5, RingFacts
<1>7. <<p, sent[p]>> \in Item
  BY <1>5 DEF Item
<1> QED
  BY <1>1, <1>2, <1>3, <1>4, <1>5, <1>6, <1>7

LEMMA TakeMoves ==
    ASSUME Inv, NEW c \in Consumers, Take(c)
    PROVE  /\ in > 0 /\ in' = in - 1 /\ readpos' = Advance(readpos) /\ readpos' \in Slots
           /\ buffer' = buffer
           /\ \A k \in 1 .. in : (readpos' + (k - 1)) % PC_BUFFER_SIZE =
                                     (readpos + k) % PC_BUFFER_SIZE
<1>1. in' = in - 1 /\ readpos' = Advance(readpos) /\ buffer' = buffer
  BY DEF Take
<1>2. in > 0
  BY RingFacts, CountBounds DEF Inv, NoOverrun, Take, Goto
<1>3. \A k \in 1 .. in : (Advance(readpos) + (k - 1)) % PC_BUFFER_SIZE =
                             (readpos + k) % PC_BUFFER_SIZE
  <2> TAKE k \in 1 .. in
  <2>1. k \in 0 .. PC_BUFFER_SIZE /\ k > 0
    BY RingFacts
  <2> QED
    BY <2>1, RingFacts, AdvanceIsNext
<1>4. Advance(readpos) \in Slots
  <2>1. 0 \in 0 .. PC_BUFFER_SIZE
    BY SizeAssumption
  <2> QED
    BY <2>1, RingFacts, AdvanceIsNext
<1> QED
  BY <1>1, <1>2, <1>3, <1>4

LEMMA FilledStep == Inv /\ Filled /\ [Next]_vars => Filled'
<1> SUFFICES ASSUME Inv, Filled, [Next]_vars PROVE Filled'
  OBVIOUS
<1>1. ASSUME NEW p \in Producers, Put(p) PROVE Filled'
  <2> SUFFICES ASSUME NEW k \in 0 .. in' - 1
               PROVE  buffer'[(readpos' + k) % PC_BUFFER_SIZE] \in Item
    BY DEF Filled
  <2>1. PICK i \in Nat : i = in
    BY RingFacts
  <2>2. in' = i + 1 /\ readpos' = readpos
    BY <1>1, <2>1, PutFills
  <2>3. k \in 0 .. i - 1 \/ k = i
    BY <2>1, <2>2
  <2> QED
    BY <1>1, <2>1, <2>2, <2>3, PutFills DEF Filled
<1>2. ASSUME NEW c \in Consumers, Take(c) PROVE Filled'
  <2> SUFFICES ASSUME NEW k \in 0 .. in' - 1
               PROVE  buffer'[(readpos' + k) % PC_BUFFER_SIZE] \in Item
    BY DEF Filled
  <2>1. k + 1 \in 1 .. in /\ k + 1 \in 0 .. in - 1 /\ (k + 1) - 1 = k
    BY <1>2, TakeMoves, RingFacts
  <2>2. (readpos' + ((k + 1) - 1)) % PC_BUFFER_SIZE = (readpos + (k + 1)) % PC_BUFFER_SIZE
    BY <1>2, <2>1, TakeMoves
  <2>3. buffer[(readpos + (k + 1)) % PC_BUFFER_SIZE] \in Item
    BY <2>1 DEF Filled
  <2> QED
    BY <1>2, <2>1, <2>2, <2>3, TakeMoves
<1>3. CASE UNCHANGED <<buffer, readpos, in>>
  BY <1>3 DEF Filled
<1> QED
  BY <1>1, <1>2, <1>3
  DEF Next, producer_mut_service, consumer_mut_service, SemWait, MutexLock,
      MutexUnlock, SemPost, vars

\* A put is PutQueued.
LEMMA PutAbstract ==
    ASSUME Inv, Filled, NEW p \in Producers, Put(p)
    PROVE  Abstract!PutQueued(p)
<1>1. PICK r \in Nat, i \in Nat : r = readpos /\ i = in
  BY RingFacts
<1>2. in' = i + 1 /\ readpos' = r /\ i + 1 \in 0 .. PC_BUFFER_SIZE - 1 /\ r \in Slots
  <2>1. in' = i + 1 /\ i < PC_BUFFER_SIZE - 1 /\ readpos' = r
    BY <1>1, PutFills
  <2>2. r \in Slots /\ PC_BUFFER_SIZE \in Nat
    BY <1>1, RingFacts
  <2>3. i + 1 \in 0 .. PC_BUFFER_SIZE - 1
    BY <2>1, <2>2
  <2> QED
    BY <2>1, <2>2, <2>3
<1>3. pc[p] = "use" /\ \A c \in Consumers : pc'[c] = pc[c]
  BY ThreadAssumption DEF Put, Goto, Inv, TypeOK
<1>4. ~Taking /\ ~Taking'
  BY <1>3, OneUses, ThreadAssumption DEF Taking, Thread
<1>5. Queue = QueueOf(buffer, r, i, 0) /\ Queue' = QueueOf(buffer', r, i + 1, 0)
  BY <1>1, <1>2, <1>4, QueueNow, QueueThen
<1>6. /\ \A k \in 0 .. i - 1 : buffer[(r + k) % PC_BUFFER_SIZE] \in Item
      /\ \A k \in 0 .. i - 1 : buffer'[(r + k) % PC_BUFFER_SIZE] =
                                   buffer[(r + k) % PC_BUFFER_SIZE]
      /\ buffer'[(r + i) % PC_BUFFER_SIZE] = <<p, sent[p]>>
      /\ <<p, sent[p]>> \in Item
  BY <1>1, PutFills DEF Filled
<1>7. \A k \in 0 .. (i + 1) - 1 : buffer'[(r + k) % PC_BUFFER_SIZE] \in Item
  <2> TAKE k \in 0 .. (i + 1) - 1
  <2>1. k \in 0 .. i - 1 \/ k = i
    OBVIOUS
  <2> QED
    BY <1>6, <2>1
<1>8. /\ Queue \in [1 .. i -> Item]
      /\ \A k \in 1 .. i : Queue[k] = buffer[(r + (k - 1)) % PC_BUFFER_SIZE]
  <2>1. i \in 0 .. PC_BUFFER_SIZE - 1 /\ 0 \in {0, 1} /\ 0 <= i
    BY <1>2, SizeAssumption
  <2>2. /\ QueueOf(buffer, r, i, 0) \in [1 .. i - 0 -> Item]
        /\ \A k \in 1 .. i - 0 :
               QueueOf(buffer, r, i, 0)[k] = buffer[(r + (k - 1 + 0)) % PC_BUFFER_SIZE]
    BY <1>2, <1>6, <2>1, QueueIs
  <2> QED
    BY <1>5, <2>2
<1>9. /\ Queue' \in [1 .. i + 1 -> Item]
      /\ \A k \in 1 .. i + 1 : Queue'[k] = buffer'[(r + (k - 1)) % PC_BUFFER_SIZE]
  <2>1. 0 \in {0, 1} /\ 0 <= i + 1
    OBVIOUS
  <2>2. /\ QueueOf(buffer', r, i + 1, 0) \in [1 .. (i + 1) - 0 -> Item]
        /\ \A k \in 1 .. (i + 1) - 0 :
               QueueOf(buffer', r, i + 1, 0)[k] = buffer'[(r + (k - 1 + 0)) % PC_BUFFER_SIZE]
    BY <1>2, <1>7, <2>1, QueueIs
  <2> QED
    BY <1>5, <2>2
<1>10. Queue' = Append(Queue, <<p, sent[p]>>)
  <2>1. \A k \in 1 .. i : Queue'[k] = Queue[k]
    <3> TAKE k \in 1 .. i
    <3>1. k - 1 \in 0 .. i - 1 /\ k \in 1 .. i + 1
      OBVIOUS
    <3> QED
      BY <1>6, <1>8, <1>9, <3>1
  <2>2. Queue'[i + 1] = <<p, sent[p]>>
    <3>1. i + 1 \in 1 .. i + 1 /\ (i + 1) - 1 = i
      OBVIOUS
    <3> QED
      BY <1>6, <1>9, <3>1
  <2> QED
    BY <1>6, <1>8, <1>9, <2>1, <2>2, IsAppended
<1>11. Got' = Got
  BY <1>4 DEF Got, Taking
<1> QED
  BY <1>10, <1>11 DEF Put, Abstract!PutQueued

\* A consumer that locks is served.
LEMMA LockAbstract ==
    ASSUME Inv, Filled, NEW c \in Consumers, MutexLock(c)
    PROVE  Abstract!AskServed(c)
<1>1. PICK r \in Nat, n \in Nat : r = readpos /\ n + 1 = in
  <2>1. sem["full"] \in Nat /\ Cardinality(After(Producers)) \in Nat
        /\ IsFiniteSet(Before(Consumers)) /\ Cardinality(Before(Consumers)) \in Nat
    BY CountsAreFinite DEF Inv, TypeOK
  <2>2. c \in Before(Consumers)
    BY DEF MutexLock, Goto, Before
  <2>3. Cardinality(Before(Consumers)) >= 1
    <3>1. /\ Cardinality(Before(Consumers) \ {c}) = Cardinality(Before(Consumers)) - 1
          /\ IsFiniteSet(Before(Consumers) \ {c})
      BY <2>1, <2>2, Move
    <3>2. Cardinality(Before(Consumers) \ {c}) \in Nat
      BY <3>1, Move
    <3> QED
      BY <2>1, <3>1, <3>2
  <2>4. in >= 1
    BY <2>1, <2>3 DEF Inv, TokensConserved
  <2>5. in - 1 \in Nat /\ (in - 1) + 1 = in
    BY <2>4, RingFacts
  <2> QED
    BY <2>5, RingFacts
<1>2. in' = n + 1 /\ readpos' = r /\ buffer' = buffer /\ r \in Slots
      /\ n + 1 \in 0 .. PC_BUFFER_SIZE - 1
  BY <1>1, RingFacts DEF MutexLock
<1>3. pc \in [Thread -> Labels] /\ c \in Thread /\ pc[c] = "lock" /\ pc' = [pc EXCEPT ![c] = "use"]
  BY DEF MutexLock, Goto, Inv, TypeOK, Thread
<1>4. \A t \in Thread : pc[t] # "use"
  BY ThreadAssumption DEF MutexLock, Inv, MutualExclusion, Thread
<1>5. ~Taking /\ Taking'
  BY <1>3, <1>4 DEF Taking, Thread
<1>6. Queue = QueueOf(buffer, r, n + 1, 0) /\ Queue' = QueueOf(buffer, r, n + 1, 1)
  <2>1. n + 1 \in Nat /\ n + 1 = in /\ n + 1 = in' /\ r = readpos /\ r = readpos'
    BY <1>1, <1>2
  <2> QED
    BY <1>2, <1>5, <2>1, QueueNow, QueueThen
<1>7. \A k \in 0 .. (n + 1) - 1 : buffer[(r + k) % PC_BUFFER_SIZE] \in Item
  BY <1>1 DEF Filled
<1>8. /\ Queue \in [1 .. n + 1 -> Item]
      /\ \A k \in 1 .. n + 1 : Queue[k] = buffer[(r + (k - 1)) % PC_BUFFER_SIZE]
  <2>1. 0 \in {0, 1} /\ 0 <= n + 1
    OBVIOUS
  <2>2. /\ QueueOf(buffer, r, n + 1, 0) \in [1 .. (n + 1) - 0 -> Item]
        /\ \A k \in 1 .. (n + 1) - 0 :
               QueueOf(buffer, r, n + 1, 0)[k] = buffer[(r + (k - 1 + 0)) % PC_BUFFER_SIZE]
    BY <1>2, <1>7, <2>1, QueueIs
  <2> QED
    BY <1>6, <2>2
<1>9. /\ Queue' \in [1 .. n -> Item]
      /\ \A k \in 1 .. n : Queue'[k] = buffer[(r + k) % PC_BUFFER_SIZE]
  <2>1. 1 \in {0, 1} /\ 1 <= n + 1
    OBVIOUS
  <2>2. /\ QueueOf(buffer, r, n + 1, 1) \in [1 .. (n + 1) - 1 -> Item]
        /\ \A k \in 1 .. (n + 1) - 1 :
               QueueOf(buffer, r, n + 1, 1)[k] = buffer[(r + (k - 1 + 1)) % PC_BUFFER_SIZE]
    BY <1>2, <1>7, <2>1, QueueIs
  <2> QED
    BY <1>6, <2>2
<1>10. Queue' = Tail(Queue) /\ Head(Queue) = Queue[1] /\ Queue # <<>>
  <2>1. \A k \in 1 .. n : Queue'[k] = Queue[k + 1]
    <3> TAKE k \in 1 .. n
    <3>1. k + 1 \in 1 .. n + 1 /\ (k + 1) - 1 = k
      OBVIOUS
    <3> QED
      BY <1>8, <1>9, <3>1
  <2> QED
    BY <1>8, <1>9, <2>1, TailIs
<1>11. Head(Queue) = buffer[readpos]
  <2>1. 1 \in 1 .. n + 1 /\ r + (1 - 1) = r + 0
    OBVIOUS
  <2>2. 0 \in 0 .. PC_BUFFER_SIZE - 1
    BY SizeAssumption
  <2>3. (r + 0) % PC_BUFFER_SIZE = r
    BY <1>2, <2>2, SlotsOfRing
  <2> QED
    BY <1>1, <1>8, <1>10, <2>1, <2>3
<1>12. Got[c] = NoItem /\ Got' = [Got EXCEPT ![c] = Head(Queue)]
  <2>1. Got = [d \in Consumers |-> NoItem]
    BY <1>4 DEF Got, Thread
  <2>2. \A d \in Consumers : pc'[d] = "use" <=> d = c
    BY <1>3, <1>4 DEF Thread
  <2>3. Got' = [d \in Consumers |-> IF d = c THEN buffer[readpos] ELSE NoItem]
    BY <1>1, <1>2, <2>2 DEF Got
  <2> QED
    BY <1>11, <2>1, <2>3
<1> QED
  BY <1>10, <1>12 DEF MutexLock, Abstract!AskServed

\* A take is Finish.
LEMMA TakeAbstract ==
    ASSUME Inv, Filled, NEW c \in Consumers, Take(c)
    PROVE  Abstract!Finish(c)
<1>1. PICK r \in Nat, n \in Nat : r = readpos /\ n + 1 = in
  <2>1. in - 1 \in Nat /\ (in - 1) + 1 = in
    BY TakeMoves, RingFacts
  <2> QED
    BY <2>1, RingFacts
<1>2. PICK a \in Nat : a = readpos' /\ a \in Slots
  BY TakeMoves, SizeAssumption DEF Slots
<1>3. in' = n /\ buffer' = buffer /\ r \in Slots /\ n + 1 \in 0 .. PC_BUFFER_SIZE - 1
  BY <1>1, TakeMoves, RingFacts
<1>4. pc \in [Thread -> Labels] /\ c \in Thread /\ pc[c] = "use" /\ pc' = [pc EXCEPT ![c] = "unlock"]
  BY DEF Take, Goto, Inv, TypeOK, Thread
<1>5. \A t \in Thread : pc[t] = "use" <=> t = c
  BY <1>4, OneUses
<1>6. \A t \in Thread : pc'[t] # "use"
  BY <1>4, <1>5
<1>7. Taking /\ ~Taking'
  BY <1>4, <1>6 DEF Taking, Thread
<1>8. Queue = QueueOf(buffer, r, n + 1, 1) /\ Queue' = QueueOf(buffer, a, n, 0)
  <2>1. n + 1 \in Nat /\ n + 1 = in /\ n = in' /\ r = readpos /\ a = readpos'
    BY <1>1, <1>2, <1>3
  <2> QED
    BY <1>3, <1>7, <2>1, QueueNow, QueueThen
<1>9. Queue' = Queue
  <2>1. \A k \in 1 .. n : (a + (k - 1)) % PC_BUFFER_SIZE = (r + k) % PC_BUFFER_SIZE
    BY <1>1, <1>2, TakeMoves, SMTT(20)
  <2>2. \A k \in 1 .. n : k - 1 + 0 = k - 1 /\ k - 1 + 1 = k
    OBVIOUS
  <2>3. (n + 1) - 1 = n /\ n - 0 = n
    OBVIOUS
  <2>4. QueueOf(buffer, r, n + 1, 1) = [k \in 1 .. n |-> buffer[(r + k) % PC_BUFFER_SIZE]]
    BY <2>2, <2>3 DEF QueueOf
  <2>5. QueueOf(buffer, a, n, 0) = [k \in 1 .. n |-> buffer[(a + (k - 1)) % PC_BUFFER_SIZE]]
    BY <2>2, <2>3 DEF QueueOf
  <2> QED
    BY <1>8, <2>1, <2>4, <2>5
<1>10. /\ Got = [d \in Consumers |-> IF d = c THEN buffer[readpos] ELSE NoItem]
       /\ Got' = [d \in Consumers |-> NoItem]
  BY <1>5, <1>6 DEF Got, Thread
<1>11. buffer[readpos] # NoItem
  <2>1. 0 \in 0 .. PC_BUFFER_SIZE - 1 /\ 0 \in 0 .. in - 1
    BY <1>1, SizeAssumption
  <2>2. (readpos + 0) % PC_BUFFER_SIZE = readpos
    BY <2>1, RingFacts, SlotsOfRing
  <2>3. buffer[readpos] \in Item
    BY <2>1, <2>2 DEF Filled
  <2> QED
    BY <2>3, ItemAssumption DEF Item
<1>12. Got[c] # NoItem /\ Got[c] = buffer[readpos] /\ Got' = [Got EXCEPT ![c] = NoItem]
  BY <1>10, <1>11
<1> QED
  BY <1>9, <1>12 DEF Take, Abstract!Finish

\* The other steps change nothing that the abstract queue shows.
LEMMA QuietAbstract ==
    ASSUME Inv, NEW t \in Thread,
           SemWait(t) \/ (t \in Producers /\ MutexLock(t)) \/ MutexUnlock(t) \/ SemPost(t)
    PROVE  UNCHANGED Abstract!vars
<1>1. UNCHANGED <<buffer, readpos, in, el, sent>>
  BY DEF SemWait, MutexLock, MutexUnlock, SemPost
<1>2. \A c \in Consumers : pc'[c] = "use" <=> pc[c] = "use"
  BY ThreadAssumption DEF SemWait, MutexLock, MutexUnlock, SemPost, Goto, Inv, TypeOK, Thread
<1>3. Taking' <=> Taking
  BY <1>2 DEF Taking
<1>4. Got' = Got
  BY <1>1, <1>2 DEF Got
<1>5. PICK r \in Nat, i \in Nat : r = readpos /\ i = in /\ r = readpos' /\ i = in'
  BY <1>1, RingFacts
<1>6. Queue' = Queue
  <2>1. CASE Taking
    BY <1>1, <1>3, <1>5, <2>1, QueueNow, QueueThen
  <2>2. CASE ~Taking
    BY <1>1, <1>3, <1>5, <2>2, QueueNow, QueueThen
  <2> QED
    BY <2>1, <2>2
<1> QED
  BY <1>1, <1>4, <1>6 DEF Abstract!vars

\* The ring under its mutex and semaphores is one unbounded FIFO that hands each
\* packet to one consumer: every behaviour of pc_buffer.c in the loops of
\* multi_threading.c is one of PacketQueue.
THEOREM ImplementsQueue == Spec => AbstractSpec
<1>1. Init => Filled
  BY DEF Init, Filled
<1>2. Init => Abstract!Init
  <2> SUFFICES ASSUME Init PROVE Abstract!Init
    OBVIOUS
  <2>1. \A c \in Consumers : pc[c] = "idle"
    BY DEF Init, Thread
  <2>2. Got = [c \in Consumers |-> NoItem]
    BY <2>1 DEF Got
  <2>3. ~Taking
    BY <2>1 DEF Taking
  <2>4. Queue = <<>>
    <3>1. 0 \in Nat /\ 0 = readpos /\ 0 = in
      BY DEF Init
    <3>2. Queue = QueueOf(buffer, 0, 0, 0)
      BY <2>3, <3>1, QueueNow
    <3> QED
      BY <3>2 DEF QueueOf
  <2> QED
    BY <2>2, <2>4 DEF Init, Abstract!Init
<1>3. Inv /\ Filled /\ [Next]_vars => [Abstract!Next]_(Abstract!vars)
  <2> SUFFICES ASSUME Inv, Filled, [Next]_vars
               PROVE  [Abstract!Next]_(Abstract!vars)
    OBVIOUS
  <2>1. ASSUME NEW p \in Producers, producer_mut_service(p)
        PROVE  [Abstract!Next]_(Abstract!vars)
    <3>1. CASE Put(p)
      BY <3>1, PutAbstract DEF Abstract!Next
    <3>2. CASE SemWait(p) \/ MutexLock(p) \/ MutexUnlock(p) \/ SemPost(p)
      BY <3>2, QuietAbstract DEF Thread
    <3> QED
      BY <2>1, <3>1, <3>2 DEF producer_mut_service
  <2>2. ASSUME NEW c \in Consumers, consumer_mut_service(c)
        PROVE  [Abstract!Next]_(Abstract!vars)
    <3>1. CASE MutexLock(c)
      BY <3>1, LockAbstract DEF Abstract!Next
    <3>2. CASE Take(c)
      BY <3>2, TakeAbstract DEF Abstract!Next
    <3>3. CASE SemWait(c) \/ MutexUnlock(c) \/ SemPost(c)
      BY <3>3, QuietAbstract DEF Thread
    <3> QED
      BY <2>2, <3>1, <3>2, <3>3 DEF consumer_mut_service
  <2>3. CASE UNCHANGED vars
    BY <2>3 DEF vars, Abstract!vars, Queue, Got, Taking
  <2> QED
    BY <2>1, <2>2, <2>3 DEF Next
<1> QED
  BY <1>1, <1>2, <1>3, FilledStep, Invariance, PTL DEF Spec, AbstractSpec, Abstract!Spec

-----------------------------------------------------------------------------
(***************************************************************************)
(* What the lists are cut and inserted with.                               *)
(***************************************************************************)
\* A set of numbers up to n has a greatest and a least.
LEMMA MaxExists ==
    ASSUME NEW n \in Nat, NEW T, T \subseteq 0 .. n, T # {}
    PROVE  Max(T) \in T /\ \A x \in T : x <= Max(T)
  <1> DEFINE bounds(k) == \A x \in T : x <= n - k
             D == {k \in 0 .. n : bounds(k)}
  <1>1. \A x \in T : x \in 0 .. n
    OBVIOUS
  <1>2. \E m \in T : \A x \in T : m >= x
    <2> SUFFICES ASSUME \A m \in T : \E x \in T : ~(m >= x)
                 PROVE  FALSE
      OBVIOUS
    <2>1. 0 \in D
      BY <1>1
    <2>2. ASSUME NEW k \in D, k < n PROVE k + 1 \in D
      <3>1. k \in 0 .. n /\ \A x \in T : x <= n - k
        OBVIOUS
      <3>2. n - k \notin T
        BY <1>1, <3>1
      <3>3. \A x \in T : x <= n - (k + 1)
        BY <1>1, <3>1, <3>2
      <3> QED
        BY <2>2, <3>1, <3>3
    <2>3. D \subseteq 0 .. n
      OBVIOUS
    <2> HIDE DEF D
    <2>4. D = 0 .. n
      BY <2>1, <2>2, <2>3, Induct
    <2>5. n \in D
      BY <2>4
    <2>6. \A x \in T : x = 0
      BY <1>1, <2>5 DEF D
    <2>7. PICK m \in T : TRUE
      OBVIOUS
    <2>8. PICK x \in T : ~(m >= x)
      OBVIOUS
    <2>9. m = 0 /\ x = 0
      BY <2>6
    <2> QED
      BY <2>8, <2>9
  <1>3. Max(T) \in T /\ \A x \in T : Max(T) >= x
    <2> HIDE DEF D
    <2> QED
      BY <1>2, Zenon DEF Max
  <1> QED
    BY <1>1, <1>3

LEMMA MinExists ==
    ASSUME NEW n \in Nat, NEW T, T \subseteq 0 .. n, T # {}
    PROVE  Min(T) \in T /\ \A x \in T : Min(T) <= x
  <1> DEFINE below(k) == \A x \in T : x >= k
             D == {k \in 0 .. n : below(k)}
  <1>1. \A x \in T : x \in 0 .. n
    OBVIOUS
  <1>2. \E m \in T : \A x \in T : m <= x
    <2> SUFFICES ASSUME \A m \in T : \E x \in T : ~(m <= x)
                 PROVE  FALSE
      OBVIOUS
    <2>1. 0 \in D
      BY <1>1
    <2>2. ASSUME NEW k \in D, k < n PROVE k + 1 \in D
      <3>1. k \in 0 .. n /\ \A x \in T : x >= k
        OBVIOUS
      <3>2. k \notin T
        BY <1>1, <3>1
      <3>3. \A x \in T : x >= k + 1
        BY <1>1, <3>1, <3>2
      <3> QED
        BY <2>2, <3>1, <3>3
    <2>3. D \subseteq 0 .. n
      OBVIOUS
    <2> HIDE DEF D
    <2>4. D = 0 .. n
      BY <2>1, <2>2, <2>3, Induct
    <2>5. n \in D
      BY <2>4
    <2>6. \A x \in T : x = n
      BY <1>1, <2>5 DEF D
    <2>7. PICK m \in T : TRUE
      OBVIOUS
    <2>8. PICK x \in T : ~(m <= x)
      OBVIOUS
    <2>9. m = n /\ x = n
      BY <2>6
    <2> QED
      BY <2>8, <2>9
  <1>3. Min(T) \in T /\ \A x \in T : Min(T) <= x
    <2> HIDE DEF D
    <2> QED
      BY <1>2, Zenon DEF Min
  <1> QED
    BY <1>3

\* The parts of a sequence.
LEMMA FrontIs ==
    ASSUME NEW w \in Seq(Nat), NEW c \in 0 .. Len(w)
    PROVE  LET a == SubSeq(w, 1, c)
           IN  a \in Seq(Nat) /\ Len(a) = c /\ \A k \in 1 .. c : a[k] = w[k]
  <1>1. PICK n \in Nat : n = Len(w)
    OBVIOUS
  <1>2. \A k \in 1 .. c : k \in 1 .. n /\ w[k] \in Nat
    BY <1>1
  <1> QED
    BY <1>1, <1>2

LEMMA BackIs ==
    ASSUME NEW w \in Seq(Nat), NEW c \in 0 .. Len(w)
    PROVE  LET b == SubSeq(w, c + 1, Len(w))
           IN  /\ b \in Seq(Nat) /\ Len(b) = Len(w) - c
               /\ \A k \in 1 .. Len(w) - c : b[k] = w[c + k]
  <1>1. PICK n \in Nat : n = Len(w)
    OBVIOUS
  <1>2. \A k \in c + 1 .. n : k \in 1 .. n /\ w[k] \in Nat
    BY <1>1
  <1>3. SubSeq(w, c + 1, n) \in Seq(Nat) /\ Len(SubSeq(w, c + 1, n)) = n - c
    BY <1>1, <1>2
  <1>4. ASSUME NEW k \in 1 .. n - c PROVE SubSeq(w, c + 1, n)[k] = w[c + k]
    <2>1. c + k \in c + 1 .. n /\ (c + 1) + k - 1 = c + k
      BY <1>1
    <2> QED
      BY <1>1, <2>1
  <1> QED
    BY <1>1, <1>3, <1>4

LEMMA JoinedIs ==
    ASSUME NEW u \in Seq(Nat), NEW v \in Seq(Nat)
    PROVE  /\ u \o v \in Seq(Nat) /\ Len(u \o v) = Len(u) + Len(v)
           /\ \A k \in 1 .. Len(u) : (u \o v)[k] = u[k]
           /\ \A k \in 1 .. Len(v) : (u \o v)[Len(u) + k] = v[k]
  OBVIOUS

\* InsertAt, element by element.
LEMMA Inserted ==
    ASSUME NEW l \in Seq(Nat), NEW x \in Nat, NEW p \in 1 .. Len(l) + 1
    PROVE  LET w == InsertAt(l, p, x)
           IN  /\ w \in Seq(Nat) /\ Len(w) = Len(l) + 1
               /\ \A k \in 1 .. Len(l) + 1 :
                      w[k] = IF k < p THEN l[k] ELSE IF k = p THEN x ELSE l[k - 1]
  <1> DEFINE a == SubSeq(l, 1, p - 1)
             b == SubSeq(l, p, Len(l))
             n == Len(l)
  <1>n. n \in Nat /\ p \in 1 .. n + 1 /\ p - 1 \in 0 .. n /\ (p - 1) + 1 = p /\ n - (p - 1) = n + 1 - p
    OBVIOUS
  <1>1. a \in Seq(Nat) /\ Len(a) = p - 1 /\ \A k \in 1 .. p - 1 : a[k] = l[k]
    BY <1>n, FrontIs
  <1>2. b \in Seq(Nat) /\ Len(b) = n + 1 - p /\ \A k \in 1 .. n + 1 - p : b[k] = l[(p - 1) + k]
    BY <1>n, BackIs
  <1>3. InsertAt(l, p, x) = a \o <<x>> \o b
    BY DEF InsertAt
  <1> DEFINE c == a \o <<x>>
  <1> HIDE DEF a, b, n
  <1>4. c \in Seq(Nat) /\ Len(c) = p
    BY <1>1, <1>n
  <1>5. \A k \in 1 .. p : c[k] = IF k < p THEN l[k] ELSE x
    <2>1. \A k \in 1 .. p : k < p => k \in 1 .. p - 1
      BY <1>n
    <2>2. \A k \in 1 .. p - 1 : c[k] = a[k]
      BY <1>1, <1>n
    <2>3. c[p] = x
      BY <1>1, <1>n
    <2> QED
      BY <1>1, <1>n, <2>1, <2>2, <2>3
  <1> HIDE DEF c
  <1>6. /\ c \o b \in Seq(Nat) /\ Len(c \o b) = n + 1
        /\ \A k \in 1 .. p : (c \o b)[k] = c[k]
        /\ \A k \in 1 .. n + 1 - p : (c \o b)[p + k] = b[k]
    <2>1. /\ c \o b \in Seq(Nat) /\ Len(c \o b) = Len(c) + Len(b)
          /\ \A k \in 1 .. Len(c) : (c \o b)[k] = c[k]
          /\ \A k \in 1 .. Len(b) : (c \o b)[Len(c) + k] = b[k]
      BY <1>2, <1>4, JoinedIs
    <2>2. Len(c) = p /\ Len(b) = n + 1 - p /\ p + (n + 1 - p) = n + 1
      BY <1>2, <1>4, <1>n
    <2> QED
      BY <2>1, <2>2
  <1>7. ASSUME NEW k \in 1 .. n + 1
        PROVE  (c \o b)[k] = IF k < p THEN l[k] ELSE IF k = p THEN x ELSE l[k - 1]
    <2>1. CASE k <= p
      <3>1. k \in 1 .. p /\ (k = p \/ k < p)
        BY <1>n, <2>1
      <3>2. (c \o b)[k] = c[k]
        BY <1>6, <3>1
      <3> QED
        BY <1>5, <3>1, <3>2
    <2>2. CASE k > p
      <3>1. /\ k - p \in 1 .. n + 1 - p /\ p + (k - p) = k
            /\ (p - 1) + (k - p) = k - 1 /\ ~(k < p) /\ k # p
        BY <1>n, <2>2
      <3>2. (c \o b)[k] = b[k - p]
        BY <1>6, <3>1
      <3> QED
        BY <1>2, <3>1, <3>2
    <2>3. k <= p \/ k > p
      BY <1>n
    <2> QED
      BY <2>1, <2>2, <2>3
  <1> QED
    BY <1>3, <1>6, <1>7 DEF c, n

LEMMA InInserted ==
    ASSUME NEW l \in Seq(Nat), NEW x \in Nat, NEW p \in 1 .. Len(l) + 1
    PROVE  /\ \A y : In(InsertAt(l, p, x), y) <=> In(l, y) \/ y = x
           /\ Distinct(l) /\ ~In(l, x) => Distinct(InsertAt(l, p, x))
  <1> DEFINE w == InsertAt(l, p, x)
             n == Len(l)
             from(k) == IF k < p THEN k ELSE k - 1
             to(k) == IF k < p THEN k ELSE k + 1
  <1>1. n \in Nat /\ DOMAIN l = 1 .. n /\ DOMAIN w = 1 .. n + 1 /\ p \in 1 .. n + 1 /\ w[p] = x
    <2>1. /\ w \in Seq(Nat) /\ Len(w) = n + 1
          /\ \A k \in 1 .. n + 1 : w[k] = IF k < p THEN l[k] ELSE IF k = p THEN x ELSE l[k - 1]
      BY Inserted, Zenon
    <2>2. n \in Nat /\ DOMAIN l = 1 .. n /\ p \in 1 .. n + 1
      OBVIOUS
    <2> HIDE DEF w, n
    <2> QED
      BY <2>1, <2>2
  <1>2. \A k \in 1 .. n + 1 : k # p => from(k) \in 1 .. n /\ w[k] = l[from(k)]
    <2>1. \A k \in 1 .. n + 1 : w[k] = IF k < p THEN l[k] ELSE IF k = p THEN x ELSE l[k - 1]
      BY Inserted
    <2> HIDE DEF w, n
    <2> QED
      BY <1>1, <2>1
  <1>3. \A k \in 1 .. n : to(k) \in 1 .. n + 1 /\ to(k) # p /\ from(to(k)) = k
    <2> HIDE DEF w, n
    <2> QED
      BY <1>1
  <1>4. \A k, m \in 1 .. n + 1 : k # p /\ m # p /\ from(k) = from(m) => k = m
    <2> HIDE DEF w, n
    <2> QED
      BY <1>1
  <1> HIDE DEF w, n, from, to
  <1>5. \A y : In(w, y) <=> In(l, y) \/ y = x
    <2>1. ASSUME NEW y, In(w, y), y # x PROVE In(l, y)
      BY <1>1, <1>2, <2>1 DEF In
    <2>2. ASSUME NEW y, In(l, y) PROVE In(w, y)
      <3>1. PICK k \in 1 .. n : l[k] = y
        BY <1>1, <2>2 DEF In
      <3>2. w[to(k)] = y
        BY <1>2, <1>3, <3>1
      <3> QED
        BY <1>1, <1>3, <3>2 DEF In
    <2>3. In(w, x)
      BY <1>1 DEF In
    <2> QED
      BY <2>1, <2>2, <2>3
  <1>6. ASSUME Distinct(l), ~In(l, x) PROVE Distinct(w)
    <2> SUFFICES ASSUME NEW k \in 1 .. n + 1, NEW m \in 1 .. n + 1, w[k] = w[m]
                 PROVE  k = m
      BY <1>1 DEF Distinct
    <2>1. CASE k # p /\ m # p
      BY <1>1, <1>2, <1>4, <1>6, <2>1 DEF Distinct
    <2>2. CASE k = p \/ m = p
      BY <1>1, <1>2, <1>6, <2>2 DEF In
    <2> QED
      BY <2>1, <2>2
  <1> QED
    BY <1>5, <1>6 DEF w

\* A list is cut in two.
LEMMA Parts ==
    ASSUME NEW w \in Seq(Nat), NEW c \in 0 .. Len(w)
    PROVE  LET a == SubSeq(w, 1, c)
               b == SubSeq(w, c + 1, Len(w))
           IN  /\ a \in Seq(Nat) /\ Len(a) = c /\ \A k \in 1 .. c : a[k] = w[k]
               /\ b \in Seq(Nat) /\ Len(b) = Len(w) - c
               /\ \A k \in 1 .. Len(w) - c : b[k] = w[c + k]
  BY FrontIs, BackIs

LEMMA InParts ==
    ASSUME NEW w \in Seq(Nat), NEW c \in 0 .. Len(w)
    PROVE  LET a == SubSeq(w, 1, c)
               b == SubSeq(w, c + 1, Len(w))
           IN  /\ \A y : In(w, y) <=> In(a, y) \/ In(b, y)
               /\ Distinct(w) => /\ Distinct(a) /\ Distinct(b)
                                 /\ \A y : ~(In(a, y) /\ In(b, y))
  <1> DEFINE a == SubSeq(w, 1, c)
             b == SubSeq(w, c + 1, Len(w))
             n == Len(w)
  <1>1. /\ DOMAIN a = 1 .. c /\ \A k \in 1 .. c : a[k] = w[k]
        /\ DOMAIN b = 1 .. n - c /\ \A k \in 1 .. n - c : b[k] = w[c + k]
    BY Parts
  <1>2. n \in Nat /\ c \in 0 .. n /\ DOMAIN w = 1 .. n
    OBVIOUS
  <1> HIDE DEF a, b, n
  <1>3. ASSUME NEW y, In(w, y) PROVE In(a, y) \/ In(b, y)
    <2>1. PICK k \in 1 .. n : w[k] = y
      BY <1>2, <1>3 DEF In
    <2>2. CASE k <= c
      <3>1. k \in 1 .. c
        BY <1>2, <2>2
      <3> QED
        BY <1>1, <2>1, <3>1 DEF In
    <2>3. CASE k > c
      <3>1. k - c \in 1 .. n - c /\ c + (k - c) = k
        BY <1>2, <2>3
      <3> QED
        BY <1>1, <2>1, <3>1 DEF In
    <2> QED
      BY <1>2, <2>2, <2>3
  <1>4. \A k \in 1 .. c : k \in 1 .. n
    BY <1>2
  <1>5. \A k \in 1 .. n - c : c + k \in 1 .. n /\ c + k \notin 1 .. c
    BY <1>2
  <1>6. ASSUME NEW y, In(a, y) \/ In(b, y) PROVE In(w, y)
    BY <1>1, <1>2, <1>4, <1>5, <1>6 DEF In
  <1>7. ASSUME Distinct(w) PROVE Distinct(a) /\ Distinct(b) /\ \A y : ~(In(a, y) /\ In(b, y))
    <2>1. Distinct(a)
      BY <1>1, <1>2, <1>4, <1>7 DEF Distinct
    <2>2. Distinct(b)
      <3> SUFFICES ASSUME NEW k \in 1 .. n - c, NEW m \in 1 .. n - c, b[k] = b[m]
                   PROVE  k = m
        BY <1>1 DEF Distinct
      <3>1. w[c + k] = w[c + m] /\ c + k \in DOMAIN w /\ c + m \in DOMAIN w
        BY <1>1, <1>2, <1>5
      <3>2. c + k = c + m
        BY <1>7, <3>1 DEF Distinct
      <3> QED
        BY <1>2, <3>2
    <2>3. \A y : ~(In(a, y) /\ In(b, y))
      <3> SUFFICES ASSUME NEW k \in 1 .. c, NEW m \in 1 .. n - c, a[k] = b[m]
                   PROVE  FALSE
        BY <1>1 DEF In
      <3>1. k = c + m
        BY <1>1, <1>2, <1>4, <1>5, <1>7 DEF Distinct
      <3> QED
        BY <1>5, <3>1
    <2> QED
      BY <2>1, <2>2, <2>3
  <1> QED
    BY <1>3, <1>6, <1>7 DEF a, b, n

\* Two sequences one after the other.
LEMMA InJoined ==
    ASSUME NEW u \in Seq(Nat), NEW v \in Seq(Nat)
    PROVE  /\ \A x : In(u \o v, x) <=> In(u, x) \/ In(v, x)
           /\ Distinct(u \o v) <=> Distinct(u) /\ Distinct(v) /\ \A x : ~(In(u, x) /\ In(v, x))
  <1> DEFINE w == u \o v
             m == Len(u)
             n == Len(v)
  <1>1. m \in Nat /\ n \in Nat /\ DOMAIN u = 1 .. m /\ DOMAIN v = 1 .. n /\ DOMAIN w = 1 .. m + n
    BY JoinedIs
  <1>2. (\A k \in 1 .. m : w[k] = u[k]) /\ (\A k \in 1 .. n : w[m + k] = v[k])
    BY JoinedIs
  <1> HIDE DEF w, m, n
  <1>3. (\A k \in 1 .. m : k \in 1 .. m + n) /\ (\A k \in 1 .. n : m + k \in 1 .. m + n)
    BY <1>1
  <1>4. \A k \in 1 .. m + n : k \notin 1 .. m => k - m \in 1 .. n /\ m + (k - m) = k
    BY <1>1
  <1>5. ASSUME NEW x, In(w, x) PROVE In(u, x) \/ In(v, x)
    <2>1. PICK k \in 1 .. m + n : w[k] = x
      BY <1>1, <1>5 DEF In
    <2> QED
      BY <1>1, <1>2, <1>4, <2>1 DEF In
  <1>6. ASSUME NEW x, In(u, x) \/ In(v, x) PROVE In(w, x)
    BY <1>1, <1>2, <1>3, <1>6 DEF In
  <1>7. ASSUME Distinct(w) PROVE Distinct(u) /\ Distinct(v) /\ \A x : ~(In(u, x) /\ In(v, x))
    <2>1. Distinct(u)
      BY <1>1, <1>2, <1>3, <1>7 DEF Distinct
    <2>2. ASSUME NEW k \in 1 .. n, NEW l \in 1 .. n, v[k] = v[l] PROVE k = l
      <3>1. w[m + k] = w[m + l] /\ m + k \in DOMAIN w /\ m + l \in DOMAIN w
        BY <1>1, <1>2, <1>3, <2>2
      <3>2. m + k = m + l
        BY <1>7, <3>1 DEF Distinct
      <3> QED
        BY <1>1, <3>2
    <2>3. ASSUME NEW k \in 1 .. m, NEW l \in 1 .. n, u[k] = v[l] PROVE FALSE
      <3>1. w[k] = w[m + l] /\ k \in DOMAIN w /\ m + l \in DOMAIN w
        BY <1>1, <1>2, <1>3, <2>3
      <3>2. k = m + l
        BY <1>7, <3>1 DEF Distinct
      <3> QED
        BY <1>1, <3>2
    <2> QED
      BY <1>1, <2>1, <2>2, <2>3 DEF Distinct, In
  <1>8. ASSUME Distinct(u), Distinct(v), \A x : ~(In(u, x) /\ In(v, x)) PROVE Distinct(w)
    <2> SUFFICES ASSUME NEW k \in 1 .. m + n, NEW l \in 1 .. m + n, w[k] = w[l]
                 PROVE  k = l
      BY <1>1 DEF Distinct
    <2>1. CASE k \in 1 .. m /\ l \in 1 .. m
      BY <1>1, <1>2, <1>8, <2>1 DEF Distinct
    <2>2. CASE k \notin 1 .. m /\ l \notin 1 .. m
      <3>1. v[k - m] = v[l - m] /\ k - m \in DOMAIN v /\ l - m \in DOMAIN v
        BY <1>1, <1>2, <1>4, <2>2
      <3>2. k - m = l - m
        BY <1>8, <3>1 DEF Distinct
      <3> QED
        BY <1>1, <3>2
    <2>3. CASE k \in 1 .. m /\ l \notin 1 .. m
      <3>1. u[k] = v[l - m] /\ l - m \in DOMAIN v
        BY <1>1, <1>2, <1>4, <2>3
      <3> QED
        BY <1>1, <1>8, <2>3, <3>1 DEF In
    <2>4. CASE k \notin 1 .. m /\ l \in 1 .. m
      <3>1. u[l] = v[k - m] /\ k - m \in DOMAIN v
        BY <1>1, <1>2, <1>4, <2>4
      <3> QED
        BY <1>1, <1>8, <2>4, <3>1 DEF In
    <2> QED
      BY <2>1, <2>2, <2>3, <2>4
  <1> QED
    BY <1>5, <1>6, <1>7, <1>8 DEF w

-----------------------------------------------------------------------------
(***************************************************************************)
(* The places in a list that the code looks for.                           *)
(***************************************************************************)
\* The search stops at the last place before which, but for the first, all is less.
LEMMA ReachedIs ==
    ASSUME NEW l \in Seq(Nat), NEW s, l # <<>>
    PROVE  /\ Reached(l, s) \in 1 .. Len(l)
           /\ \A i \in 2 .. Reached(l, s) : seg(l[i]).seq < s.seq
           /\ Reached(l, s) < Len(l) => ~(seg(l[Reached(l, s) + 1]).seq < s.seq)
  <1> DEFINE n == Len(l)
             low(i) == seg(l[i]).seq < s.seq
             before == {k \in 1 .. n : \A i \in 2 .. k : low(i)}
  <1>1. n \in Nat /\ n >= 1
    OBVIOUS
  <1>2. Reached(l, s) = Max(before)
    BY DEF Reached
  <1> HIDE DEF n, low
  <1>3. 1 \in before
    BY <1>1
  <1>4. before \subseteq 0 .. n
    BY <1>1
  <1>5. Max(before) \in before /\ \A k \in before : k <= Max(before)
    <2> HIDE DEF before
    <2> QED
      BY <1>1, <1>3, <1>4, MaxExists
  <1> DEFINE r == Max(before)
  <1>6. r \in 1 .. n /\ \A i \in 2 .. r : low(i)
    BY <1>5
  <1>7. ASSUME r < n, low(r + 1) PROVE FALSE
    <2>1. \A k \in before : k <= r
      BY <1>5
    <2> HIDE DEF r
    <2>2. r + 1 \in 1 .. n /\ \A i \in 2 .. r + 1 : i \in 2 .. r \/ i = r + 1
      BY <1>1, <1>6, <1>7
    <2>3. r + 1 \in before
      BY <1>6, <1>7, <2>2
    <2> QED
      BY <1>6, <2>1, <2>3
  <1> HIDE DEF before
  <1> QED
    BY <1>2, <1>6, <1>7 DEF low, n

LEMMA PlacesIn ==
    ASSUME NEW l \in Seq(Nat), NEW s
    PROVE  /\ InsertPlace(l, s) \in 1 .. Len(l) + 1
           /\ Pivot(l, s) \in 0 .. Len(l)
  <1>1. Reached(l, s) \in 0 .. Len(l)
    <2>1. CASE l = <<>>
      BY <2>1 DEF Reached
    <2>2. CASE l # <<>>
      BY <2>2, ReachedIs
    <2> QED
      BY <2>1, <2>2
  <1> DEFINE n == Len(l)
             r == Reached(l, s)
             T == {0} \cup {k \in 2 .. r : ConsData(l)[k] >= MIN_CONS_DATA}
  <1>2. n \in Nat /\ r \in 0 .. n
    BY <1>1
  <1>3. InsertPlace(l, s) \in {r, r + 1} /\ (InsertPlace(l, s) = r => r > 0)
    <2>1. r > 0 \/ r = 0
      BY <1>2
    <2> QED
      BY <1>2, <2>1 DEF InsertPlace
  <1>4. Pivot(l, s) = Max(T)
    BY DEF Pivot
  <1> HIDE DEF n, r
  <1>5. T \subseteq 0 .. n /\ T # {}
    BY <1>2
  <1> HIDE DEF T
  <1>6. Max(T) \in 0 .. n
    BY <1>2, <1>5, MaxExists
  <1>7. InsertPlace(l, s) \in 1 .. n + 1
    BY <1>2, <1>3
  <1> QED
    BY <1>4, <1>6, <1>7 DEF n

\* The place before an element, and of an old segment.
LEMMA InFrontIs ==
    ASSUME NEW l \in Seq(Nat), NEW k \in DOMAIN l
    PROVE  InFront(l, l[k]) \in 0 .. k - 1 /\ (Distinct(l) => InFront(l, l[k]) = k - 1)
  <1> DEFINE n == Len(l)
             T == {i \in DOMAIN l : l[i] = l[k]} \cup {n + 1}
  <1>1. n \in Nat /\ DOMAIN l = 1 .. n /\ k \in 1 .. n
    OBVIOUS
  <1>2. InFront(l, l[k]) = Min(T) - 1
    BY DEF InFront
  <1> HIDE DEF n
  <1>3. T \subseteq 0 .. n + 1 /\ k \in T
    BY <1>1
  <1>4. \A i \in T : (i \in 1 .. n /\ l[i] = l[k]) \/ i = n + 1
    BY <1>1
  <1> HIDE DEF T
  <1>5. Min(T) \in T /\ \A x \in T : Min(T) <= x
    BY <1>1, <1>3, MinExists
  <1> DEFINE m == Min(T)
  <1>6. m \in T /\ m <= k
    BY <1>3, <1>5
  <1> HIDE DEF m
  <1>7. m \in 1 .. k /\ l[m] = l[k]
    BY <1>1, <1>4, <1>6
  <1>8. Distinct(l) => m = k
    BY <1>1, <1>7 DEF Distinct
  <1> QED
    BY <1>1, <1>2, <1>7, <1>8 DEF m

LEMMA PivotIn ==
    ASSUME NEW l \in Seq(Nat)
    PROVE  find_pivot(l) \in 0 .. Len(l)
  <1> DEFINE n == Len(l)
             T == {0} \cup {k \in DOMAIN l : l[k] \in old}
  <1>1. n \in Nat /\ T \subseteq 0 .. n /\ T # {}
    OBVIOUS
  <1>2. find_pivot(l) = Max(T)
    BY DEF find_pivot
  <1> HIDE DEF n, T
  <1> QED
    BY <1>1, <1>2, MaxExists DEF n

-----------------------------------------------------------------------------
(***************************************************************************)
(* Types, and who is where.                                                *)
(***************************************************************************)
Buffer == [content : Seq(Nat), torn : BOOLEAN]

ThreadTypes ==
    /\ lock \in [Flow -> Sender \cup {NoThread}]
    /\ phase \in [Sender -> {"idle", "lock", "insert", "find", "cut", "hand"}]
    /\ held \in [Handler -> Nat]
    /\ visits \in Seq(Flow) /\ visits # <<>>

ListTypes ==
    /\ ThreadTypes
    /\ arrived \in Seq(Segment)
    /\ list \in [Flow -> Seq(Nat)]
    /\ cutOff \in [Sender -> Seq(Nat)]
    /\ expected \in [Sender -> Nat]
    /\ glob \in Buffer
    /\ packets \in Seq(Buffer)

\* A handler that is not idle has a segment; the timer does not insert.
Phases ==
    /\ \A h \in Handler : /\ phase[h] \in {"idle", "lock", "insert", "hand"}
                          /\ phase[h] # "idle" => held[h] \in DOMAIN arrived
    /\ phase[Timer] \in {"idle", "find", "cut", "hand"}

\* The code between the two lock operations.
Critical == {"insert", "find", "cut", "hand"}

\* A thread there has the lock of its flow, and only in the
\* loop of send_list_until has it cut anything off.
Locked ==
    \A t \in Sender : /\ phase[t] \in Critical => lock[flowAt(t)] = t
                      /\ phase[t] # "hand" => cutOff[t] = <<>>

\* The pivot that the timer found is still the rest of the list.
Pivoted ==
    phase[Timer] = "cut" =>
        \E k \in DOMAIN list[flowAt(Timer)] :
            pivot = SubSeq(list[flowAt(Timer)], k, Len(list[flowAt(Timer)]))

\* What is in a list, or cut off one, are segments of the flow.
ListKnown == \A f \in Flow : \A x : In(list[f], x) => x \in DOMAIN arrived /\ seg(x).flow = f
CutKnown  == \A t \in Sender : \A x : In(cutOff[t], x) =>
                 x \in DOMAIN arrived /\ seg(x).flow = flowAt(t)
SentKnown ==
    /\ \A k \in DOMAIN packets : \A x : In(packets[k].content, x) => x \in DOMAIN arrived
    /\ \A x : In(glob.content, x) => x \in DOMAIN arrived

ListInv == ListTypes /\ Phases /\ Locked /\ Pivoted /\ ListKnown /\ CutKnown /\ SentKnown

USE ListAssumption

\* A sequence with one element more: those that were there stay where they are.
LEMMA Longer ==
    ASSUME NEW S, NEW z \in Seq(S), NEW e \in S
    PROVE  /\ Append(z, e) \in Seq(S) /\ Append(z, e)[Len(z) + 1] = e
           /\ DOMAIN Append(z, e) = DOMAIN z \cup {Len(z) + 1}
           /\ Len(z) + 1 \notin DOMAIN z /\ Len(z) + 1 \in Nat /\ Len(Append(z, e)) = Len(z) + 1
           /\ \A k \in DOMAIN z : Append(z, e)[k] = z[k]
  OBVIOUS

\* The flow a thread works for.
LEMMA FlowOf ==
    ASSUME ListInv, NEW t \in Sender, t = Timer \/ phase[t] # "idle"
    PROVE  flowAt(t) \in Flow
  <1>1. CASE t = Timer
    <2>1. \A z \in Seq(Flow) : z # <<>> => Head(z) \in Flow
      OBVIOUS
    <2> QED
      BY <1>1, <2>1 DEF ListInv, ListTypes, ThreadTypes, flowAt
  <1>2. CASE t # Timer
    <2>1. t \in Handler /\ held[t] \in DOMAIN arrived
      BY <1>2 DEF ListInv, Phases, Sender
    <2>2. arrived[held[t]] \in Segment
      BY <2>1 DEF ListInv, ListTypes, ThreadTypes
    <2> QED
      BY <1>2, <2>2, SegmentAssumption DEF flowAt, seg
  <1> QED
    BY <1>1, <1>2

\* Two threads that have the lock of one flow are the same.
LEMMA OneLocked ==
    ASSUME ListInv, NEW t \in Sender, NEW u \in Sender, flowAt(t) = flowAt(u),
           phase[t] \in Critical,
           phase[u] \in Critical
    PROVE  t = u
  BY DEF ListInv, Locked

\* A thread keeps its flow while it keeps what it works on.
LEMMA FlowKept ==
    ASSUME ListInv, NEW t \in Sender,
           t = Timer \/ phase[t] # "idle",
           arrived' = arrived \/ \E s \in Segment : arrived' = Append(arrived, s),
           t = Timer => Head(visits') = Head(visits),
           t # Timer => held'[t] = held[t]
    PROVE  flowAt(t)' = flowAt(t)
  <1>1. CASE t = Timer
    BY <1>1 DEF flowAt
  <1>2. CASE t # Timer
    <2>1. held[t] \in DOMAIN arrived
      BY <1>2 DEF ListInv, Phases, Sender
    <2>2. arrived'[held[t]] = arrived[held[t]]
      <3>1. arrived \in Seq(Segment)
        BY DEF ListInv, ListTypes, ThreadTypes
      <3>2. \A s \in Segment : Append(arrived, s)[held[t]] = arrived[held[t]]
        BY <2>1, <3>1, Longer
      <3> QED
        BY <3>2
    <2> QED
      BY <1>2, <2>2 DEF flowAt, seg
  <1> QED
    BY <1>1, <1>2

LEMMA InitList == ListInit => ListInv
  <1> SUFFICES ASSUME ListInit PROVE ListInv
    OBVIOUS
  <1> USE DEF ListInit
  <1>1. visits \in Seq(Flow) /\ visits # <<>>
    <2>1. visits = CHOOSE g \in [1 .. Cardinality(Flow) -> Flow] : IsInjective(g)
      BY DEF SetToSeq
    <2>2. Cardinality(Flow) \in Nat /\ Cardinality(Flow) # 0
      BY FS_CardinalityType, FS_EmptySet
    <2>3. \E g \in [1 .. Cardinality(Flow) -> Flow] : IsInjective(g)
      <3>1. ExistsBijection(1 .. Cardinality(Flow), Flow)
        BY FS_CardinalityType
      <3> QED
        BY <3>1 DEF ExistsBijection, Bijection, Injection, IsInjective
    <2>4. visits \in [1 .. Cardinality(Flow) -> Flow]
      BY <2>1, <2>3
    <2> HIDE DEF ListInit
    <2> QED
      BY <2>2, <2>4
  <1>2. ListTypes
    BY <1>1 DEF ListTypes, ThreadTypes, Buffer, Sender
  <1>3. \A x : ~In(<<>>, x)
    BY InFew
  <1>4. ListKnown /\ CutKnown /\ SentKnown
    BY <1>3 DEF ListKnown, CutKnown, SentKnown
  <1>5. Phases /\ Locked /\ Pivoted
    BY DEF Phases, Locked, Pivoted, Sender, Critical
  <1> QED
    BY <1>2, <1>4, <1>5 DEF ListInv

LEMMA ReceiveList ==
    ASSUME ListInv, NEW h \in Handler, NEW s \in Segment, Receive(h, s)
    PROVE  ListInv'
  <1> DEFINE n == Len(arrived) + 1
  <1>1. /\ arrived' \in Seq(Segment) /\ n \in Nat /\ DOMAIN arrived' = DOMAIN arrived \cup {n}
        /\ Len(arrived') = n /\ \A k \in DOMAIN arrived : arrived'[k] = arrived[k]
    BY Longer DEF ListInv, ListTypes, ThreadTypes, Receive
  <1> HIDE DEF n
  <1>2. h \in Sender /\ h # Timer
    BY DEF Sender
  <1>3. <<n>> \in Seq(Nat) /\ \A x : In(<<n>>, x) => x = n
    BY <1>1, InFew
  <1>4. \A t \in Sender : t = Timer \/ phase[t] # "idle" => flowAt(t)' = flowAt(t)
    <2> SUFFICES ASSUME NEW t \in Sender, t = Timer \/ phase[t] # "idle" PROVE flowAt(t)' = flowAt(t)
      OBVIOUS
    <2>1. t # h
      BY <1>2 DEF Receive
    <2>2. t # Timer => held'[t] = held[t]
      BY <2>1 DEF Receive, ListInv, ListTypes, ThreadTypes, Sender
    <2> QED
      BY <2>2, FlowKept DEF Receive
  <1>5. ListTypes'
    <2>1. [content |-> <<n>>, torn |-> FALSE] \in Buffer
      BY <1>3 DEF Buffer
    <2>2. packets' = packets \/ packets' = Append(packets, [content |-> <<n>>, torn |-> FALSE])
      BY <1>1 DEF Receive
    <2>4. packets \in Seq(Buffer)
      BY DEF ListInv, ListTypes, ThreadTypes
    <2>5. packets' \in Seq(Buffer)
      BY <2>1, <2>2, <2>4, Longer
    <2>3. held' \in [Handler -> Nat] /\ phase' \in [Sender -> {"idle", "lock", "insert", "find", "cut", "hand"}]
      BY <1>1 DEF Receive, ListInv, ListTypes, ThreadTypes
    <2> QED
      BY <1>1, <2>3, <2>5 DEF Receive, ListInv, ListTypes, ThreadTypes
  <1>6. Phases'
    <2>1. ASSUME NEW k \in Handler
          PROVE  /\ phase'[k] \in {"idle", "lock", "insert", "hand"}
                 /\ phase'[k] # "idle" => held'[k] \in DOMAIN arrived'
      <3>1. CASE k = h /\ ~s.untouched
        BY <1>1, <1>2, <3>1 DEF Receive, ListInv, ListTypes, ThreadTypes
      <3>2. CASE k # h \/ s.untouched
        <4>1. phase'[k] = phase[k] /\ (phase[k] = "idle" \/ held'[k] = held[k])
          BY <1>2, <3>2 DEF Receive, ListInv, ListTypes, ThreadTypes, Sender
        <4> QED
          BY <1>1, <4>1 DEF ListInv, Phases
      <3> QED
        BY <3>1, <3>2
    <2>2. phase'[Timer] = phase[Timer]
      BY <1>2 DEF Receive, ListInv, ListTypes, ThreadTypes, Sender
    <2> QED
      BY <2>1, <2>2 DEF ListInv, Phases
  <1>7. Locked'
    <2> SUFFICES ASSUME NEW t \in Sender
                 PROVE  /\ phase'[t] \in Critical => lock'[flowAt(t)'] = t
                        /\ phase'[t] # "hand" => cutOff'[t] = <<>>
      BY DEF Locked
    <2>1. phase'[t] = phase[t] \/ (t = h /\ phase'[t] = "lock" /\ phase[t] = "idle")
      BY DEF Receive, ListInv, ListTypes, ThreadTypes
    <2> QED
      BY <1>4, <2>1 DEF Receive, ListInv, Locked, Critical
  <1>8. Pivoted'
    BY <1>2, <1>4 DEF Receive, ListInv, ListTypes, ThreadTypes, Pivoted, Sender
  <1>9. ListKnown'
    BY <1>1 DEF Receive, ListInv, ListKnown, seg
  <1>10. CutKnown'
    <2> SUFFICES ASSUME NEW t \in Sender, NEW x, In(cutOff[t], x)
                 PROVE  x \in DOMAIN arrived' /\ seg(x)' .flow = flowAt(t)'
      BY DEF Receive, CutKnown
    <2>1. cutOff[t] # <<>>
      BY DEF In
    <2>2. phase[t] = "hand"
      BY <2>1 DEF ListInv, Locked
    <2> QED
      BY <1>1, <1>4, <2>2 DEF ListInv, CutKnown, seg
  <1>11. SentKnown'
    <2>1. CASE s.untouched
      <3>1. packets' = Append(packets, [content |-> <<n>>, torn |-> FALSE])
        BY <1>1, <2>1 DEF Receive
      <3>2. [content |-> <<n>>, torn |-> FALSE] \in Buffer
        BY <1>3 DEF Buffer
      <3>3. /\ DOMAIN packets' = DOMAIN packets \cup {Len(packets) + 1}
            /\ packets'[Len(packets) + 1].content = <<n>> /\ \A k \in DOMAIN packets : packets'[k] = packets[k]
        BY <3>1, <3>2, Longer DEF ListInv, ListTypes, ThreadTypes
      <3> QED
        BY <1>1, <1>3, <3>3 DEF Receive, ListInv, SentKnown
    <2>2. CASE ~s.untouched
      BY <1>1, <2>2 DEF Receive, ListInv, SentKnown
    <2> QED
      BY <2>1, <2>2
  <1> QED
    BY <1>5, <1>6, <1>7, <1>8, <1>9, <1>10, <1>11 DEF ListInv

\* A step of t leaves the others with their phase, their flow and their lock.
Undisturbed(t) ==
    \A u \in Sender \ {t} :
        /\ phase'[u] = phase[u]
        /\ u = Timer \/ phase[u] # "idle" => flowAt(u)' = flowAt(u)
        /\ phase[u] \in Critical => lock'[flowAt(u)'] = u

LEMMA Locking ==
    ASSUME ListInv, NEW t \in Sender, NEW p \in {"insert", "find"}, flowAt(t) \in Flow,
           \/ phase[t] = "lock" /\ t # Timer /\ p = "insert"
           \/ phase[t] = "idle" /\ t = Timer /\ p = "find",
           lock[flowAt(t)] = NoThread, lock' = [lock EXCEPT ![flowAt(t)] = t],
           phase' = [phase EXCEPT ![t] = p],
           UNCHANGED <<arrived, list, held, visits, pivot, cutOff, expected, glob, packets>>
    PROVE  ListInv'
  <1>1. \A u \in Sender : flowAt(u)' = flowAt(u)
    BY DEF flowAt, seg
  <1>2. ThreadTypes'
    BY DEF ListInv, ListTypes, ThreadTypes
  <1>3. ListTypes'
    BY <1>2 DEF ListInv, ListTypes
  <1>4. Phases'
    BY DEF ListInv, Phases, ListTypes, ThreadTypes, Sender
  <1>5. Locked'
    <2> SUFFICES ASSUME NEW u \in Sender
                 PROVE  /\ phase'[u] \in Critical => lock'[flowAt(u)'] = u
                        /\ phase'[u] # "hand" => cutOff'[u] = <<>>
      BY DEF Locked
    <2>1. CASE u = t
      BY <1>1, <2>1 DEF ListInv, Locked, ListTypes, ThreadTypes
    <2>2. CASE u # t
      <3>1. phase'[u] = phase[u]
        BY <2>2 DEF ListInv, ListTypes, ThreadTypes
      <3>2. phase[u] \in Critical => lock[flowAt(u)] = u /\ u # NoThread
        BY DEF ListInv, Locked, Sender
      <3>3. phase[u] \in Critical => lock'[flowAt(u)] = u
        BY <3>2 DEF ListInv, ListTypes, ThreadTypes
      <3> QED
        BY <1>1, <3>1, <3>3 DEF ListInv, Locked
    <2> QED
      BY <2>1, <2>2
  <1>6. Pivoted'
    BY <1>1 DEF ListInv, Pivoted, ListTypes, ThreadTypes, Sender
  <1>7. ListKnown' /\ CutKnown' /\ SentKnown'
    BY <1>1 DEF ListInv, ListKnown, CutKnown, SentKnown, seg
  <1> QED
    BY <1>3, <1>4, <1>5, <1>6, <1>7 DEF ListInv

LEMMA Unlocking ==
    ASSUME ListInv, NEW t \in Sender, phase[t] \in Critical, Unlock(t), arrived' = arrived
    PROVE  ThreadTypes' /\ Phases' /\ Undisturbed(t) /\ phase'[t] = "idle"
  <1>1. flowAt(t) \in Flow /\ phase[t] # "idle"
    BY FlowOf DEF Critical
  <1>2. visits' \in Seq(Flow) /\ visits' # <<>>
    <2>1. visits \in Seq(Flow) /\ visits # <<>> /\ <<flowAt(t)>> \in Seq(Flow)
      BY <1>1 DEF ListInv, ListTypes, ThreadTypes
    <2>2. Tail(visits) \o <<flowAt(t)>> \in Seq(Flow) /\ Tail(visits) \o <<flowAt(t)>> # <<>>
      BY <2>1
    <2> QED
      BY <2>1, <2>2 DEF Unlock
  <1>3. held' \in [Handler -> Nat] /\ \A u \in Handler : u # t => held'[u] = held[u]
    <2>1. held \in [Handler -> Nat]
      BY DEF ListInv, ListTypes, ThreadTypes
    <2>2. held' = held \/ held' = [held EXCEPT ![t] = 0]
      BY DEF Unlock
    <2> QED
      BY <2>1, <2>2
  <1>4. phase' \in [Sender -> {"idle", "lock", "insert", "find", "cut", "hand"}]
        /\ phase'[t] = "idle" /\ \A u \in Sender : u # t => phase'[u] = phase[u]
    BY DEF Unlock, ListInv, ListTypes, ThreadTypes
  <1>5. lock' \in [Flow -> Sender \cup {NoThread}] /\ \A f \in Flow : f # flowAt(t) => lock'[f] = lock[f]
    BY DEF Unlock, ListInv, ListTypes, ThreadTypes
  <1>6. Undisturbed(t)
    <2> SUFFICES ASSUME NEW u \in Sender, u # t
                 PROVE  /\ u = Timer \/ phase[u] # "idle" => flowAt(u)' = flowAt(u)
                        /\ phase[u] \in Critical => lock'[flowAt(u)'] = u
      BY <1>4 DEF Undisturbed
    <2>1. ASSUME u = Timer \/ phase[u] # "idle" PROVE flowAt(u)' = flowAt(u)
      <3>1. (u = Timer => visits' = visits) /\ (u # Timer => held'[u] = held[u])
        BY <1>3 DEF Unlock, Sender
      <3> QED
        BY <2>1, <3>1, FlowKept
    <2>2. ASSUME phase[u] \in Critical PROVE lock'[flowAt(u)'] = u
      <3>1. flowAt(u) # flowAt(t)
        BY <2>2, OneLocked
      <3>2. phase[u] # "idle"
        BY <2>2 DEF Critical
      <3>3. flowAt(u) \in Flow /\ lock[flowAt(u)] = u
        BY <2>2, <3>2, FlowOf DEF ListInv, Locked
      <3> QED
        BY <1>5, <2>1, <3>1, <3>2, <3>3
    <2> QED
      BY <2>1, <2>2
  <1>7. Phases'
    BY <1>3, <1>4 DEF ListInv, Phases, Sender
  <1> QED
    BY <1>2, <1>3, <1>4, <1>5, <1>6, <1>7 DEF ThreadTypes

LEMMA Staying ==
    ASSUME ListInv, NEW t \in Sender, phase[t] \in Critical, NEW p \in {"cut", "hand"},
           p = "cut" => t = Timer, phase' = [phase EXCEPT ![t] = p],
           UNCHANGED <<arrived, lock, held, visits>>
    PROVE  /\ ThreadTypes' /\ Phases' /\ Undisturbed(t) /\ phase'[t] = p
           /\ \A u \in Sender : flowAt(u)' = flowAt(u)
           /\ lock'[flowAt(t)'] = t
  <1>1. \A u \in Sender : flowAt(u)' = flowAt(u)
    BY DEF flowAt, seg
  <1>2. ThreadTypes' /\ phase'[t] = p /\ \A u \in Sender : u # t => phase'[u] = phase[u]
    BY DEF ListInv, ListTypes, ThreadTypes
  <1>3. Phases'
    <2>1. phase[t] # "idle" /\ p \in {"idle", "cut", "hand"} /\ p # "idle"
      BY DEF Critical
    <2> QED
      BY <1>2, <2>1 DEF ListInv, Phases, Sender
  <1>4. Undisturbed(t)
    BY <1>1, <1>2 DEF Undisturbed, ListInv, Locked
  <1>5. lock'[flowAt(t)'] = t
    BY <1>1 DEF ListInv, Locked
  <1> QED
    BY <1>1, <1>2, <1>3, <1>4, <1>5

\* The pivot of the timer is disturbed by no other thread.
LEMMA PivotStays ==
    ASSUME ListInv, NEW t \in Sender, t # Timer, phase[t] \in Critical, Undisturbed(t),
           list' = list \/ list' = [list EXCEPT ![flowAt(t)] = list'[flowAt(t)]], pivot' = pivot
    PROVE  Pivoted'
  <1> SUFFICES ASSUME phase'[Timer] = "cut"
               PROVE  \E k \in DOMAIN list'[flowAt(Timer)'] :
                         pivot' = SubSeq(list'[flowAt(Timer)'], k, Len(list'[flowAt(Timer)']))
    BY DEF Pivoted
  <1>1. phase[Timer] = "cut" /\ flowAt(Timer)' = flowAt(Timer) /\ Timer \in Sender
    BY DEF Undisturbed, Sender
  <1>2. flowAt(Timer) # flowAt(t)
    BY <1>1, OneLocked DEF Critical
  <1>3. flowAt(Timer) \in Flow
    BY <1>1, FlowOf
  <1>4. list'[flowAt(Timer)] = list[flowAt(Timer)]
    BY <1>2, <1>3 DEF ListInv, ListTypes
  <1> QED
    BY <1>1, <1>4 DEF ListInv, Pivoted

-----------------------------------------------------------------------------
(***************************************************************************)
(* What the steps do to the lists.                                         *)
(***************************************************************************)
\* The segments of the sequence w, and none else, are in the list of f or with t.
Divides(w, f, t) ==
    /\ list' = [list EXCEPT ![f] = list'[f]] /\ list'[f] \in Seq(Nat)
    /\ cutOff' = [cutOff EXCEPT ![t] = cutOff'[t]] /\ cutOff'[t] \in Seq(Nat)
    /\ \A x : In(list'[f], x) \/ In(cutOff'[t], x) => In(w, x)
    /\ Distinct(w) => /\ \A x : In(w, x) => In(list'[f], x) \/ In(cutOff'[t], x)
                      /\ \A x : ~(In(list'[f], x) /\ In(cutOff'[t], x))
                      /\ Distinct(list'[f]) /\ Distinct(cutOff'[t])

\* The list of h with its segment in it.
With(h) == InsertAt(list[flowAt(h)], InsertPlace(list[flowAt(h)], seg(held[h])), held[h])

LEMMA InsertEffect ==
    ASSUME ListInv, NEW h \in Handler, Insert(h)
    PROVE  /\ flowAt(h) \in Flow /\ held[h] \in Nat /\ held[h] \in DOMAIN arrived
           /\ seg(held[h]).flow = flowAt(h) /\ h \in Sender /\ h # Timer
           /\ With(h) \in Seq(Nat) /\ Divides(With(h), flowAt(h), h)
           /\ \A x : In(With(h), x) <=> In(list[flowAt(h)], x) \/ x = held[h]
           /\ Distinct(list[flowAt(h)]) /\ ~In(list[flowAt(h)], held[h]) => Distinct(With(h))
           /\ \E c \in 0 .. Len(With(h)) :
                  /\ list'[flowAt(h)] = SubSeq(With(h), c + 1, Len(With(h)))
                  /\ cutOff'[h] = SubSeq(With(h), 1, c)
                  /\ \/ c = 0 /\ Unlock(h) /\ cutOff'[h] = <<>>
                     \/ phase' = [phase EXCEPT ![h] = "hand"] /\ UNCHANGED <<lock, held, visits>>
  <1> DEFINE f == flowAt(h)
             l == list[f]
             s == seg(held[h])
             w == With(h)
  <1>1. phase[h] = "insert" /\ h \in Sender /\ h # Timer
    BY DEF Insert, Sender
  <1>2. f \in Flow /\ held[h] \in Nat /\ held[h] \in DOMAIN arrived /\ s.flow = f
    BY <1>1, FlowOf DEF ListInv, Phases, ListTypes, ThreadTypes, flowAt
  <1>3. l \in Seq(Nat)
    BY <1>2 DEF ListInv, ListTypes
  <1>4. InsertPlace(l, s) \in 1 .. Len(l) + 1 /\ Pivot(l, s) \in 0 .. Len(l)
    BY <1>3, PlacesIn
  <1>5. /\ w \in Seq(Nat) /\ Len(w) = Len(l) + 1
        /\ \A y : In(w, y) <=> In(l, y) \/ y = held[h]
        /\ Distinct(l) /\ ~In(l, held[h]) => Distinct(w)
    <2> DEFINE p == InsertPlace(l, s)
    <2>1. w = InsertAt(l, p, held[h])
      BY DEF With
    <2> HIDE DEF p, s, l, w
    <2>2. l \in Seq(Nat) /\ held[h] \in Nat /\ p \in 1 .. Len(l) + 1
      BY <1>2, <1>3, <1>4 DEF p
    <2>3. w \in Seq(Nat) /\ Len(w) = Len(l) + 1
      BY <2>1, <2>2, Inserted
    <2> QED
      BY <2>1, <2>2, <2>3, InInserted
  <1> DEFINE c == IF s.push THEN Len(w) ELSE Pivot(l, s)
  <1>6. c \in 0 .. Len(w)
    <2> HIDE DEF l, w, s
    <2>1. Len(l) \in Nat /\ Len(w) \in Nat
      BY <1>3, <1>5
    <2> QED
      BY <1>4, <1>5, <2>1
  <1>7. Cut(h, w, c) /\ SendOrUnlock(h, c)
    BY DEF Insert, With
  <1> HIDE DEF c, w, l, s
  <1>8. /\ list' = [list EXCEPT ![f] = SubSeq(w, c + 1, Len(w))]
        /\ cutOff' = [cutOff EXCEPT ![h] = SubSeq(w, 1, c)]
    BY <1>7 DEF Cut
  <1>9. list'[f] = SubSeq(w, c + 1, Len(w)) /\ cutOff'[h] = SubSeq(w, 1, c)
    BY <1>1, <1>2, <1>8 DEF ListInv, ListTypes
  <1>10. Divides(w, f, h)
    <2> HIDE DEF f
    <2>1. list'[f] \in Seq(Nat) /\ cutOff'[h] \in Seq(Nat)
      BY <1>5, <1>6, <1>9, Parts
    <2>2. /\ \A x : In(w, x) <=> In(cutOff'[h], x) \/ In(list'[f], x)
          /\ Distinct(w) => /\ Distinct(cutOff'[h]) /\ Distinct(list'[f])
                            /\ \A x : ~(In(cutOff'[h], x) /\ In(list'[f], x))
      BY <1>5, <1>6, <1>9, InParts
    <2> QED
      BY <1>8, <1>9, <2>1, <2>2 DEF Divides
  <1>11. \/ c = 0 /\ Unlock(h) /\ cutOff'[h] = <<>>
         \/ phase' = [phase EXCEPT ![h] = "hand"] /\ UNCHANGED <<lock, held, visits>>
    <2>1. CASE c = 0
      <3>1. cutOff'[h] = <<>>
        BY <1>5, <1>9, <2>1
      <3> QED
        BY <1>7, <2>1, <3>1 DEF SendOrUnlock
    <2>2. CASE c # 0
      BY <1>7, <2>2 DEF SendOrUnlock
    <2> QED
      BY <2>1, <2>2
  <1> QED
    BY <1>1, <1>2, <1>5, <1>6, <1>9, <1>10, <1>11 DEF l, s, w

LEMMA CutOldEffect ==
    ASSUME ListInv, CutOld
    PROVE  LET f == flowAt(Timer)
           IN  /\ f \in Flow /\ Timer \in Sender /\ list[f] \in Seq(Nat)
               /\ Divides(list[f], f, Timer)
               /\ \E k \in DOMAIN list[f] : list'[f] = SubSeq(list[f], k, Len(list[f]))
  <1> DEFINE f == flowAt(Timer)
             l == list[f]
             n == Len(l)
  <1>1. phase[Timer] = "cut" /\ Timer \in Sender /\ f \in Flow
    BY FlowOf DEF CutOld, Sender
  <1>2. l \in Seq(Nat)
    BY <1>1 DEF ListInv, ListTypes
  <1>3. PICK k \in DOMAIN l : pivot = SubSeq(l, k, n)
    BY <1>1 DEF ListInv, Pivoted
  <1> DEFINE a == k - 1
             m == InFront(l, Head(pivot))
  <1>4. n \in Nat /\ k \in 1 .. n /\ DOMAIN l = 1 .. n /\ a \in 0 .. n /\ a + 1 = k
    BY <1>2
  <1>5. /\ list' = [list EXCEPT ![f] = pivot]
        /\ cutOff' = [cutOff EXCEPT ![Timer] = SubSeq(l, 1, m)]
    BY DEF CutOld
  <1>6. list'[f] = pivot /\ cutOff'[Timer] = SubSeq(l, 1, m)
    BY <1>1, <1>5 DEF ListInv, ListTypes
  <1> HIDE DEF l, a, f
  <1>7. pivot = SubSeq(l, a + 1, Len(l))
    BY <1>3, <1>4
  <1> HIDE DEF n
  <1>8. Head(pivot) = l[k]
    <2>1. pivot \in Seq(Nat) /\ Len(pivot) = Len(l) - a /\ \A i \in 1 .. Len(l) - a : pivot[i] = l[a + i]
      BY <1>2, <1>4, <1>7, BackIs DEF n
    <2>2. Len(l) - a >= 1 /\ 1 \in 1 .. Len(l) - a
      BY <1>4 DEF n
    <2>3. pivot[1] = l[k]
      BY <1>4, <2>1, <2>2
    <2> QED
      BY <2>1, <2>2, <2>3
  <1>9. m \in 0 .. a /\ (Distinct(l) => m = a)
    BY <1>2, <1>8, InFrontIs DEF a
  <1> HIDE DEF m
  <1>10. m \in 0 .. n
    BY <1>4, <1>9
  <1>11. /\ pivot \in Seq(Nat) /\ SubSeq(l, 1, m) \in Seq(Nat)
         /\ \A x : In(pivot, x) \/ In(SubSeq(l, 1, m), x) => In(l, x)
    <2>1. SubSeq(l, 1, m) \in Seq(Nat) /\ \A x : In(SubSeq(l, 1, m), x) => In(l, x)
      BY <1>2, <1>10, Parts, InParts DEF n
    <2>2. pivot \in Seq(Nat) /\ \A x : In(pivot, x) => In(l, x)
      BY <1>2, <1>4, <1>7, Parts, InParts DEF n
    <2> QED
      BY <2>1, <2>2
  <1>12. ASSUME Distinct(l)
         PROVE  /\ \A x : In(l, x) => In(pivot, x) \/ In(SubSeq(l, 1, m), x)
                /\ \A x : ~(In(pivot, x) /\ In(SubSeq(l, 1, m), x))
                /\ Distinct(pivot) /\ Distinct(SubSeq(l, 1, m))
    <2>1. m = a
      BY <1>9, <1>12
    <2> QED
      BY <1>2, <1>4, <1>7, <1>12, <2>1, InParts DEF n
  <1>13. Divides(l, f, Timer)
    BY <1>5, <1>6, <1>11, <1>12 DEF Divides
  <1> QED
    BY <1>1, <1>2, <1>3, <1>6, <1>13 DEF l, f, n

LEMMA BufferWith ==
    ASSUME NEW c, NEW d, NEW b
    PROVE  [[content |-> c, torn |-> b] EXCEPT !.content = d] = [content |-> d, torn |-> b]
  OBVIOUS

LEMMA HandEffect ==
    ASSUME ListInv, NEW t \in Sender, NEW apart \in BOOLEAN, Hand(t, apart)
    PROVE  LET n == Head(cutOff[t])
               b == glob.torn \/ Shared(t)
           IN  /\ n \in Nat /\ In(cutOff[t], n) /\ n \in DOMAIN arrived /\ seg(n).flow = flowAt(t)
               /\ cutOff' = [cutOff EXCEPT ![t] = cutOff'[t]] /\ cutOff'[t] \in Seq(Nat)
               /\ \A x : In(cutOff[t], x) <=> In(cutOff'[t], x) \/ x = n
               /\ Distinct(cutOff[t]) => Distinct(cutOff'[t]) /\ ~In(cutOff'[t], n)
               /\ expected' = [expected EXCEPT ![t] = Following(seg(n).seq, seg(n).len)]
               /\ \/ /\ Apart(t, apart) /\ glob' = [content |-> <<n>>, torn |-> b]
                     /\ packets' = Append(packets, [content |-> glob.content, torn |-> b])
                  \/ /\ ~Apart(t, apart) /\ glob' = [content |-> Append(glob.content, n), torn |-> b]
                     /\ packets' = packets
  <1> DEFINE n == Head(cutOff[t])
             b == glob.torn \/ Shared(t)
             c == cutOff[t]
  <1>1. c \in Seq(Nat) /\ c # <<>> /\ glob \in Buffer
    BY DEF ListInv, ListTypes, Hand
  <1>2. n \in Nat /\ c = <<n>> \o Tail(c) /\ Tail(c) \in Seq(Nat) /\ <<n>> \in Seq(Nat)
    BY <1>1
  <1>3. (\A x : In(<<n>>, x) <=> x = n) /\ Distinct(<<n>>)
    BY InFew
  <1>4. cutOff' = [cutOff EXCEPT ![t] = Tail(c)] /\ cutOff'[t] = Tail(c)
    BY DEF Hand, ListInv, ListTypes
  <1>5. expected' = [expected EXCEPT ![t] = Following(seg(n).seq, seg(n).len)]
    BY DEF Hand
  <1>6. Now(t) = [content |-> glob.content, torn |-> b]
    BY <1>1 DEF Now, Buffer
  <1>7. \/ /\ Apart(t, apart) /\ glob' = [content |-> <<n>>, torn |-> b]
           /\ packets' = Append(packets, [content |-> glob.content, torn |-> b])
        \/ /\ ~Apart(t, apart) /\ glob' = [content |-> Append(glob.content, n), torn |-> b]
           /\ packets' = packets
    <2>1. CASE Apart(t, apart)
      <3> DEFINE d == <<n>>
      <3>1. glob' = [Now(t) EXCEPT !.content = d]
        BY <2>1 DEF Hand
      <3>2. packets' = Append(packets, Now(t))
        BY <2>1 DEF Hand
      <3> HIDE DEF n, b, d
      <3>3. glob' = [content |-> d, torn |-> b]
        BY <1>6, <3>1, BufferWith
      <3> QED
        BY <1>6, <2>1, <3>2, <3>3 DEF d
    <2>2. CASE ~Apart(t, apart)
      <3> DEFINE d == Append(glob.content, n)
      <3>1. Now(t).content = glob.content
        BY <1>6
      <3>2. glob' = [Now(t) EXCEPT !.content = d] /\ packets' = packets
        BY <2>2, <3>1 DEF Hand
      <3> HIDE DEF n, b, d
      <3>3. glob' = [content |-> d, torn |-> b]
        BY <1>6, <3>2, BufferWith
      <3> QED
        BY <2>2, <3>2, <3>3 DEF d
    <2> QED
      BY <2>1, <2>2
  <1> DEFINE r == Tail(c)
  <1> HIDE DEF n, c, r, b
  <1>8. /\ \A x : In(c, x) <=> In(r, x) \/ x = n
        /\ Distinct(c) => Distinct(r) /\ ~In(r, n)
    <2>1. <<n>> \in Seq(Nat) /\ r \in Seq(Nat) /\ c = <<n>> \o r
      BY <1>2 DEF r
    <2> QED
      BY <1>3, <2>1, InJoined
  <1>9. n \in DOMAIN arrived /\ seg(n).flow = flowAt(t)
    BY <1>8 DEF ListInv, CutKnown, c
  <1> QED
    BY <1>2, <1>4, <1>5, <1>7, <1>8, <1>9 DEF n, c, r, b

\* Steps that touch no list but f's, and of what is cut off only what t has.
LEMMA DividesKnown ==
    ASSUME ListInv, NEW t \in Sender, NEW f \in Flow, NEW w, Divides(w, f, t), f = flowAt(t),
           \A x : In(w, x) => x \in DOMAIN arrived /\ seg(x).flow = f,
           phase[t] \in Critical, Undisturbed(t), arrived' = arrived,
           flowAt(t)' = flowAt(t) \/ cutOff'[t] = <<>>
    PROVE  /\ list' \in [Flow -> Seq(Nat)] /\ cutOff' \in [Sender -> Seq(Nat)]
           /\ ListKnown' /\ CutKnown'
           /\ \A u \in Sender \ {t} : /\ phase'[u] \in Critical => lock'[flowAt(u)'] = u
                                      /\ phase'[u] # "hand" => cutOff'[u] = <<>>
  <1>1. /\ list \in [Flow -> Seq(Nat)] /\ list'[f] \in Seq(Nat)
        /\ list' = [list EXCEPT ![f] = list'[f]]
        /\ cutOff \in [Sender -> Seq(Nat)] /\ cutOff'[t] \in Seq(Nat)
        /\ cutOff' = [cutOff EXCEPT ![t] = cutOff'[t]]
    BY DEF Divides, ListInv, ListTypes
  <1>2. list' \in [Flow -> Seq(Nat)] /\ \A g \in Flow : g # f => list'[g] = list[g]
    BY <1>1
  <1>3. cutOff' \in [Sender -> Seq(Nat)] /\ \A u \in Sender : u # t => cutOff'[u] = cutOff[u]
    BY <1>1
  <1>4. \A x : In(list'[f], x) \/ In(cutOff'[t], x) => x \in DOMAIN arrived /\ seg(x).flow = f
    BY DEF Divides
  <1>5. \A x : seg(x)' = seg(x)
    BY DEF seg
  <1>6. ListKnown'
    BY <1>2, <1>4, <1>5 DEF ListInv, ListKnown
  <1>7. CutKnown'
    <2> SUFFICES ASSUME NEW u \in Sender, NEW x, In(cutOff'[u], x)
                 PROVE  x \in DOMAIN arrived /\ seg(x).flow = flowAt(u)'
      BY <1>5 DEF CutKnown
    <2>1. CASE u = t
      <3>1. cutOff'[t] # <<>>
        BY <2>1 DEF In
      <3> QED
        BY <1>4, <2>1, <3>1
    <2>2. CASE u # t
      <3>1. In(cutOff[u], x) /\ cutOff[u] # <<>>
        BY <1>3, <2>2 DEF In
      <3>2. phase[u] = "hand"
        BY <3>1 DEF ListInv, Locked
      <3>3. flowAt(u)' = flowAt(u)
        BY <2>2, <3>2 DEF Undisturbed
      <3> QED
        BY <3>1, <3>3 DEF ListInv, CutKnown
    <2> QED
      BY <2>1, <2>2
  <1>8. ASSUME NEW u \in Sender \ {t}
        PROVE  /\ phase'[u] \in Critical => lock'[flowAt(u)'] = u
               /\ phase'[u] # "hand" => cutOff'[u] = <<>>
    BY <1>3 DEF Undisturbed, ListInv, Locked
  <1> QED
    BY <1>2, <1>3, <1>6, <1>7, <1>8

\* After a step of t of either kind, Locked holds for t too.
LEMMA LockedAfter ==
    ASSUME NEW t \in Sender,
           \/ phase'[t] = "idle" /\ cutOff'[t] = <<>>
           \/ phase'[t] \in {"cut", "hand"} /\ lock'[flowAt(t)'] = t
              /\ (phase'[t] = "cut" => cutOff'[t] = <<>>),
           \A u \in Sender \ {t} : /\ phase'[u] \in Critical => lock'[flowAt(u)'] = u
                                   /\ phase'[u] # "hand" => cutOff'[u] = <<>>
    PROVE  Locked'
  BY DEF Locked, Critical

LEMMA InsertList ==
    ASSUME ListInv, NEW h \in Handler, Insert(h)
    PROVE  ListInv'
  <1> DEFINE f == flowAt(h)
             w == With(h)
  <1>1. /\ f \in Flow /\ held[h] \in DOMAIN arrived /\ seg(held[h]).flow = f
        /\ h \in Sender /\ h # Timer /\ Divides(w, f, h)
        /\ \A x : In(w, x) <=> In(list[f], x) \/ x = held[h]
        /\ \/ Unlock(h) /\ cutOff'[h] = <<>>
           \/ phase' = [phase EXCEPT ![h] = "hand"] /\ UNCHANGED <<lock, held, visits>>
    BY InsertEffect
  <1>2. phase[h] \in Critical
    BY DEF Insert, Critical
  <1>3. UNCHANGED <<arrived, pivot, expected, glob, packets>>
    BY DEF Insert
  <1>4. /\ ThreadTypes' /\ Phases' /\ Undisturbed(h)
        /\ \/ phase'[h] = "idle" /\ cutOff'[h] = <<>>
           \/ phase'[h] = "hand" /\ lock'[flowAt(h)'] = h /\ flowAt(h)' = flowAt(h)
    <2>1. CASE Unlock(h) /\ cutOff'[h] = <<>>
      BY <1>1, <1>2, <1>3, <2>1, Unlocking
    <2>2. CASE phase' = [phase EXCEPT ![h] = "hand"] /\ UNCHANGED <<lock, held, visits>>
      BY <1>1, <1>2, <1>3, <2>2, Staying
    <2> QED
      BY <1>1, <2>1, <2>2
  <1>5. \A x : In(w, x) => x \in DOMAIN arrived /\ seg(x).flow = f
    BY <1>1 DEF ListInv, ListKnown
  <1> HIDE DEF w
  <1>6. /\ list' \in [Flow -> Seq(Nat)] /\ cutOff' \in [Sender -> Seq(Nat)]
        /\ ListKnown' /\ CutKnown'
        /\ \A u \in Sender \ {h} : /\ phase'[u] \in Critical => lock'[flowAt(u)'] = u
                                   /\ phase'[u] # "hand" => cutOff'[u] = <<>>
    BY <1>1, <1>2, <1>3, <1>4, <1>5, DividesKnown
  <1>7. ListTypes'
    BY <1>3, <1>4, <1>6 DEF ListInv, ListTypes
  <1>8. Locked'
    BY <1>1, <1>4, <1>6, LockedAfter
  <1>9. Pivoted'
    BY <1>1, <1>2, <1>3, <1>4, PivotStays DEF Divides
  <1>10. SentKnown'
    BY <1>3 DEF ListInv, SentKnown
  <1> QED
    BY <1>4, <1>6, <1>7, <1>8, <1>9, <1>10 DEF ListInv

LEMMA CutOldList ==
    ASSUME ListInv, CutOld
    PROVE  ListInv'
  <1> DEFINE f == flowAt(Timer)
  <1>1. f \in Flow /\ Timer \in Sender /\ Divides(list[f], f, Timer)
    BY CutOldEffect
  <1>2. phase[Timer] \in Critical
    BY DEF CutOld, Critical
  <1>3. UNCHANGED <<arrived, lock, held, visits, expected, glob, packets>>
        /\ phase' = [phase EXCEPT ![Timer] = "hand"]
    BY DEF CutOld
  <1>4. /\ ThreadTypes' /\ Phases' /\ Undisturbed(Timer) /\ phase'[Timer] = "hand"
        /\ lock'[flowAt(Timer)'] = Timer /\ flowAt(Timer)' = flowAt(Timer)
    BY <1>1, <1>2, <1>3, Staying
  <1>5. \A x : In(list[f], x) => x \in DOMAIN arrived /\ seg(x).flow = f
    BY <1>1 DEF ListInv, ListKnown
  <1>6. /\ list' \in [Flow -> Seq(Nat)] /\ cutOff' \in [Sender -> Seq(Nat)]
        /\ ListKnown' /\ CutKnown'
        /\ \A u \in Sender \ {Timer} : /\ phase'[u] \in Critical => lock'[flowAt(u)'] = u
                                       /\ phase'[u] # "hand" => cutOff'[u] = <<>>
    BY <1>1, <1>2, <1>3, <1>4, <1>5, DividesKnown
  <1>7. ListTypes'
    BY <1>3, <1>4, <1>6 DEF ListInv, ListTypes
  <1>8. Locked'
    BY <1>1, <1>4, <1>6, LockedAfter
  <1>9. Pivoted'
    BY <1>4 DEF Pivoted
  <1>10. SentKnown'
    BY <1>3 DEF ListInv, SentKnown
  <1> QED
    BY <1>4, <1>6, <1>7, <1>8, <1>9, <1>10 DEF ListInv

\* When no list changes and nothing is cut off, what is known of them does not change.
LEMMA Unlisted ==
    ASSUME ListInv, NEW t \in Sender, phase[t] \in Critical, Undisturbed(t), UNCHANGED <<arrived, list>>,
           cutOff' \in [Sender -> Seq(Nat)], \A u \in Sender : u # t => cutOff'[u] = cutOff[u],
           \A x : In(cutOff'[t], x) => In(cutOff[t], x),
           flowAt(t)' = flowAt(t) \/ cutOff'[t] = <<>>
    PROVE  /\ ListKnown' /\ CutKnown'
           /\ \A u \in Sender \ {t} : /\ phase'[u] \in Critical => lock'[flowAt(u)'] = u
                                      /\ phase'[u] # "hand" => cutOff'[u] = <<>>
  <1>1. \A x : seg(x)' = seg(x)
    BY DEF seg
  <1>2. ListKnown'
    BY <1>1 DEF ListInv, ListKnown
  <1>3. CutKnown'
    <2> SUFFICES ASSUME NEW u \in Sender, NEW x, In(cutOff'[u], x)
                 PROVE  x \in DOMAIN arrived /\ seg(x).flow = flowAt(u)'
      BY <1>1 DEF CutKnown
    <2>1. cutOff'[u] # <<>> /\ In(cutOff[u], x) /\ cutOff[u] # <<>>
      <3>1. In(cutOff[u], x)
        BY Zenon
      <3> QED
        BY <3>1 DEF In
    <2>2. phase[u] = "hand"
      BY <2>1 DEF ListInv, Locked
    <2>3. flowAt(u)' = flowAt(u)
      BY <2>1, <2>2 DEF Undisturbed
    <2> QED
      BY <2>1, <2>3 DEF ListInv, CutKnown
  <1>4. ASSUME NEW u \in Sender \ {t}
        PROVE  /\ phase'[u] \in Critical => lock'[flowAt(u)'] = u
               /\ phase'[u] # "hand" => cutOff'[u] = <<>>
    BY DEF Undisturbed, ListInv, Locked
  <1> QED
    BY <1>2, <1>3, <1>4

LEMMA HandList ==
    ASSUME ListInv, NEW t \in Sender, NEW apart \in BOOLEAN, Hand(t, apart)
    PROVE  ListInv'
  <1> DEFINE n == Head(cutOff[t])
             b == glob.torn \/ Shared(t)
  <1>1. /\ n \in Nat /\ n \in DOMAIN arrived
        /\ cutOff' = [cutOff EXCEPT ![t] = cutOff'[t]] /\ cutOff'[t] \in Seq(Nat)
        /\ \A x : In(cutOff[t], x) <=> In(cutOff'[t], x) \/ x = n
        /\ expected' = [expected EXCEPT ![t] = Following(seg(n).seq, seg(n).len)]
        /\ \/ /\ glob' = [content |-> <<n>>, torn |-> b]
              /\ packets' = Append(packets, [content |-> glob.content, torn |-> b])
           \/ glob' = [content |-> Append(glob.content, n), torn |-> b] /\ packets' = packets
    BY HandEffect
  <1>2. phase[t] = "hand" /\ phase[t] \in Critical
    BY DEF Hand, Critical
  <1>3. UNCHANGED <<arrived, list, lock, phase, held, visits, pivot>>
    BY DEF Hand
  <1>4. \A u \in Sender : flowAt(u)' = flowAt(u)
    BY <1>3 DEF flowAt, seg
  <1>5. Undisturbed(t) /\ ThreadTypes' /\ Phases' /\ Pivoted'
    <2>1. Timer \in Sender
      BY DEF Sender
    <2> QED
      BY <1>3, <1>4, <2>1
         DEF Undisturbed, ListInv, ListTypes, ThreadTypes, Phases, Pivoted, Locked
  <1>6. cutOff' \in [Sender -> Seq(Nat)] /\ \A u \in Sender : u # t => cutOff'[u] = cutOff[u]
    BY <1>1 DEF ListInv, ListTypes
  <1>7. /\ ListKnown' /\ CutKnown'
        /\ \A u \in Sender \ {t} : /\ phase'[u] \in Critical => lock'[flowAt(u)'] = u
                                   /\ phase'[u] # "hand" => cutOff'[u] = <<>>
    BY <1>1, <1>2, <1>3, <1>4, <1>5, <1>6, Unlisted
  <1>8. Locked'
    BY <1>2, <1>3, <1>4, <1>7, LockedAfter DEF ListInv, Locked
  <1> HIDE DEF n
  <1>9. Following(seg(n).seq, seg(n).len) \in Nat
    <2>1. seg(n) \in Segment
      BY <1>1 DEF ListInv, ListTypes, seg
    <2>2. seg(n).seq \in Nat /\ seg(n).len \in Nat
      BY <2>1, SegmentAssumption
    <2>3. \A a \in Nat, d \in Nat \ {0} : a % d \in Nat
      OBVIOUS
    <2>4. seg(n).seq + seg(n).len \in Nat /\ SEQ \in Nat \ {0} /\ SEQ - 1 \in Nat \ {0}
      BY <2>2
    <2> QED
      BY <2>3, <2>4 DEF Following
  <1>10. expected' \in [Sender -> Nat]
    BY <1>1, <1>9 DEF ListInv, ListTypes
  <1>11. b \in BOOLEAN /\ glob.content \in Seq(Nat)
    BY DEF ListInv, ListTypes, Buffer, Shared
  <1> HIDE DEF b
  <1>12. <<n>> \in Seq(Nat) /\ Append(glob.content, n) \in Seq(Nat)
         /\ (\A x : In(<<n>>, x) => x = n) /\ (\A x : In(Append(glob.content, n), x) => In(glob.content, x) \/ x = n)
    <2>1. \A x : In(<<n>>, x) => x = n
      BY InFew
    <2>2. \A x : In(Append(glob.content, n), x) => In(glob.content, x) \/ x = n
      BY <1>1, <1>11, InAppend
    <2>3. \A c \in Seq(Nat), x \in Nat : <<x>> \in Seq(Nat) /\ Append(c, x) \in Seq(Nat)
      OBVIOUS
    <2>4. <<n>> \in Seq(Nat) /\ Append(glob.content, n) \in Seq(Nat)
      BY <1>1, <1>11, <2>3, Zenon
    <2> QED
      BY <2>1, <2>2, <2>4, Zenon
  <1>13. glob' \in Buffer /\ [content |-> glob.content, torn |-> b] \in Buffer
    <2>1. \A c \in Seq(Nat) : [content |-> c, torn |-> b] \in Buffer
      BY <1>11 DEF Buffer
    <2>2. \E c \in Seq(Nat) : glob' = [content |-> c, torn |-> b]
      BY <1>1, <1>12
    <2> QED
      BY <1>11, <2>1, <2>2
  <1>14. packets' \in Seq(Buffer)
    <2>1. packets' = packets \/ packets' = Append(packets, [content |-> glob.content, torn |-> b])
      BY <1>1
    <2>2. packets \in Seq(Buffer)
      BY DEF ListInv, ListTypes
    <2> QED
      BY <1>13, <2>1, <2>2, Longer
  <1>15. ListTypes'
    BY <1>3, <1>5, <1>6, <1>10, <1>13, <1>14 DEF ListInv, ListTypes
  <1>16. SentKnown'
    <2>1. \A x : In(glob'.content, x) => x \in DOMAIN arrived
      <3>1. glob'.content = <<n>> \/ glob'.content = Append(glob.content, n)
        BY <1>1
      <3>2. \A x : In(glob'.content, x) => In(glob.content, x) \/ x = n
        BY <1>12, <3>1
      <3> QED
        BY <1>1, <3>2 DEF ListInv, SentKnown
    <2>2. ASSUME NEW k \in DOMAIN packets' PROVE \A x : In(packets'[k].content, x) => x \in DOMAIN arrived
      <3>1. CASE packets' = packets
        BY <3>1 DEF ListInv, SentKnown
      <3>2. CASE packets' = Append(packets, [content |-> glob.content, torn |-> b])
        <4>1. /\ DOMAIN packets' = DOMAIN packets \cup {Len(packets) + 1}
              /\ packets'[Len(packets) + 1].content = glob.content
              /\ \A j \in DOMAIN packets : packets'[j] = packets[j]
          BY <1>13, <3>2, Longer DEF ListInv, ListTypes
        <4> QED
          BY <4>1 DEF ListInv, SentKnown
      <3> QED
        BY <1>1, <3>1, <3>2
    <2> QED
      BY <1>3, <2>1, <2>2 DEF SentKnown
  <1> QED
    BY <1>5, <1>7, <1>8, <1>15, <1>16 DEF ListInv

LEMMA FlushList ==
    ASSUME ListInv, NEW t \in Sender, Flush(t)
    PROVE  ListInv'
  <1> DEFINE b == glob.torn \/ Shared(t)
  <1>1. phase[t] \in Critical /\ cutOff[t] = <<>> /\ Unlock(t)
        /\ UNCHANGED <<arrived, list, pivot, cutOff>>
    BY DEF Flush, Critical
  <1>2. ThreadTypes' /\ Phases' /\ Undisturbed(t) /\ phase'[t] = "idle"
    BY <1>1, Unlocking
  <1>3. cutOff \in [Sender -> Seq(Nat)] /\ cutOff'[t] = <<>>
    BY <1>1 DEF ListInv, ListTypes
  <1>4. /\ ListKnown' /\ CutKnown'
        /\ \A u \in Sender \ {t} : /\ phase'[u] \in Critical => lock'[flowAt(u)'] = u
                                   /\ phase'[u] # "hand" => cutOff'[u] = <<>>
    BY <1>1, <1>2, <1>3, Unlisted
  <1>5. Locked'
    BY <1>2, <1>3, <1>4, LockedAfter
  <1>6. Pivoted'
    <2>1. CASE t = Timer
      BY <1>2, <2>1 DEF Pivoted
    <2>2. CASE t # Timer
      BY <1>1, <1>2, <2>2, PivotStays
    <2> QED
      BY <2>1, <2>2
  <1>7. expected' \in [Sender -> Nat]
    BY DEF Flush, ListInv, ListTypes
  <1>8. /\ Now(t) = [content |-> glob.content, torn |-> b] /\ Now(t) \in Buffer
        /\ glob' \in Buffer /\ glob'.content = <<>>
    <2>1. <<>> \in Seq(Nat) /\ Shared(t) \in BOOLEAN
      BY DEF Shared
    <2>2. glob \in Buffer
      BY DEF ListInv, ListTypes
    <2>3. Now(t) = [content |-> glob.content, torn |-> b] /\ b \in BOOLEAN /\ glob.content \in Seq(Nat)
      BY <2>1, <2>2 DEF Buffer, Now
    <2>4. glob' = [content |-> <<>>, torn |-> Shared(t)]
      BY DEF Flush
    <2> HIDE DEF b
    <2> QED
      BY <2>1, <2>3, <2>4 DEF Buffer
  <1>9. (packets' = packets \/ packets' = Append(packets, Now(t))) /\ packets \in Seq(Buffer)
    BY DEF Flush, ListInv, ListTypes
  <1>10. packets' \in Seq(Buffer)
    BY <1>8, <1>9, Longer
  <1>11. ListTypes'
    BY <1>1, <1>2, <1>7, <1>8, <1>10 DEF ListInv, ListTypes
  <1>12. SentKnown'
    <2>1. \A x : ~In(glob'.content, x)
      BY <1>8 DEF In
    <2>2. ASSUME NEW k \in DOMAIN packets' PROVE \A x : In(packets'[k].content, x) => x \in DOMAIN arrived
      <3>1. CASE packets' = packets
        BY <3>1 DEF ListInv, SentKnown
      <3>2. CASE packets' = Append(packets, Now(t))
        <4>1. /\ DOMAIN packets' = DOMAIN packets \cup {Len(packets) + 1}
              /\ packets'[Len(packets) + 1].content = glob.content
              /\ \A j \in DOMAIN packets : packets'[j] = packets[j]
          BY <1>8, <1>9, <3>2, Longer
        <4> QED
          BY <4>1 DEF ListInv, SentKnown
      <3> QED
        BY <1>9, <3>1, <3>2
    <2> QED
      BY <1>1, <2>1, <2>2 DEF SentKnown
  <1> QED
    BY <1>2, <1>4, <1>5, <1>6, <1>11, <1>12 DEF ListInv

LEMMA FindOldList ==
    ASSUME ListInv, FindOld
    PROVE  ListInv'
  <1> DEFINE l == list[flowAt(Timer)]
             k == find_pivot(l)
  <1>1. phase[Timer] = "find" /\ phase[Timer] \in Critical /\ Timer \in Sender
        /\ UNCHANGED <<arrived, list, cutOff, expected, glob, packets>>
    BY DEF FindOld, Critical, Sender
  <1>2. cutOff \in [Sender -> Seq(Nat)] /\ cutOff[Timer] = <<>>
    BY <1>1 DEF ListInv, ListTypes, Locked
  <1>3. flowAt(Timer) \in Flow
    BY <1>1, FlowOf
  <1>4. l \in Seq(Nat)
    BY <1>3 DEF ListInv, ListTypes
  <1>5. k \in 0 .. Len(l)
    BY <1>4, PivotIn
  <1>6. \/ Unlock(Timer)
        \/ k # 0 /\ pivot' = SubSeq(l, k, Len(l)) /\ phase' = [phase EXCEPT ![Timer] = "cut"]
           /\ UNCHANGED <<lock, held, visits>>
    BY DEF FindOld
  <1>7. /\ ThreadTypes' /\ Phases' /\ Undisturbed(Timer)
        /\ \/ phase'[Timer] = "idle"
           \/ /\ phase'[Timer] = "cut" /\ lock'[flowAt(Timer)'] = Timer
              /\ flowAt(Timer)' = flowAt(Timer) /\ k # 0 /\ pivot' = SubSeq(l, k, Len(l))
    <2> HIDE DEF k, l
    <2>1. CASE Unlock(Timer)
      BY <1>1, <2>1, Unlocking
    <2>2. CASE /\ k # 0 /\ pivot' = SubSeq(l, k, Len(l)) /\ phase' = [phase EXCEPT ![Timer] = "cut"]
               /\ UNCHANGED <<lock, held, visits>>
      BY <1>1, <2>2, Staying
    <2> QED
      BY <1>6, <2>1, <2>2
  <1>8. /\ ListKnown' /\ CutKnown'
        /\ \A u \in Sender \ {Timer} : /\ phase'[u] \in Critical => lock'[flowAt(u)'] = u
                                       /\ phase'[u] # "hand" => cutOff'[u] = <<>>
    BY <1>1, <1>2, <1>7, Unlisted
  <1>9. Locked'
    BY <1>1, <1>2, <1>7, <1>8, LockedAfter
  <1>10. Pivoted'
    <2> SUFFICES ASSUME phase'[Timer] = "cut" PROVE Pivoted'
      BY DEF Pivoted
    <2>1. k \in DOMAIN l /\ pivot' = SubSeq(l, k, Len(l)) /\ flowAt(Timer)' = flowAt(Timer)
      <3>1. k # 0 /\ pivot' = SubSeq(l, k, Len(l)) /\ flowAt(Timer)' = flowAt(Timer)
        BY <1>7
      <3> HIDE DEF k, l
      <3> QED
        BY <1>4, <1>5, <3>1
    <2> QED
      BY <1>1, <2>1 DEF Pivoted
  <1>11. ListTypes' /\ SentKnown'
    BY <1>1, <1>7 DEF ListInv, ListTypes, SentKnown
  <1> QED
    BY <1>7, <1>8, <1>9, <1>10, <1>11 DEF ListInv

LEMMA ListStep == ListInv /\ [ListNext]_listVars => ListInv'
  <1> SUFFICES ASSUME ListInv, [ListNext]_listVars PROVE ListInv'
    OBVIOUS
  <1>1. CASE \E h \in Handler, s \in Segment : Receive(h, s)
    BY <1>1, ReceiveList
  <1>2. CASE \E h \in Handler : Lock(h)
    <2>1. PICK h \in Handler : Lock(h)
      BY <1>2
    <2>2. phase[h] = "lock" /\ h \in Sender /\ h # Timer
      BY <2>1 DEF Lock, Sender
    <2>3. flowAt(h) \in Flow
      BY <2>2, FlowOf
    <2>4. /\ lock[flowAt(h)] = NoThread /\ lock' = [lock EXCEPT ![flowAt(h)] = h]
          /\ phase' = [phase EXCEPT ![h] = "insert"]
          /\ UNCHANGED <<arrived, list, held, visits, pivot, cutOff, expected, glob, packets>>
      BY <2>1 DEF Lock
    <2> QED
      BY <2>2, <2>3, <2>4, Locking
  <1>3. CASE \E h \in Handler : Insert(h)
    BY <1>3, InsertList
  <1>4. CASE \E t \in Sender : \E apart \in BOOLEAN : Hand(t, apart)
    BY <1>4, HandList
  <1>5. CASE \E t \in Sender : Flush(t)
    BY <1>5, FlushList
  <1>6. CASE LockOld
    <2>1. Timer \in Sender /\ flowAt(Timer) \in Flow
      BY FlowOf DEF Sender
    <2> QED
      BY <1>6, <2>1, Locking DEF LockOld
  <1>7. CASE FindOld
    BY <1>7, FindOldList
  <1>8. CASE CutOld
    BY <1>8, CutOldList
  <1>9. CASE (\E n \in DOMAIN arrived : Age(n)) \/ UNCHANGED listVars
    <2>1. UNCHANGED <<arrived, list, lock, phase, held, visits, pivot, cutOff, expected, glob, packets>>
      BY <1>9 DEF Age, listVars
    <2>2. \A u \in Sender : flowAt(u)' = flowAt(u)
      BY <2>1 DEF flowAt, seg
    <2>3. Timer \in Sender
      BY DEF Sender
    <2>4. ListTypes' /\ Phases' /\ SentKnown'
      BY <2>1 DEF ListInv, ListTypes, ThreadTypes, Phases, SentKnown
    <2>5. Locked' /\ Pivoted' /\ ListKnown' /\ CutKnown'
      BY <2>1, <2>2, <2>3 DEF ListInv, Locked, Pivoted, ListKnown, CutKnown, seg
    <2> QED
      BY <2>4, <2>5 DEF ListInv
  <1> QED
    BY <1>1, <1>2, <1>3, <1>4, <1>5, <1>6, <1>7, <1>8, <1>9
       DEF ListNext, bulk_tcp_list, send_list_until, tcp_list_2_timedout, Sender

LEMMA ListInvariant == ListSpec => []ListInv
  BY InitList, ListStep, PTL DEF ListSpec

-----------------------------------------------------------------------------
(***************************************************************************)
(* Each list is sorted.                                                    *)
(***************************************************************************)
SortedList(l) == \A i, j \in DOMAIN l : i < j => seg(l[i]).seq <= seg(l[j]).seq

\* Everything before the place of the segment is at most as great, everything from it
\* on is at least as great: the search does not look at the first element, but stops
\* there only if all the others are greater.
LEMMA InsertPlaceIs ==
    ASSUME NEW l \in Seq(Nat), SortedList(l), \A k \in DOMAIN l : seg(l[k]).seq \in Nat,
           NEW s, s.seq \in Nat
    PROVE  \A k \in DOMAIN l : IF k < InsertPlace(l, s) THEN seg(l[k]).seq <= s.seq
                                                        ELSE s.seq <= seg(l[k]).seq
  <1>1. CASE l = <<>>
    BY <1>1
  <1>2. CASE l # <<>>
    <2> DEFINE n == Len(l)
               q == [k \in 1 .. n |-> seg(l[k]).seq]
               r == Reached(l, s)
               p == InsertPlace(l, s)
               z == s.seq
    <2>1. n \in Nat /\ DOMAIN l = 1 .. n /\ r \in 1 .. n
      BY <1>2, ReachedIs
    <2>2. /\ q \in [1 .. n -> Nat] /\ z \in Nat /\ \A k \in 1 .. n : q[k] = seg(l[k]).seq
          /\ \A i, j \in 1 .. n : i < j => q[i] <= q[j]
      BY <2>1 DEF SortedList
    <2>3. (\A i \in 2 .. r : seg(l[i]).seq < z) /\ (r < n => ~(seg(l[r + 1]).seq < z))
      BY <1>2, ReachedIs
    <2>4. p = IF r > 0 /\ seg(l[r]).seq > z THEN r ELSE r + 1
      BY DEF InsertPlace
    <2> HIDE DEF n, q, r, p, z
    <2>5. (\A i \in 2 .. r : q[i] < z) /\ (r < n => z <= q[r + 1])
      <3>1. \A i \in 2 .. r : i \in 1 .. n
        BY <2>1
      <3>2. \A i \in 2 .. r : q[i] < z
        BY <2>2, <2>3, <3>1
      <3>3. r < n => r + 1 \in 1 .. n
        BY <2>1
      <3> QED
        BY <2>2, <2>3, <3>2, <3>3
    <2>6. p = IF q[r] > z THEN r ELSE r + 1
      BY <2>1, <2>2, <2>4
    <2> SUFFICES ASSUME NEW k \in 1 .. n PROVE IF k < p THEN q[k] <= z ELSE z <= q[k]
      BY <2>1, <2>2 DEF p, z
    <2>7. CASE q[r] > z
      <3>1. r = 1
        BY <2>1, <2>2, <2>5, <2>7
      <3>2. q[1] <= q[k]
        BY <2>1, <2>2
      <3> QED
        BY <2>1, <2>2, <2>6, <2>7, <3>1, <3>2
    <2>8. CASE ~(q[r] > z)
      <3>1. p = r + 1 /\ q[r] <= z
        BY <2>1, <2>2, <2>6, <2>8
      <3>2. CASE k <= r
        <4>1. q[k] <= q[r]
          BY <2>1, <2>2, <3>2
        <4> QED
          BY <2>1, <2>2, <3>1, <3>2, <4>1
      <3>3. CASE k > r
        <4>1. r + 1 \in 1 .. n /\ z <= q[r + 1]
          BY <2>1, <2>5, <3>3
        <4>2. q[r + 1] <= q[k]
          BY <2>1, <2>2, <3>3, <4>1
        <4> QED
          BY <2>1, <2>2, <3>1, <3>3, <4>1, <4>2
      <3> QED
        BY <2>1, <3>2, <3>3
    <2> QED
      BY <2>7, <2>8
  <1> QED
    BY <1>1, <1>2

LEMMA SortedInserted ==
    ASSUME NEW l \in Seq(Nat), NEW x \in Nat, seg(x).seq \in Nat
    PROVE  SortedList(l) /\ (\A k \in DOMAIN l : seg(l[k]).seq \in Nat)
               => SortedList(InsertAt(l, InsertPlace(l, seg(x)), x))
  <1> DEFINE n == Len(l)
             p == InsertPlace(l, seg(x))
             w == InsertAt(l, p, x)
             q == [k \in 1 .. n |-> seg(l[k]).seq]
             v == [k \in 1 .. n + 1 |-> seg(w[k]).seq]
             z == seg(x).seq
  <1>1. n \in Nat /\ DOMAIN l = 1 .. n /\ p \in 1 .. n + 1
    BY PlacesIn
  <1>2. /\ DOMAIN w = 1 .. n + 1
        /\ \A k \in 1 .. n + 1 : w[k] = IF k < p THEN l[k] ELSE IF k = p THEN x ELSE l[k - 1]
    <2> HIDE DEF p
    <2>1. p \in 1 .. Len(l) + 1
      BY <1>1
    <2>2. \A e \in 1 .. Len(l) + 1 :
             LET y == InsertAt(l, e, x)
             IN  /\ y \in Seq(Nat) /\ Len(y) = Len(l) + 1
                 /\ \A k \in 1 .. Len(l) + 1 :
                        y[k] = IF k < e THEN l[k] ELSE IF k = e THEN x ELSE l[k - 1]
      <3> HIDE DEF w, q, v, z, n
      <3> QED
        BY Inserted, Zenon
    <2>3. /\ w \in Seq(Nat) /\ Len(w) = Len(l) + 1
          /\ \A k \in 1 .. Len(l) + 1 : w[k] = IF k < p THEN l[k] ELSE IF k = p THEN x ELSE l[k - 1]
      BY <2>1, <2>2
    <2> HIDE DEF w
    <2> QED
      BY <2>3
  <1>s. SUFFICES ASSUME SortedList(l), \A k \in DOMAIN l : seg(l[k]).seq \in Nat
                PROVE  SortedList(w)
    OBVIOUS
  <1>3. \A k \in DOMAIN l : IF k < p THEN seg(l[k]).seq <= z ELSE z <= seg(l[k]).seq
    <2> DEFINE s == seg(x)
    <2>1. s.seq \in Nat /\ z = s.seq /\ p = InsertPlace(l, s)
      OBVIOUS
    <2> HIDE DEF s, p, z
    <2> QED
      BY <1>s, <2>1, InsertPlaceIs
  <1>4. q \in [1 .. n -> Nat] /\ z \in Nat /\ \A k \in 1 .. n : q[k] = seg(l[k]).seq
    BY <1>1, <1>s
  <1>5. \A i, j \in 1 .. n : i < j => q[i] <= q[j]
    BY <1>1, <1>s DEF SortedList
  <1>6. \A k \in 1 .. n : IF k < p THEN q[k] <= z ELSE z <= q[k]
    BY <1>1, <1>3
  <1>7. \A k \in 1 .. n + 1 : v[k] = seg(w[k]).seq
    OBVIOUS
  <1> HIDE DEF n, p, w, q, v, z
  <1>8. \A k \in 1 .. n + 1 : v[k] = IF k < p THEN q[k] ELSE IF k = p THEN z ELSE q[k - 1]
    <2> SUFFICES ASSUME NEW k \in 1 .. n + 1
                 PROVE  v[k] = IF k < p THEN q[k] ELSE IF k = p THEN z ELSE q[k - 1]
      OBVIOUS
    <2>1. CASE k < p
      <3>1. k \in 1 .. n
        BY <1>1, <2>1
      <3> QED
        BY <1>2, <1>4, <1>7, <2>1, <3>1
    <2>2. CASE k = p
      <3>1. w[k] = x /\ v[k] = seg(x).seq /\ ~(k < p)
        BY <1>1, <1>2, <1>7, <2>2
      <3> QED
        BY <2>2, <3>1 DEF z
    <2>3. CASE k > p
      <3>1. k - 1 \in 1 .. n /\ ~(k < p) /\ k # p
        BY <1>1, <2>3
      <3> QED
        BY <1>2, <1>4, <1>7, <3>1
    <2> QED
      BY <1>1, <2>1, <2>2, <2>3
  <1>9. ASSUME NEW i \in 1 .. n + 1, NEW j \in 1 .. n + 1, i < j PROVE v[i] <= v[j]
    <2>1. CASE j < p
      <3>1. i \in 1 .. n /\ j \in 1 .. n /\ i < p
        BY <1>1, <1>9, <2>1
      <3> QED
        BY <1>5, <1>8, <1>9, <2>1, <3>1
    <2>2. CASE j = p
      <3>1. i \in 1 .. n /\ i < p
        BY <1>1, <1>9, <2>2
      <3> QED
        BY <1>6, <1>8, <2>2, <3>1
    <2>3. CASE j > p
      <3>1. j - 1 \in 1 .. n /\ ~(j < p) /\ j # p /\ ~(j - 1 < p)
        BY <1>1, <2>3
      <3>2. v[j] = q[j - 1] /\ z <= q[j - 1]
        BY <1>6, <1>8, <3>1
      <3>3. CASE i < p
        <4>1. i \in 1 .. n
          BY <1>1, <3>3
        <4>2. v[i] = q[i] /\ q[i] <= z
          BY <1>6, <1>8, <3>3, <4>1
        <4> QED
          BY <1>4, <3>1, <3>2, <4>1, <4>2
      <3>4. CASE i = p
        BY <1>1, <1>8, <3>2, <3>4
      <3>5. CASE i > p
        <4>1. i - 1 \in 1 .. n /\ ~(i < p) /\ i # p /\ i - 1 < j - 1
          BY <1>1, <1>9, <3>5
        <4>2. v[i] = q[i - 1] /\ q[i - 1] <= q[j - 1]
          BY <1>5, <1>8, <3>1, <4>1
        <4> QED
          BY <3>2, <4>2
      <3> QED
        BY <1>1, <3>3, <3>4, <3>5
    <2> QED
      BY <1>1, <2>1, <2>2, <2>3
  <1> QED
    BY <1>2, <1>7, <1>9 DEF SortedList, w, p

LEMMA SortedBack ==
    ASSUME NEW l \in Seq(Nat), SortedList(l), NEW c \in 0 .. Len(l)
    PROVE  SortedList(SubSeq(l, c + 1, Len(l)))
  <1> DEFINE n == Len(l)
             b == SubSeq(l, c + 1, n)
  <1>1. n \in Nat /\ c \in 0 .. n /\ DOMAIN l = 1 .. n
    OBVIOUS
  <1>2. DOMAIN b = 1 .. n - c /\ \A k \in 1 .. n - c : b[k] = l[c + k]
    BY BackIs
  <1> HIDE DEF n, b
  <1>3. \A k \in 1 .. n - c : c + k \in 1 .. n
    BY <1>1
  <1>4. \A i, j \in 1 .. n - c : i < j => c + i < c + j
    BY <1>1
  <1>5. \A i, j \in 1 .. n - c : i < j => seg(b[i]).seq <= seg(b[j]).seq
    BY <1>1, <1>2, <1>3, <1>4 DEF SortedList
  <1> QED
    BY <1>2, <1>5 DEF SortedList, b, n

LEMMA SortedStep == ListInv /\ Sorted /\ [ListNext]_listVars => Sorted'
  <1> SUFFICES ASSUME ListInv, Sorted, [ListNext]_listVars PROVE Sorted'
    OBVIOUS
  <1>1. \A f \in Flow : list[f] \in Seq(Nat) /\ SortedList(list[f])
    BY DEF ListInv, ListTypes, Sorted, SortedList
  <1>2. \A x \in DOMAIN arrived : seg(x) \in Segment /\ seg(x).seq \in Nat
    <2>1. \A x \in DOMAIN arrived : seg(x) \in Segment
      BY DEF ListInv, ListTypes, seg
    <2> QED
      BY <2>1, SegmentAssumption
  <1>3. \A f \in Flow : \A k \in DOMAIN list[f] : list[f][k] \in DOMAIN arrived
    BY DEF ListInv, ListKnown, In
  <1>4. CASE \E h \in Handler : Insert(h)
    <2>1. PICK h \in Handler : Insert(h)
      BY <1>4
    <2> DEFINE f == flowAt(h)
               w == With(h)
    <2>2. f \in Flow /\ held[h] \in Nat /\ held[h] \in DOMAIN arrived /\ w \in Seq(Nat)
          /\ list' = [list EXCEPT ![f] = list'[f]]
      BY <2>1, InsertEffect DEF Divides
    <2>3. PICK c \in 0 .. Len(w) : list'[f] = SubSeq(w, c + 1, Len(w))
      BY <2>1, InsertEffect
    <2>4. SortedList(w)
      <3>1. \A k \in DOMAIN list[f] : seg(list[f][k]).seq \in Nat
        BY <1>2, <1>3, <2>2
      <3> QED
        BY <1>1, <1>2, <2>2, <3>1, SortedInserted DEF With
    <2> HIDE DEF w
    <2>5. SortedList(list'[f])
      BY <2>2, <2>3, <2>4, SortedBack
    <2>6. \A g \in Flow : SortedList(list'[g])
      <3>1. \A g \in Flow : g # f => list'[g] = list[g]
        BY <2>2 DEF ListInv, ListTypes
      <3> QED
        BY <1>1, <2>5, <3>1
    <2>7. arrived' = arrived
      BY <2>1 DEF Insert
    <2> QED
      BY <2>6, <2>7 DEF Sorted, SortedList, seg
  <1>5. CASE CutOld
    <2> DEFINE f == flowAt(Timer)
               l == list[f]
    <2>1. f \in Flow /\ l \in Seq(Nat) /\ list' = [list EXCEPT ![f] = list'[f]]
      BY <1>5, CutOldEffect DEF Divides
    <2>2. PICK k \in DOMAIN l : list'[f] = SubSeq(l, k, Len(l))
      BY <1>5, CutOldEffect
    <2>3. SortedList(l)
      BY <1>1, <2>1
    <2> HIDE DEF l
    <2>4. k - 1 \in 0 .. Len(l) /\ (k - 1) + 1 = k
      BY <2>1
    <2>5. SortedList(list'[f])
      BY <2>1, <2>2, <2>3, <2>4, SortedBack
    <2>6. \A g \in Flow : SortedList(list'[g])
      <3>1. \A g \in Flow : g # f => list'[g] = list[g]
        BY <2>1 DEF ListInv, ListTypes
      <3> QED
        BY <1>1, <2>5, <3>1
    <2>7. arrived' = arrived
      BY <1>5 DEF CutOld
    <2> QED
      BY <2>6, <2>7 DEF Sorted, SortedList, seg
  <1>6. CASE list' = list /\ (arrived' = arrived \/ \E s \in Segment : arrived' = Append(arrived, s))
    <2>1. arrived \in Seq(Segment)
      BY DEF ListInv, ListTypes
    <2>2. \A s \in Segment, x \in DOMAIN arrived : Append(arrived, s)[x] = arrived[x]
      BY <2>1, Longer
    <2>3. \A x \in DOMAIN arrived : arrived'[x] = arrived[x]
      BY <1>6, <2>2
    <2> QED
      BY <1>3, <1>6, <2>3 DEF Sorted, seg
  <1>7. CASE \E h \in Handler, s \in Segment : Receive(h, s)
    BY <1>6, <1>7 DEF Receive
  <1>8. CASE \/ \E h \in Handler : Lock(h)
             \/ \E t \in Sender : Flush(t) \/ \E apart \in BOOLEAN : Hand(t, apart)
             \/ LockOld \/ FindOld \/ (\E n \in DOMAIN arrived : Age(n)) \/ UNCHANGED listVars
    BY <1>6, <1>8 DEF Lock, Flush, Hand, LockOld, FindOld, Age, listVars
  <1> QED
    BY <1>4, <1>5, <1>7, <1>8
       DEF ListNext, bulk_tcp_list, send_list_until, tcp_list_2_timedout, Sender

\* Each list stays sorted by sequence number, wherever a segment is inserted
\* (insert_tcp_to_list, which never compares with the first element before the end of
\* its loop) and whatever is cut off.
THEOREM ListsSorted == ListSpec => []Sorted
  <1>1. ListInit => Sorted
    BY DEF ListInit, Sorted
  <1> QED
    BY <1>1, SortedStep, ListInvariant, PTL DEF ListSpec

-----------------------------------------------------------------------------
(***************************************************************************)
(* Every segment is in one place.                                          *)
(***************************************************************************)
\* Where a segment is: with the handler that received it, in a list, with a thread that
\* cut it off, or handed to the buffer.
Carried(x) == \E h \in Handler : InHand(h) /\ held[h] = x
Listed(x)  == \E f \in Flow : In(list[f], x)
Severed(x) == \E t \in Sender : In(cutOff[t], x)
Gone(x)    == In(Handed, x)

OneOf(a, b, c, d) == /\ a \/ b \/ c \/ d
                     /\ ~(a /\ b) /\ ~(a /\ c) /\ ~(a /\ d) /\ ~(b /\ c) /\ ~(b /\ d) /\ ~(c /\ d)

Parted      == \A x \in DOMAIN arrived : OneOf(Carried(x), Listed(x), Severed(x), Gone(x))
CarriedOnce == \A g, h \in Handler : InHand(g) /\ InHand(h) /\ held[g] = held[h] => g = h
ListedOnce  == \A f \in Flow : Distinct(list[f])
SeveredOnce == /\ \A t \in Sender : Distinct(cutOff[t])
               /\ \A t, u \in Sender : \A x : In(cutOff[t], x) /\ In(cutOff[u], x) => t = u
GoneOnce    == Distinct(Handed) /\ \A x : Gone(x) => x \in DOMAIN arrived

InOnePart == Parted /\ CarriedOnce /\ ListedOnce /\ SeveredOnce /\ GoneOnce

Contents(z) == [k \in DOMAIN z |-> z[k].content]

LEMMA ContentsAppend ==
    ASSUME NEW z \in Seq(Buffer), NEW e \in Buffer
    PROVE  /\ Contents(z) \in Seq(Seq(Nat)) /\ e.content \in Seq(Nat)
           /\ Contents(Append(z, e)) = Append(Contents(z), e.content)
  <1> DEFINE n == Len(z)
             y == Append(z, e)
             K == Contents(z)
  <1>1. /\ n \in Nat /\ DOMAIN z = 1 .. n /\ y = [m \in 1 .. n + 1 |-> IF m = n + 1 THEN e ELSE z[m]]
        /\ \A k \in 1 .. n : z[k] \in Buffer
    BY AppendIs
  <1>2. \A b \in Buffer : b.content \in Seq(Nat)
    BY DEF Buffer
  <1> HIDE DEF n, y
  <1>3. K = [k \in 1 .. n |-> z[k].content]
    BY <1>1 DEF Contents
  <1>4. K \in [1 .. n -> Seq(Nat)]
    BY <1>1, <1>2, <1>3
  <1>5. K \in Seq(Seq(Nat)) /\ Len(K) = n
    BY <1>1, <1>4
  <1>6. DOMAIN y = 1 .. n + 1 /\ \A m \in 1 .. n + 1 : y[m] = IF m = n + 1 THEN e ELSE z[m]
    BY <1>1
  <1>7. Contents(y) = [m \in 1 .. n + 1 |-> IF m = n + 1 THEN e.content ELSE K[m]]
    <2>1. Contents(y) = [m \in 1 .. n + 1 |-> y[m].content]
      BY <1>6 DEF Contents
    <2>2. \A m \in 1 .. n + 1 : y[m].content = IF m = n + 1 THEN e.content ELSE K[m]
      <3>1. \A m \in 1 .. n + 1 : m # n + 1 => m \in 1 .. n
        BY <1>1
      <3>2. \A m \in 1 .. n : K[m] = z[m].content
        BY <1>3
      <3> QED
        BY <1>6, <3>1, <3>2
    <2> QED
      BY <2>1, <2>2
  <1>8. Append(K, e.content) = [m \in 1 .. n + 1 |-> IF m = n + 1 THEN e.content ELSE K[m]]
    BY <1>1, <1>2, <1>5, AppendIs
  <1> QED
    BY <1>2, <1>5, <1>7, <1>8 DEF y

\* What was handed, and what a packet more changes.
LEMMA HandedIs ==
    ASSUME ListInv
    PROVE  /\ Handed = Concatenation(Contents(packets)) \o glob.content
           /\ Concatenation(Contents(packets)) \in Seq(Nat) /\ glob.content \in Seq(Nat)
           /\ Handed \in Seq(Nat)
           /\ \A e \in Buffer : Concatenation(Contents(Append(packets, e)))
                                    = Concatenation(Contents(packets)) \o e.content
  <1>1. packets \in Seq(Buffer) /\ glob \in Buffer
    BY DEF ListInv, ListTypes
  <1>2. glob.content \in Seq(Nat) /\ Contents(packets) \in Seq(Seq(Nat))
    BY <1>1, ContentsAppend
  <1>3. <<>> \in Seq(Nat)
    OBVIOUS
  <1>4. Concatenation(Contents(packets)) \in Seq(Nat)
    BY <1>2, <1>3, ConcatenationAppend
  <1>5. \A e \in Buffer : Concatenation(Contents(Append(packets, e)))
                              = Concatenation(Contents(packets)) \o e.content
    <2> SUFFICES ASSUME NEW e \in Buffer
                 PROVE  Concatenation(Contents(Append(packets, e)))
                            = Concatenation(Contents(packets)) \o e.content
      OBVIOUS
    <2>1. e.content \in Seq(Nat) /\ Contents(Append(packets, e)) = Append(Contents(packets), e.content)
      BY <1>1, ContentsAppend
    <2> QED
      BY <1>2, <2>1, ConcatenationAppend
  <1>6. Handed = Concatenation(Contents(packets)) \o glob.content
    BY DEF Handed, Contents
  <1> QED
    BY <1>2, <1>4, <1>5, <1>6

LEMMA HandHanded ==
    ASSUME ListInv, NEW t \in Sender, NEW apart \in BOOLEAN, Hand(t, apart)
    PROVE  Handed' = Append(Handed, Head(cutOff[t]))
  <1> DEFINE n == Head(cutOff[t])
             u == Concatenation(Contents(packets))
             v == glob.content
             b == glob.torn \/ Shared(t)
  <1>1. /\ n \in Nat
        /\ \/ /\ glob' = [content |-> <<n>>, torn |-> b]
              /\ packets' = Append(packets, [content |-> v, torn |-> b])
           \/ glob' = [content |-> Append(v, n), torn |-> b] /\ packets' = packets
    BY HandEffect
  <1>2. u \in Seq(Nat) /\ v \in Seq(Nat) /\ Handed = u \o v /\ u \o v \in Seq(Nat)
        /\ \A e \in Buffer : Concatenation(Contents(Append(packets, e))) = u \o e.content
    BY HandedIs
  <1>3. Handed' = Concatenation(Contents(packets')) \o glob'.content
    BY DEF Handed, Contents
  <1>4. b \in BOOLEAN
    BY DEF ListInv, ListTypes, Buffer, Shared
  <1> HIDE DEF n, u, v, b
  <1>5. CASE /\ glob' = [content |-> <<n>>, torn |-> b]
             /\ packets' = Append(packets, [content |-> v, torn |-> b])
    <2>1. [content |-> v, torn |-> b] \in Buffer
      BY <1>2, <1>4 DEF Buffer
    <2>2. Concatenation(Contents(packets')) = u \o v
      BY <1>2, <1>5, <2>1
    <2>3. Handed' = (u \o v) \o <<n>>
      BY <1>3, <1>5, <2>2
    <2> QED
      BY <1>1, <1>2, <2>3, Joining DEF n
  <1>6. CASE glob' = [content |-> Append(v, n), torn |-> b] /\ packets' = packets
    <2>1. Handed' = u \o Append(v, n)
      BY <1>3, <1>6 DEF u
    <2> QED
      BY <1>1, <1>2, <2>1, Joining DEF n
  <1> QED
    BY <1>1, <1>5, <1>6

LEMMA FlushHanded ==
    ASSUME ListInv, NEW t \in Sender, Flush(t)
    PROVE  Handed' = Handed
  <1> DEFINE u == Concatenation(Contents(packets))
             v == glob.content
             b == glob.torn \/ Shared(t)
  <1>1. u \in Seq(Nat) /\ v \in Seq(Nat) /\ Handed = u \o v /\ u \o v \in Seq(Nat)
        /\ \A e \in Buffer : Concatenation(Contents(Append(packets, e))) = u \o e.content
    BY HandedIs
  <1>2. Handed' = Concatenation(Contents(packets')) \o glob'.content
    BY DEF Handed, Contents
  <1>3. glob'.content = <<>>
    BY DEF Flush
  <1>4. Now(t) = [content |-> v, torn |-> b] /\ b \in BOOLEAN
    <2>1. glob \in Buffer /\ Shared(t) \in BOOLEAN
      BY DEF ListInv, ListTypes, Shared
    <2> QED
      BY <2>1 DEF Buffer, Now
  <1>5. packets' = IF v = <<>> THEN packets ELSE Append(packets, [content |-> v, torn |-> b])
    BY <1>4 DEF Flush
  <1> HIDE DEF u, v, b
  <1>6. Concatenation(Contents(packets')) = u \o v
    <2>1. CASE v = <<>>
      BY <1>1, <1>5, <2>1, Joining DEF u
    <2>2. CASE v # <<>>
      <3>1. [content |-> v, torn |-> b] \in Buffer
        BY <1>1, <1>4 DEF Buffer
      <3> QED
        BY <1>1, <1>5, <2>2, <3>1
    <2> QED
      BY <2>1, <2>2
  <1> QED
    BY <1>1, <1>2, <1>3, <1>6, Joining

LEMMA ReceiveHanded ==
    ASSUME ListInv, NEW h \in Handler, NEW s \in Segment, Receive(h, s), s.untouched
    PROVE  LET n == Len(arrived) + 1
           IN  /\ \A x : In(Handed', x) <=> In(Handed, x) \/ x = n
               /\ Distinct(Handed) /\ ~In(Handed, n) => Distinct(Handed')
  <1> DEFINE n == Len(arrived) + 1
             u == Concatenation(Contents(packets))
             v == glob.content
             e == [content |-> <<n>>, torn |-> FALSE]
             w == u \o <<n>>
  <1>1. u \in Seq(Nat) /\ v \in Seq(Nat) /\ Handed = u \o v
        /\ \A d \in Buffer : Concatenation(Contents(Append(packets, d))) = u \o d.content
    BY HandedIs
  <1>2. Handed' = Concatenation(Contents(packets')) \o glob'.content
    BY DEF Handed, Contents
  <1>3. n \in Nat /\ packets' = Append(packets, e) /\ glob' = glob
    BY Longer DEF ListInv, ListTypes, Receive
  <1>4. /\ <<n>> \in Seq(Nat) /\ Distinct(<<n>>) /\ \A x : In(<<n>>, x) <=> x = n
    BY <1>3, InFew
  <1>5. e \in Buffer /\ e.content = <<n>>
    BY <1>4 DEF Buffer
  <1> HIDE DEF n, u, v, e
  <1>6. Handed' = w \o v
    BY <1>1, <1>2, <1>3, <1>5 DEF v
  <1>7. /\ w \in Seq(Nat) /\ \A x : In(w, x) <=> In(u, x) \/ x = n
        /\ Distinct(w) <=> Distinct(u) /\ ~In(u, n)
    <2>1. /\ \A x : In(w, x) <=> In(u, x) \/ In(<<n>>, x)
          /\ Distinct(w) <=> Distinct(u) /\ Distinct(<<n>>) /\ \A x : ~(In(u, x) /\ In(<<n>>, x))
      BY <1>1, <1>4, InJoined
    <2>2. w \in Seq(Nat)
      BY <1>1, <1>4
    <2> HIDE DEF w
    <2> QED
      BY <1>4, <2>1, <2>2
  <1> HIDE DEF w
  <1>8. /\ \A x : In(Handed, x) <=> In(u, x) \/ In(v, x)
        /\ Distinct(Handed) <=> Distinct(u) /\ Distinct(v) /\ \A x : ~(In(u, x) /\ In(v, x))
    BY <1>1, InJoined
  <1>9. /\ \A x : In(Handed', x) <=> In(w, x) \/ In(v, x)
        /\ Distinct(Handed') <=> Distinct(w) /\ Distinct(v) /\ \A x : ~(In(w, x) /\ In(v, x))
    BY <1>1, <1>6, <1>7, InJoined
  <1>10. \A x : In(Handed', x) <=> In(Handed, x) \/ x = n
    BY <1>7, <1>8, <1>9
  <1>11. ASSUME Distinct(Handed), ~In(Handed, n) PROVE Distinct(Handed')
    BY <1>7, <1>8, <1>9, <1>11
  <1> QED
    BY <1>10, <1>11 DEF n

\* A step that divides w, the list of f and what is in E, between the list and t.
LEMMA DividedOnce ==
    ASSUME ListInv, InOnePart, NEW t \in Sender, NEW f \in Flow, NEW w, NEW E,
           Divides(w, f, t), Distinct(w), cutOff[t] = <<>>,
           \A x : In(w, x) <=> In(list[f], x) \/ x \in E,
           \A x \in E : /\ x \in DOMAIN arrived /\ seg(x).flow = f
                        /\ ~Listed(x) /\ ~Severed(x)
    PROVE  /\ \A x : Listed(x)' \/ Severed(x)' <=> Listed(x) \/ Severed(x) \/ x \in E
           /\ \A x : ~(Listed(x)' /\ Severed(x)')
           /\ ListedOnce' /\ SeveredOnce'
  <1>1. /\ \A g \in Flow : g # f => list'[g] = list[g]
        /\ \A u \in Sender : u # t => cutOff'[u] = cutOff[u]
    BY DEF Divides, ListInv, ListTypes
  <1>2. /\ \A x : In(list'[f], x) \/ In(cutOff'[t], x) <=> In(w, x)
        /\ \A x : ~(In(list'[f], x) /\ In(cutOff'[t], x))
        /\ Distinct(list'[f]) /\ Distinct(cutOff'[t])
    BY DEF Divides
  <1>3. \A x : ~In(cutOff[t], x)
    BY DEF In
  <1>4. \A x, g : g \in Flow /\ In(list[g], x) => seg(x).flow = g /\ x \in DOMAIN arrived
    BY DEF ListInv, ListKnown
  <1>5. \A x : ~(Listed(x) /\ Severed(x))
    BY <1>4 DEF InOnePart, Parted, OneOf, Listed
  <1>6. ASSUME NEW x, Listed(x) \/ Severed(x) \/ x \in E PROVE Listed(x)' \/ Severed(x)'
    <2>1. CASE In(w, x)
      BY <1>2, <2>1 DEF Listed, Severed
    <2>2. CASE ~In(w, x)
      BY <1>1, <1>3, <1>6, <2>2 DEF Listed, Severed
    <2> QED
      BY <2>1, <2>2
  <1>7. ASSUME NEW x, Listed(x)' \/ Severed(x)' PROVE Listed(x) \/ Severed(x) \/ x \in E
    BY <1>1, <1>2, <1>7 DEF Listed, Severed
  <1>8. ASSUME NEW x, Listed(x)', Severed(x)' PROVE FALSE
    <2>1. PICK g \in Flow : In(list'[g], x)
      BY <1>8 DEF Listed
    <2>2. PICK u \in Sender : In(cutOff'[u], x)
      BY <1>8 DEF Severed
    <2>3. CASE g = f /\ u = t
      BY <1>2, <2>1, <2>2, <2>3
    <2>4. CASE g = f /\ u # t
      <3>1. Severed(x)
        BY <1>1, <2>2, <2>4 DEF Severed
      <3>2. In(list[f], x) \/ x \in E
        BY <1>2, <2>1, <2>4
      <3> QED
        BY <1>5, <3>1, <3>2 DEF Listed
    <2>5. CASE g # f /\ u = t
      <3>1. In(list[g], x)
        BY <1>1, <2>1, <2>5
      <3>2. In(list[f], x) \/ x \in E
        BY <1>2, <2>2, <2>5
      <3>3. ~In(list[f], x)
        <4>1. seg(x).flow = g
          BY <1>4, <3>1
        <4>2. In(list[f], x) => seg(x).flow = f
          BY <1>4
        <4> QED
          BY <2>5, <4>1, <4>2
      <3>4. Listed(x)
        BY <3>1 DEF Listed
      <3> QED
        BY <3>2, <3>3, <3>4
    <2>6. CASE g # f /\ u # t
      BY <1>1, <1>5, <2>1, <2>2, <2>6 DEF Listed, Severed
    <2> QED
      BY <2>3, <2>4, <2>5, <2>6
  <1>9. ListedOnce'
    BY <1>1, <1>2 DEF ListedOnce, InOnePart
  <1>10. SeveredOnce'
    <2>1. \A u \in Sender : Distinct(cutOff'[u])
      BY <1>1, <1>2 DEF SeveredOnce, InOnePart
    <2>2. ASSUME NEW u \in Sender, NEW x, u # t, In(cutOff'[t], x), In(cutOff'[u], x) PROVE FALSE
      <3>1. Severed(x) /\ In(w, x)
        BY <1>1, <1>2, <2>2 DEF Severed
      <3>2. Listed(x) \/ x \in E
        BY <3>1 DEF Listed
      <3> QED
        BY <1>5, <3>1, <3>2
    <2>3. ASSUME NEW u \in Sender, NEW v \in Sender, NEW x, In(cutOff'[u], x), In(cutOff'[v], x)
          PROVE  u = v
      <3>1. CASE u = t \/ v = t
        BY <2>2, <2>3, <3>1
      <3>2. CASE u # t /\ v # t
        BY <1>1, <2>3, <3>2 DEF SeveredOnce, InOnePart
      <3> QED
        BY <3>1, <3>2
    <2> QED
      BY <2>1, <2>3 DEF SeveredOnce
  <1> QED
    BY <1>6, <1>7, <1>8, <1>9, <1>10

\* No handler begins or ends to carry a segment.
CarriedSame == \A h \in Handler : /\ InHand(h)' = InHand(h)
                                  /\ InHand(h) => held'[h] = held[h]

LEMMA CarriedKept ==
    ASSUME CarriedSame, CarriedOnce
    PROVE  CarriedOnce' /\ \A x : Carried(x)' <=> Carried(x)
  BY DEF CarriedSame, CarriedOnce, Carried

\* After Unlock or a step to the loop, the others carry what they carried.
LEMMA CarriedOthers ==
    ASSUME ListInv, NEW t \in Sender,
           \/ Unlock(t)
           \/ \E p \in {"cut", "hand"} : phase' = [phase EXCEPT ![t] = p] /\ UNCHANGED held
    PROVE  /\ t \in Handler => ~InHand(t)'
           /\ \A h \in Handler : h # t => InHand(h)' = InHand(h) /\ held'[h] = held[h]
  <1>1. phase' = [phase EXCEPT ![t] = "idle"] \/ \E p \in {"cut", "hand"} : phase' = [phase EXCEPT ![t] = p]
    BY DEF Unlock
  <1>2. phase'[t] \in {"idle", "cut", "hand"} /\ \A u \in Sender : u # t => phase'[u] = phase[u]
    BY <1>1 DEF ListInv, ListTypes, ThreadTypes
  <1>3. held' = held \/ held' = [held EXCEPT ![t] = 0]
    BY DEF Unlock
  <1>4. \A h \in Handler : h # t => held'[h] = held[h]
    BY <1>3 DEF ListInv, ListTypes, ThreadTypes
  <1> QED
    BY <1>2, <1>4 DEF InHand, Sender

LEMMA InsertOnce ==
    ASSUME ListInv, InOnePart, NEW h \in Handler, Insert(h)
    PROVE  InOnePart'
  <1> DEFINE f == flowAt(h)
             n == held[h]
             w == With(h)
  <1>1. /\ f \in Flow /\ n \in DOMAIN arrived /\ seg(n).flow = f /\ h \in Sender /\ Divides(w, f, h)
        /\ \A x : In(w, x) <=> In(list[f], x) \/ x = n
        /\ Distinct(list[f]) /\ ~In(list[f], n) => Distinct(w)
        /\ \/ Unlock(h)
           \/ phase' = [phase EXCEPT ![h] = "hand"] /\ UNCHANGED held
    BY InsertEffect
  <1>2. InHand(h) /\ Carried(n) /\ arrived' = arrived /\ packets' = packets /\ glob' = glob
    BY DEF Insert, InHand, Carried
  <1>3. ~Listed(n) /\ ~Severed(n) /\ ~Gone(n)
    BY <1>1, <1>2 DEF InOnePart, Parted, OneOf
  <1>4. Distinct(w)
    BY <1>1, <1>3 DEF InOnePart, ListedOnce, Listed
  <1>5. cutOff[h] = <<>>
    BY <1>1 DEF Insert, ListInv, Locked
  <1> HIDE DEF f, n, w
  <1>6. /\ \A x : Listed(x)' \/ Severed(x)' <=> Listed(x) \/ Severed(x) \/ x \in {n}
        /\ \A x : ~(Listed(x)' /\ Severed(x)')
        /\ ListedOnce' /\ SeveredOnce'
    <2> DEFINE E == {n}
    <2>1. \A x : In(w, x) <=> In(list[f], x) \/ x \in E
      BY <1>1
    <2>2. \A x \in E : x \in DOMAIN arrived /\ seg(x).flow = f /\ ~Listed(x) /\ ~Severed(x)
      BY <1>1, <1>3
    <2> HIDE DEF E
    <2>3. /\ \A x : Listed(x)' \/ Severed(x)' <=> Listed(x) \/ Severed(x) \/ x \in E
          /\ \A x : ~(Listed(x)' /\ Severed(x)')
          /\ ListedOnce' /\ SeveredOnce'
      BY <1>1, <1>4, <1>5, <2>1, <2>2, DividedOnce
    <2> QED
      BY <2>3 DEF E
  <1>7. ~InHand(h)' /\ \A g \in Handler : g # h => InHand(g)' = InHand(g) /\ held'[g] = held[g]
    BY <1>1, CarriedOthers
  <1>8. \A x : Carried(x)' <=> Carried(x) /\ x # n
    BY <1>2, <1>7 DEF Carried, InOnePart, CarriedOnce, n
  <1>9. CarriedOnce'
    BY <1>7 DEF InOnePart, CarriedOnce
  <1>10. \A x : Gone(x)' <=> Gone(x)
    BY <1>2 DEF Gone, Handed
  <1>11. GoneOnce'
    BY <1>2, <1>10 DEF InOnePart, GoneOnce, Handed
  <1>12. Parted'
    <2> SUFFICES ASSUME NEW x \in DOMAIN arrived
                 PROVE  OneOf(Carried(x)', Listed(x)', Severed(x)', Gone(x)')
      BY <1>2 DEF Parted
    <2> QED
      BY <1>2, <1>3, <1>6, <1>8, <1>10 DEF InOnePart, Parted, OneOf
  <1> QED
    BY <1>6, <1>9, <1>11, <1>12 DEF InOnePart

LEMMA CutOldOnce ==
    ASSUME ListInv, InOnePart, CutOld
    PROVE  InOnePart'
  <1> DEFINE f == flowAt(Timer)
  <1>1. f \in Flow /\ Timer \in Sender /\ Divides(list[f], f, Timer)
    BY CutOldEffect
  <1>2. /\ phase[Timer] = "cut" /\ phase' = [phase EXCEPT ![Timer] = "hand"]
        /\ UNCHANGED <<arrived, held, glob, packets>>
    BY DEF CutOld
  <1>3. Distinct(list[f]) /\ cutOff[Timer] = <<>>
    BY <1>1, <1>2 DEF InOnePart, ListedOnce, ListInv, Locked
  <1>4. /\ \A x : Listed(x)' \/ Severed(x)' <=> Listed(x) \/ Severed(x)
        /\ \A x : ~(Listed(x)' /\ Severed(x)')
        /\ ListedOnce' /\ SeveredOnce'
    <2> DEFINE E == {}
               w == list[f]
    <2>1. (\A x : In(w, x) <=> In(list[f], x) \/ x \in E) /\ \A x : x \notin E
      OBVIOUS
    <2> HIDE DEF E, w, f
    <2>2. /\ \A x : Listed(x)' \/ Severed(x)' <=> Listed(x) \/ Severed(x) \/ x \in E
          /\ \A x : ~(Listed(x)' /\ Severed(x)')
          /\ ListedOnce' /\ SeveredOnce'
      BY <1>1, <1>3, <2>1, DividedOnce DEF w
    <2> QED
      BY <2>1, <2>2
  <1>5. CarriedSame
    BY <1>1, <1>2, CarriedOthers DEF CarriedSame
  <1>6. CarriedOnce' /\ \A x : Carried(x)' <=> Carried(x)
    BY <1>5, CarriedKept DEF InOnePart
  <1>7. \A x : Gone(x)' <=> Gone(x)
    BY <1>2 DEF Gone, Handed
  <1>8. GoneOnce'
    BY <1>2, <1>7 DEF InOnePart, GoneOnce, Handed
  <1>9. Parted'
    <2> SUFFICES ASSUME NEW x \in DOMAIN arrived
                 PROVE  OneOf(Carried(x)', Listed(x)', Severed(x)', Gone(x)')
      BY <1>2 DEF Parted
    <2> QED
      BY <1>4, <1>6, <1>7 DEF InOnePart, Parted, OneOf
  <1> QED
    BY <1>4, <1>6, <1>8, <1>9 DEF InOnePart

LEMMA HandOnce ==
    ASSUME ListInv, InOnePart, NEW t \in Sender, NEW apart \in BOOLEAN, Hand(t, apart)
    PROVE  InOnePart'
  <1> DEFINE n == Head(cutOff[t])
  <1>1. /\ n \in Nat /\ In(cutOff[t], n) /\ n \in DOMAIN arrived
        /\ cutOff' = [cutOff EXCEPT ![t] = cutOff'[t]]
        /\ \A x : In(cutOff[t], x) <=> In(cutOff'[t], x) \/ x = n
        /\ Distinct(cutOff[t]) => Distinct(cutOff'[t]) /\ ~In(cutOff'[t], n)
    BY HandEffect
  <1>2. UNCHANGED <<arrived, list, lock, phase, held, visits, pivot>>
    BY DEF Hand
  <1>3. Severed(n) /\ ~Carried(n) /\ ~Listed(n) /\ ~Gone(n)
    BY <1>1 DEF Severed, InOnePart, Parted, OneOf
  <1>4. Handed' = Append(Handed, n) /\ Handed \in Seq(Nat)
    BY HandHanded, HandedIs
  <1> HIDE DEF n
  <1>5. (\A x : Gone(x)' <=> Gone(x) \/ x = n) /\ Distinct(Handed')
    BY <1>1, <1>3, <1>4, InAppend DEF Gone, InOnePart, GoneOnce
  <1>6. GoneOnce'
    BY <1>1, <1>2, <1>5 DEF InOnePart, GoneOnce
  <1>7. \A u \in Sender : u # t => cutOff'[u] = cutOff[u]
    BY <1>1 DEF ListInv, ListTypes
  <1>8. Distinct(cutOff'[t]) /\ ~In(cutOff'[t], n)
    BY <1>1 DEF InOnePart, SeveredOnce
  <1>9. SeveredOnce'
    <2>1. \A u \in Sender : Distinct(cutOff'[u])
      BY <1>7, <1>8 DEF InOnePart, SeveredOnce
    <2>2. \A u \in Sender : \A x : In(cutOff'[u], x) => In(cutOff[u], x)
      BY <1>1, <1>7
    <2> QED
      BY <2>1, <2>2 DEF InOnePart, SeveredOnce
  <1>10. \A x : Severed(x)' <=> Severed(x) /\ x # n
    <2>1. \A u \in Sender : u # t => ~In(cutOff[u], n)
      BY <1>1 DEF InOnePart, SeveredOnce
    <2> QED
      BY <1>1, <1>7, <1>8, <2>1 DEF Severed
  <1>11. (\A x : Carried(x)' <=> Carried(x)) /\ (\A x : Listed(x)' <=> Listed(x))
    BY <1>2 DEF Carried, Listed, InHand
  <1>12. CarriedOnce' /\ ListedOnce'
    BY <1>2 DEF InOnePart, CarriedOnce, ListedOnce, InHand
  <1>13. Parted'
    <2> SUFFICES ASSUME NEW x \in DOMAIN arrived
                 PROVE  OneOf(Carried(x)', Listed(x)', Severed(x)', Gone(x)')
      BY <1>2 DEF Parted
    <2> QED
      BY <1>3, <1>5, <1>10, <1>11 DEF InOnePart, Parted, OneOf
  <1> QED
    BY <1>6, <1>9, <1>12, <1>13 DEF InOnePart

LEMMA ReceiveOnce ==
    ASSUME ListInv, InOnePart, NEW h \in Handler, NEW s \in Segment, Receive(h, s)
    PROVE  InOnePart'
  <1> DEFINE n == Len(arrived) + 1
  <1>1. n \in Nat /\ DOMAIN arrived' = DOMAIN arrived \cup {n} /\ n \notin DOMAIN arrived /\ Len(arrived') = n
    BY Longer DEF ListInv, ListTypes, Receive
  <1>2. h \in Sender /\ ~InHand(h) /\ UNCHANGED <<list, cutOff, glob>>
    BY DEF Receive, InHand, Sender
  <1>3. ~Carried(n) /\ ~Listed(n) /\ ~Severed(n) /\ ~Gone(n)
    <2>1. ~Carried(n)
      BY <1>1 DEF Carried, InHand, ListInv, Phases
    <2>2. ~Listed(n) /\ ~Severed(n)
      BY <1>1 DEF Listed, Severed, ListInv, ListKnown, CutKnown
    <2> QED
      BY <1>1, <2>1, <2>2 DEF InOnePart, GoneOnce
  <1> HIDE DEF n
  <1>4. ListedOnce' /\ SeveredOnce' /\ (\A x : Listed(x)' <=> Listed(x)) /\ (\A x : Severed(x)' <=> Severed(x))
    BY <1>2 DEF InOnePart, ListedOnce, SeveredOnce, Listed, Severed
  <1>5. CASE s.untouched
    <2>1. /\ \A x : Gone(x)' <=> Gone(x) \/ x = n
          /\ Distinct(Handed')
      BY <1>3, <1>5, ReceiveHanded DEF Gone, InOnePart, GoneOnce, n
    <2>2. CarriedSame
      BY <1>5 DEF CarriedSame, Receive, InHand
    <2>3. CarriedOnce' /\ \A x : Carried(x)' <=> Carried(x)
      BY <2>2, CarriedKept DEF InOnePart
    <2>4. GoneOnce'
      BY <1>1, <2>1 DEF InOnePart, GoneOnce
    <2>5. Parted'
      BY <1>1, <1>3, <1>4, <2>1, <2>3 DEF InOnePart, Parted, OneOf
    <2> QED
      BY <1>4, <2>3, <2>4, <2>5 DEF InOnePart
  <1>6. CASE ~s.untouched
    <2>1. (\A x : Gone(x)' <=> Gone(x)) /\ Handed' = Handed
      BY <1>2, <1>6 DEF Receive, Gone, Handed
    <2>2. GoneOnce'
      BY <1>1, <2>1 DEF InOnePart, GoneOnce
    <2>3. held' = [held EXCEPT ![h] = n] /\ phase' = [phase EXCEPT ![h] = "lock"]
      BY <1>1, <1>6 DEF Receive
    <2>4. /\ InHand(h)' /\ held'[h] = n
          /\ \A g \in Handler : g # h => InHand(g)' = InHand(g) /\ held'[g] = held[g]
      BY <1>2, <2>3 DEF InHand, ListInv, ListTypes, ThreadTypes, Sender
    <2>5. \A x : Carried(x)' <=> Carried(x) \/ x = n
      BY <1>2, <2>4 DEF Carried
    <2>6. CarriedOnce'
      BY <1>3, <2>4 DEF Carried, InOnePart, CarriedOnce
    <2>7. Parted'
      BY <1>1, <1>3, <1>4, <2>1, <2>5 DEF InOnePart, Parted, OneOf
    <2> QED
      BY <1>4, <2>2, <2>6, <2>7 DEF InOnePart
  <1> QED
    BY <1>5, <1>6

\* A step that moves no segment.
LEMMA Unmoved ==
    ASSUME InOnePart, CarriedSame, UNCHANGED <<arrived, list, cutOff>>, Handed' = Handed
    PROVE  InOnePart'
  <1>1. CarriedOnce' /\ \A x : Carried(x)' <=> Carried(x)
    BY CarriedKept DEF InOnePart
  <1>2. ListedOnce' /\ SeveredOnce' /\ (\A x : Listed(x)' <=> Listed(x)) /\ (\A x : Severed(x)' <=> Severed(x))
    BY DEF InOnePart, ListedOnce, SeveredOnce, Listed, Severed
  <1>3. GoneOnce' /\ \A x : Gone(x)' <=> Gone(x)
    BY DEF InOnePart, GoneOnce, Gone
  <1>4. Parted'
    BY <1>1, <1>2, <1>3 DEF InOnePart, Parted, OneOf
  <1> QED
    BY <1>1, <1>2, <1>3, <1>4 DEF InOnePart

LEMMA OnceStep == ListInv /\ InOnePart /\ [ListNext]_listVars => InOnePart'
  <1> SUFFICES ASSUME ListInv, InOnePart, [ListNext]_listVars PROVE InOnePart'
    OBVIOUS
  <1>1. CASE \E h \in Handler, s \in Segment : Receive(h, s)
    BY <1>1, ReceiveOnce
  <1>2. CASE \E h \in Handler : Insert(h)
    BY <1>2, InsertOnce
  <1>3. CASE \E t \in Sender : \E apart \in BOOLEAN : Hand(t, apart)
    BY <1>3, HandOnce
  <1>4. CASE CutOld
    BY <1>4, CutOldOnce
  <1>5. CASE \E t \in Sender : Flush(t)
    <2>1. PICK t \in Sender : Flush(t)
      BY <1>5
    <2>2. phase[t] = "hand" /\ Unlock(t) /\ UNCHANGED <<arrived, list, cutOff>>
      BY <2>1 DEF Flush
    <2>3. CarriedSame
      BY <2>2, CarriedOthers DEF CarriedSame, InHand
    <2> QED
      BY <2>1, <2>2, <2>3, FlushHanded, Unmoved
  <1>6. CASE \E h \in Handler : Lock(h)
    <2>1. PICK h \in Handler : Lock(h)
      BY <1>6
    <2>2. CarriedSame
      BY <2>1 DEF CarriedSame, Lock, InHand, ListInv, ListTypes, ThreadTypes, Sender
    <2> QED
      BY <2>1, <2>2, Unmoved DEF Lock, Handed
  <1>7. CASE LockOld \/ FindOld
    <2>1. Timer \in Sender /\ Timer \notin Handler
      BY DEF Sender
    <2>2. \A h \in Handler : phase'[h] = phase[h]
      <3>1. \E p \in {"idle", "find", "cut"} : phase' = [phase EXCEPT ![Timer] = p]
        BY <1>7 DEF LockOld, FindOld, Unlock
      <3> QED
        BY <2>1, <3>1 DEF ListInv, ListTypes, ThreadTypes, Sender
    <2>3. held' = held
      BY <1>7, <2>1 DEF LockOld, FindOld, Unlock
    <2>4. CarriedSame
      BY <2>2, <2>3 DEF CarriedSame, InHand
    <2>5. UNCHANGED <<arrived, list, cutOff, glob, packets>>
      BY <1>7 DEF LockOld, FindOld
    <2> QED
      BY <2>4, <2>5, Unmoved DEF Handed
  <1>8. CASE (\E n \in DOMAIN arrived : Age(n)) \/ UNCHANGED listVars
    <2>1. UNCHANGED <<arrived, list, phase, held, cutOff, glob, packets>>
      BY <1>8 DEF Age, listVars
    <2>2. CarriedSame
      BY <2>1 DEF CarriedSame, InHand
    <2> QED
      BY <2>1, <2>2, Unmoved DEF Handed
  <1> QED
    BY <1>1, <1>2, <1>3, <1>4, <1>5, <1>6, <1>7, <1>8
       DEF ListNext, bulk_tcp_list, send_list_until, tcp_list_2_timedout, Sender

LEMMA InitOnce == ListInit => InOnePart
  <1> SUFFICES ASSUME ListInit PROVE InOnePart
    OBVIOUS
  <1>1. Contents(packets) = <<>> /\ glob.content = <<>>
    BY DEF ListInit, Contents
  <1>2. Handed = <<>>
    BY <1>1, ConcatenationEmpty DEF Handed, Contents
  <1>3. Distinct(<<>>) /\ \A x : ~In(<<>>, x)
    BY InFew
  <1> QED
    BY <1>2, <1>3 DEF ListInit, InOnePart, Parted, CarriedOnce, ListedOnce, SeveredOnce, GoneOnce,
                      Gone, InHand, Sender

\* The members of a sequence without repetition are at one place.
LEMMA OnePlace ==
    ASSUME NEW c \in Seq(Nat), Distinct(c), NEW n
    PROVE  Occurrences(n, c) = IF In(c, n) THEN 1 ELSE 0
  <1> DEFINE S == {k \in DOMAIN c : c[k] = n}
  <1>1. \A x, y \in S : x = y
    BY DEF Distinct
  <1>2. S = {} <=> ~In(c, n)
    BY DEF In
  <1> HIDE DEF S
  <1>3. Cardinality(S) = IF S = {} THEN 0 ELSE 1
    BY <1>1, AtMostOne
  <1> QED
    BY <1>2, <1>3 DEF Occurrences, S

LEMMA HandedOnceIs == ListInv /\ InOnePart => HandedOnce
  <1> SUFFICES ASSUME ListInv, InOnePart, NEW n \in DOMAIN arrived
               PROVE  Cardinality({h \in Handler : InHand(h) /\ held[h] = n})
                      + Occurrences(n, list[seg(n).flow])
                      + Cardinality({t \in Sender : \E k \in DOMAIN cutOff[t] : cutOff[t][k] = n})
                      + Occurrences(n, Handed) = 1
    BY DEF HandedOnce
  <1> DEFINE H == {h \in Handler : InHand(h) /\ held[h] = n}
             T == {t \in Sender : \E k \in DOMAIN cutOff[t] : cutOff[t][k] = n}
  <1>1. Cardinality(H) = IF Carried(n) THEN 1 ELSE 0
    <2>1. \A g, h \in H : g = h
      BY DEF InOnePart, CarriedOnce
    <2>2. H = {} <=> ~Carried(n)
      BY DEF Carried
    <2> HIDE DEF H
    <2> QED
      BY <2>1, <2>2, AtMostOne
  <1>2. Cardinality(T) = IF Severed(n) THEN 1 ELSE 0
    <2>1. \A t, u \in T : t = u
      BY DEF InOnePart, SeveredOnce, In
    <2>2. T = {} <=> ~Severed(n)
      BY DEF Severed, In
    <2> HIDE DEF T
    <2> QED
      BY <2>1, <2>2, AtMostOne
  <1>3. Occurrences(n, list[seg(n).flow]) = IF Listed(n) THEN 1 ELSE 0
    <2>1. seg(n).flow \in Flow
      <3>1. arrived[n] \in Segment
        BY DEF ListInv, ListTypes
      <3> QED
        BY <3>1, SegmentAssumption DEF seg
    <2>2. list[seg(n).flow] \in Seq(Nat) /\ Distinct(list[seg(n).flow])
      BY <2>1 DEF ListInv, ListTypes, InOnePart, ListedOnce
    <2>3. Listed(n) <=> In(list[seg(n).flow], n)
      BY <2>1 DEF Listed, ListInv, ListKnown
    <2> QED
      BY <2>2, <2>3, OnePlace
  <1>4. Occurrences(n, Handed) = IF Gone(n) THEN 1 ELSE 0
    BY OnePlace, HandedIs DEF Gone, InOnePart, GoneOnce
  <1>5. OneOf(Carried(n), Listed(n), Severed(n), Gone(n))
    BY DEF InOnePart, Parted
  <1> HIDE DEF H, T
  <1>6. Cardinality(H) + Occurrences(n, list[seg(n).flow]) + Cardinality(T) + Occurrences(n, Handed) = 1
    BY <1>1, <1>2, <1>3, <1>4, <1>5 DEF OneOf
  <1> QED
    BY <1>6 DEF H, T

\* Every segment received is in one place, and there once: no element of a list is
\* reached by two threads, none is lost and none is handed to the buffer twice.
THEOREM SegmentsHandedOnce == ListSpec => []HandedOnce
  BY InitOnce, OnceStep, HandedOnceIs, ListInvariant, PTL DEF ListSpec

-----------------------------------------------------------------------------
(***************************************************************************)
(* What is merged.                                                         *)
(***************************************************************************)
\* r continues s; each of the segments c of a continues the one before.
Continues(r, s)   == r.flow = s.flow /\ r.seq = (s.seq + s.len) % SEQ
Consecutive(a, c) == \A k \in 1 .. Len(c) - 1 : Continues(a[c[k + 1]], a[c[k]])

\* t is in its loop, and what it expects continues the last segment of glob_buffer.
Fills(t) ==
    LET s == arrived[glob.content[Len(glob.content)]]
    IN  phase[t] = "hand" /\ s.flow = flowAt(t) /\ expected[t] = (s.seq + s.len) % SEQ

\* A buffer that one thread fills, no other thread continues.
GlobMerges ==
    ~glob.torn /\ glob.content # <<>> => Consecutive(arrived, glob.content) /\ \E t \in Sender : Fills(t)
SentMerged == \A k \in DOMAIN packets : ~packets[k].torn => Consecutive(arrived, packets[k].content)

Merging == SentMerged /\ GlobMerges

\* No segment ends just before the last sequence number.
NoneAtTheEnd == \A s \in Segment : (s.seq + s.len) % SEQ # SEQ - 1

LEMMA FollowingPlain ==
    ASSUME NEW s \in Segment, NoneAtTheEnd
    PROVE  Following(s.seq, s.len) = (s.seq + s.len) % SEQ
  <1> DEFINE x == (s.seq + s.len) % SEQ
  <1>1. SEQ \in Nat /\ SEQ > 1 /\ s.seq + s.len \in Nat
    BY SegmentAssumption
  <1>2. x \in 0 .. SEQ - 1 /\ x # SEQ - 1
    BY <1>1 DEF NoneAtTheEnd
  <1> HIDE DEF x
  <1>3. x % (SEQ - 1) = x
    BY <1>1, <1>2
  <1> QED
    BY <1>3 DEF Following, x

LEMMA ConsecutiveAppend ==
    ASSUME NEW a, NEW c \in Seq(Nat), NEW n \in Nat, Consecutive(a, c),
           c # <<>> => Continues(a[n], a[c[Len(c)]])
    PROVE  Consecutive(a, Append(c, n))
  <1> DEFINE m == Len(c)
             y == Append(c, n)
  <1>1. m \in Nat /\ Len(y) = m + 1 /\ y[m + 1] = n /\ (\A k \in 1 .. m : y[k] = c[k])
        /\ (c # <<>> <=> m > 0)
    OBVIOUS
  <1> HIDE DEF m, y
  <1>2. ASSUME NEW k \in 1 .. m PROVE Continues(a[y[k + 1]], a[y[k]])
    <2>1. CASE k = m
      BY <1>1, <2>1 DEF m
    <2>2. CASE k # m
      <3>1. k \in 1 .. m - 1 /\ k + 1 \in 1 .. m
        BY <1>1, <2>2
      <3>2. Continues(a[c[k + 1]], a[c[k]])
        BY <3>1 DEF Consecutive, m
      <3> QED
        BY <1>1, <3>1, <3>2
    <2> QED
      BY <2>1, <2>2
  <1> QED
    BY <1>1, <1>2 DEF Consecutive, y

\* Segments that arrive later change nothing about what is merged already.
LEMMA ConsecutiveKept ==
    ASSUME ListInv, arrived' = arrived \/ \E s \in Segment : arrived' = Append(arrived, s)
    PROVE  /\ \A x \in DOMAIN arrived : arrived'[x] = arrived[x]
           /\ \A c \in Seq(Nat) : /\ \A x : In(c, x) => x \in DOMAIN arrived
                                  /\ Consecutive(arrived, c)
                                  => Consecutive(arrived', c)
  <1>1. \A x \in DOMAIN arrived : arrived'[x] = arrived[x]
    <2>1. arrived \in Seq(Segment)
      BY DEF ListInv, ListTypes
    <2>2. \A s \in Segment, x \in DOMAIN arrived : Append(arrived, s)[x] = arrived[x]
      BY <2>1, Longer
    <2> QED
      BY <2>2
  <1>2. ASSUME NEW c \in Seq(Nat), \A x : In(c, x) => x \in DOMAIN arrived, Consecutive(arrived, c)
        PROVE  Consecutive(arrived', c)
    <2> DEFINE m == Len(c)
    <2>1. m \in Nat /\ DOMAIN c = 1 .. m
      OBVIOUS
    <2>2. \A k \in 1 .. m : c[k] \in DOMAIN arrived
      BY <1>2, <2>1 DEF In
    <2>3. \A k \in 1 .. m - 1 : Continues(arrived[c[k + 1]], arrived[c[k]])
      BY <1>2 DEF Consecutive
    <2> HIDE DEF m
    <2>4. \A k \in 1 .. m - 1 : k \in 1 .. m /\ k + 1 \in 1 .. m
      BY <2>1
    <2>5. \A k \in 1 .. m - 1 : arrived'[c[k + 1]] = arrived[c[k + 1]] /\ arrived'[c[k]] = arrived[c[k]]
      BY <1>1, <2>2, <2>4
    <2> QED
      BY <2>3, <2>5 DEF Consecutive, m
  <1> QED
    BY <1>1, <1>2

\* A packet more is given to send_ip6_packet, or none.
LEMMA SentMergedKept ==
    ASSUME ListInv, SentMerged, arrived' = arrived \/ \E s \in Segment : arrived' = Append(arrived, s),
           \/ packets' = packets
           \/ \E e \in Buffer : packets' = Append(packets, e) /\ (~e.torn => Consecutive(arrived', e.content))
    PROVE  SentMerged'
  <1> SUFFICES ASSUME NEW k \in DOMAIN packets', ~packets'[k].torn
               PROVE  Consecutive(arrived', packets'[k].content)
    BY DEF SentMerged
  <1>1. packets \in Seq(Buffer)
    BY DEF ListInv, ListTypes
  <1>2. CASE k \in DOMAIN packets /\ packets'[k] = packets[k]
    <2>1. packets[k] \in Buffer
      BY <1>1, <1>2
    <2>2. packets[k].content \in Seq(Nat) /\ \A x : In(packets[k].content, x) => x \in DOMAIN arrived
      BY <1>2, <2>1 DEF Buffer, ListInv, SentKnown
    <2>3. Consecutive(arrived, packets[k].content)
      BY <1>2 DEF SentMerged
    <2> QED
      BY <1>2, <2>2, <2>3, ConsecutiveKept
  <1>3. CASE ~(k \in DOMAIN packets /\ packets'[k] = packets[k])
    <2>1. PICK e \in Buffer : packets' = Append(packets, e) /\ (~e.torn => Consecutive(arrived', e.content))
      BY <1>3
    <2>2. packets'[k] = e
      BY <1>1, <1>3, <2>1, Longer
    <2> QED
      BY <2>1, <2>2
  <1> QED
    BY <1>2, <1>3

\* The threads in the loop stay there, and nothing is handed over.
LEMMA GlobKept ==
    ASSUME ListInv, GlobMerges, arrived' = arrived \/ \E s \in Segment : arrived' = Append(arrived, s),
           UNCHANGED <<expected, glob>>,
           \A t \in Sender : phase[t] = "hand" => phase'[t] = "hand" /\ flowAt(t)' = flowAt(t)
    PROVE  GlobMerges'
  <1> SUFFICES ASSUME ~glob.torn, glob.content # <<>>
               PROVE  Consecutive(arrived', glob.content) /\ \E t \in Sender : Fills(t)'
    BY DEF GlobMerges
  <1> DEFINE c == glob.content
             x == c[Len(c)]
  <1>1. c \in Seq(Nat) /\ \A y : In(c, y) => y \in DOMAIN arrived
    BY DEF ListInv, ListTypes, Buffer, SentKnown
  <1>2. Consecutive(arrived, c)
    BY DEF GlobMerges
  <1>3. PICK t \in Sender : Fills(t)
    BY DEF GlobMerges
  <1>4. Consecutive(arrived', c)
    BY <1>1, <1>2, ConsecutiveKept
  <1>5. arrived'[x] = arrived[x]
    <2>1. Len(c) \in DOMAIN c
      BY <1>1
    <2>2. x \in DOMAIN arrived
      BY <1>1, <2>1 DEF In
    <2> QED
      BY <2>2, ConsecutiveKept
  <1>6. phase[t] = "hand" /\ arrived[x].flow = flowAt(t) /\ expected[t] = (arrived[x].seq + arrived[x].len) % SEQ
    BY <1>3 DEF Fills
  <1>7. phase'[t] = "hand" /\ flowAt(t)' = flowAt(t) /\ glob'.content[Len(glob'.content)] = x /\ expected' = expected
    BY <1>6
  <1> HIDE DEF x
  <1>8. Fills(t)'
    BY <1>5, <1>6, <1>7 DEF Fills
  <1> QED
    BY <1>4, <1>8 DEF c

LEMMA HandMerging ==
    ASSUME NoneAtTheEnd, ListInv, Merging, NEW t \in Sender, NEW apart \in BOOLEAN, Hand(t, apart)
    PROVE  Merging'
  <1> DEFINE n == Head(cutOff[t])
             b == glob.torn \/ Shared(t)
             c == glob.content
  <1>1. /\ n \in Nat /\ n \in DOMAIN arrived /\ seg(n).flow = flowAt(t)
        /\ expected' = [expected EXCEPT ![t] = Following(seg(n).seq, seg(n).len)]
        /\ \/ /\ Apart(t, apart) /\ glob' = [content |-> <<n>>, torn |-> b]
              /\ packets' = Append(packets, [content |-> c, torn |-> b])
           \/ ~Apart(t, apart) /\ glob' = [content |-> Append(c, n), torn |-> b] /\ packets' = packets
    BY HandEffect
  <1>2. phase[t] = "hand" /\ UNCHANGED <<arrived, phase, held, visits>>
    BY DEF Hand
  <1>3. c \in Seq(Nat) /\ b \in BOOLEAN /\ (~b => ~glob.torn /\ ~Shared(t))
    BY DEF ListInv, ListTypes, Buffer, Shared
  <1>4. Now(t).torn = b
    BY DEF ListInv, ListTypes, Buffer, Now, Shared
  <1>5. ~b /\ c # <<>> => Consecutive(arrived, c) /\ Fills(t)
    <2> SUFFICES ASSUME ~b, c # <<>> PROVE Consecutive(arrived, c) /\ Fills(t)
      OBVIOUS
    <2>1. PICK u \in Sender : Fills(u)
      BY <1>3 DEF Merging, GlobMerges
    <2>2. u = t
      BY <1>3, <2>1 DEF Fills, Shared
    <2> QED
      BY <1>3, <2>1, <2>2 DEF Merging, GlobMerges
  <1>6. expected'[t] = (seg(n).seq + seg(n).len) % SEQ
    <2>1. seg(n) \in Segment
      BY <1>1 DEF ListInv, ListTypes, seg
    <2>2. Following(seg(n).seq, seg(n).len) = (seg(n).seq + seg(n).len) % SEQ
      BY <2>1, FollowingPlain
    <2> HIDE DEF n
    <2> QED
      BY <1>1, <2>2 DEF ListInv, ListTypes
  <1>7. flowAt(t)' = flowAt(t)
    BY <1>2 DEF flowAt, seg
  <1>8. ~b /\ c # <<>> /\ ~Apart(t, apart) => Continues(arrived[n], arrived[c[Len(c)]])
    <2> SUFFICES ASSUME ~b, c # <<>>, ~Apart(t, apart)
                 PROVE  Continues(arrived[n], arrived[c[Len(c)]])
      OBVIOUS
    <2>1. expected[t] = seg(n).seq
      BY <1>4 DEF Apart
    <2> QED
      BY <1>1, <1>5, <2>1 DEF Fills, Continues, seg
  <1> HIDE DEF n, b, c
  <1>9. SentMerged'
    <2>1. CASE packets' = packets
      BY <1>2, <2>1, SentMergedKept DEF Merging
    <2>2. CASE packets' = Append(packets, [content |-> c, torn |-> b]) /\ Apart(t, apart)
      <3> DEFINE e == [content |-> c, torn |-> b]
      <3>1. e \in Buffer /\ e.content = c /\ e.torn = b
        BY <1>3 DEF Buffer
      <3>2. c # <<>>
        BY <2>2 DEF Apart, c
      <3>3. packets' = Append(packets, e)
        BY <2>2
      <3> HIDE DEF e
      <3>4. ~e.torn => Consecutive(arrived', e.content)
        BY <1>2, <1>5, <3>1, <3>2
      <3> QED
        BY <1>2, <3>1, <3>3, <3>4, SentMergedKept DEF Merging
    <2> QED
      BY <1>1, <2>1, <2>2
  <1>10. GlobMerges'
    <2> SUFFICES ASSUME ~glob'.torn PROVE Consecutive(arrived', glob'.content) /\ Fills(t)'
      BY DEF GlobMerges
    <2>1. ~b
      BY <1>1
    <2>2. CASE glob'.content = <<n>>
      <3>1. Len(<<n>>) = 1 /\ <<n>>[1] = n
        OBVIOUS
      <3>2. glob'.content[Len(glob'.content)] = n
        BY <2>2, <3>1
      <3>3. Consecutive(arrived', <<n>>)
        BY <3>1 DEF Consecutive
      <3>4. Fills(t)'
        BY <1>1, <1>2, <1>6, <1>7, <3>2 DEF Fills, seg
      <3> QED
        BY <2>2, <3>3, <3>4
    <2>3. CASE glob'.content = Append(c, n) /\ ~Apart(t, apart)
      <3>1. Len(Append(c, n)) = Len(c) + 1 /\ Append(c, n)[Len(c) + 1] = n
        BY <1>1, <1>3
      <3>2. glob'.content[Len(glob'.content)] = n
        BY <2>3, <3>1
      <3>3. Fills(t)'
        BY <1>1, <1>2, <1>6, <1>7, <3>2 DEF Fills, seg
      <3>4. Consecutive(arrived, c)
        <4>1. CASE c = <<>>
          BY <4>1 DEF Consecutive
        <4>2. CASE c # <<>>
          BY <1>5, <2>1, <4>2
        <4> QED
          BY <4>1, <4>2
      <3>5. c # <<>> => Continues(arrived[n], arrived[c[Len(c)]])
        BY <1>8, <2>1, <2>3
      <3>6. Consecutive(arrived, Append(c, n))
        BY <1>1, <1>3, <3>4, <3>5, ConsecutiveAppend
      <3> QED
        BY <1>2, <2>3, <3>3, <3>6
    <2> QED
      BY <1>1, <2>2, <2>3
  <1> QED
    BY <1>9, <1>10 DEF Merging

LEMMA FlushMerging ==
    ASSUME ListInv, Merging, NEW t \in Sender, Flush(t)
    PROVE  Merging'
  <1>1. arrived' = arrived /\ glob' = [content |-> <<>>, torn |-> Shared(t)]
        /\ packets' = IF glob.content = <<>> THEN packets ELSE Append(packets, Now(t))
    BY DEF Flush
  <1>2. GlobMerges'
    BY <1>1 DEF GlobMerges
  <1>3. Now(t) \in Buffer /\ Now(t).content = glob.content /\ (~Now(t).torn => ~glob.torn)
    <2>1. glob \in Buffer /\ Shared(t) \in BOOLEAN
      BY DEF ListInv, ListTypes, Shared
    <2> QED
      BY <2>1 DEF Buffer, Now
  <1>4. glob.content # <<>> /\ ~Now(t).torn => Consecutive(arrived', Now(t).content)
    BY <1>1, <1>3 DEF Merging, GlobMerges
  <1> DEFINE e == Now(t)
  <1> HIDE DEF e
  <1>5. SentMerged'
    <2>1. CASE packets' = packets
      BY <1>1, <2>1, SentMergedKept DEF Merging
    <2>2. CASE packets' = Append(packets, e) /\ glob.content # <<>>
      <3>1. e \in Buffer /\ (~e.torn => Consecutive(arrived', e.content))
        BY <1>3, <1>4, <2>2 DEF e
      <3> QED
        BY <1>1, <2>2, <3>1, SentMergedKept DEF Merging
    <2> QED
      BY <1>1, <2>1, <2>2 DEF e
  <1> QED
    BY <1>2, <1>5 DEF Merging

LEMMA ReceiveMerging ==
    ASSUME ListInv, Merging, NEW h \in Handler, NEW s \in Segment, Receive(h, s)
    PROVE  Merging'
  <1> DEFINE n == Len(arrived) + 1
             e == [content |-> <<n>>, torn |-> FALSE]
  <1>1. n \in Nat /\ arrived' = Append(arrived, s) /\ (packets' = packets \/ packets' = Append(packets, e))
        /\ UNCHANGED <<expected, glob, visits>>
    BY Longer DEF ListInv, ListTypes, Receive
  <1>2. \A t \in Sender : phase[t] = "hand" => phase'[t] = "hand" /\ flowAt(t)' = flowAt(t)
    <2> SUFFICES ASSUME NEW t \in Sender, phase[t] = "hand"
                 PROVE  phase'[t] = "hand" /\ flowAt(t)' = flowAt(t)
      OBVIOUS
    <2>1. t # h /\ phase'[t] = phase[t] /\ (t # Timer => held'[t] = held[t])
      BY DEF Receive, ListInv, ListTypes, ThreadTypes, Sender
    <2> QED
      BY <1>1, <2>1, FlowKept
  <1>3. GlobMerges'
    BY <1>1, <1>2, GlobKept DEF Merging
  <1>4. e \in Buffer /\ Consecutive(arrived', e.content)
    <2>1. <<n>> \in Seq(Nat) /\ Len(<<n>>) = 1
      BY <1>1
    <2> QED
      BY <2>1 DEF Buffer, Consecutive
  <1> HIDE DEF e
  <1>5. SentMerged'
    BY <1>1, <1>4, SentMergedKept DEF Merging
  <1> QED
    BY <1>3, <1>5 DEF Merging

\* What a thread does outside the loop.
LEMMA OutsideMerging ==
    ASSUME ListInv, Merging, UNCHANGED <<arrived, expected, glob, packets>>,
           \A t \in Sender : phase[t] = "hand" => phase'[t] = "hand" /\ flowAt(t)' = flowAt(t)
    PROVE  Merging'
  BY SentMergedKept, GlobKept DEF Merging

LEMMA MergingStep == NoneAtTheEnd /\ ListInv /\ Merging /\ [ListNext]_listVars => Merging'
  <1> SUFFICES ASSUME NoneAtTheEnd, ListInv, Merging, [ListNext]_listVars PROVE Merging'
    OBVIOUS
  <1>1. CASE \E h \in Handler, s \in Segment : Receive(h, s)
    BY <1>1, ReceiveMerging
  <1>2. CASE \E t \in Sender : \E apart \in BOOLEAN : Hand(t, apart)
    BY <1>2, HandMerging
  <1>3. CASE \E t \in Sender : Flush(t)
    BY <1>3, FlushMerging
  <1>4. ASSUME NEW t \in Sender, phase[t] # "hand", Undisturbed(t),
               UNCHANGED <<arrived, expected, glob, packets>>
        PROVE  Merging'
    <2>1. \A u \in Sender : phase[u] = "hand" => phase'[u] = "hand" /\ flowAt(u)' = flowAt(u)
      BY <1>4 DEF Undisturbed
    <2> QED
      BY <1>4, <2>1, OutsideMerging
  <1>5. CASE \E h \in Handler : Insert(h)
    <2>1. PICK h \in Handler : Insert(h)
      BY <1>5
    <2>2. h \in Sender /\ phase[h] = "insert" /\ phase[h] \in Critical
          /\ UNCHANGED <<arrived, expected, glob, packets>>
      BY <2>1 DEF Insert, Sender, Critical
    <2>3. \/ Unlock(h)
          \/ phase' = [phase EXCEPT ![h] = "hand"] /\ UNCHANGED <<lock, held, visits>>
      BY <2>1, InsertEffect
    <2>4. Undisturbed(h)
      <3>1. CASE Unlock(h)
        BY <2>2, <3>1, Unlocking
      <3>2. CASE phase' = [phase EXCEPT ![h] = "hand"] /\ UNCHANGED <<lock, held, visits>>
        <4>1. h # Timer
          BY <2>1, InsertEffect
        <4> QED
          BY <2>2, <3>2, <4>1, Staying
      <3> QED
        BY <2>3, <3>1, <3>2
    <2> QED
      BY <1>4, <2>2, <2>4
  <1>6. CASE FindOld
    <2>1. Timer \in Sender /\ phase[Timer] = "find" /\ phase[Timer] \in Critical
          /\ UNCHANGED <<arrived, expected, glob, packets>>
      BY <1>6 DEF FindOld, Sender, Critical
    <2>2. \/ Unlock(Timer)
          \/ phase' = [phase EXCEPT ![Timer] = "cut"] /\ UNCHANGED <<lock, held, visits>>
      BY <1>6 DEF FindOld
    <2>3. Undisturbed(Timer)
      <3>1. CASE Unlock(Timer)
        BY <2>1, <3>1, Unlocking
      <3>2. CASE phase' = [phase EXCEPT ![Timer] = "cut"] /\ UNCHANGED <<lock, held, visits>>
        BY <2>1, <3>2, Staying
      <3> QED
        BY <2>2, <3>1, <3>2
    <2> QED
      BY <1>4, <2>1, <2>3
  <1>7. CASE (\E h \in Handler : Lock(h)) \/ LockOld \/ CutOld
             \/ (\E n \in DOMAIN arrived : Age(n)) \/ UNCHANGED listVars
    <2>1. UNCHANGED <<arrived, held, visits, expected, glob, packets>>
      BY <1>7 DEF Lock, LockOld, CutOld, Age, listVars
    <2>2. \A u \in Sender : flowAt(u)' = flowAt(u)
      BY <2>1 DEF flowAt, seg
    <2>3. \/ phase' = phase
          \/ \E u \in Sender : phase[u] # "hand" /\ \E p : phase' = [phase EXCEPT ![u] = p]
      <3>1. Timer \in Sender /\ Handler \subseteq Sender
        BY DEF Sender
      <3> QED
        BY <1>7, <3>1 DEF Lock, LockOld, CutOld, Age, listVars
    <2>4. \A u \in Sender : phase[u] = "hand" => phase'[u] = "hand"
      BY <2>3 DEF ListInv, ListTypes, ThreadTypes
    <2> QED
      BY <2>1, <2>2, <2>4, OutsideMerging
  <1> QED
    BY <1>1, <1>2, <1>3, <1>5, <1>6, <1>7
       DEF ListNext, bulk_tcp_list, send_list_until, tcp_list_2_timedout, Sender

\* If no segment ends just before the last sequence number, the segments in a packet,
\* or in glob_buffer, that one thread alone has filled are consecutive segments of one
\* flow.  The hypothesis is needed: the next number is taken modulo 2^32 - 1.
THEOREM ListsMergeContiguous ==
    ASSUME NoneAtTheEnd
    PROVE  ListSpec => []MergedContiguous
  <1>1. ListInit => Merging
    BY DEF ListInit, Merging, SentMerged, GlobMerges
  <1>2. ListInv /\ Merging => MergedContiguous
    <2> SUFFICES ASSUME ListInv, Merging, NEW b \in ToSet(packets) \cup {glob}, ~b.torn,
                        NEW k \in 1 .. Len(b.content) - 1
                 PROVE  Continues(seg(b.content[k + 1]), seg(b.content[k]))
      BY DEF MergedContiguous, Continues
    <2>1. Consecutive(arrived, b.content)
      <3>1. CASE b \in ToSet(packets)
        <4>1. PICK j \in DOMAIN packets : b = packets[j]
          BY <3>1 DEF ToSet
        <4> QED
          BY <4>1 DEF Merging, SentMerged
      <3>2. CASE b = glob
        <4>1. b.content # <<>>
          OBVIOUS
        <4> QED
          BY <3>2, <4>1 DEF Merging, GlobMerges
      <3> QED
        BY <3>1, <3>2
    <2> QED
      BY <2>1 DEF Consecutive, seg
  <1>3. ListInv /\ Merging /\ [ListNext]_listVars => Merging'
    BY MergingStep
  <1> QED
    BY <1>1, <1>2, <1>3, ListInvariant, PTL DEF ListSpec
=============================================================================
