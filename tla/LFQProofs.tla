----------------------------- MODULE LFQProofs -----------------------------
(***************************************************************************)
(* The safety of the lock-free queue, and that it implements PacketQueue,  *)
(* for any numbers of producers and consumers and any queue size.          *)
(***************************************************************************)
EXTENDS LFQ, SequenceTheorems, TLAPS

\* The end a thread works at, and the opposite one.
LEMMA ThreadEnd ==
    ASSUME NEW t \in Thread
    PROVE  /\ t[1] \in Ends /\ Other(t[1]) \in Ends /\ Other(t[1]) # t[1]
           /\ t \in Producers <=> t[1] = "head"
           /\ t \in Consumers <=> t[1] = "tail"
BY DEF Thread, Producers, Consumers, Ends, Other

\* A scan index within the other end's threads names a cell of thr_p.
LEMMA CellOfScan ==
    ASSUME NEW e \in Ends, NEW k \in Nat, k < Count(e)
    PROVE  <<e, k>> \in Thread
BY ThreadAssumption DEF Thread, Producers, Consumers, Ends, Count

LEMMA CountPositive == \A e \in Ends : Count(e) \in Nat \ {0}
BY ThreadAssumption DEF Count

\* What TypeOK says besides the variables' ranges
THEOREM TypeCorrect == Spec => []TypeOK
<1>1. Init => TypeOK
  <2>1. ASSUME Init PROVE Len(pushed) = q["head"] /\ pushed \in Seq(Item)
    BY <2>1 DEF Init, Ends
  <2> QED
    BY <2>1, SizeAssumption, IdleAssumption DEF Init, TypeOK, Labels
<1>2. TypeOK /\ [Next]_vars => TypeOK'
  <2> SUFFICES ASSUME TypeOK, [Next]_vars PROVE TypeOK'
    OBVIOUS
  <2>1. ASSUME UNCHANGED vars PROVE TypeOK'
    BY <2>1 DEF vars, TypeOK
  <2>2. ASSUME NEW t \in Thread, Step(t) PROVE TypeOK'
    <3> t[1] \in Ends /\ Other(t[1]) \in Ends
      BY ThreadEnd
    <3> USE DEF TypeOK, Goto, Labels
    <3>1. CASE Load(t)
      BY <3>1 DEF Load
    <3>2. CASE Announce(t)
      BY <3>2 DEF Announce
    <3>3. CASE Claim(t)
      <4>1. t[1] \in Ends /\ q'[t[1]] \in Nat
        BY <3>3, SMTT(20) DEF Claim
      <4>2. /\ pushed' \in Seq(Item)
            /\ Len(pushed') = q'["head"]
        <5>1. CASE t \in Producers
          <6>1. Packet(t, sent[t]) \in Item
            BY <5>1 DEF Packet, Item
          <6>2. q'["head"] = q["head"] + 1
            BY <5>1, <3>3, ThreadEnd DEF Claim, Ends
          <6>3. pushed' = Append(pushed, Packet(t, sent[t]))
            BY <5>1, <3>3 DEF Claim
          <6> HIDE DEF Goto
          <6> QED
            BY <6>1, <6>2, <6>3
        <5>2. CASE t \notin Producers
          <6>1. q'["head"] = q["head"]
            BY <5>2, <3>3, ThreadEnd DEF Claim, Ends
          <6>2. pushed' = pushed
            BY <5>2, <3>3 DEF Claim
          <6> QED
            BY <6>1, <6>2
        <5> QED
          BY <5>1, <5>2
      <4>3. /\ q' \in [Ends -> Nat]
            /\ reg' \in [Thread -> Nat]
        BY <3>3, SMTT(20) DEF Claim
      <4> QED
        BY <3>3, <4>2, <4>3 DEF Claim
    <3>4. CASE Record(t)
      BY <3>4 DEF Record
    <3>5. CASE TestLast(t)
      BY <3>5 DEF TestLast
    <3>6. CASE Bound(t)
      <4>1. pc' \in [Thread -> Labels] 
        BY <3>6 DEF Bound
      <4>2. min' \in [Thread -> Nat] /\ i' \in [Thread -> Nat]
        BY <3>6 DEF Bound
      <4>3. \A u \in Thread : pc'[u] = "scan" => i'[u] < Count(Other(u[1]))
        BY <3>6, CountPositive DEF Bound
      <4> QED
        BY <3>6, <4>1, <4>2, <4>3 DEF Bound
    <3>7. CASE Scan(t)
      <4>1. pc[t] = "scan" /\ <<Other(t[1]), i[t]>> \in Thread
        BY <3>7, CellOfScan DEF Scan
      <4>2. /\ pc' \in [Thread -> Labels]
            /\ min' \in [Thread -> Nat]
            /\ i' \in [Thread -> Nat]
        <5>1. pc' \in [Thread -> Labels]
          BY <3>7 DEF Scan
        <5>2. thr_p[<<Other(t[1]), i[t]>>] \in Nat
          BY <4>1
        <5>3. min' \in [Thread -> Nat]
          BY <5>2, <3>7 DEF Scan
        <5>4. i' \in [Thread -> Nat]
          BY <3>7, SMTT(20) DEF Scan
        <5> QED
          BY <5>1, <5>3, <5>4
      <4>3. ASSUME NEW u \in Thread, pc'[u] = "scan"
            PROVE  i'[u] < Count(Other(u[1]))
        <5>1. CASE u = t
          <6>1. i[t] + 1 < Count(Other(t[1]))
            BY <4>3, <5>1, <3>7 DEF Scan
          <6> QED
            BY <6>1, <5>1, <3>7 DEF Scan
        <5>2. CASE u # t
          BY <4>3, <5>2, <3>7 DEF Scan
        <5> QED
          BY <5>1, <5>2
      <4> QED
        BY <3>7, <4>2, <4>3 DEF Scan
    <3>8. CASE StoreLast(t)
      BY <3>8 DEF StoreLast
    <3>9. CASE Retest(t)
      BY <3>9 DEF Retest
    <3>10. CASE Copy(t)
      <4>1. CASE t \in Producers
        <5>1. Packet(t, sent[t]) \in Item
          BY <4>1 DEF Packet, Item
        <5>2. /\ ptr_array' = [ptr_array EXCEPT ![Slot(t)] = Packet(t, sent[t])]
              /\ el' = el
          BY <4>1, <3>10, ThreadEnd DEF Copy
        <5>3. ptr_array' \in [0 .. Q_SIZE - 1 -> Item \cup {NoItem}]
          BY <5>1, <5>2
        <5>4. pc' \in [Thread -> Labels] /\ pc'[t] = "release"
          BY <3>10 DEF Copy
        <5> QED
          BY <5>2, <5>3, <5>4, <3>10 DEF Copy
      <4>2. CASE t \in Consumers
        <5>1. Slot(t) \in 0 .. Q_SIZE - 1
          BY SizeAssumption, SMTT(20) DEF Slot
        <5>2. /\ el' = [el EXCEPT ![t] = ptr_array[Slot(t)]]
              /\ ptr_array' = ptr_array
          BY <4>2, <3>10, ThreadEnd DEF Copy
        <5>3. el' \in [Consumers -> Item \cup {NoItem}]
          BY <5>1, <5>2
        <5>4. pc' \in [Thread -> Labels] /\ pc'[t] = "release"
          BY <3>10 DEF Copy
        <5> QED
          BY <5>2, <5>3, <5>4, <3>10 DEF Copy
      <4> QED
        BY <4>1, <4>2 DEF Thread
    <3>11. CASE Release(t)
      <4>1. pc' \in [Thread -> Labels] 
        BY <3>11 DEF Release
      <4>2. thr_p' \in [Thread -> Nat] 
        BY <3>11, IdleAssumption DEF Release
      <4>3. sent' \in [Producers -> Nat]
        BY <3>11, SMTT(20) DEF Release
      <4> QED
        BY <3>11, <4>1, <4>2, <4>3 DEF Release
    <3> QED
      BY <2>2, <3>1, <3>2, <3>3, <3>4, <3>5, <3>6, <3>7, <3>8, <3>9, <3>10, <3>11
      DEF Step
  <2> QED
    BY <2>1, <2>2 DEF Next, lfq_push, lfq_pop, Thread
<1> QED
  BY <1>1, <1>2, PTL DEF Spec

-----------------------------------------------------------------------------
(* What one step does to the counters and to the threads with a ticket. *)

LEMMA StepEffect ==
    ASSUME TypeOK, NEW t \in Thread, Step(t)
    PROVE  /\ \A e \in Ends : q'[e] \in Nat /\ q[e] <= q'[e]
           /\ \A u \in Thread : Pending(u)' =>
                  \/ Pending(u) /\ reg'[u] = reg[u]
                  \/ u = t /\ Claim(t)
           /\ Claim(t) => /\ reg'[t] = q[t[1]] /\ q'[t[1]] = q[t[1]] + 1
                          /\ Pending(t)'
           /\ \A e \in Ends : q'[e] = q[e] \/ (Claim(t) /\ e = t[1])
           /\ \A u \in Thread : Pending(u) =>
                  \/ Pending(u)' /\ reg'[u] = reg[u]
                  \/ u = t /\ Copy(t)
           /\ \A u \in Thread : u # t => pc'[u] = pc[u] /\ reg'[u] = reg[u]
<1> t[1] \in Ends
  BY ThreadEnd
<1> USE DEF TypeOK, Goto, Pending
<1>1. CASE Load(t)
  BY <1>1 DEF Load, Claim, Copy
<1>2. CASE Announce(t)
  BY <1>2 DEF Announce, Claim, Copy
<1>3. CASE Claim(t)
  BY <1>3, SMTT(20) DEF Claim, Copy
<1>4. CASE Record(t)
  BY <1>4 DEF Record, Claim, Copy
<1>5. CASE TestLast(t)
  BY <1>5 DEF TestLast, Claim, Copy
<1>6. CASE Bound(t)
  BY <1>6 DEF Bound, Claim, Copy
<1>7. CASE Scan(t)
  BY <1>7 DEF Scan, Claim, Copy
<1>8. CASE StoreLast(t)
  BY <1>8 DEF StoreLast, Claim, Copy
<1>9. CASE Retest(t)
  BY <1>9 DEF Retest, Claim, Copy
<1>10. CASE Copy(t)
  BY <1>10 DEF Claim, Copy
<1>11. CASE Release(t)
  BY <1>11 DEF Release, Claim, Copy
<1> QED
  BY <1>1, <1>2, <1>3, <1>4, <1>5, <1>6, <1>7, <1>8, <1>9, <1>10, <1>11 DEF Step

LEMMA Ends2 == "head" \in Ends /\ "tail" \in Ends
BY DEF Ends

\* What has been written, read or freed stays so; only a copy writes or reads.
LEMMA Stable ==
    ASSUME TypeOK, NEW t \in Thread, Step(t), NEW k \in Nat
    PROVE  /\ SpaceFor(k) => SpaceFor(k)'
           /\ AllWritten(k) => AllWritten(k)'
           /\ Written(k) => Written(k)'
           /\ Read(k) => Read(k)'
           /\ Written(k)' => Written(k) \/ (t \in Producers /\ Copy(t) /\ reg[t] = k)
           /\ Read(k)' => Read(k) \/ (t \in Consumers /\ Copy(t) /\ reg[t] = k)
<1> DEFINE h == q["head"]
           l == q["tail"]
<1>1. /\ h \in Nat /\ l \in Nat /\ h' \in Nat /\ l' \in Nat
      /\ h <= h' /\ l <= l'
      /\ \A u \in Thread : reg[u] \in Nat
  BY StepEffect, Ends2 DEF TypeOK
<1>2. \A c \in Consumers : Pending(c)' =>
          (Pending(c) /\ reg'[c] = reg[c]) \/ (c = t /\ Claim(t) /\ reg'[c] = l)
  BY StepEffect, ThreadEnd DEF Thread
<1>3. \A p \in Producers : Pending(p)' =>
          (Pending(p) /\ reg'[p] = reg[p]) \/ (p = t /\ Claim(t) /\ reg'[p] = h)
  BY StepEffect, ThreadEnd DEF Thread
<1>4. \A u \in Thread : Pending(u) => (Pending(u)' /\ reg'[u] = reg[u]) \/ (u = t /\ Copy(t))
  BY StepEffect
<1>5. h' = h \/ (t \in Producers /\ Claim(t) /\ h' = h + 1 /\ reg'[t] = h /\ Pending(t)')
  BY StepEffect, ThreadEnd, Ends2
<1>6. l' = l \/ (t \in Consumers /\ Claim(t) /\ l' = l + 1 /\ reg'[t] = l /\ Pending(t)')
  BY StepEffect, ThreadEnd, Ends2
<1>7. Producers \subseteq Thread /\ Consumers \subseteq Thread
  BY DEF Thread
<1>8. SpaceFor(k) => SpaceFor(k)'
  BY <1>1, <1>2, <1>7, SizeAssumption DEF SpaceFor
<1>9. AllWritten(k) => AllWritten(k)'
  BY <1>1, <1>3, <1>7 DEF AllWritten
<1>10. Written(k) => Written(k)'
  BY <1>1, <1>3, <1>7 DEF Written
<1>11. Read(k) => Read(k)'
  BY <1>1, <1>2, <1>7 DEF Read
<1>12. Written(k)' => Written(k) \/ (t \in Producers /\ Copy(t) /\ reg[t] = k)
  BY <1>1, <1>4, <1>5, <1>7 DEF Written
<1>13. Read(k)' => Read(k) \/ (t \in Consumers /\ Copy(t) /\ reg[t] = k)
  BY <1>1, <1>4, <1>6, <1>7 DEF Read
<1> QED
  BY <1>8, <1>9, <1>10, <1>11, <1>12, <1>13

-----------------------------------------------------------------------------
(* Each part of the invariant is preserved by a step. *)

LEMMA TicketsDistinctStep ==
    ASSUME TypeOK, TicketsDistinct, NEW t \in Thread, Step(t)
    PROVE  TicketsDistinct'
<1> USE DEF TicketsDistinct
<1>0. \A u \in Thread : /\ q[u[1]] \in Nat /\ q'[u[1]] \in Nat /\ q[u[1]] <= q'[u[1]]
                        /\ reg[u] \in Nat
  BY StepEffect, ThreadEnd DEF TypeOK
<1>1. \A u \in Thread : Pending(u)' =>
          \/ Pending(u) /\ reg'[u] = reg[u]
          \/ u = t /\ reg'[u] = q[t[1]] /\ q'[t[1]] = q[t[1]] + 1
  BY StepEffect
<1>2. \A u \in Thread : Pending(u)' => reg'[u] < q'[u[1]]
  BY <1>0, <1>1
<1>3. ASSUME NEW u \in Thread, NEW v \in Thread, u # v, u[1] = v[1],
             Pending(u)', Pending(v)'
      PROVE  reg'[u] # reg'[v]
  BY <1>3, <1>0, <1>1
<1> QED
  BY <1>2, <1>3

LEMMA CellsBelowTicketsStep ==
    ASSUME TypeOK, CellsBelowTickets, NEW t \in Thread, Step(t)
    PROVE  CellsBelowTickets'
<1> t[1] \in Ends
  BY ThreadEnd
<1>0. \A u \in Thread : u[1] \in Ends /\ q[u[1]] <= q'[u[1]] /\ q'[u[1]] \in Nat
  BY StepEffect, ThreadEnd
<1> USE DEF TypeOK, Goto, Pending, CellsBelowTickets
<1>1. CASE Load(t)
  BY <1>1, <1>0 DEF Load
<1>2. CASE Announce(t)
  BY <1>2, <1>0 DEF Announce
<1>3. CASE Claim(t)
  <2>1. reg'[t] = q[t[1]] /\ pc'[t] = "record" /\ thr_p' = thr_p /\ pc[t] = "claim"
    BY <1>3 DEF Claim
  <2>2. \A u \in Thread : u # t => pc'[u] = pc[u] /\ reg'[u] = reg[u]
    BY <1>3 DEF Claim
  <2>3. \A u \in Thread : thr_p[u] \in Nat /\ reg[u] \in Nat /\ q[u[1]] \in Nat
    BY <1>0
  <2> SUFFICES ASSUME NEW u \in Thread
               PROVE  /\ pc'[u] = "announce" => reg'[u] <= q'[u[1]]
                      /\ pc'[u] = "claim" => thr_p'[u] <= q'[u[1]]
                      /\ pc'[u] = "record" => thr_p'[u] <= reg'[u]
                      /\ pc'[u] # "record" /\ Pending(u)' => thr_p'[u] = reg'[u]
    OBVIOUS
  <2>4. CASE u = t
    BY <2>4, <2>1
  <2>5. CASE u # t
    BY <2>5, <2>1, <2>2, <2>3, <1>0, SMTT(20)
  <2> QED
    BY <2>4, <2>5
<1>4. CASE Record(t)
  BY <1>4, <1>0 DEF Record
<1>5. CASE TestLast(t)
  BY <1>5, <1>0 DEF TestLast
<1>6. CASE Bound(t)
  BY <1>6, <1>0 DEF Bound
<1>7. CASE Scan(t)
  BY <1>7, <1>0 DEF Scan
<1>8. CASE StoreLast(t)
  BY <1>8, <1>0 DEF StoreLast
<1>9. CASE Retest(t)
  BY <1>9, <1>0 DEF Retest
<1>10. CASE Copy(t)
  BY <1>10, <1>0 DEF Copy
<1>11. CASE Release(t)
  BY <1>11, <1>0, IdleAssumption DEF Release
<1> QED
  BY <1>1, <1>2, <1>3, <1>4, <1>5, <1>6, <1>7, <1>8, <1>9, <1>10, <1>11 DEF Step

LEMMA ScanSoundStep ==
    ASSUME TypeOK, TypeOK', CellsBelowTickets, ScanSound, NEW t \in Thread, Step(t)
    PROVE  ScanSound'
<1> SUFFICES ASSUME NEW s \in Thread, pc'[s] \in {"scan", "store"}
             PROVE  /\ min'[s] <= q'[Other(s[1])]
                    /\ \A u \in Thread :
                           u[1] = Other(s[1]) /\ Pending(u)'
                               /\ (pc'[s] = "store" \/ u[2] < i'[s])
                           => min'[s] <= reg'[u]
  BY DEF ScanSound
<1> DEFINE e == Other(s[1])
<1>1. /\ e \in Ends /\ e # s[1]
      /\ q[e] \in Nat /\ q'[e] \in Nat /\ q[e] <= q'[e]
      /\ min[s] \in Nat
      /\ \A u \in Thread : reg[u] \in Nat /\ thr_p[u] \in Nat
  BY ThreadEnd, StepEffect DEF TypeOK
<1>2. ASSUME NEW u \in Thread, u[1] = e, Pending(u)'
      PROVE  \/ Pending(u) /\ reg'[u] = reg[u]
             \/ ~Pending(u) /\ reg'[u] = q[e]
  BY <1>2, StepEffect DEF Claim, Goto, Pending
<1>3. CASE s # t \/ ~(Bound(t) \/ Scan(t))
  <2>1. pc[s] = pc'[s] /\ min'[s] = min[s] /\ i'[s] = i[s]
    <3>1. /\ pc \in [Thread -> Labels] /\ min \in [Thread -> Nat] /\ i \in [Thread -> Nat]
      BY DEF TypeOK
    <3>2. CASE s # t
      BY <3>1, <3>2 DEF Step, Load, Announce, Claim, Record, TestLast, Bound, Scan,
                        StoreLast, Retest, Copy, Release, Goto
    <3>3. CASE s = t
      <4>1. pc'[t] \notin {"scan", "store"}
        BY <1>3, <3>1, <3>3 DEF Step, Load, Announce, Claim, Record, TestLast,
           StoreLast, Retest, Copy, Release, Goto
      <4> QED
        BY <3>3, <4>1
    <3> QED
      BY <3>2, <3>3
  <2>2. min[s] <= q[e]
    BY <2>1 DEF ScanSound
  <2>3. \A u \in Thread : u[1] = e /\ Pending(u) /\ (pc'[s] = "store" \/ u[2] < i'[s])
                          => min[s] <= reg[u]
    BY <2>1 DEF ScanSound
  <2> QED
    BY <1>1, <1>2, <2>1, <2>2, <2>3
<1>4. CASE s = t /\ Bound(t)
  <2>1. min'[s] = q[e] /\ i'[s] = 0 /\ pc'[s] = "scan"
    BY <1>4 DEF Bound, Goto, TypeOK
  <2>2. \A u \in Thread : ~(u[2] < 0)
    BY DEF Thread, Producers, Consumers
  <2> QED
    BY <1>1, <2>1, <2>2
<1>5. CASE s = t /\ Scan(t)
  <2> DEFINE cell == <<e, i[s]>>
  <2>1. cell \in Thread /\ cell[1] = e /\ i[s] \in Nat /\ thr_p[cell] \in Nat
    BY <1>1, <1>5, CellOfScan DEF TypeOK, Scan, Goto
  <2>2. /\ min'[s] <= min[s] /\ min'[s] <= thr_p[cell] /\ min'[s] \in Nat
        /\ i'[s] = i[s] + 1
        /\ pc'[s] = "store" => i[s] + 1 >= Count(e)
        /\ pc[s] = "scan"
        /\ \A u \in Thread : reg'[u] = reg[u] /\ (Pending(u)' <=> Pending(u))
    <3>1. pc[s] = "scan" /\ i'[s] = i[s] + 1
      BY <1>5 DEF Scan, Goto, TypeOK
    <3>2. min'[s] = IF thr_p[cell] < min[s] THEN thr_p[cell] ELSE min[s]
      BY <1>5 DEF Scan, TypeOK
    <3>3. min'[s] <= min[s] /\ min'[s] <= thr_p[cell] /\ min'[s] \in Nat
      BY <3>2, <1>1, <2>1
    <3>4. pc'[s] = IF i[s] + 1 < Count(e) THEN "scan" ELSE "store"
      BY <1>5 DEF Scan, Goto, TypeOK
    <3>5. Count(e) \in Nat
      BY <1>1, CountPositive
    <3>6. pc'[s] = "store" => i[s] + 1 >= Count(e)
      BY <3>4, <3>5, <2>1
    <3>7. \A u \in Thread : reg'[u] = reg[u] /\ (Pending(u)' <=> Pending(u))
      BY <1>5, <3>1, <3>4 DEF Scan, Goto, TypeOK, Pending
    <3> QED
      BY <3>1, <3>3, <3>6, <3>7
  <2>3. min[s] <= q[e] /\ \A u \in Thread :
            u[1] = e /\ Pending(u) /\ u[2] < i[s] => min[s] <= reg[u]
    BY <2>2 DEF ScanSound
  <2>4. ASSUME NEW u \in Thread, u[1] = e, Pending(u)', pc'[s] = "store" \/ u[2] < i'[s]
        PROVE  min'[s] <= reg'[u]
    <3>1. u[2] \in Nat /\ u[2] < Count(e) /\ u = <<u[1], u[2]>> /\ Count(e) \in Nat
      BY <2>4, ThreadAssumption DEF Thread, Producers, Consumers, Count
    <3>2. u[2] < i[s] + 1
      BY <3>1, <2>1, <2>2, <2>4
    <3>3. CASE u[2] < i[s]
      BY <3>3, <2>2, <2>3, <2>4, <1>1
    <3>4. CASE u[2] = i[s]
      <4>1. u = cell
        BY <3>1, <3>4, <2>4
      <4>2. thr_p[u] <= reg[u]
        BY <2>2, <2>4, <1>1 DEF CellsBelowTickets
      <4> QED
        BY <4>1, <4>2, <2>2, <2>4, <2>1, <1>1
    <3> QED
      BY <3>1, <3>2, <3>3, <3>4, <2>1
  <2> QED
    BY <1>1, <2>1, <2>2, <2>3, <2>4
<1> QED
  BY <1>3, <1>4, <1>5

LEMMA LastSoundStep ==
    ASSUME TypeOK, TypeOK', ScanSound, LastSound, NEW t \in Thread, Step(t)
    PROVE  LastSound'
<1> SUFFICES ASSUME NEW e \in Ends
             PROVE  /\ last'[e] <= q'[e]
                    /\ \A u \in Thread : u[1] = e /\ Pending(u)' => last'[e] <= reg'[u]
  BY DEF LastSound
<1>1. /\ q[e] \in Nat /\ q'[e] \in Nat /\ q[e] <= q'[e] /\ last[e] \in Nat
      /\ \A u \in Thread : reg[u] \in Nat
  BY StepEffect DEF TypeOK
<1>2. ASSUME NEW u \in Thread, u[1] = e, Pending(u)'
      PROVE  \/ Pending(u) /\ reg'[u] = reg[u]
             \/ ~Pending(u) /\ reg'[u] = q[e]
  BY <1>2, StepEffect DEF Claim, Goto, Pending
<1>3. CASE last'[e] = last[e]
  BY <1>1, <1>2, <1>3 DEF LastSound
<1>4. CASE last'[e] # last[e]
  <2>0. StoreLast(t)
    <3> SUFFICES ASSUME ~StoreLast(t) PROVE last' = last
      BY <1>4
    <3> QED
      BY DEF Step, Load, Announce, Claim, Record, TestLast, Bound, Scan,
             Retest, Copy, Release
  <2>1. StoreLast(t) /\ e = Other(t[1]) /\ last'[e] = min[t]
    BY <1>4, <2>0, ThreadEnd DEF StoreLast, TypeOK
  <2>2. pc[t] = "store" /\ min[t] \in Nat
    BY <2>1 DEF StoreLast, Goto, TypeOK
  <2>3. min[t] <= q[e] /\ \A u \in Thread : u[1] = e /\ Pending(u) => min[t] <= reg[u]
    BY <2>1, <2>2 DEF ScanSound
  <2> QED
    BY <1>1, <1>2, <2>1, <2>2, <2>3
<1> QED
  BY <1>3, <1>4

LEMMA AdmittedStep ==
    ASSUME TypeOK, TypeOK', CellsBelowTickets, LastSound, Admitted, NEW t \in Thread, Step(t)
    PROVE  Admitted'
<1> SUFFICES ASSUME NEW s \in Thread, pc'[s] = "copy"
             PROVE  IF s \in Producers THEN SpaceFor(reg[s])' ELSE AllWritten(reg[s])'
  BY DEF Admitted
<1>0. /\ Producers \subseteq Thread /\ Consumers \subseteq Thread
      /\ \A u \in Thread : reg[u] \in Nat /\ thr_p[u] \in Nat
      /\ last["head"] \in Nat /\ last["tail"] \in Nat
      /\ q["head"] \in Nat /\ q["tail"] \in Nat
  BY Ends2 DEF Thread, TypeOK
<1>1. reg[s] \in Nat
  BY <1>0
<1>2. reg'[s] = reg[s]
  <2>1. CASE s # t
    BY <2>1, StepEffect
  <2>2. CASE s = t
    <3>1. ~Load(t) /\ ~Claim(t)
      BY <2>2 DEF Load, Claim, Goto, TypeOK
    <3> QED
      BY <3>1 DEF Step, Announce, Record, TestLast, Bound, Scan, StoreLast,
                  Retest, Copy, Release
  <2> QED
    BY <2>1, <2>2
<1>3. IF s \in Producers THEN SpaceFor(reg[s]) ELSE AllWritten(reg[s])
  <2>1. CASE pc[s] = "copy"
    BY <2>1 DEF Admitted
  <2>2. CASE pc[s] # "copy"
    <3>1. s = t /\ pc[s] \in {"wait", "retest"} /\ ~MustWait(s)
      BY <2>2 DEF Step, Load, Announce, Claim, Record, TestLast, Bound, Scan,
                  StoreLast, Retest, Copy, Release, Goto, TypeOK
    <3>2. thr_p[s] = reg[s]
      BY <3>1 DEF CellsBelowTickets, Pending
    <3>3. CASE s \in Producers
      <4>1. reg[s] < last["tail"] + Q_SIZE
        BY <3>1, <3>2, <3>3, <1>0, SizeAssumption DEF MustWait
      <4>2. last["tail"] <= q["tail"]
            /\ \A c \in Consumers : Pending(c) => last["tail"] <= reg[c]
        BY <1>0, Ends2, ThreadEnd DEF LastSound
      <4> QED
        BY <4>1, <4>2, <3>3, <1>0, SizeAssumption DEF SpaceFor
    <3>4. CASE s \notin Producers
      <4>1. reg[s] < last["head"]
        BY <3>1, <3>2, <3>4, <1>0 DEF MustWait
      <4>2. last["head"] <= q["head"]
            /\ \A p \in Producers : Pending(p) => last["head"] <= reg[p]
        BY <1>0, Ends2, ThreadEnd DEF LastSound
      <4> QED
        BY <4>1, <4>2, <3>4, <1>0 DEF AllWritten
    <3> QED
      BY <3>3, <3>4
  <2> QED
    BY <2>1, <2>2
<1>4. SpaceFor(reg[s]) => (\A k \in Nat : k = reg[s] => SpaceFor(k)')
  BY <1>1, Stable
<1>5. AllWritten(reg[s]) => (\A k \in Nat : k = reg[s] => AllWritten(k)')
  BY <1>1, Stable
<1> QED
  BY <1>1, <1>2, <1>3, <1>4, <1>5 DEF SpaceFor, AllWritten

LEMMA DivMod ==
    ASSUME NEW n \in Nat, NEW d \in Nat, d > 0
    PROVE  n = d * (n \div d) + (n % d) /\ n \div d \in Nat /\ n % d \in 0 .. d - 1
<1>1. n = d * (n \div d) + (n % d)
  BY SMT
<1>2. n \div d \in Nat
  BY SMT
<1>3. n % d \in 0 .. d - 1
  BY SMT
<1> QED
  BY <1>1, <1>2, <1>3

\* Tickets that share a slot are a multiple of the queue's size apart.
LEMMA SameSlot ==
    ASSUME NEW a \in Nat, NEW b \in Nat, a < b, a % Q_SIZE = b % Q_SIZE
    PROVE  a + Q_SIZE <= b
<1> DEFINE x == a \div Q_SIZE
           y == b \div Q_SIZE
           r == a % Q_SIZE
<1>1. Q_SIZE \in Nat /\ Q_SIZE > 0
  BY SizeAssumption
<1>2. a = Q_SIZE * x + r /\ x \in Nat /\ r \in Nat
  BY <1>1, DivMod
<1>3. b = Q_SIZE * y + r /\ y \in Nat
  BY <1>1, DivMod
<1> HIDE DEF x, y, r
<1>4. Q_SIZE * x < Q_SIZE * y
  BY <1>1, <1>2, <1>3
<1>5. x < y
  BY <1>1, <1>2, <1>3, <1>4
<1>6. Q_SIZE * (x + 1) <= Q_SIZE * y
  BY <1>1, <1>2, <1>3, <1>5
<1>7. Q_SIZE * (x + 1) = Q_SIZE * x + Q_SIZE
  BY <1>1, <1>2
<1> QED
  BY <1>1, <1>2, <1>3, <1>6, <1>7

\* Tickets and the cells of threads that have one, as numbers.
LEMMA Tickets ==
    ASSUME TypeOK
    PROVE  /\ \A t \in Thread : reg[t] \in Nat /\ thr_p[t] \in Nat
           /\ q["head"] \in Nat /\ q["tail"] \in Nat
           /\ Producers \subseteq Thread /\ Consumers \subseteq Thread
BY Ends2 DEF TypeOK, Thread

\* The slot of a producer about to copy holds no packet still to be read.
LEMMA SlotIsFree ==
    ASSUME TypeOK, SlotsHold, Admitted, NEW p \in Producers, pc[p] = "copy",
           NEW k \in Nat, Written(k), ~Read(k)
    PROVE  k % Q_SIZE # reg[p] % Q_SIZE
<1> DEFINE a == reg[p]
<1>1. a \in Nat /\ Pending(p) /\ SpaceFor(a) /\ k # a
  BY Tickets DEF Admitted, Pending, Written
<1>2. k < q["head"] /\ SpaceFor(k)
  BY Tickets DEF Written, SlotsHold
<1>3. CASE k < a
  <2>1. ~(k + Q_SIZE <= a)
    <3>1. CASE k < q["tail"]
      <4>1. PICK c \in Consumers : Pending(c) /\ reg[c] = k
        BY <3>1 DEF Read
      <4> QED
        BY <4>1, <1>1, Tickets, SizeAssumption DEF SpaceFor
    <3>2. CASE ~(k < q["tail"])
      BY <3>2, <1>1, Tickets, SizeAssumption DEF SpaceFor
    <3> QED
      BY <3>1, <3>2
  <2> QED
    BY <2>1, <1>1, <1>3, SameSlot
<1>4. CASE a < k
  <2>1. ~(a + Q_SIZE <= k)
    <3> SUFFICES ASSUME a + Q_SIZE <= k PROVE FALSE
      OBVIOUS
    <3>1. a < q["tail"]
      BY <1>1, <1>2, Tickets, SizeAssumption DEF SpaceFor
    <3>2. CASE Read(a)
      <4>1. AllWritten(a)
        BY <3>1, <3>2, <1>1, Tickets DEF SlotsHold
      <4> QED
        BY <4>1, <1>1 DEF AllWritten
    <3>3. CASE ~Read(a)
      <4>1. PICK c \in Consumers : Pending(c) /\ reg[c] = a
        BY <3>1, <3>3 DEF Read
      <4> QED
        BY <4>1, <1>1, <1>2, Tickets, SizeAssumption DEF SpaceFor
    <3> QED
      BY <3>2, <3>3
  <2> QED
    BY <2>1, <1>1, <1>4, SameSlot
<1> QED
  BY <1>1, <1>3, <1>4

\* The history of pushed packets only grows.
LEMMA PushedGrows ==
    ASSUME TypeOK, NEW t \in Thread, Step(t), NEW k \in 0 .. q["head"] - 1
    PROVE  pushed'[k + 1] = pushed[k + 1]
<1>1. pushed \in Seq(Item) /\ Len(pushed) = q["head"] /\ q["head"] \in Nat
  BY Tickets DEF TypeOK
<1>2. CASE pushed' = pushed
  BY <1>2
<1>3. CASE pushed' # pushed
  <2>1. Claim(t)
    <3> SUFFICES ASSUME ~Claim(t) PROVE pushed' = pushed
      BY <1>3
    <3> QED
      BY DEF Step, Load, Announce, Record, TestLast, Bound, Scan, StoreLast,
             Retest, Copy, Release
  <2>2. pushed' = Append(pushed, Packet(t, sent[t])) /\ t \in Producers
    BY <1>3, <2>1 DEF Claim
  <2>3. Packet(t, sent[t]) \in Item
    BY <2>2 DEF Packet, Item, TypeOK
  <2> QED
    BY <1>1, <2>2, <2>3
<1> QED
  BY <1>2, <1>3

LEMMA PacketOfTicketStep ==
    ASSUME TypeOK, TypeOK', TicketsDistinct, PacketOfTicket, NEW t \in Thread, Step(t)
    PROVE  PacketOfTicket'
<1> SUFFICES ASSUME NEW p \in Producers, Pending(p)'
             PROVE  pushed'[reg'[p] + 1] = Packet(p, sent'[p])
  BY DEF PacketOfTicket, Packet
<1>1. p \in Thread /\ p[1] = "head" /\ reg[p] \in Nat
  BY Tickets, ThreadEnd
<1>2. CASE Pending(p) /\ reg'[p] = reg[p]
  <2>1. reg[p] \in 0 .. q["head"] - 1
    BY <1>1, <1>2, Tickets DEF TicketsDistinct
  <2>2. sent'[p] = sent[p]
    <3>1. CASE Release(t)
      <4>1. p # t
        BY <1>2, <3>1 DEF Release, Goto, Pending
      <4> QED
        BY <4>1, <3>1 DEF Release, TypeOK
    <3>2. CASE ~Release(t)
      BY <3>2 DEF Step, Load, Announce, Claim, Record, TestLast, Bound, Scan,
                  StoreLast, Retest, Copy
    <3> QED
      BY <3>1, <3>2
  <2> QED
    BY <2>1, <2>2, <1>2, PushedGrows DEF PacketOfTicket
<1>3. CASE p = t /\ Claim(t)
  <2>1. /\ pushed' = Append(pushed, Packet(p, sent[p]))
        /\ sent' = sent
        /\ reg'[p] = q["head"]
    BY <1>1, <1>3, StepEffect DEF Claim
  <2>2. pushed \in Seq(Item) /\ Len(pushed) = q["head"] /\ Packet(p, sent[p]) \in Item
    BY DEF TypeOK, Packet, Item
  <2> QED
    BY <2>1, <2>2
<1> QED
  BY <1>1, <1>2, <1>3, StepEffect

LEMMA SlotsHoldStep ==
    ASSUME TypeOK, TypeOK', CellsBelowTickets, Admitted, TicketsDistinct, SlotsHold,
           PacketOfTicket, NEW t \in Thread, Step(t)
    PROVE  SlotsHold'
<1>1. ASSUME NEW k \in 0 .. q'["head"] - 1, Written(k)'
      PROVE  SpaceFor(k)' /\ (Read(k)' \/ ptr_array'[k % Q_SIZE] = pushed'[k + 1])
  <2>1. k \in Nat /\ q["head"] \in Nat /\ q'["head"] \in Nat
    BY Tickets, StepEffect, Ends2
  <2>2. CASE Written(k)
    <3>1. k \in 0 .. q["head"] - 1
      BY <2>1, <2>2 DEF Written
    <3>2. SpaceFor(k)'
      BY <2>1, <2>2, <3>1, Stable DEF SlotsHold
    <3>3. CASE Read(k)
      BY <2>1, <3>2, <3>3, Stable
    <3>4. CASE ~Read(k)
      <4>1. ptr_array[k % Q_SIZE] = pushed[k + 1]
        BY <2>2, <3>1, <3>4 DEF SlotsHold
      <4>2. pushed'[k + 1] = pushed[k + 1]
        BY <3>1, PushedGrows
      <4>3. ptr_array'[k % Q_SIZE] = ptr_array[k % Q_SIZE]
        <5>1. CASE Copy(t) /\ t \in Producers
          <6>1. pc[t] = "copy" /\ thr_p[t] = reg[t]
            BY <5>1, Tickets DEF Copy, Goto, CellsBelowTickets, Pending
          <6>2. k % Q_SIZE # Slot(t)
            BY <6>1, <5>1, <2>1, <2>2, <3>4, SlotIsFree DEF Slot
          <6>3. k % Q_SIZE \in 0 .. Q_SIZE - 1
            BY <2>1, SizeAssumption
          <6>4. ptr_array' = [ptr_array EXCEPT ![Slot(t)] = Packet(t, sent[t])]
            BY <5>1, ThreadEnd DEF Copy
          <6> QED
            BY <6>2, <6>3, <6>4 DEF TypeOK
        <5>2. CASE ~(Copy(t) /\ t \in Producers)
          BY <5>2 DEF Step, Load, Announce, Claim, Record, TestLast, Bound, Scan,
                      StoreLast, Retest, Copy, Release
        <5> QED
          BY <5>1, <5>2
      <4> QED
        BY <3>2, <4>1, <4>2, <4>3
    <3> QED
      BY <3>3, <3>4
  <2>3. CASE ~Written(k)
    <3>1. t \in Producers /\ Copy(t) /\ reg[t] = k
      BY <1>1, <2>1, <2>3, Stable
    <3>2. pc[t] = "copy" /\ Pending(t) /\ thr_p[t] = k
      BY <3>1 DEF Copy, Goto, CellsBelowTickets, Pending
    <3>3. SpaceFor(k)'
      BY <2>1, <3>1, <3>2, Stable DEF Admitted
    <3>4. ptr_array'[k % Q_SIZE] = Packet(t, sent[t])
      <4>1. k % Q_SIZE \in 0 .. Q_SIZE - 1 /\ Slot(t) = k % Q_SIZE
        BY <2>1, <3>2, SizeAssumption DEF Slot
      <4>2. ptr_array' = [ptr_array EXCEPT ![Slot(t)] = Packet(t, sent[t])]
        BY <3>1, ThreadEnd DEF Copy
      <4> QED
        BY <4>1, <4>2 DEF TypeOK
    <3>5. pushed'[k + 1] = Packet(t, sent[t])
      BY <3>1, <3>2 DEF Copy, PacketOfTicket
    <3> QED
      BY <3>3, <3>4, <3>5
  <2> QED
    BY <2>2, <2>3
<1>2. ASSUME NEW k \in 0 .. q'["tail"] - 1, Read(k)'
      PROVE  AllWritten(k)'
  <2>1. k \in Nat /\ q["tail"] \in Nat
    BY Tickets, StepEffect, Ends2
  <2>2. CASE Read(k)
    <3>1. k \in 0 .. q["tail"] - 1
      BY <2>1, <2>2 DEF Read
    <3> QED
      BY <2>1, <2>2, <3>1, Stable DEF SlotsHold
  <2>3. CASE ~Read(k)
    <3>1. t \in Consumers /\ Copy(t) /\ reg[t] = k
      BY <1>2, <2>1, <2>3, Stable
    <3>2. pc[t] = "copy" /\ t \notin Producers
      BY <3>1, ThreadEnd DEF Copy, Goto
    <3> QED
      BY <2>1, <3>1, <3>2, Stable DEF Admitted
  <2> QED
    BY <2>2, <2>3
<1> QED
  BY <1>1, <1>2 DEF SlotsHold, Written, Read, SpaceFor, AllWritten

LEMMA DeliveredStep ==
    ASSUME TypeOK, TypeOK', CellsBelowTickets, Admitted, SlotsHold,
           DeliveredInTicketOrder, NEW t \in Thread, Step(t)
    PROVE  DeliveredInTicketOrder'
<1> SUFFICES ASSUME NEW c \in Consumers, pc'[c] = "release"
             PROVE  reg'[c] < Len(pushed') /\ el'[c] = pushed'[reg'[c] + 1]
  BY DEF DeliveredInTicketOrder
<1>1. /\ c \in Thread /\ c \notin Producers /\ reg[c] \in Nat
      /\ Len(pushed) = q["head"] /\ Len(pushed') = q'["head"]
      /\ q["head"] \in Nat /\ q'["head"] \in Nat /\ q["head"] <= q'["head"]
  BY Tickets, ThreadEnd, StepEffect, Ends2 DEF TypeOK
<1>2. CASE c # t
  <2>1. pc[c] = "release" /\ reg'[c] = reg[c]
    BY <1>1, <1>2, StepEffect
  <2>2. reg[c] \in 0 .. q["head"] - 1 /\ el[c] = pushed[reg[c] + 1]
    BY <1>1, <2>1 DEF DeliveredInTicketOrder
  <2>3. el'[c] = el[c]
    <3>1. CASE Copy(t)
      BY <3>1, <1>2 DEF Copy, TypeOK
    <3>2. CASE ~Copy(t)
      BY <3>2 DEF Step, Load, Announce, Claim, Record, TestLast, Bound, Scan,
                  StoreLast, Retest, Release
    <3> QED
      BY <3>1, <3>2
  <2> QED
    BY <1>1, <2>1, <2>2, <2>3, PushedGrows
<1>3. CASE c = t
  <2>1. Copy(t)
    <3> SUFFICES ASSUME ~Copy(t) PROVE pc'[t] # "release"
      BY <1>3
    <3> QED
      BY DEF Step, Load, Announce, Claim, Record, TestLast, Bound, Scan, StoreLast,
             Retest, Release, Goto, TypeOK
  <2>2. /\ pc[c] = "copy" /\ thr_p[c] = reg[c] /\ Pending(c)
        /\ reg'[c] = reg[c] /\ el'[c] = ptr_array[reg[c] % Q_SIZE]
    <3>1. pc[c] = "copy" /\ Pending(c) /\ reg'[c] = reg[c]
      BY <1>3, <2>1 DEF Copy, Goto, Pending
    <3>2. thr_p[c] = reg[c]
      BY <1>1, <3>1 DEF CellsBelowTickets
    <3>3. el \in [Consumers -> Item \cup {NoItem}] /\ c \notin Producers
      BY ThreadEnd DEF TypeOK, Thread
    <3>4. el'[c] = ptr_array[Slot(c)]
      BY <1>3, <2>1, <3>3 DEF Copy
    <3> QED
      BY <3>1, <3>2, <3>4 DEF Slot
  <2>3. AllWritten(reg[c])
    BY <1>1, <2>2 DEF Admitted
  <2>4. Written(reg[c]) /\ ~Read(reg[c]) /\ reg[c] \in 0 .. q["head"] - 1
    BY <1>1, <2>2, <2>3, Tickets DEF AllWritten, Written, Read
  <2>5. ptr_array[reg[c] % Q_SIZE] = pushed[reg[c] + 1]
    BY <2>4 DEF SlotsHold
  <2> QED
    BY <1>1, <2>2, <2>4, <2>5, PushedGrows
<1> QED
  BY <1>2, <1>3

-----------------------------------------------------------------------------
(* The invariant holds, and with it the properties the runs check. *)

THEOREM Invariance == Spec => []Inv
<1>1. Init => Inv
  <2>1. Init => TypeOK
    <3>1. ASSUME Init PROVE Len(pushed) = q["head"] /\ pushed \in Seq(Item)
      BY <3>1 DEF Init, Ends
    <3> QED
      BY <3>1, SizeAssumption, IdleAssumption DEF Init, TypeOK, Labels
  <2>2. ASSUME Init PROVE /\ \A t \in Thread : pc[t] = "idle"
                          /\ \A e \in Ends : q[e] = 0 /\ last[e] = 0
    BY <2>2 DEF Init
  <2>3. ASSUME Init
        PROVE  TicketsDistinct /\ CellsBelowTickets /\ ScanSound /\ LastSound /\ Admitted
    BY <2>2, <2>3 DEF TicketsDistinct, CellsBelowTickets, ScanSound, LastSound, Admitted, Pending
  <2>4. ASSUME Init PROVE SlotsHold
    BY <2>2, <2>4, Ends2 DEF SlotsHold
  <2>5. ASSUME Init PROVE PacketOfTicket /\ DeliveredInTicketOrder
    BY <2>2, <2>5 DEF PacketOfTicket, DeliveredInTicketOrder, Pending, Thread
  <2> QED
    BY <2>1, <2>3, <2>4, <2>5 DEF Inv
<1>2. Inv /\ TypeOK' /\ [Next]_vars => Inv'
  <2> SUFFICES ASSUME Inv, TypeOK', [Next]_vars PROVE Inv'
    OBVIOUS
  <2>1. ASSUME NEW t \in Thread, Step(t) PROVE Inv'
    BY <2>1, TicketsDistinctStep, CellsBelowTicketsStep, ScanSoundStep, LastSoundStep,
       AdmittedStep, SlotsHoldStep, PacketOfTicketStep, DeliveredStep
    DEF Inv
  <2>2. CASE UNCHANGED vars
    BY <2>2 DEF vars, Inv, TypeOK, TicketsDistinct, CellsBelowTickets, ScanSound,
       LastSound, Admitted, SlotsHold, PacketOfTicket, DeliveredInTicketOrder,
       Pending, Written, Read, SpaceFor, AllWritten
  <2> QED
    BY <2>1, <2>2 DEF Next, lfq_push, lfq_pop, Thread
<1> QED
  BY <1>1, <1>2, TypeCorrect, PTL DEF Spec

\* For any numbers of threads and any queue size, the published bounds never
\* pass a ticket still in use (the waits of lfq.c:61 and 91 are safe).
THEOREM BoundsAreSound == Spec => []LastSound
<1>1. Inv => LastSound
  BY DEF Inv
<1> QED
  BY <1>1, Invariance, PTL

\* Every pop obtains exactly the packet pushed with the same ticket (lfq.c:111).
THEOREM Delivery == Spec => []DeliveredInTicketOrder
<1>1. Inv => DeliveredInTicketOrder
  BY DEF Inv
<1> QED
  BY <1>1, Invariance, PTL

\* Two threads about to copy use different slots.
LEMMA NoTwoCopies ==
    ASSUME Inv, NEW t \in Thread, NEW u \in Thread, t # u,
           pc[t] = "copy", pc[u] = "copy", reg[t] <= reg[u]
    PROVE  Slot(t) # Slot(u)
<1> SUFFICES ASSUME Slot(t) = Slot(u) PROVE FALSE
  OBVIOUS
<1> USE DEF Inv
<1>1. /\ Pending(t) /\ Pending(u) /\ reg[t] \in Nat /\ reg[u] \in Nat
      /\ thr_p[t] = reg[t] /\ thr_p[u] = reg[u]
      /\ reg[t] % Q_SIZE = reg[u] % Q_SIZE
  BY Tickets DEF CellsBelowTickets, Pending, Slot
<1>2. reg[t] + Q_SIZE <= reg[u] \/ reg[t] = reg[u]
  BY <1>1, SameSlot
<1>3. Q_SIZE \in Nat /\ Q_SIZE > 0
  BY SizeAssumption
<1>4. CASE t \in Producers /\ u \in Producers
  <2>2. SpaceFor(reg[u]) /\ reg[t] # reg[u] /\ reg[t] < q["head"]
    BY <1>1, <1>4, ThreadEnd DEF Admitted, TicketsDistinct
  <2>3. reg[t] < q["tail"]
    BY <1>1, <1>2, <1>3, <2>2, Tickets DEF SpaceFor
  <2>4. CASE Read(reg[t])
    <3>1. AllWritten(reg[t])
      BY <1>1, <2>3, <2>4, Tickets DEF SlotsHold
    <3> QED
      BY <3>1, <1>1, <1>4 DEF AllWritten
  <2>5. CASE ~Read(reg[t])
    <3>1. PICK c \in Consumers : Pending(c) /\ reg[c] = reg[t]
      BY <2>3, <2>5 DEF Read
    <3> QED
      BY <3>1, <1>1, <1>2, <1>3, <2>2 DEF SpaceFor
  <2> QED
    BY <2>4, <2>5
<1>5. CASE t \in Producers /\ u \in Consumers
  <2>1. AllWritten(reg[u])
    BY <1>5, ThreadEnd DEF Admitted
  <2> QED
    BY <2>1, <1>1, <1>5 DEF AllWritten
<1>6. CASE t \in Consumers /\ u \in Producers
  <2>1. SpaceFor(reg[u]) /\ AllWritten(reg[t])
    BY <1>6, ThreadEnd DEF Admitted
  <2> QED
    BY <2>1, <1>1, <1>2, <1>3, <1>6 DEF SpaceFor, AllWritten
<1>7. CASE t \in Consumers /\ u \in Consumers
  <2>1. AllWritten(reg[u]) /\ reg[t] # reg[u]
    BY <1>1, <1>7, ThreadEnd DEF Admitted, TicketsDistinct
  <2>2. Written(reg[u]) /\ reg[u] \in 0 .. q["head"] - 1
    BY <2>1, <1>1, Tickets DEF AllWritten, Written
  <2>3. SpaceFor(reg[u])
    BY <2>2 DEF SlotsHold
  <2> QED
    BY <2>1, <2>3, <1>1, <1>2, <1>3, <1>7 DEF SpaceFor
<1> QED
  BY <1>4, <1>5, <1>6, <1>7 DEF Thread

\* Two memcpys into or out of ptr_array never overlap (lfq.c:81, 111).
THEOREM NoRace == Spec => []NoSlotRace
<1>1. Inv => NoSlotRace
  <2> SUFFICES ASSUME Inv, NEW t \in Thread, NEW u \in Thread, t # u,
                      pc[t] = "copy", pc[u] = "copy"
               PROVE  Slot(t) # Slot(u)
    BY DEF NoSlotRace
  <2>1. reg[t] \in Nat /\ reg[u] \in Nat
    BY Tickets DEF Inv
  <2>2. CASE reg[t] <= reg[u]
    BY <2>2, NoTwoCopies
  <2>3. CASE reg[u] <= reg[t]
    BY <2>3, NoTwoCopies
  <2> QED
    BY <2>1, <2>2, <2>3
<1> QED
  BY <1>1, Invariance, PTL

-----------------------------------------------------------------------------
(* The queue implements PacketQueue. *)

\* There is one consumer for each ticket that has no packet yet.
WaitersKnown ==
    /\ Waiting \in [1 .. q["tail"] - q["head"] -> Consumers]
    /\ \A k \in 1 .. q["tail"] - q["head"] :
           Pending(Waiting[k]) /\ reg[Waiting[k]] = q["head"] + k - 1

LEMMA Waiters == Inv => WaitersKnown
<1> SUFFICES ASSUME Inv PROVE WaitersKnown
  OBVIOUS
<1>1. PICK h \in Nat, l \in Nat : h = q["head"] /\ l = q["tail"]
  BY Tickets DEF Inv
<1>2. ASSUME NEW k \in 1 .. l - h
      PROVE  \E c \in Consumers : Pending(c) /\ reg[c] = h + k - 1
  <2>1. h + k - 1 \in 0 .. l - 1 /\ ~(h + k - 1 < h) /\ h + k - 1 < l
    BY <1>1
  <2>2. ~Read(h + k - 1)
    BY <1>1, <2>1 DEF Inv, SlotsHold, AllWritten
  <2> QED
    BY <1>1, <2>1, <2>2 DEF Read
<1>3. Waiting = [k \in 1 .. l - h |->
                    CHOOSE c \in Consumers : Pending(c) /\ reg[c] = h + k - 1]
  BY <1>1 DEF Waiting
<1>4. ASSUME NEW k \in 1 .. l - h
      PROVE  /\ Waiting[k] \in Consumers
             /\ Pending(Waiting[k]) /\ reg[Waiting[k]] = h + k - 1
  BY <1>2, <1>3
<1>5. Waiting \in [1 .. l - h -> Consumers]
  BY <1>3, <1>4
<1> QED
  BY <1>1, <1>4, <1>5 DEF WaitersKnown

LEMMA WaitersThen == Inv' => WaitersKnown'
BY Waiters, PTL

LEMMA AppendHolds ==
    ASSUME NEW S, NEW f \in Seq(S), NEW x \in S, NEW r, r = Append(f, x)
    PROVE  /\ r \in Seq(S) /\ Len(r) = Len(f) + 1
           /\ \A k \in 1 .. Len(f) : r[k] = f[k]
           /\ r[Len(f) + 1] = x
BY AppendProperties

LEMMA AppendIs ==
    ASSUME NEW S, NEW n \in Nat, NEW x \in S, NEW f \in [1 .. n -> S],
           NEW r \in [1 .. n + 1 -> S], \A k \in 1 .. n : r[k] = f[k], r[n + 1] = x
    PROVE  r = Append(f, x)
<1>1. f \in Seq(S) /\ Len(f) = n
  OBVIOUS
<1>2. PICK a : a = Append(f, x)
  OBVIOUS
<1>3. a \in [1 .. n + 1 -> S] /\ a[n + 1] = x /\ \A k \in 1 .. n : a[k] = f[k]
  <2>1. a \in Seq(S) /\ Len(a) = n + 1
    BY <1>1, <1>2, AppendProperties
  <2>2. a[n + 1] = x /\ \A k \in 1 .. n : a[k] = f[k]
    BY <1>1, <1>2, AppendProperties
  <2> QED
    BY <2>1, <2>2, LenProperties
<1>4. \A k \in 1 .. n + 1 : a[k] = r[k]
  BY <1>3
<1>5. a = r
  BY <1>3, <1>4
<1> QED
  BY <1>2, <1>5

LEMMA TailIs ==
    ASSUME NEW S, NEW n \in Nat, NEW f \in [1 .. n + 1 -> S],
           NEW r \in [1 .. n -> S], \A k \in 1 .. n : r[k] = f[k + 1]
    PROVE  r = Tail(f) /\ Head(f) = f[1] /\ f # <<>>
<1>1. f \in Seq(S) /\ Len(f) = n + 1
  OBVIOUS
<1>2. PICK a : a = Tail(f)
  OBVIOUS
<1>3. a \in [1 .. n -> S] /\ \A k \in 1 .. n : a[k] = f[k + 1]
  <2>1. f # <<>>
    BY <1>1
  <2>2. a \in Seq(S) /\ Len(a) = n
    BY <1>1, <1>2, <2>1, HeadTailProperties
  <2>3. \A k \in 1 .. n : a[k] = f[k + 1]
    BY <1>1, <1>2, <2>1, HeadTailProperties
  <2> QED
    BY <2>2, <2>3, LenProperties
<1>4. a = r
  BY <1>3
<1>5. Head(f) = f[1] /\ f # <<>>
  BY <1>1
<1> QED
  BY <1>2, <1>4, <1>5


\* Nobody waits while packets wait, and the other way round.
OneSideWaits ==
    /\ q["tail"] <= q["head"] => Waiting = <<>>
    /\ q["head"] <= q["tail"] => Queue = <<>>

LEMMA OneSide == TypeOK => OneSideWaits
<1> SUFFICES ASSUME TypeOK PROVE OneSideWaits
  OBVIOUS
<1>1. PICK h \in Nat, l \in Nat : h = q["head"] /\ l = q["tail"]
  BY Tickets
<1>2. ASSUME l <= h PROVE 1 .. l - h = {}
  BY <1>2
<1>3. ASSUME h <= l PROVE 1 .. h - l = {}
  BY <1>3
<1> QED
  BY <1>1, <1>2, <1>3 DEF OneSideWaits, Waiting, Queue

LEMMA OneSideThen == TypeOK' => OneSideWaits'
BY OneSide, PTL

\* The packets in the queue.
LEMMA QueueHolds ==
    ASSUME TypeOK, NEW h \in Nat, NEW l \in Nat, h = q["head"], l = q["tail"]
    PROVE  /\ Queue \in [1 .. h - l -> Item]
           /\ \A k \in 1 .. h - l : Queue[k] = pushed[l + k]
<1>1. pushed \in [1 .. h -> Item]
  BY DEF TypeOK
<1>2. \A k \in 1 .. h - l : l + k \in 1 .. h
  OBVIOUS
<1>3. Queue = [k \in 1 .. h - l |-> pushed[l + k]]
  BY DEF Queue
<1> QED
  BY <1>1, <1>2, <1>3

\* What a claim changes, for a producer and for a consumer.
LEMMA ClaimMoves ==
    ASSUME TypeOK, NEW t \in Thread, Claim(t)
    PROVE  /\ ~Pending(t) /\ pc[t] # "release" /\ pc'[t] = "record"
           /\ Pending(t)' /\ reg'[t] = q[t[1]]
           /\ \A u \in Thread : u # t => pc'[u] = pc[u] /\ reg'[u] = reg[u]
           /\ UNCHANGED <<sent, el>>
           /\ t \in Producers =>
                  /\ q'["head"] = q["head"] + 1 /\ q'["tail"] = q["tail"]
                  /\ pushed' = Append(pushed, Packet(t, sent[t]))
           /\ t \in Consumers =>
                  /\ q'["tail"] = q["tail"] + 1 /\ q'["head"] = q["head"]
                  /\ pushed' = pushed
<1>1. t[1] \in Ends /\ (t \in Producers <=> t[1] = "head") /\ (t \in Consumers <=> t[1] = "tail")
  BY ThreadEnd
<1>2. pc \in [Thread -> Labels] /\ reg \in [Thread -> Nat] /\ q \in [Ends -> Nat]
  BY DEF TypeOK
<1> QED
  BY <1>1, <1>2, Ends2 DEF Claim, Goto, Pending

LEMMA SentThen ==
    ASSUME TypeOK, NEW p \in Producers, Claim(p)
    PROVE  Sent[p] = sent[p] /\ Sent' = [Sent EXCEPT ![p] = @ + 1]
<1>1. Sent[p] = sent[p] + 0
  BY ClaimMoves DEF Sent, Thread
<1>2. sent \in [Producers -> Nat] /\ Producers \subseteq Thread
  BY DEF TypeOK, Thread
<1>3. ASSUME NEW u \in Producers, u # p PROVE Sent'[u] = Sent[u]
  <2>1. (Pending(u)' <=> Pending(u)) /\ pc'[u] = pc[u] /\ sent' = sent
    <3>1. p \in Thread /\ u \in Thread
      BY <1>2
    <3>2. pc'[u] = pc[u] /\ sent' = sent
      BY <1>3, <3>1, ClaimMoves
    <3> QED
      BY <3>2 DEF Pending
  <2> QED
    BY <2>1 DEF Sent
<1>4. Sent'[p] = sent[p] + 1
  BY <1>2, ClaimMoves DEF Sent
<1>5. Sent[p] = sent[p]
  BY <1>1, <1>2
<1> QED
  BY <1>3, <1>4, <1>5 DEF Sent

\* A packet that finds nobody waiting is queued.
LEMMA PutQueuedStep ==
    ASSUME Inv, Inv', NEW p \in Producers, Claim(p), q["tail"] <= q["head"]
    PROVE  Abstract!PutQueued(p)
<1>1. PICK h \in Nat, l \in Nat : h = q["head"] /\ l = q["tail"]
  BY Tickets DEF Inv
<1>2. /\ p \in Thread /\ l <= h /\ q'["head"] = h + 1 /\ q'["tail"] = l
      /\ pushed' = Append(pushed, Packet(p, sent[p]))
  BY <1>1, ClaimMoves DEF Inv, Thread
<1>3. TypeOK /\ TypeOK' /\ pushed \in Seq(Item) /\ Len(pushed) = h
  BY <1>1 DEF Inv, TypeOK
<1>4. Packet(p, sent[p]) \in Item /\ Packet(p, sent[p]) = <<p, Sent[p]>>
  BY <1>3, SentThen DEF Packet, Item, TypeOK
<1>5. Waiting = <<>> /\ Waiting' = <<>>
  <2>1. q'["tail"] <= q'["head"]
    BY <1>2
  <2> QED
    BY <1>1, <1>2, <1>3, <2>1, OneSide, OneSideThen DEF OneSideWaits
<1>6. /\ \A k \in 1 .. h : pushed'[k] = pushed[k]
      /\ pushed'[h + 1] = Packet(p, sent[p])
      /\ pushed' \in [1 .. h + 1 -> Item]
  <2>1. /\ pushed' \in Seq(Item) /\ Len(pushed') = h + 1
        /\ \A k \in 1 .. h : pushed'[k] = pushed[k]
        /\ pushed'[h + 1] = Packet(p, sent[p])
    <3>1. PICK x \in Item : x = Packet(p, sent[p])
      BY <1>4
    <3>2. PICK a : a = pushed' /\ a = Append(pushed, x)
      BY <1>2, <3>1
    <3> QED
      BY <1>3, <3>1, <3>2, AppendHolds
  <2> QED
    BY <2>1, LenProperties
<1>7. Queue' = Append(Queue, <<p, Sent[p]>>)
  <2>1. PICK n \in Nat : n = h - l
    BY <1>2
  <2>2. Queue \in [1 .. n -> Item] /\ \A k \in 1 .. n : Queue[k] = pushed[l + k]
    BY <1>1, <1>3, <2>1, QueueHolds
  <2>3. Queue' = [k \in 1 .. n + 1 |-> pushed'[l + k]]
    <3>1. q'["head"] - q'["tail"] = n + 1
      BY <1>2, <2>1
    <3> QED
      BY <1>2, <3>1 DEF Queue
  <2>4. \A k \in 1 .. n + 1 : l + k \in 1 .. h + 1
    BY <2>1
  <2>5. Queue' \in [1 .. n + 1 -> Item]
    BY <1>6, <2>3, <2>4
  <2>6. \A k \in 1 .. n : Queue'[k] = Queue[k]
    <3>1. \A k \in 1 .. n : l + k \in 1 .. h /\ k \in 1 .. n + 1
      BY <2>1
    <3> QED
      BY <1>6, <2>2, <2>3, <3>1
  <2>7. Queue'[n + 1] = Packet(p, sent[p])
    <3>1. n + 1 \in 1 .. n + 1 /\ l + (n + 1) = h + 1
      BY <2>1
    <3> QED
      BY <1>6, <2>3, <3>1
  <2> QED
    BY <1>4, <2>2, <2>5, <2>6, <2>7, AppendIs
<1>8. Got' = Got
  <2>1. ASSUME NEW c \in Consumers PROVE Got'[c] = Got[c]
    <3>1. c \in Thread /\ c # p /\ reg[c] \in Nat
      BY <1>3, Tickets DEF Producers, Consumers
    <3>2. /\ Pending(c)' <=> Pending(c)
          /\ reg'[c] = reg[c]
      <4>1. pc'[c] = pc[c] /\ reg'[c] = reg[c]
        BY <1>2, <1>3, <3>1, ClaimMoves
      <4> QED
        BY <4>1 DEF Pending
    <3>3. Pending(c) => reg[c] < l
      <4>1. c[1] = "tail"
        BY DEF Consumers
      <4> QED
        BY <1>1, <3>1, <4>1 DEF Inv, TicketsDistinct
    <3>4. Pending(c) => reg[c] < h /\ reg[c] < h + 1 /\ reg[c] + 1 \in 1 .. h
      BY <1>2, <3>1, <3>3
    <3>5. Assigned(c) <=> Pending(c)
      BY <1>1, <3>4 DEF Assigned
    <3>6. Assigned(c)' <=> Pending(c)
      BY <1>2, <3>2, <3>4 DEF Assigned
    <3> QED
      BY <1>6, <3>2, <3>4, <3>5, <3>6 DEF Got
  <2> QED
    BY <2>1 DEF Got
<1> QED
  BY <1>2, <1>3, <1>5, <1>7, <1>8, SentThen, ClaimMoves DEF Abstract!PutQueued

LEMMA OneWaiter ==
    ASSUME Inv, NEW c \in Consumers, NEW d \in Consumers,
           Pending(c), Pending(d), reg[c] = reg[d]
    PROVE  c = d
BY DEF Inv, TicketsDistinct, Thread, Consumers

\* The ticket of a consumer that waits or is about to get its packet.
LEMMA ConsumerTicket ==
    ASSUME Inv, NEW c \in Consumers
    PROVE  /\ c \in Thread /\ c \notin Producers /\ reg[c] \in Nat
           /\ Pending(c) => reg[c] < q["tail"]
BY ThreadEnd DEF Inv, TypeOK, TicketsDistinct, Thread

\* A packet that finds a consumer waiting is its.
LEMMA PutServedStep ==
    ASSUME Inv, Inv', NEW p \in Producers, Claim(p), q["head"] < q["tail"]
    PROVE  Abstract!PutServed(p)
<1>1. PICK h \in Nat, l \in Nat : h = q["head"] /\ l = q["tail"]
  BY Tickets DEF Inv
<1>2. /\ p \in Thread /\ h < l /\ q'["head"] = h + 1 /\ q'["tail"] = l
      /\ pushed' = Append(pushed, Packet(p, sent[p]))
  BY <1>1, ClaimMoves DEF Inv, Thread
<1>3. TypeOK /\ TypeOK' /\ pushed \in Seq(Item) /\ Len(pushed) = h
  BY <1>1 DEF Inv, TypeOK
<1>4. Packet(p, sent[p]) \in Item /\ Packet(p, sent[p]) = <<p, Sent[p]>>
  BY <1>3, SentThen DEF Packet, Item, TypeOK
<1>5. Queue = <<>> /\ Queue' = <<>>
  <2>1. q'["head"] <= q'["tail"] /\ q["head"] <= q["tail"]
    BY <1>1, <1>2
  <2> QED
    BY <1>3, <2>1, OneSide, OneSideThen DEF OneSideWaits
<1>6. /\ \A k \in 1 .. h : pushed'[k] = pushed[k]
      /\ pushed'[h + 1] = Packet(p, sent[p])
  <2>1. PICK x \in Item : x = Packet(p, sent[p])
    BY <1>4
  <2>2. PICK a : a = pushed' /\ a = Append(pushed, x)
    BY <1>2, <2>1
  <2> QED
    BY <1>3, <2>1, <2>2, AppendHolds
<1>7. ASSUME NEW c \in Consumers
      PROVE  /\ c \in Thread /\ reg[c] \in Nat /\ reg'[c] = reg[c]
             /\ Pending(c)' <=> Pending(c)
  <2>1. c \in Thread /\ c # p /\ reg[c] \in Nat
    BY ConsumerTicket
  <2>2. pc'[c] = pc[c] /\ reg'[c] = reg[c]
    BY <1>2, <1>3, <2>1, ClaimMoves
  <2> QED
    BY <2>1, <2>2 DEF Pending
<1>8. PICK n \in Nat : l - h = n + 1 /\ l - (h + 1) = n
  <2>1. l - h - 1 \in Nat
    BY <1>2
  <2> QED
    BY <2>1
<1>9. /\ Waiting \in [1 .. n + 1 -> Consumers]
      /\ \A k \in 1 .. n + 1 : Pending(Waiting[k]) /\ reg[Waiting[k]] = h + k - 1
  BY <1>1, <1>8, Waiters DEF WaitersKnown
<1>10. PICK v : v = Waiting'
  OBVIOUS
<1>11. /\ v \in [1 .. n -> Consumers]
       /\ \A k \in 1 .. n : Pending(v[k]) /\ reg[v[k]] = h + k
  <2>1. /\ v \in [1 .. n -> Consumers]
        /\ \A k \in 1 .. n : pc'[v[k]] \in {"record", "wait", "bound", "scan", "store",
                                             "retest", "copy"}
        /\ \A k \in 1 .. n : reg'[v[k]] = h + 1 + k - 1
    BY <1>2, <1>8, <1>10, WaitersThen DEF WaitersKnown, Pending
  <2>2. ASSUME NEW k \in 1 .. n PROVE Pending(v[k]) /\ reg[v[k]] = h + k
    <3>1. PICK c \in Consumers : c = v[k]
      BY <2>1
    <3>2. Pending(c)' /\ reg'[c] = h + k
      BY <2>1, <3>1 DEF Pending
    <3> QED
      BY <1>7, <3>1, <3>2
  <2> QED
    BY <2>1, <2>2
<1>12. v = Tail(Waiting) /\ Head(Waiting) = Waiting[1] /\ Waiting # <<>>
  <2>1. \A k \in 1 .. n : v[k] = Waiting[k + 1]
    <3> TAKE k \in 1 .. n
    <3>1. k + 1 \in 1 .. n + 1
      OBVIOUS
    <3>2. Pending(Waiting[k + 1]) /\ reg[Waiting[k + 1]] = h + k
      BY <1>9, <3>1
    <3>3. PICK c \in Consumers, d \in Consumers : c = v[k] /\ d = Waiting[k + 1]
      BY <1>9, <1>11, <3>1
    <3> QED
      BY <1>11, <3>2, <3>3, OneWaiter
  <2> QED
    BY <1>9, <1>11, <2>1, TailIs
<1>13. PICK w \in Consumers : w = Head(Waiting) /\ Pending(w) /\ reg[w] = h
  <2>1. 1 \in 1 .. n + 1
    OBVIOUS
  <2>2. Waiting[1] \in Consumers /\ Pending(Waiting[1]) /\ reg[Waiting[1]] = h
    BY <1>9, <2>1
  <2> QED
    BY <1>12, <2>2
<1>14. Got' = [Got EXCEPT ![w] = Packet(p, sent[p])]
  <2>1. ASSUME NEW c \in Consumers, c # w PROVE Got'[c] = Got[c]
    <3>1. Pending(c) => reg[c] # h
      BY <1>13, <2>1, OneWaiter
    <3>2. Assigned(c)' <=> Assigned(c)
      BY <1>1, <1>2, <1>7, <3>1 DEF Assigned
    <3>3. Assigned(c) => reg[c] + 1 \in 1 .. h
      BY <1>1, <1>7 DEF Assigned
    <3> QED
      BY <1>6, <1>7, <3>2, <3>3 DEF Got
  <2>2. Got'[w] = Packet(p, sent[p])
    <3>1. Assigned(w)' /\ reg'[w] = h
      BY <1>2, <1>7, <1>13 DEF Assigned
    <3> QED
      BY <1>6, <3>1 DEF Got
  <2> QED
    BY <2>1, <2>2 DEF Got
<1> QED
  BY <1>2, <1>3, <1>4, <1>5, <1>10, <1>12, <1>13, <1>14, SentThen, ClaimMoves
  DEF Abstract!PutServed

LEMMA ItemsAre == \A x \in Item : x # NoItem
BY ItemAssumption

\* A consumer that comes while packets wait gets the first.
LEMMA AskServedStep ==
    ASSUME Inv, Inv', NEW c \in Consumers, Claim(c), q["tail"] < q["head"]
    PROVE  Abstract!AskServed(c)
<1>1. PICK h \in Nat, l \in Nat : h = q["head"] /\ l = q["tail"]
  BY Tickets DEF Inv
<1>2. /\ c \in Thread /\ c[1] = "tail" /\ l < h
      /\ q'["head"] = h /\ q'["tail"] = l + 1 /\ pushed' = pushed
      /\ ~Pending(c) /\ pc'[c] = "record" /\ reg'[c] = l
  BY <1>1, ClaimMoves DEF Inv, Thread, Consumers
<1>3. TypeOK /\ TypeOK' /\ pushed \in [1 .. h -> Item]
  <2>1. TypeOK /\ TypeOK'
    BY DEF Inv
  <2>2. pushed \in Seq(Item) /\ Len(pushed) = h
    BY <1>1, <2>1 DEF TypeOK
  <2> QED
    BY <2>1, <2>2
<1>4. Waiting = <<>> /\ Waiting' = <<>>
  <2>1. q'["tail"] <= q'["head"] /\ q["tail"] <= q["head"]
    BY <1>1, <1>2
  <2> QED
    BY <1>3, <2>1, OneSide, OneSideThen DEF OneSideWaits
<1>5. PICK n \in Nat : h - l = n + 1 /\ h - (l + 1) = n
  <2>1. h - l - 1 \in Nat
    BY <1>2
  <2> QED
    BY <2>1
<1>6. Queue \in [1 .. n + 1 -> Item] /\ \A k \in 1 .. n + 1 : Queue[k] = pushed[l + k]
  <2>1. Queue \in [1 .. h - l -> Item] /\ \A k \in 1 .. h - l : Queue[k] = pushed[l + k]
    BY <1>1, <1>3, QueueHolds
  <2> QED
    BY <1>5, <2>1
<1>7. /\ Queue' \in [1 .. n -> Item]
      /\ \A k \in 1 .. n : Queue'[k] = pushed[l + 1 + k]
  <2>1. Queue' = [k \in 1 .. n |-> pushed[l + 1 + k]]
    BY <1>2, <1>5 DEF Queue
  <2>2. \A k \in 1 .. n : l + 1 + k \in 1 .. h
    BY <1>5
  <2> QED
    BY <1>3, <2>1, <2>2
<1>8. Queue' = Tail(Queue) /\ Head(Queue) = Queue[1] /\ Queue # <<>>
  <2>1. \A k \in 1 .. n : Queue'[k] = Queue[k + 1]
    <3> TAKE k \in 1 .. n
    <3>1. k + 1 \in 1 .. n + 1 /\ l + (k + 1) = l + 1 + k
      OBVIOUS
    <3> QED
      BY <1>6, <1>7, <3>1
  <2> QED
    BY <1>6, <1>7, <2>1, TailIs
<1>9. Head(Queue) = pushed[l + 1]
  <2>1. 1 \in 1 .. n + 1
    OBVIOUS
  <2> QED
    BY <1>6, <1>8, <2>1
<1>10. Got[c] = NoItem
  BY <1>2 DEF Got, Assigned
<1>11. Got' = [Got EXCEPT ![c] = pushed[l + 1]]
  <2>1. ASSUME NEW d \in Consumers, d # c PROVE Got'[d] = Got[d]
    <3>1. pc'[d] = pc[d] /\ reg'[d] = reg[d]
      BY <1>2, <1>3, <2>1, ConsumerTicket, ClaimMoves
    <3>2. Assigned(d)' <=> Assigned(d)
      BY <1>1, <1>2, <3>1 DEF Assigned, Pending
    <3> QED
      BY <1>2, <3>1, <3>2 DEF Got
  <2>2. Got'[c] = pushed[l + 1]
    <3>1. Assigned(c)' /\ reg'[c] = l
      BY <1>2 DEF Assigned, Pending
    <3> QED
      BY <1>2, <3>1 DEF Got
  <2> QED
    BY <2>1, <2>2 DEF Got
<1>12. Sent' = Sent
  <2>1. ASSUME NEW p \in Producers PROVE Sent'[p] = Sent[p]
    <3>1. p \in Thread /\ p # c
      BY ConsumerTicket DEF Thread
    <3>2. pc'[p] = pc[p] /\ sent' = sent
      BY <1>2, <1>3, <3>1, ClaimMoves
    <3> QED
      BY <3>2 DEF Sent, Pending
  <2> QED
    BY <2>1 DEF Sent
<1>13. el' = el
  BY DEF Claim
<1> QED
  BY <1>4, <1>8, <1>9, <1>10, <1>11, <1>12, <1>13 DEF Abstract!AskServed

\* A consumer that comes while no packet waits is the last to wait.
LEMMA AskWaitsStep ==
    ASSUME Inv, Inv', NEW c \in Consumers, Claim(c), q["head"] <= q["tail"]
    PROVE  Abstract!AskWaits(c)
<1>1. PICK h \in Nat, l \in Nat : h = q["head"] /\ l = q["tail"]
  BY Tickets DEF Inv
<1>2. /\ c \in Thread /\ c[1] = "tail" /\ h <= l
      /\ q'["head"] = h /\ q'["tail"] = l + 1 /\ pushed' = pushed
      /\ ~Pending(c) /\ pc'[c] = "record" /\ reg'[c] = l
  BY <1>1, ClaimMoves DEF Inv, Thread, Consumers
<1>3. TypeOK /\ TypeOK'
  BY DEF Inv
<1>4. Queue = <<>> /\ Queue' = <<>>
  <2>1. q'["head"] <= q'["tail"] /\ q["head"] <= q["tail"]
    BY <1>1, <1>2
  <2> QED
    BY <1>3, <2>1, OneSide, OneSideThen DEF OneSideWaits
<1>5. PICK n \in Nat : l - h = n /\ l + 1 - h = n + 1
  <2>1. l - h \in Nat
    BY <1>2
  <2> QED
    BY <2>1
<1>6. /\ Waiting \in [1 .. n -> Consumers]
      /\ \A k \in 1 .. n : Pending(Waiting[k]) /\ reg[Waiting[k]] = h + k - 1
  BY <1>1, <1>5, Waiters DEF WaitersKnown
<1>7. PICK v : v = Waiting'
  OBVIOUS
<1>8. /\ v \in [1 .. n + 1 -> Consumers]
      /\ \A k \in 1 .. n + 1 : pc'[v[k]] \in {"record", "wait", "bound", "scan", "store",
                                             "retest", "copy"}
      /\ \A k \in 1 .. n + 1 : reg'[v[k]] = h + k - 1
  BY <1>2, <1>5, <1>7, WaitersThen DEF WaitersKnown, Pending
<1>9. ASSUME NEW d \in Consumers, d # c
      PROVE  pc'[d] = pc[d] /\ reg'[d] = reg[d]
  BY <1>2, <1>3, <1>9, ConsumerTicket, ClaimMoves
<1>10. ASSUME NEW k \in 1 .. n PROVE v[k] = Waiting[k]
  <2>1. PICK a \in Consumers, d \in Consumers : a = v[k] /\ d = Waiting[k]
    BY <1>6, <1>8
  <2>2. a # c
    <3>1. reg'[a] = h + k - 1 /\ h + k - 1 < l
      BY <1>5, <1>8, <2>1
    <3> QED
      BY <1>2, <3>1
  <2>3. Pending(a) /\ reg[a] = h + k - 1
    BY <1>8, <1>9, <2>1, <2>2 DEF Pending
  <2> QED
    BY <1>6, <2>1, <2>3, OneWaiter
<1>11. v[n + 1] = c
  <2>1. PICK a \in Consumers : a = v[n + 1]
    BY <1>8
  <2> SUFFICES ASSUME a # c PROVE FALSE
    BY <2>1
  <2>2. n + 1 \in 1 .. n + 1 /\ h + (n + 1) - 1 = l
    BY <1>5
  <2>3. Pending(a) /\ reg[a] = l
    BY <1>8, <1>9, <2>1, <2>2 DEF Pending
  <2> QED
    BY <1>1, <2>3, ConsumerTicket
<1>12. v = Append(Waiting, c)
  BY <1>6, <1>8, <1>10, <1>11, AppendIs
<1>13. Got[c] = NoItem
  BY <1>2 DEF Got, Assigned
<1>14. Got' = Got
  <2>1. ASSUME NEW d \in Consumers, d # c PROVE Got'[d] = Got[d]
    <3>1. pc'[d] = pc[d] /\ reg'[d] = reg[d]
      BY <1>9, <2>1
    <3>2. Assigned(d)' <=> Assigned(d)
      BY <1>1, <1>2, <3>1 DEF Assigned, Pending
    <3> QED
      BY <1>2, <3>1, <3>2 DEF Got
  <2>2. Got'[c] = NoItem
    <3>1. ~(Assigned(c)')
      BY <1>2 DEF Assigned
    <3> QED
      BY <3>1 DEF Got
  <2> QED
    BY <1>13, <2>1, <2>2 DEF Got
<1>15. Sent' = Sent
  <2>1. ASSUME NEW p \in Producers PROVE Sent'[p] = Sent[p]
    <3>1. p \in Thread /\ p # c
      BY ConsumerTicket DEF Thread
    <3>2. pc'[p] = pc[p] /\ sent' = sent
      BY <1>2, <1>3, <3>1, ClaimMoves
    <3> QED
      BY <3>2 DEF Sent, Pending
  <2> QED
    BY <2>1 DEF Sent
<1>16. el' = el
  BY DEF Claim
<1>17. \A k \in DOMAIN Waiting : Waiting[k] # c
  BY <1>2, <1>6
<1> QED
  BY <1>4, <1>7, <1>12, <1>13, <1>14, <1>15, <1>16, <1>17 DEF Abstract!AskWaits

\* The copy ends a pop; for the queue a push ended with its ticket.
LEMMA CopyStep ==
    ASSUME Inv, Inv', NEW t \in Thread, Copy(t)
    PROVE  /\ t \in Consumers => Abstract!Finish(t)
           /\ t \in Producers => UNCHANGED Abstract!vars
<1>1. PICK h \in Nat, l \in Nat : h = q["head"] /\ l = q["tail"]
  BY Tickets DEF Inv
<1>2. /\ pc \in [Thread -> Labels] /\ pc[t] = "copy" /\ pc' = [pc EXCEPT ![t] = "release"]
      /\ q' = q /\ reg' = reg /\ sent' = sent /\ pushed' = pushed
  BY DEF Copy, Goto, Inv, TypeOK
<1>3. Queue' = Queue
  BY <1>2 DEF Queue
<1>4. Sent' = Sent
  <2>1. ASSUME NEW p \in Producers PROVE Sent'[p] = Sent[p]
    <3>1. p \in Thread
      BY DEF Thread
    <3> QED
      BY <1>2, <3>1 DEF Sent, Pending
  <2> QED
    BY <2>1 DEF Sent
<1>5. ASSUME NEW c \in Consumers, c # t PROVE pc'[c] = pc[c]
  BY <1>2, <1>5, ConsumerTicket
<1>6. ASSUME NEW c \in Consumers, c # t PROVE Got'[c] = Got[c]
  <2>1. Assigned(c)' <=> Assigned(c)
    BY <1>2, <1>5, <1>6 DEF Assigned, Pending
  <2> QED
    BY <1>2, <2>1 DEF Got
<1>7. ASSUME t \in Consumers PROVE Pending(t) /\ reg[t] \in Nat /\ reg[t] < h
  <2>1. t \notin Producers /\ reg[t] \in Nat
    BY <1>7, ConsumerTicket
  <2>2. AllWritten(reg[t])
    BY <1>2, <2>1 DEF Inv, Admitted
  <2> QED
    BY <1>1, <1>2, <2>1, <2>2 DEF AllWritten, Pending
<1>8. Waiting' = Waiting
  <2>1. PICK v : v = Waiting'
    OBVIOUS
  <2>2. /\ v \in [1 .. l - h -> Consumers]
        /\ \A k \in 1 .. l - h : pc'[v[k]] \in {"record", "wait", "bound", "scan", "store",
                                               "retest", "copy"}
        /\ \A k \in 1 .. l - h : reg[v[k]] = h + k - 1
    BY <1>1, <1>2, <2>1, WaitersThen DEF WaitersKnown, Pending
  <2>3. /\ Waiting \in [1 .. l - h -> Consumers]
        /\ \A k \in 1 .. l - h : Pending(Waiting[k]) /\ reg[Waiting[k]] = h + k - 1
    BY <1>1, Waiters DEF WaitersKnown
  <2>4. ASSUME NEW k \in 1 .. l - h PROVE v[k] = Waiting[k]
    <3>1. PICK a \in Consumers, d \in Consumers : a = v[k] /\ d = Waiting[k]
      BY <2>2, <2>3
    <3>2. a \in Thread /\ Pending(a)
      <4>1. a \in Thread /\ pc'[a] # "release"
        BY <2>2, <3>1, ConsumerTicket
      <4>2. a # t
        BY <1>2, <4>1
      <4> QED
        BY <1>5, <2>2, <3>1, <4>1, <4>2 DEF Pending
    <3> QED
      BY <2>2, <2>3, <3>1, <3>2, OneWaiter
  <2> QED
    BY <2>1, <2>2, <2>3, <2>4
<1>9. CASE t \in Producers
  <2>1. \A c \in Consumers : c # t /\ t \notin Consumers
    BY <1>9, ConsumerTicket
  <2>2. Got' = Got
    BY <1>6, <2>1 DEF Got
  <2>3. el' = el
    BY <1>9, <2>1, ThreadEnd DEF Copy
  <2> QED
    BY <1>3, <1>4, <1>8, <1>9, <2>2, <2>3, ThreadEnd DEF Abstract!vars
<1>10. CASE t \in Consumers
  <2>1. PICK g : g = pushed[reg[t] + 1]
    OBVIOUS
  <2>2. g \in Item
    <3>1. pushed \in Seq(Item) /\ Len(pushed) = h
      BY <1>1 DEF Inv, TypeOK
    <3>2. reg[t] + 1 \in 1 .. h
      BY <1>1, <1>7, <1>10
    <3> QED
      BY <2>1, <3>1, <3>2
  <2>3. Got[t] = g /\ g # NoItem
    <3>1. Assigned(t)
      BY <1>1, <1>7, <1>10 DEF Assigned
    <3> QED
      BY <1>10, <2>1, <2>2, <3>1, ItemsAre DEF Got
  <2>4. Got'[t] = NoItem
    <3>1. ~(Assigned(t)')
      BY <1>2 DEF Assigned, Pending
    <3> QED
      BY <1>10, <3>1 DEF Got
  <2>5. Got' = [Got EXCEPT ![t] = NoItem]
    BY <1>6, <2>4 DEF Got
  <2>6. el' = [el EXCEPT ![t] = g]
    <3>1. t \notin Producers
      BY <1>10, ConsumerTicket
    <3>2. PICK x : el' = [el EXCEPT ![t] = x]
      BY <3>1 DEF Copy
    <3>3. el'[t] = x
      BY <1>10, <3>2 DEF Inv, TypeOK
    <3>4. el'[t] = g
      BY <1>2, <1>10, <2>1 DEF Inv, DeliveredInTicketOrder
    <3> QED
      BY <3>2, <3>3, <3>4
  <2>7. Abstract!Finish(t)
    BY <1>3, <1>4, <1>8, <2>3, <2>5, <2>6 DEF Abstract!Finish
  <2> QED
    BY <1>10, <2>7, ConsumerTicket
<1> QED
  BY <1>9, <1>10 DEF Thread

\* The queue shows nothing of a thread that announces itself, waits or leaves.
LEMMA QuietStep ==
    ASSUME Inv, Inv', NEW t \in Thread,
           \/ Load(t) \/ Announce(t) \/ Record(t) \/ TestLast(t) \/ Bound(t)
           \/ Scan(t) \/ StoreLast(t) \/ Retest(t) \/ Release(t)
    PROVE  UNCHANGED Abstract!vars
<1>1. PICK h \in Nat, l \in Nat : h = q["head"] /\ l = q["tail"]
  BY Tickets DEF Inv
<1>2. q' = q /\ pushed' = pushed /\ el' = el
  BY DEF Load, Announce, Record, TestLast, Bound, Scan, StoreLast, Retest, Release
<1>3. pc \in [Thread -> Labels] /\ reg \in [Thread -> Nat]
  BY DEF Inv, TypeOK
<1>4. ASSUME NEW u \in Thread
      PROVE  /\ Pending(u)' <=> Pending(u)
             /\ Pending(u) => reg'[u] = reg[u]
  BY <1>3 DEF Load, Announce, Record, TestLast, Bound, Scan, StoreLast, Retest, Release,
     Goto, Pending
<1>5. Queue' = Queue
  BY <1>2 DEF Queue
<1>6. Sent' = Sent
  <2>1. ASSUME NEW p \in Producers, ~Release(t) PROVE Sent'[p] = Sent[p]
    <3>1. p \in Thread /\ sent' = sent
      BY <2>1 DEF Thread, Load, Announce, Record, TestLast, Bound, Scan, StoreLast, Retest
    <3>2. pc'[p] = "release" <=> pc[p] = "release"
      BY <1>3, <2>1, <3>1 DEF Load, Announce, Record, TestLast, Bound, Scan, StoreLast,
         Retest, Goto
    <3>3. Pending(p)' <=> Pending(p)
      BY <1>4, <3>1
    <3> QED
      BY <3>1, <3>2, <3>3 DEF Sent
  <2>2. ASSUME NEW p \in Producers, Release(t) PROVE Sent'[p] = Sent[p]
    <3>1. p \in Thread /\ sent \in [Producers -> Nat]
      BY DEF Thread, Inv, TypeOK
    <3>2. CASE p = t
      <4>1. pc[p] = "release" /\ pc'[p] = "idle" /\ sent'[p] = sent[p] + 1
        BY <1>3, <2>2, <3>1, <3>2 DEF Release, Goto
      <4> QED
        BY <3>1, <4>1 DEF Sent, Pending
    <3>3. CASE p # t
      <4>1. pc'[p] = pc[p] /\ sent'[p] = sent[p]
        BY <1>3, <2>2, <3>1, <3>3 DEF Release, Goto
      <4> QED
        BY <4>1 DEF Sent, Pending
    <3> QED
      BY <3>2, <3>3
  <2> QED
    BY <2>1, <2>2 DEF Sent
<1>7. Got' = Got
  <2>1. ASSUME NEW c \in Consumers PROVE Got'[c] = Got[c]
    <3>1. c \in Thread
      BY DEF Thread
    <3>2. (Pending(c)' <=> Pending(c)) /\ (Pending(c) => reg'[c] = reg[c])
      BY <1>4, <3>1
    <3>3. Assigned(c)' <=> Assigned(c)
      BY <1>2, <3>2 DEF Assigned
    <3> QED
      BY <1>2, <3>2, <3>3 DEF Got, Assigned
  <2> QED
    BY <2>1 DEF Got
<1>8. Waiting' = Waiting
  <2>1. PICK v : v = Waiting'
    OBVIOUS
  <2>2. /\ v \in [1 .. l - h -> Consumers]
        /\ \A k \in 1 .. l - h : pc'[v[k]] \in {"record", "wait", "bound", "scan", "store",
                                               "retest", "copy"}
        /\ \A k \in 1 .. l - h : reg'[v[k]] = h + k - 1
    BY <1>1, <1>2, <2>1, WaitersThen DEF WaitersKnown, Pending
  <2>3. /\ Waiting \in [1 .. l - h -> Consumers]
        /\ \A k \in 1 .. l - h : Pending(Waiting[k]) /\ reg[Waiting[k]] = h + k - 1
    BY <1>1, Waiters DEF WaitersKnown
  <2>4. ASSUME NEW k \in 1 .. l - h PROVE v[k] = Waiting[k]
    <3>1. PICK a \in Consumers, d \in Consumers : a = v[k] /\ d = Waiting[k]
      BY <2>2, <2>3
    <3>2. a \in Thread /\ Pending(a)'
      BY <2>2, <3>1, ConsumerTicket DEF Pending
    <3>3. Pending(a) /\ reg'[a] = reg[a]
      BY <1>4, <3>2
    <3> QED
      BY <2>2, <2>3, <3>1, <3>3, OneWaiter
  <2> QED
    BY <2>1, <2>2, <2>3, <2>4
<1> QED
  BY <1>2, <1>5, <1>6, <1>7, <1>8 DEF Abstract!vars

\* The lock-free queue is one unbounded FIFO that hands each packet to one
\* consumer, in the order in which pushes and pops took their tickets: every
\* behaviour of lfq_push and lfq_pop is one of PacketQueue.
THEOREM ImplementsQueue == Spec => AbstractSpec
<1>1. Init => Abstract!Init
  <2> SUFFICES ASSUME Init PROVE Abstract!Init
    OBVIOUS
  <2>1. \A t \in Thread : pc[t] = "idle" /\ ~Pending(t)
    BY DEF Init, Pending
  <2>2. Got = [c \in Consumers |-> NoItem]
    BY <2>1 DEF Got, Assigned, Thread
  <2>3. Sent = [p \in Producers |-> 0]
    BY <2>1 DEF Init, Sent, Thread
  <2>4. Queue = <<>> /\ Waiting = <<>>
    <3>1. q["head"] = 0 /\ q["tail"] = 0
      BY Ends2 DEF Init
    <3> QED
      BY <3>1 DEF Queue, Waiting
  <2> QED
    BY <2>2, <2>3, <2>4 DEF Init, Abstract!Init
<1>2. Inv /\ Inv' /\ [Next]_vars => [Abstract!Next]_(Abstract!vars)
  <2> SUFFICES ASSUME Inv, Inv', [Next]_vars
               PROVE  [Abstract!Next]_(Abstract!vars)
    OBVIOUS
  <2>1. ASSUME NEW t \in Thread, Step(t)
        PROVE  [Abstract!Next]_(Abstract!vars)
    <3>1. CASE Claim(t)
      <4>1. q["head"] \in Nat /\ q["tail"] \in Nat
        BY Tickets DEF Inv
      <4>2. CASE t \in Producers
        BY <3>1, <4>1, <4>2, PutQueuedStep, PutServedStep DEF Abstract!Next
      <4>3. CASE t \in Consumers
        BY <3>1, <4>1, <4>3, AskServedStep, AskWaitsStep DEF Abstract!Next
      <4> QED
        BY <4>2, <4>3 DEF Thread
    <3>2. CASE Copy(t)
      BY <3>2, CopyStep DEF Abstract!Next, Thread
    <3>3. CASE \/ Load(t) \/ Announce(t) \/ Record(t) \/ TestLast(t) \/ Bound(t)
               \/ Scan(t) \/ StoreLast(t) \/ Retest(t) \/ Release(t)
      BY <3>3, QuietStep
    <3> QED
      BY <2>1, <3>1, <3>2, <3>3 DEF Step
  <2>2. CASE UNCHANGED vars
    <3>1. UNCHANGED Abstract!vars
      BY <2>2 DEF vars, Abstract!vars, Queue, Got, Sent, Waiting, Assigned, Pending
    <3> QED
      BY <3>1
  <2> QED
    BY <2>1, <2>2 DEF Next, lfq_push, lfq_pop, Thread
<1> QED
  BY <1>1, <1>2, Invariance, PTL DEF Spec, AbstractSpec, Abstract!Spec
=============================================================================
