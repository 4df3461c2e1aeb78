----------------------------- MODULE FlowTable ------------------------------
(***************************************************************************)
(* The tables that give each packet its flow (src/services/lib/flow.c):    *)
(* a look-up under rwlock, and a second one under the write lock before a  *)
(* flow is added.  In mode tcp the flow of the addresses holds a table of  *)
(* its own for the ports, and both levels are looked up the same way.      *)
(*                                                                         *)
(* A flow is its place in flows, the order in which flows were added; that *)
(* is also the order of hh.next.  Table 0 is hash_flows2, table f the sub  *)
(* of flow f.                                                              *)
(***************************************************************************)
EXTENDS Naturals, Sequences

CONSTANTS
    Thread,   \* the threads that handle packets
    Hash,     \* what hash1 and hash2 point to, or the flow ids
    Levels,   \* 1: get_bulk_flow_or_create, 2: get_tcp_flow_2_or_create
    NoThread

ASSUME TableAssumption ==
    /\ Levels \in Nat \ {0} /\ Hash # {}
    /\ NoThread \notin Thread

VARIABLES
    flows,    \* the flows: the table each is in, and its key there
    readers,  \* threads with the read lock
    writer,   \* the thread with the write lock
    at,       \* where each thread is in the function
    key,      \* its arguments hash1 and hash2
    level,    \* the look-up it is at
    table,    \* the table it looks in
    res       \* what it found or added, 0 for NULL

tableVars == <<flows, readers, writer, at, key, level, table, res>>

Key == [1 .. Levels -> Hash]

InitTable ==
    /\ flows = <<>>
    /\ readers = {} /\ writer = NoThread
    /\ at = [t \in Thread |-> "idle"]
    /\ key = [t \in Thread |-> CHOOSE k \in Key : TRUE]
    /\ level = [t \in Thread |-> 1]
    /\ table = [t \in Thread |-> 0] /\ res = [t \in Thread |-> 0]

Go(t, from, to) == at[t] = from /\ at' = [at EXCEPT ![t] = to]

Matches(t) == {f \in DOMAIN flows : flows[f] = [in |-> table[t], key |-> key[t][level[t]]]}

\* HASH_FIND: the last one added comes first in its bucket.
HASH_FIND(t) ==
    IF Matches(t) = {} THEN 0 ELSE CHOOSE f \in Matches(t) : \A g \in Matches(t) : g <= f
-----------------------------------------------------------------------------
Call(t, k) ==
    /\ Go(t, "idle", "rdlock")
    /\ key' = [key EXCEPT ![t] = k]
    /\ level' = [level EXCEPT ![t] = 1]
    /\ table' = [table EXCEPT ![t] = 0]
    /\ UNCHANGED <<flows, readers, writer, res>>

RdLock(t) ==
    /\ writer = NoThread
    /\ Go(t, "rdlock", "find")
    /\ readers' = readers \cup {t}
    /\ UNCHANGED <<flows, writer, key, level, table, res>>

\* The read lock is given back before the write lock is asked for.
FindShared(t) ==
    /\ Go(t, "find", IF Matches(t) = {} THEN "wrlock" ELSE "unlock")
    /\ res' = [res EXCEPT ![t] = HASH_FIND(t)]
    /\ readers' = IF Matches(t) = {} THEN readers \ {t} ELSE readers
    /\ UNCHANGED <<flows, writer, key, level, table>>

WrLock(t) ==
    /\ writer = NoThread /\ readers = {}
    /\ Go(t, "wrlock", "again")
    /\ writer' = t
    /\ UNCHANGED <<flows, readers, key, level, table, res>>

\* Mutant: what the first look-up found is still believed.
FindNotAgain(t) ==
    /\ Go(t, "again", "add")
    /\ UNCHANGED <<flows, readers, writer, key, level, table, res>>

FindAgain(t) ==
    /\ Go(t, "again", IF Matches(t) = {} THEN "add" ELSE "unlock")
    /\ res' = [res EXCEPT ![t] = HASH_FIND(t)]
    /\ UNCHANGED <<flows, readers, writer, key, level, table>>

\* HASH_ADD appends in the order of hh.next.
Add(t) ==
    /\ Go(t, "add", "unlock")
    /\ flows' = Append(flows, [in |-> table[t], key |-> key[t][level[t]]])
    /\ res' = [res EXCEPT ![t] = Len(flows) + 1]
    /\ UNCHANGED <<readers, writer, key, level, table>>

\* Lines 60 and 101-103: on to the table of the flow found, or back.
Unlock(t) ==
    /\ Go(t, "unlock", IF level[t] < Levels THEN "rdlock" ELSE "done")
    /\ readers' = readers \ {t}
    /\ writer' = IF writer = t THEN NoThread ELSE writer
    /\ level' = [level EXCEPT ![t] = IF @ < Levels THEN @ + 1 ELSE @]
    /\ table' = [table EXCEPT ![t] = IF level[t] < Levels THEN res[t] ELSE @]
    /\ UNCHANGED <<flows, key, res>>

Return(t) ==
    /\ Go(t, "done", "idle")
    /\ UNCHANGED <<flows, readers, writer, key, level, table, res>>

LookUp(t) ==
    RdLock(t) \/ FindShared(t) \/ WrLock(t) \/ FindAgain(t) \/ Add(t) \/ Unlock(t)

NextTable == \E t \in Thread : LookUp(t) \/ Return(t) \/ \E k \in Key : Call(t, k)

SpecTable == InitTable /\ [][NextTable]_tableVars
-----------------------------------------------------------------------------
\* No two flows have one key in one table, whichever handlers look it up at
\* the same time: all segments of a connection meet in one buffer.
OneFlowPerKey == \A f, g \in DOMAIN flows : flows[f] = flows[g] => f = g

\* A handler that comes back has the flow of its own packet.
OwnFlow(t) ==
    /\ res[t] \in DOMAIN flows
    /\ flows[res[t]] = [in |-> table[t], key |-> key[t][Levels]]
FlowReturned == \A t \in Thread : at[t] = "done" => OwnFlow(t)
=============================================================================
