------------------------------ MODULE Checksum ------------------------------
(***************************************************************************)
(* The Internet checksum of src/services/lib/checksum.c.  do_csum adds the *)
(* bytes of a buffer four at a time and keeps the carry of each addition   *)
(* for the next; it is a state machine here, a step for each turn of the   *)
(* loop.  Bytes are digits of base BYTE (256 in the code), so that         *)
(* unsigned short and unsigned int are below BYTE^2 and BYTE^4.            *)
(***************************************************************************)
EXTENDS Integers, Sequences

CONSTANT BYTE
ASSUME ByteAssumption == BYTE \in Nat \ {0, 1}

HALF == BYTE * BYTE
WORD == HALF * HALF

VARIABLES
    data,   \* the bytes at buff
    addr,   \* the address of the first, modulo 4
    pc,     \* "odd" 37, "align" 49, "loop" 58, "fold" 65, "rest" 68, "done"
    pos,    \* how far buff has moved
    len, result, carry,
    total   \* history: what was added so far, in a number of any size

csumVars == <<data, addr, pc, pos, len, result, carry, total>>

CsumInit ==
    /\ pc = "odd"
    /\ pos = 0 /\ len = Len(data)
    /\ result = 0 /\ carry = 0 /\ total = 0

\* Little-endian loads, as on the machines the services run on.
Byte  == data[pos + 1]
Short == data[pos + 1] + BYTE * data[pos + 2]
Word  == Short + HALF * (data[pos + 3] + BYTE * data[pos + 4])

IsOdd == addr % 2 = 1

Fold16(x) == (x % HALF) + (x \div HALF)

from32to16(x) == Fold16(Fold16(x)) % HALF

Odd ==
    /\ pc = "odd"
    /\ IF len > 0 /\ IsOdd
       THEN /\ result' = Byte * BYTE /\ total' = Byte * BYTE
            /\ pos' = 1 /\ len' = len - 1
       ELSE UNCHANGED <<pos, len, result, total>>
    /\ pc' = IF len > 0 THEN "align" ELSE "done"
    /\ UNCHANGED <<data, addr, carry>>

\* Lines 49-56.
Align ==
    /\ pc = "align"
    /\ IF len >= 2 /\ (addr + pos) % 4 >= 2
       THEN /\ result' = result + Short /\ total' = total + Short
            /\ pos' = pos + 2 /\ len' = len - 2
       ELSE UNCHANGED <<pos, len, result, total>>
    /\ pc' = IF len' >= 4 THEN "loop" ELSE "rest"
    /\ UNCHANGED <<data, addr, carry>>

\* The words of the loop end at `end'; what is left after them is less than a word.
AtEnd(at) == Len(data) - at < 4

\* Mutant: the carry is compared before it is added.
LoopCarryLost ==
    /\ pc = "loop"
    /\ result' = (result + Word) % WORD
    /\ carry' = IF Word > result' THEN 1 ELSE 0
    /\ total' = total + Word
    /\ pos' = pos + 4
    /\ pc' = IF AtEnd(pos') THEN "fold" ELSE "loop"
    /\ UNCHANGED <<data, addr, len>>

Loop ==
    /\ pc = "loop"
    /\ result' = (((result + carry) % WORD) + Word) % WORD
    /\ carry' = IF Word > result' THEN 1 ELSE 0
    /\ total' = total + Word
    /\ pos' = pos + 4
    /\ pc' = IF AtEnd(pos') THEN "fold" ELSE "loop"
    /\ UNCHANGED <<data, addr, len>>

Fold ==
    /\ pc = "fold"
    /\ result' = Fold16((result + carry) % WORD)
    /\ carry' = 0
    /\ pc' = "rest"
    /\ UNCHANGED <<data, addr, pos, len, total>>

\* Lines 68-79: what is left, by the bits of len.
LastShort == IF (len \div 2) % 2 = 1 THEN Short ELSE 0
LastByte  == IF len % 2 = 1 THEN data[Len(data)] ELSE 0

Swapped(x) == ((x \div BYTE) % BYTE) + (x % BYTE) * BYTE

Rest ==
    LET sum == from32to16((result + LastShort + LastByte) % WORD)
    IN  /\ pc = "rest"
        /\ result' = IF IsOdd THEN Swapped(sum) ELSE sum
        /\ total' = total + LastShort + LastByte
        /\ pc' = "done"
        /\ pos' = Len(data)
        /\ UNCHANGED <<data, addr, len, carry>>

do_csum == Odd \/ Align \/ Loop \/ Fold \/ Rest

CsumSpec ==
    /\ data \in Seq(0 .. BYTE - 1) /\ addr \in 0 .. 3 /\ CsumInit
    /\ [][do_csum]_csumVars
-----------------------------------------------------------------------------
\* The definition of RFC 1071: the sum of the 16-bit words, a last odd byte filled up
\* with zero, and its ones'-complement form.
WordSum(d) ==
    LET upTo[k \in 0 .. Len(d)] ==
            IF k = 0 THEN 0 ELSE upTo[k - 1] + IF k % 2 = 1 THEN d[k] ELSE BYTE * d[k]
    IN  upTo[Len(d)]

OnesSum(n) == IF n = 0 THEN 0 ELSE 1 + ((n - 1) % (HALF - 1))
=============================================================================
