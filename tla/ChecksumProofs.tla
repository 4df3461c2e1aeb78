--------------------------- MODULE ChecksumProofs ---------------------------
(***************************************************************************)
(* do_csum adds without losing a carry, and adds every byte of the buffer  *)
(* in its place: for bytes of any base, a buffer of any length and any     *)
(* alignment, on its own and where send_buffer calls it.  With the words   *)
(* of the pseudo-header, and whatever the headers in front of TCP, what    *)
(* send_buffer stores in the checksum makes it verify.  The lengths of the *)
(* first header and of the one in front of TCP are right, as far as two    *)
(* bytes can hold them.                                                    *)
(***************************************************************************)
EXTENDS SendBuffer, CommonLemmas

\* a and b are the same ones'-complement sum.
Same(a, b) == \E k \in Int : a = b + k * (HALF - 1)

-----------------------------------------------------------------------------
(***************************************************************************)
(* Arithmetic.                                                             *)
(***************************************************************************)
LEMMA EuclideanDivision ==
    ASSUME NEW n \in Nat, NEW d \in Nat, d > 0
    PROVE  n = d * (n \div d) + (n % d) /\ n \div d \in Nat /\ n % d \in 0 .. d - 1
  <1>1. n = d * (n \div d) + (n % d)
    BY SMT
  <1>2. n \div d \in Nat
    BY SMT
  <1>3. n % d \in 0 .. d - 1
    BY SMT
  <1> QED
    BY <1>1, <1>2, <1>3

LEMMA SmallMod ==
    ASSUME NEW n \in Nat, NEW d \in Nat, d > 0
    PROVE  /\ n < d => n % d = n
           /\ n >= d /\ n < d + d => n % d = n - d
  <1>1. n < d => n % d = n
    BY SMT
  <1>2. n >= d /\ n < d + d => n % d = n - d
    BY SMT
  <1> QED
    BY <1>1, <1>2

LEMMA Squares ==
    /\ \A h \in Int : h * h = 1 + (h + 1) * (h - 1)
    /\ \A b \in Nat, c \in Nat : b >= c => b * b >= c * b
  <1>1. \A h \in Int : h * h = 1 + (h + 1) * (h - 1)
    OBVIOUS
  <1>2. ASSUME NEW b \in Nat, NEW c \in Nat, b >= c PROVE b * b >= c * b
    <2>1. PICK d \in Nat : d = b - c
      BY <1>2
    <2>2. b * b = c * b + d * b
      BY <2>1
    <2>3. d * b \in Nat /\ c * b \in Nat
      OBVIOUS
    <2> QED
      BY <2>2, <2>3
  <1> QED
    BY <1>1, <1>2

LEMMA Sizes ==
    /\ BYTE \in Nat /\ BYTE >= 2
    /\ HALF \in Nat /\ HALF >= 2 * BYTE
    /\ WORD \in Nat /\ WORD >= 4 * HALF
    /\ HALF = BYTE * BYTE /\ WORD = HALF * HALF
  <1>1. BYTE \in Nat /\ BYTE >= 2
    BY ByteAssumption
  <1>2. HALF \in Nat /\ HALF = BYTE * BYTE
    BY <1>1 DEF HALF
  <1>3. HALF >= 2 * BYTE
    BY <1>1, <1>2, Squares
  <1>4. HALF >= 4
    BY <1>1, <1>2, <1>3
  <1>5. WORD \in Nat /\ WORD = HALF * HALF
    BY <1>2 DEF WORD
  <1>6. WORD >= 4 * HALF
    <2>1. \A c \in Nat : HALF >= c => WORD >= c * HALF
      BY <1>2, <1>5, Squares
    <2> QED
      BY <1>4, <2>1
  <1> QED
    BY <1>1, <1>2, <1>3, <1>5, <1>6

LEMMA SameSelf == ASSUME NEW a \in Int PROVE Same(a, a)
  <1>1. a = a + 0 * (HALF - 1)
    BY Sizes
  <1> QED
    BY <1>1 DEF Same

\* What is congruent may be added to, and exchanged for what is congruent to it.
LEMMA SameAdd ==
    ASSUME NEW a \in Int, NEW b \in Int, NEW c \in Int, Same(a, b)
    PROVE  Same(a + c, b + c)
  <1>1. PICK k \in Int : a = b + k * (HALF - 1)
    BY DEF Same
  <1>2. PICK m \in Int : m = k * (HALF - 1)
    BY Sizes
  <1>3. a + c = (b + c) + k * (HALF - 1)
    BY <1>1, <1>2
  <1> QED
    BY <1>3 DEF Same

LEMMA SameTrans ==
    ASSUME NEW a \in Int, NEW b \in Int, NEW c \in Int, Same(a, b), Same(b, c)
    PROVE  Same(a, c)
  <1> DEFINE m == HALF - 1
  <1>1. PICK k \in Int : a = b + k * m
    BY DEF Same
  <1>2. PICK j \in Int : b = c + j * m
    BY DEF Same
  <1>3. m \in Int
    BY Sizes
  <1> HIDE DEF m
  <1>4. (j + k) * m = j * m + k * m
    BY <1>3
  <1>5. j * m \in Int /\ k * m \in Int
    BY <1>3
  <1>6. a = c + (j + k) * m
    BY <1>1, <1>2, <1>4, <1>5
  <1> QED
    BY <1>6 DEF Same, m

LEMMA SameTimes ==
    ASSUME NEW a \in Int, NEW b \in Int, NEW c \in Int, Same(a, b)
    PROVE  Same(c * a, c * b)
  <1> DEFINE m == HALF - 1
  <1>1. PICK k \in Int : a = b + k * m
    BY DEF Same
  <1>2. m \in Int
    BY Sizes
  <1> HIDE DEF m
  <1>3. c * (b + k * m) = c * b + (c * k) * m
    BY <1>2
  <1> QED
    BY <1>1, <1>3 DEF Same, m

\* A carry out of the word counts as one.
LEMMA SameCarry ==
    ASSUME NEW a \in Int
    PROVE  Same(a + WORD, a + 1)
  <1>1. HALF \in Int /\ WORD = HALF * HALF
    BY Sizes
  <1>2. PICK n \in Int : n = (HALF + 1) * (HALF - 1)
    BY <1>1
  <1>3. WORD = 1 + n
    BY <1>1, <1>2, Squares
  <1>4. a + WORD = (a + 1) + n
    BY <1>3
  <1>5. HALF + 1 \in Int
    BY <1>1
  <1> QED
    BY <1>2, <1>4, <1>5 DEF Same

\* Folding keeps the sum, and the number positive.
LEMMA FoldSame ==
    ASSUME NEW x \in Nat
    PROVE  /\ Fold16(x) \in Nat /\ Same(x, Fold16(x))
           /\ x > 0 => Fold16(x) > 0
  <1> DEFINE q == x \div HALF
             r == x % HALF
  <1>1. HALF \in Nat /\ HALF > 0
    BY Sizes
  <1>2. x = HALF * q + r /\ q \in Nat /\ r \in Nat
    BY <1>1, EuclideanDivision
  <1>3. Fold16(x) = r + q
    BY DEF Fold16
  <1> HIDE DEF q, r
  <1>4. HALF * q = q + q * (HALF - 1)
    BY <1>1, <1>2
  <1>5. PICK n \in Int : n = q * (HALF - 1)
    BY <1>1, <1>2
  <1>6. x = (r + q) + q * (HALF - 1)
    BY <1>2, <1>4, <1>5
  <1>7. x > 0 => r + q > 0
    <2>1. q = 0 => HALF * q = 0
      BY <1>1
    <2> QED
      BY <1>2, <2>1
  <1> QED
    BY <1>2, <1>3, <1>6, <1>7 DEF Same

\* Two digits of base n.
LEMMA Digits ==
    ASSUME NEW n \in Nat, n > 0, NEW a \in 0 .. n - 1, NEW b \in 0 .. n - 1
    PROVE  a + n * b \in 0 .. n * n - 1
  <1>1. PICK c \in Nat : c = (n - 1) - b
    OBVIOUS
  <1>2. n * (n - 1) = n * b + n * c
    BY <1>1
  <1>3. n * (n - 1) = n * n - n
    OBVIOUS
  <1>4. n * b \in Nat /\ n * c \in Nat /\ n * n \in Nat
    BY <1>1
  <1> QED
    BY <1>2, <1>3, <1>4

LEMMA Elements ==
    ASSUME NEW S, NEW s \in Seq(S)
    PROVE  \A i \in Nat : i > 0 /\ i <= Len(s) => s[i] \in S
  OBVIOUS

LEMMA Loads ==
    ASSUME data \in Seq(0 .. BYTE - 1), pos \in Nat
    PROVE  /\ pos + 1 <= Len(data) => Byte \in 0 .. BYTE - 1
           /\ pos + 2 <= Len(data) => Short \in 0 .. HALF - 1
           /\ pos + 4 <= Len(data) => Word \in 0 .. WORD - 1
  <1>1. \A i \in Nat : i > 0 /\ i <= Len(data) => data[i] \in 0 .. BYTE - 1
    BY Elements
  <1>2. \A a, b \in 0 .. BYTE - 1 : a + BYTE * b \in 0 .. HALF - 1
    BY Sizes, Digits
  <1>3. \A a, b \in 0 .. HALF - 1 : a + HALF * b \in 0 .. WORD - 1
    BY Sizes, Digits
  <1>4. pos + 1 <= Len(data) => Byte \in 0 .. BYTE - 1
    BY <1>1 DEF Byte
  <1>5. pos + 2 <= Len(data) => Short \in 0 .. HALF - 1
    <2> SUFFICES ASSUME pos + 2 <= Len(data) PROVE Short \in 0 .. HALF - 1
      OBVIOUS
    <2>1. data[pos + 1] \in 0 .. BYTE - 1 /\ data[pos + 2] \in 0 .. BYTE - 1
      BY <1>1
    <2> QED
      BY <2>1, <1>2 DEF Short
  <1>6. pos + 4 <= Len(data) => Word \in 0 .. WORD - 1
    <2> SUFFICES ASSUME pos + 4 <= Len(data) PROVE Word \in 0 .. WORD - 1
      OBVIOUS
    <2>1. data[pos + 3] \in 0 .. BYTE - 1 /\ data[pos + 4] \in 0 .. BYTE - 1
      BY <1>1
    <2>2. data[pos + 3] + BYTE * data[pos + 4] \in 0 .. HALF - 1
      BY <2>1, <1>2
    <2>3. Short \in 0 .. HALF - 1
      BY <1>5
    <2> QED
      BY <2>2, <2>3, <1>3 DEF Word
  <1> QED
    BY <1>4, <1>5, <1>6

\* from32to16 leaves the sum of a word in half a word.
LEMMA HalfWord ==
    ASSUME NEW x \in Nat, x < WORD
    PROVE  /\ from32to16(x) \in 0 .. HALF - 1 /\ Same(x, from32to16(x))
           /\ x = 0 <=> from32to16(x) = 0
  <1> DEFINE y == Fold16(x)
             z == Fold16(y)
  <1>1. HALF \in Nat /\ HALF >= 4 /\ WORD = HALF * HALF
    BY Sizes
  <1>2. y \in Nat /\ z \in Nat /\ Same(x, y) /\ Same(y, z) /\ (x > 0 => y > 0) /\ (y > 0 => z > 0)
    BY FoldSame
  <1>3. y <= 2 * (HALF - 1)
    <2> DEFINE q == x \div HALF
               r == x % HALF
    <2>1. x = HALF * q + r /\ q \in Nat /\ r \in 0 .. HALF - 1
      BY <1>1, EuclideanDivision
    <2>2. y = r + q
      BY DEF Fold16
    <2> HIDE DEF q, r, y
    <2>3. q <= HALF - 1
      <3>1. SUFFICES ASSUME q >= HALF PROVE FALSE
        BY <1>1, <2>1
      <3>2. PICK d \in Nat : d = q - HALF
        BY <1>1, <2>1, <3>1
      <3>3. HALF * q = HALF * HALF + HALF * d /\ HALF * d \in Nat
        BY <1>1, <3>2, <2>1
      <3> QED
        BY <1>1, <2>1, <3>3
    <2> QED
      BY <1>1, <2>1, <2>2, <2>3
  <1>4. z = (y % HALF) + (y \div HALF)
    BY DEF Fold16
  <1>5. x = 0 => y = 0
    BY <1>1 DEF Fold16
  <1>6. y = 0 => z = 0
    BY <1>1 DEF Fold16
  <1> HIDE DEF y, z
  <1>7. z <= HALF - 1
    <2>1. CASE y < HALF
      <3>1. y % HALF = y
        BY <2>1, <1>1, <1>2, SmallMod
      <3>2. y = HALF * (y \div HALF) + (y % HALF) /\ (y \div HALF) \in Nat
        BY <1>1, <1>2, EuclideanDivision
      <3>3. HALF * (y \div HALF) = 0
        BY <3>1, <3>2, <1>1, <1>2
      <3>4. y \div HALF = 0
        BY <3>2, <3>3, <1>1
      <3> QED
        BY <1>4, <3>1, <3>4, <2>1, <1>1, <1>2
    <2>2. CASE y >= HALF
      <3>1. y % HALF = y - HALF
        BY <2>2, <1>1, <1>2, <1>3, SmallMod
      <3>2. y = HALF * (y \div HALF) + (y % HALF) /\ (y \div HALF) \in Nat
        BY <1>1, <1>2, EuclideanDivision
      <3>3. HALF * (y \div HALF) = HALF
        BY <3>1, <3>2, <1>1, <1>2
      <3>4. y \div HALF = 1
        BY <3>2, <3>3, <1>1
      <3> QED
        BY <1>4, <3>1, <3>4, <1>1, <1>2, <1>3
    <2> QED
      BY <2>1, <2>2, <1>1, <1>2
  <1>8. from32to16(x) = z
    <2>1. z % HALF = z
      BY <1>1, <1>2, <1>7, SmallMod
    <2> QED
      BY <2>1 DEF from32to16, y, z
  <1>9. Same(x, z)
    BY <1>2, SameTrans
  <1> QED
    BY <1>1, <1>2, <1>5, <1>6, <1>7, <1>8, <1>9

\* Swapping the bytes multiplies by BYTE.
LEMMA SwapSame ==
    ASSUME NEW x \in 0 .. HALF - 1
    PROVE  /\ Swapped(x) \in 0 .. HALF - 1 /\ Same(BYTE * x, Swapped(x))
           /\ x = 0 <=> Swapped(x) = 0
  <1> DEFINE q == x \div BYTE
             r == x % BYTE
  <1>1. BYTE \in Nat /\ BYTE >= 2 /\ HALF = BYTE * BYTE /\ HALF \in Nat
    BY Sizes
  <1>2. x = BYTE * q + r /\ q \in Nat /\ r \in 0 .. BYTE - 1
    BY <1>1, EuclideanDivision
  <1>3. Swapped(x) = (q % BYTE) + r * BYTE
    BY DEF Swapped
  <1> HIDE DEF q, r
  <1>4. q < BYTE
    <2>1. SUFFICES ASSUME q >= BYTE PROVE FALSE
      BY <1>1, <1>2
    <2>2. PICK d \in Nat : d = q - BYTE
      BY <1>1, <1>2, <2>1
    <2>3. BYTE * q = BYTE * BYTE + BYTE * d /\ BYTE * d \in Nat
      BY <1>1, <1>2, <2>2
    <2> QED
      BY <1>1, <1>2, <2>3
  <1>5. q % BYTE = q
    BY <1>1, <1>2, <1>4, SmallMod
  <1>6. Swapped(x) = q + BYTE * r
    BY <1>1, <1>2, <1>3, <1>5
  <1>7. Swapped(x) \in 0 .. HALF - 1
    BY <1>1, <1>2, <1>4, <1>6, Digits
  <1>8. BYTE * x = (q + BYTE * r) + q * (HALF - 1)
    <2>1. BYTE * (BYTE * q + r) = BYTE * BYTE * q + BYTE * r
      BY <1>1, <1>2
    <2>2. q * (BYTE * BYTE - 1) = BYTE * BYTE * q - q
      BY <1>1, <1>2
    <2>3. BYTE * BYTE * q \in Nat /\ BYTE * r \in Nat
      BY <1>1, <1>2
    <2> QED
      BY <1>1, <1>2, <2>1, <2>2, <2>3
  <1>9. x = 0 <=> q + BYTE * r = 0
    <2>1. \A n \in Nat : BYTE * n \in Nat /\ (BYTE * n = 0 <=> n = 0)
      BY <1>1
    <2> QED
      BY <2>1, <1>1, <1>2
  <1> QED
    BY <1>2, <1>6, <1>7, <1>8, <1>9 DEF Same

\* A number is the ones'-complement sum that it is congruent to.
LEMMA SumUnique ==
    ASSUME NEW n \in Nat, NEW x \in 0 .. HALF - 1, Same(n, x), n = 0 <=> x = 0
    PROVE  x = OnesSum(n)
  <1> DEFINE m == HALF - 1
  <1>1. m \in Nat /\ m > 0
    BY Sizes
  <1>2. CASE n = 0
    BY <1>2 DEF OnesSum
  <1>3. CASE n > 0
    <2>1. PICK k \in Int : n = x + k * m
      BY DEF Same
    <2>2. x - 1 \in 0 .. m - 1
      BY <1>1, <1>3
    <2> DEFINE q == (n - 1) \div m
               r == (n - 1) % m
    <2>3. n - 1 = m * q + r /\ q \in Nat /\ r \in 0 .. m - 1
      <3>1. n - 1 \in Nat
        BY <1>3
      <3> HIDE DEF m
      <3> QED
        BY <3>1, <1>1, EuclideanDivision
    <2> HIDE DEF m, q, r
    <2>4. m * (k - q) = r - (x - 1)
      BY <2>1, <2>2, <2>3, <1>1
    <2>5. k = q
      <3>1. ASSUME k - q >= 1 PROVE FALSE
        <4>1. PICK d \in Nat : d = k - q - 1
          BY <3>1, <2>1, <2>3
        <4>2. m * (k - q) = m + m * d /\ m * d \in Nat
          BY <4>1, <1>1, <2>1, <2>3
        <4> QED
          BY <4>2, <2>2, <2>3, <2>4, <1>1
      <3>2. ASSUME q - k >= 1 PROVE FALSE
        <4>1. PICK d \in Nat : d = q - k - 1
          BY <3>2, <2>1, <2>3
        <4>2. m * (k - q) = -(m + m * d) /\ m * d \in Nat
          BY <4>1, <1>1, <2>1, <2>3
        <4> QED
          BY <4>2, <2>2, <2>3, <2>4, <1>1
      <3> QED
        BY <3>1, <3>2, <2>1, <2>3
    <2>6. r = x - 1
      <3>1. m * (k - q) = 0
        BY <2>5, <1>1, <2>1, <2>3
      <3> QED
        BY <3>1, <2>2, <2>3, <2>4, <1>1
    <2>7. OnesSum(n) = 1 + r
      BY <1>3 DEF OnesSum, r, m
    <2> QED
      BY <2>6, <2>7, <2>2
  <1> QED
    BY <1>2, <1>3

-----------------------------------------------------------------------------
(***************************************************************************)
(* The state machine.                                                      *)
(***************************************************************************)
CsumTypeOK ==
    /\ data \in Seq(0 .. BYTE - 1) /\ addr \in 0 .. 3
    /\ pc \in {"odd", "align", "loop", "fold", "rest", "done"}
    /\ pos \in Nat /\ len \in Nat
    /\ result \in 0 .. WORD - 1 /\ carry \in {0, 1} /\ total \in Nat

\* The loop moves by words, so len keeps the number of bytes after it.
Rests(n) == \E q \in Nat : Len(data) - pos = n - 4 * q

Place ==
    /\ pc = "odd" => pos = 0 /\ len = Len(data) /\ result = 0 /\ carry = 0 /\ total = 0
    /\ pc = "align" => pos + len = Len(data) /\ result < HALF /\ carry = 0
    /\ pc = "loop" => pos + 4 <= Len(data) /\ Rests(len)
    /\ pc = "fold" => pos <= Len(data) /\ AtEnd(pos) /\ Rests(len)
    /\ pc = "rest" => pos <= Len(data) /\ AtEnd(pos) /\ Rests(len) /\ carry = 0
                      /\ result < 2 * HALF

\* After an addition that overflows there is room for the carry.
CarryFits == carry = 1 => result < WORD - 1

SumKept ==
    pc # "done" => Same(total, result + carry) /\ (total = 0 <=> result + carry = 0)

\* What the sum of the words is where the buffer begins at an odd address.
Wanted == IF IsOdd THEN BYTE * total ELSE total

Returned == pc = "done" => result \in 0 .. HALF - 1 /\ result = OnesSum(Wanted)

CsumInv == CsumTypeOK /\ Place /\ CarryFits /\ SumKept /\ Returned

LEMMA InitCsum ==
    ASSUME data \in Seq(0 .. BYTE - 1), addr \in 0 .. 3, CsumInit
    PROVE  CsumInv
  <1>1. CsumTypeOK
    BY Sizes DEF CsumInit, CsumTypeOK
  <1>2. Same(total, result + carry)
    BY SameSelf DEF CsumInit
  <1> QED
    BY <1>1, <1>2 DEF CsumInit, CsumInv, Place, CarryFits, SumKept, Returned

LEMMA OddStep ==
    ASSUME CsumInv, Odd
    PROVE  CsumInv'
  <1>1. /\ pc = "odd" /\ data' = data /\ addr' = addr /\ carry' = carry /\ carry = 0 /\ result = 0
        /\ total = 0 /\ pos = 0 /\ len = Len(data) /\ len \in Nat /\ data \in Seq(0 .. BYTE - 1)
    BY DEF CsumInv, CsumTypeOK, Place, Odd
  <1>2. CASE len > 0 /\ IsOdd
    <2>1. /\ result' = Byte * BYTE /\ total' = Byte * BYTE /\ pos' = 1 /\ len' = len - 1 /\ pc' = "align"
      BY <1>2 DEF Odd
    <2>2. Byte \in 0 .. BYTE - 1
      BY <1>1, <1>2, Loads
    <2>3. BYTE * Byte \in 0 .. HALF - 1
      <3>1. 0 + BYTE * Byte \in 0 .. HALF - 1
        BY <2>2, Sizes, Digits
      <3>2. BYTE * Byte \in Nat
        BY <2>2, Sizes
      <3> QED
        BY <3>1, <3>2
    <2>4. result' \in 0 .. HALF - 1 /\ result' \in Nat /\ total' = result'
      BY <2>1, <2>2, <2>3, Sizes
    <2>5. CsumTypeOK'
      BY <1>1, <1>2, <2>1, <2>4, Sizes DEF CsumInv, CsumTypeOK
    <2>6. Place'
      BY <1>1, <1>2, <2>1, <2>4, Sizes DEF Place
    <2>7. SumKept'
      <3>1. carry' = 0
        BY <1>1
      <3>2. PICK a \in Nat : result' = a /\ total' = a
        BY <2>4
      <3>3. result' + carry' = a
        BY <3>1, <3>2
      <3>4. Same(a, a)
        BY SameSelf
      <3> QED
        BY <3>2, <3>3, <3>4 DEF SumKept
    <2> QED
      BY <1>1, <2>1, <2>5, <2>6, <2>7 DEF CsumInv, CarryFits, Returned
  <1>3. CASE ~(len > 0 /\ IsOdd)
    <2>1. /\ UNCHANGED <<pos, len, result, total>>
          /\ pc' = IF len > 0 THEN "align" ELSE "done"
      BY <1>3 DEF Odd
    <2>2. CsumTypeOK'
      BY <1>1, <2>1 DEF CsumInv, CsumTypeOK
    <2>3. Place' /\ CarryFits'
      BY <1>1, <2>1, Sizes DEF Place, CarryFits
    <2>4. SumKept'
      BY <1>1, <2>1 DEF CsumInv, SumKept
    <2>5. Returned'
      BY <1>1, <2>1, Sizes DEF Returned, Wanted, OnesSum
    <2> QED
      BY <2>2, <2>3, <2>4, <2>5 DEF CsumInv
  <1> QED
    BY <1>2, <1>3

LEMMA AlignStep ==
    ASSUME CsumInv, Align
    PROVE  CsumInv'
  <1>1. /\ pc = "align" /\ data' = data /\ addr' = addr /\ carry' = carry /\ carry = 0
        /\ result \in 0 .. HALF - 1 /\ total \in Nat /\ pos \in Nat /\ len \in Nat
        /\ pos + len = Len(data) /\ data \in Seq(0 .. BYTE - 1) /\ addr \in 0 .. 3
        /\ Same(total, result) /\ (total = 0 <=> result = 0)
    BY Sizes DEF CsumInv, CsumTypeOK, Place, SumKept, Align
  <1>2. /\ result' \in 0 .. 2 * HALF - 2 /\ total' \in Nat /\ pos' \in Nat /\ len' \in Nat
        /\ pos' + len' = Len(data) /\ Same(total', result') /\ (total' = 0 <=> result' = 0)
    <2>1. CASE len >= 2 /\ (addr + pos) % 4 >= 2
      <3>1. /\ result' = result + Short /\ total' = total + Short /\ pos' = pos + 2 /\ len' = len - 2
        BY <2>1 DEF Align
      <3>2. Short \in 0 .. HALF - 1
        BY <1>1, <2>1, Loads
      <3>3. Same(total + Short, result + Short)
        <4>1. total \in Int /\ result \in Int /\ Short \in Int
          BY <1>1, <3>2
        <4> QED
          BY <1>1, <4>1, SameAdd
      <3> QED
        BY <1>1, <2>1, <3>1, <3>2, <3>3, Sizes, SMTT(20)
    <2>2. CASE ~(len >= 2 /\ (addr + pos) % 4 >= 2)
      <3>1. UNCHANGED <<pos, len, result, total>>
        BY <2>2 DEF Align
      <3> QED
        BY <1>1, <3>1, Sizes
    <2> QED
      BY <2>1, <2>2
  <1>3. pc' = IF len' >= 4 THEN "loop" ELSE "rest"
    BY DEF Align
  <1>4. CsumTypeOK'
    <2>1. result' \in 0 .. WORD - 1
      BY <1>2, Sizes
    <2>2. pc' \in {"loop", "rest"} /\ carry' \in {0, 1}
      BY <1>1, <1>3
    <2> QED
      BY <1>1, <1>2, <2>1, <2>2 DEF CsumTypeOK
  <1>5. Place'
    <2>1. Len(data) - pos' = len' - 4 * 0
      BY <1>1, <1>2, SMTT(20)
    <2>2. Rests(len)'
      BY <1>1, <2>1 DEF Rests
    <2> QED
      BY <1>1, <1>2, <1>3, <2>2, Sizes, SMTT(20) DEF Place, AtEnd
  <1>6. SumKept'
    <2>1. carry' = 0
      BY <1>1
    <2>2. PICK a \in Nat : result' = a
      BY <1>2
    <2>3. result' + carry' = result'
      BY <2>1, <2>2
    <2> QED
      BY <1>2, <2>3 DEF SumKept
  <1> QED
    BY <1>1, <1>3, <1>4, <1>5, <1>6 DEF CsumInv, CarryFits, Returned

\* A word is added with the carry of the one before it.
NextResult(r, c, w) == (((r + c) % WORD) + w) % WORD
NextCarry(r, c, w)  == IF w > NextResult(r, c, w) THEN 1 ELSE 0

LEMMA AddWord ==
    ASSUME NEW r \in 0 .. WORD - 1, NEW c \in {0, 1}, c = 1 => r < WORD - 1,
           NEW w \in 0 .. WORD - 1
    PROVE  LET x == NextResult(r, c, w)
               d == NextCarry(r, c, w)
           IN  /\ x \in 0 .. WORD - 1 /\ d \in {0, 1} /\ (d = 1 => x < WORD - 1)
               /\ r + c + w = x + (IF d = 1 THEN WORD ELSE 0)
  <1>0. PICK x, d : x = NextResult(r, c, w) /\ d = NextCarry(r, c, w)
    OBVIOUS
  <1>1. WORD \in Nat /\ WORD > 0
    BY Sizes
  <1>2. PICK s \in 0 .. WORD - 1 : s = r + c
    BY <1>1
  <1>3. (r + c) % WORD = s
    BY <1>1, <1>2, SmallMod
  <1>4. x = (s + w) % WORD /\ d = IF w > x THEN 1 ELSE 0
    BY <1>0, <1>3 DEF NextResult, NextCarry
  <1> DEFINE Right == /\ x \in 0 .. WORD - 1 /\ d \in {0, 1} /\ (d = 1 => x < WORD - 1)
                      /\ r + c + w = x + (IF d = 1 THEN WORD ELSE 0)
  <1>5. ASSUME s + w < WORD PROVE Right
    <2>1. x = s + w
      BY <1>1, <1>2, <1>4, <1>5, SmallMod
    <2> QED
      BY <2>1, <1>1, <1>2, <1>4, <1>5
  <1>6. ASSUME s + w >= WORD PROVE Right
    <2>1. x = s + w - WORD
      <3>1. s + w \in Nat /\ s + w < WORD + WORD
        BY <1>1, <1>2
      <3> QED
        BY <3>1, <1>1, <1>4, <1>6, SmallMod
    <2> QED
      BY <2>1, <1>1, <1>2, <1>4, <1>6
  <1>7. Right
    <2>1. s + w < WORD \/ s + w >= WORD
      BY <1>1, <1>2
    <2> QED
      BY <2>1, <1>5, <1>6
  <1> QED
    BY <1>0, <1>7

LEMMA LoopStep ==
    ASSUME CsumInv, Loop
    PROVE  CsumInv'
  <1>1. /\ pc = "loop" /\ data' = data /\ addr' = addr /\ len' = len
        /\ result \in 0 .. WORD - 1 /\ carry \in {0, 1} /\ (carry = 1 => result < WORD - 1)
        /\ total \in Nat /\ pos \in Nat /\ len \in Nat /\ pos + 4 <= Len(data) /\ Rests(len)
        /\ data \in Seq(0 .. BYTE - 1) /\ addr \in 0 .. 3
        /\ Same(total, result + carry) /\ (total = 0 <=> result + carry = 0)
    BY DEF CsumInv, CsumTypeOK, Place, CarryFits, SumKept, Loop
  <1>2. PICK w \in 0 .. WORD - 1 : w = Word
    BY <1>1, Loads
  <1>2a. PICK r \in 0 .. WORD - 1, c \in {0, 1} :
            r = result /\ c = carry /\ (c = 1 => r < WORD - 1)
    BY <1>1
  <1>3. PICK x, d : /\ x = NextResult(r, c, w) /\ d = NextCarry(r, c, w)
                    /\ result' = x /\ carry' = d /\ total' = total + w /\ pos' = pos + 4
    BY <1>2a, <1>2 DEF Loop, NextResult, NextCarry
  <1>4. /\ x \in 0 .. WORD - 1 /\ d \in {0, 1} /\ (d = 1 => x < WORD - 1)
        /\ r + c + w = x + (IF d = 1 THEN WORD ELSE 0)
    BY <1>2a, <1>3, AddWord
  <1>5. PICK n \in Nat : n = total + w
    BY <1>1, Sizes
  <1>6. PICK s \in Nat : s = r + c /\ Same(total, s) /\ (total = 0 <=> s = 0)
    BY <1>2a, <1>1, Sizes
  <1>7. Same(n, s + w)
    <2>1. total \in Int /\ s \in Int /\ w \in Int
      BY <1>1, Sizes
    <2> QED
      BY <2>1, <1>5, <1>6, SameAdd
  <1>8. Same(s + w, x + d)
    <2>1. x \in Int /\ d \in Int /\ s + w \in Int
      BY <1>4, <1>6, Sizes
    <2>2. CASE d = 1
      <3>1. s + w = x + WORD
        BY <1>4, <1>6, <2>2
      <3> QED
        BY <3>1, <2>1, <2>2, SameCarry
    <2>3. CASE d = 0
      <3>1. s + w = x + d
        BY <1>4, <1>6, <2>3
      <3> QED
        BY <3>1, <2>1, SameSelf
    <2> QED
      BY <1>4, <2>2, <2>3
  <1>9. Same(n, x + d)
    <2>1. x + d \in Int /\ s + w \in Int
      BY <1>4, <1>6, Sizes
    <2> QED
      BY <2>1, <1>7, <1>8, SameTrans
  <1>10. n = 0 <=> x + d = 0
    BY <1>4, <1>5, <1>6, <1>1, Sizes
  <1>11. SumKept'
    BY <1>3, <1>5, <1>9, <1>10 DEF SumKept
  <1>12. pc' = IF AtEnd(pos') THEN "fold" ELSE "loop"
    BY DEF Loop
  <1>13. CsumTypeOK'
    BY <1>1, <1>3, <1>4, <1>5, <1>12 DEF CsumTypeOK
  <1>14. Place'
    <2>1. PICK q \in Nat : Len(data) - pos = len - 4 * q
      BY <1>1 DEF Rests
    <2>2. Len(data) - (pos + 4) = len - 4 * (q + 1)
      BY <2>1, <1>1
    <2>3. Rests(len)'
      <3>1. PICK e \in Int, n0 \in Int, p0 \in Int : e = len /\ n0 = Len(data) /\ p0 = pos + 4
        BY <1>1
      <3>2. len' = e /\ Len(data') = n0 /\ pos' = p0
        BY <3>1, <1>1, <1>3
      <3>3. n0 - p0 = e - 4 * (q + 1) /\ q + 1 \in Nat
        BY <3>1, <2>2
      <3> QED
        BY <3>2, <3>3 DEF Rests
    <2>4. pos' <= Len(data) /\ (~AtEnd(pos') => pos' + 4 <= Len(data))
      BY <1>1, <1>3 DEF AtEnd
    <2>5. AtEnd(pos)' <=> AtEnd(pos')
      BY <1>1 DEF AtEnd
    <2> QED
      BY <1>1, <1>12, <2>3, <2>4, <2>5 DEF Place
  <1>15. CarryFits'
    BY <1>3, <1>4 DEF CarryFits
  <1> QED
    BY <1>11, <1>12, <1>13, <1>14, <1>15 DEF CsumInv, Returned

LEMMA FoldStep ==
    ASSUME CsumInv, Fold
    PROVE  CsumInv'
  <1>1. /\ pc = "fold" /\ pc' = "rest" /\ UNCHANGED <<data, addr, pos, len, total>> /\ carry' = 0
        /\ result \in 0 .. WORD - 1 /\ carry \in {0, 1} /\ (carry = 1 => result < WORD - 1)
        /\ total \in Nat /\ pos <= Len(data) /\ AtEnd(pos) /\ Rests(len)
        /\ Same(total, result + carry) /\ (total = 0 <=> result + carry = 0)
    BY DEF CsumInv, CsumTypeOK, Place, CarryFits, SumKept, Fold
  <1>2. PICK s \in Nat : s = result + carry /\ s < WORD
    BY <1>1, Sizes
  <1>3. result' = Fold16(s)
    BY <1>2, SmallMod, Sizes DEF Fold
  <1>4. PICK x \in Nat : x = Fold16(s) /\ Same(s, x) /\ (s > 0 => x > 0)
    BY FoldSame
  <1>5. x < 2 * HALF
    <2> DEFINE q == s \div HALF
               r == s % HALF
    <2>1. HALF \in Nat /\ HALF > 0 /\ WORD = HALF * HALF
      BY Sizes
    <2>2. s = HALF * q + r /\ q \in Nat /\ r \in 0 .. HALF - 1
      BY <2>1, EuclideanDivision
    <2>3. x = r + q
      BY <1>4 DEF Fold16
    <2> HIDE DEF q, r
    <2>4. q < HALF
      <3>1. SUFFICES ASSUME q >= HALF PROVE FALSE
        BY <2>1, <2>2
      <3>2. PICK d \in Nat : d = q - HALF
        BY <2>1, <2>2, <3>1
      <3>3. HALF * q = HALF * HALF + HALF * d /\ HALF * d \in Nat
        BY <2>1, <2>2, <3>2
      <3> QED
        BY <1>2, <2>1, <2>2, <3>3
    <2> QED
      BY <2>1, <2>2, <2>3, <2>4
  <1>6. s = 0 => x = 0
    <2>1. Fold16(0) = 0
      BY Sizes DEF Fold16
    <2> QED
      BY <2>1, <1>4
  <1>7. SumKept'
    <2>1. result' = x /\ carry' = 0
      BY <1>1, <1>3, <1>4
    <2>2. result' + carry' = x
      BY <2>1
    <2>3. Same(total, x)
      BY <1>1, <1>2, <1>4, SameTrans
    <2>4. total = 0 <=> x = 0
      BY <1>1, <1>2, <1>4, <1>6
    <2> QED
      BY <1>1, <2>2, <2>3, <2>4 DEF SumKept
  <1>8. CsumTypeOK'
    <2>1. x \in 0 .. WORD - 1
      BY <1>5, Sizes
    <2> QED
      BY <1>1, <1>3, <1>4, <2>1 DEF CsumInv, CsumTypeOK
  <1>9. Place'
    <2>1. result' < 2 * HALF
      BY <1>3, <1>4, <1>5
    <2> QED
      BY <1>1, <2>1 DEF Place, AtEnd, Rests
  <1> QED
    BY <1>1, <1>7, <1>8, <1>9 DEF CsumInv, CarryFits, Returned

\* What is left is what the bits of len say.
LEMMA RestBits ==
    ASSUME NEW n \in Nat, NEW q \in Nat, NEW r \in 0 .. 3, r = n - 4 * q
    PROVE  /\ (n \div 2) % 2 = 1 <=> r >= 2
           /\ n % 2 = 1 <=> r \in {1, 3}
  <1>1. n = 4 * q + r
    OBVIOUS
  <1>2. CASE r = 0
    <2>1. n \div 2 = 2 * q /\ n % 2 = 0 /\ (2 * q) % 2 = 0
      BY <1>1, <1>2
    <2> QED
      BY <1>2, <2>1
  <1>3. CASE r = 1
    <2>1. n \div 2 = 2 * q /\ n % 2 = 1 /\ (2 * q) % 2 = 0
      BY <1>1, <1>3
    <2> QED
      BY <1>3, <2>1
  <1>4. CASE r = 2
    <2>1. n \div 2 = 2 * q + 1 /\ n % 2 = 0 /\ (2 * q + 1) % 2 = 1
      BY <1>1, <1>4
    <2> QED
      BY <1>4, <2>1
  <1>5. CASE r = 3
    <2>1. n \div 2 = 2 * q + 1 /\ n % 2 = 1 /\ (2 * q + 1) % 2 = 1
      BY <1>1, <1>5
    <2> QED
      BY <1>5, <2>1
  <1> QED
    BY <1>2, <1>3, <1>4, <1>5

LEMMA RestStep ==
    ASSUME CsumInv, Rest
    PROVE  CsumInv'
  <1>1. /\ pc = "rest" /\ pc' = "done" /\ UNCHANGED <<data, addr, len, carry>> /\ carry = 0
        /\ pos' = Len(data) /\ data \in Seq(0 .. BYTE - 1) /\ addr \in 0 .. 3
        /\ result \in 0 .. WORD - 1 /\ result < 2 * HALF /\ pos \in Nat /\ len \in Nat
        /\ total \in Nat /\ pos <= Len(data) /\ AtEnd(pos) /\ Rests(len)
        /\ Same(total, result + carry) /\ (total = 0 <=> result + carry = 0)
    BY DEF CsumInv, CsumTypeOK, Place, SumKept, Rest
  <1>2. Same(total, result) /\ (total = 0 <=> result = 0)
    <2>1. result + carry = result
      BY <1>1, Sizes
    <2> QED
      BY <1>1, <2>1
  <1>3. PICK q \in Nat : Len(data) - pos = len - 4 * q
    BY <1>1 DEF Rests
  <1>4. PICK r \in 0 .. 3 : r = Len(data) - pos /\ r = len - 4 * q
    BY <1>1, <1>3 DEF AtEnd
  <1>5. ((len \div 2) % 2 = 1 => pos + 2 <= Len(data)) /\ (len % 2 = 1 => len > 0)
    BY <1>1, <1>4, RestBits
  <1>6. PICK s \in 0 .. HALF - 1 : s = LastShort
    BY <1>1, <1>5, Loads, Sizes DEF LastShort
  <1>7. PICK b \in 0 .. BYTE - 1 : b = LastByte
    <2>1. CASE len % 2 = 1
      <3>1. Len(data) > 0
        BY <2>1, <1>1, <1>3, <1>5
      <3>2. data[Len(data)] \in 0 .. BYTE - 1
        <4>1. Len(data) \in Nat /\ Len(data) <= Len(data)
          BY <1>1
        <4> QED
          BY <3>1, <4>1, <1>1, Elements
      <3> QED
        BY <2>1, <3>2 DEF LastByte
    <2>2. CASE len % 2 # 1
      BY <2>2, Sizes DEF LastByte
    <2> QED
      BY <2>1, <2>2
  <1>8. PICK x \in Nat : x = result + s + b /\ x < WORD
    BY <1>1, <1>6, <1>7, Sizes
  <1>9. PICK n \in Nat : n = total + s + b
    BY <1>1, <1>6, <1>7, Sizes
  <1>10. Same(n, x) /\ (n = 0 <=> x = 0)
    <2>1. total \in Int /\ result \in Int /\ s \in Int /\ b \in Int /\ s + b \in Int
      BY <1>1, <1>6, <1>7, Sizes
    <2>2. Same(total + (s + b), result + (s + b))
      BY <2>1, <1>2, SameAdd
    <2>3. n = total + (s + b) /\ x = result + (s + b)
      BY <2>1, <1>8, <1>9
    <2>4. n = 0 <=> x = 0
      BY <1>1, <1>2, <1>6, <1>7, <1>8, <1>9, Sizes
    <2> QED
      BY <2>2, <2>3, <2>4
  <1>11. x % WORD = x
    BY <1>8, SmallMod, Sizes
  <1>12. PICK y \in 0 .. HALF - 1 : y = from32to16(x) /\ Same(x, y) /\ (x = 0 <=> y = 0)
    BY <1>8, HalfWord
  <1>13. result' = IF IsOdd THEN Swapped(y) ELSE y
    <2>1. result' = LET sum == from32to16((result + s + b) % WORD) IN IF IsOdd THEN Swapped(sum) ELSE sum
      BY <1>6, <1>7 DEF Rest
    <2> QED
      BY <2>1, <1>8, <1>11, <1>12
  <1>14. total' = n
    BY <1>6, <1>7, <1>9 DEF Rest
  <1>15. Same(n, y) /\ (n = 0 <=> y = 0)
    <2>1. n \in Int /\ x \in Int /\ y \in Int
      BY <1>12, Sizes
    <2> QED
      BY <2>1, <1>10, <1>12, SameTrans
  <1>16. PICK z \in 0 .. HALF - 1, m \in Nat :
              /\ result' = z /\ m = IF IsOdd THEN BYTE * n ELSE n
              /\ Same(m, z) /\ (m = 0 <=> z = 0)
    <2>1. CASE IsOdd
      <3>1. PICK z \in 0 .. HALF - 1 : z = Swapped(y) /\ Same(BYTE * y, z) /\ (y = 0 <=> z = 0)
        BY SwapSame
      <3>2. PICK m \in Nat : m = BYTE * n
        BY Sizes
      <3>3. PICK u \in Int : u = BYTE * y
        BY <1>12, Sizes
      <3>4. Same(m, u)
        BY <1>15, <3>2, <3>3, SameTimes, Sizes
      <3>5. Same(m, z)
        BY <3>1, <3>3, <3>4, SameTrans, Sizes
      <3>6. m = 0 <=> n = 0
        BY <3>2, Sizes
      <3> QED
        BY <1>13, <1>15, <2>1, <3>1, <3>2, <3>5, <3>6
    <2>2. CASE ~IsOdd
      BY <2>2, <1>13, <1>15
    <2> QED
      BY <2>1, <2>2
  <1>17. Wanted' = m
    BY <1>1, <1>14, <1>16 DEF Wanted, IsOdd
  <1>18. z = OnesSum(m)
    BY <1>16, SumUnique
  <1>19. Returned'
    BY <1>16, <1>17, <1>18 DEF Returned
  <1>20. CsumTypeOK'
    <2>1. z \in 0 .. WORD - 1
      BY Sizes
    <2> QED
      BY <1>1, <1>14, <1>16, <2>1 DEF CsumInv, CsumTypeOK
  <1> QED
    BY <1>1, <1>19, <1>20 DEF CsumInv, Place, CarryFits, SumKept
-----------------------------------------------------------------------------
\* Between two words no carry is lost, and what has been added is kept as a
\* ones'-complement sum: the inductive invariant of do_csum.
THEOREM CsumInvariance == CsumSpec => []CsumInv
  <1>1. CsumInv /\ [do_csum]_csumVars => CsumInv'
    <2>1. ASSUME CsumInv, UNCHANGED csumVars PROVE CsumInv'
      BY <2>1 DEF csumVars, CsumInv, CsumTypeOK, Place, AtEnd, Rests, CarryFits, SumKept, Returned,
                  Wanted, IsOdd
    <2> QED
      BY <2>1, OddStep, AlignStep, LoopStep, FoldStep, RestStep DEF do_csum
  <1> QED
    BY <1>1, InitCsum, PTL DEF CsumSpec

\* What do_csum returns is the ones'-complement sum of all it loaded, its bytes swapped
\* back when the buffer begins at an odd address (checksum.c 32-84).
THEOREM CsumReturns == CsumSpec => []Returned
  <1>1. CsumInv => Returned
    BY DEF CsumInv
  <1> QED
    BY <1>1, CsumInvariance, PTL
-----------------------------------------------------------------------------
(***************************************************************************)
(* What was loaded is the words of the buffer.                             *)
(***************************************************************************)
\* What each byte counts, and what the bytes up to one count together.
Term(d) == [k \in 1 .. Len(d) |-> IF k % 2 = 1 THEN d[k] ELSE BYTE * d[k]]

Sums(d) == CHOOSE g : g = [k \in 0 .. Len(d) |->
                            IF k = 0 THEN 0
                            ELSE g[k - 1] + IF k % 2 = 1 THEN d[k] ELSE BYTE * d[k]]

LEMMA SumsAdd ==
    ASSUME NEW d \in Seq(0 .. BYTE - 1)
    PROVE  /\ WordSum(d) = Sums(d)[Len(d)]
           /\ Adds(Sums(d), Len(d), Term(d)) /\ \A k \in 0 .. Len(d) : Sums(d)[k] \in Nat
  <1> DEFINE n == Len(d)
             r(g, k) == IF k = 0 THEN 0 ELSE g[k - 1] + IF k % 2 = 1 THEN d[k] ELSE BYTE * d[k]
             Is(g) == g = [k \in 0 .. n |-> r(g, k)]
  <1>1. WordSum(d) = Sums(d)[n]
    BY DEF WordSum, Sums
  <1>2. Sums(d) = CHOOSE g : Is(g)
    BY DEF Sums
  <1>3. n \in Nat /\ DOMAIN d = 1 .. n
    OBVIOUS
  <1>4. Term(d) \in [1 .. n -> Nat]
    <2>1. \A k \in 1 .. n : d[k] \in Nat
      BY <1>3, Elements, Sizes
    <2>2. \A k \in 1 .. n : BYTE * d[k] \in Nat
      BY <2>1, Sizes
    <2> QED
      BY <2>1, <2>2 DEF Term
  <1>5. \A g : \A k \in 0 .. n : r(g, k) = IF k = 0 THEN 0 ELSE g[k - 1] + Term(d)[k]
    <2>1. \A k \in 0 .. n : k # 0 => k \in 1 .. n
      BY <1>3
    <2>2. \A k \in 1 .. n : Term(d)[k] = IF k % 2 = 1 THEN d[k] ELSE BYTE * d[k]
      BY DEF Term
    <2> QED
      BY <2>1, <2>2
  <1>6. PICK f \in [0 .. n -> Nat] : Adds(f, n, Term(d))
    BY <1>3, <1>4, SumsExist
  <1>7. n = Len(d)
    OBVIOUS
  <1> HIDE DEF n, r
  <1>8. Is(f)
    <2>1. \A k \in 0 .. n : k # 0 => k \in 1 .. n
      BY <1>3
    <2>2. \A k \in 0 .. n : f[k] = r(f, k)
      BY <1>5, <1>6, <2>1 DEF Adds
    <2>3. f = [k \in 0 .. n |-> f[k]]
      BY <1>6
    <2> QED
      BY <2>2, <2>3
  <1> HIDE DEF Is
  <1>9. Is(Sums(d))
    BY <1>2, <1>8
  <1>10. \A k \in 0 .. n : Sums(d)[k] = r(Sums(d), k)
    BY <1>9 DEF Is
  <1>11. Adds(Sums(d), n, Term(d))
    <2>1. 0 \in 0 .. n /\ \A k \in 1 .. n : k # 0 /\ k \in 0 .. n
      BY <1>3
    <2> QED
      BY <1>5, <1>10, <2>1 DEF Adds
  <1> QED
    BY <1>1, <1>3, <1>4, <1>7, <1>11, SumsInNat
\* A sum at an odd address counts the bytes the other way round.
Times(x) == IF IsOdd THEN BYTE * x ELSE x

LEMMA TimesAdd ==
    ASSUME NEW a \in Nat, NEW b \in Nat
    PROVE  Times(a) \in Nat /\ Times(b) \in Nat /\ Times(a + b) = Times(a) + Times(b)
  <1>1. BYTE * (a + b) = BYTE * a + BYTE * b /\ BYTE * a \in Nat /\ BYTE * b \in Nat
    BY Sizes
  <1> QED
    BY <1>1 DEF Times

\* A step of half a word does not count.
LEMMA SameHalf ==
    ASSUME NEW x \in Nat
    PROVE  HALF * x \in Nat /\ Same(HALF * x, x)
  <1>1. HALF \in Int
    BY Sizes
  <1>2. HALF * x = x + x * (HALF - 1) /\ HALF * x \in Nat
    BY <1>1, Sizes
  <1> QED
    BY <1>2 DEF Same

LEMMA SamePlus ==
    ASSUME NEW a \in Int, NEW b \in Int, NEW c \in Int, NEW d \in Int, Same(a, b), Same(c, d)
    PROVE  Same(a + c, b + d)
  <1>1. Same(a + c, b + c)
    BY SameAdd
  <1>2. Same(c + b, d + b)
    BY SameAdd
  <1>3. c + b = b + c /\ d + b = b + d /\ a + c \in Int /\ b + c \in Int /\ b + d \in Int
    OBVIOUS
  <1> QED
    BY <1>1, <1>2, <1>3, SameTrans

\* A load x of which u is the part in the sum.
Counts(x, u) == Same(Times(x), u) /\ (x = 0 <=> u = 0)

LEMMA CountsAdd ==
    ASSUME NEW x \in Nat, NEW u \in Nat, NEW y \in Nat, NEW v \in Nat, Counts(x, u), Counts(y, v)
    PROVE  Counts(x + y, u + v)
  <1>1. Times(x) \in Nat /\ Times(y) \in Nat /\ Times(x + y) = Times(x) + Times(y)
    BY TimesAdd
  <1>2. Same(Times(x) + Times(y), u + v)
    BY <1>1, SamePlus DEF Counts
  <1>3. x + y = 0 <=> u + v = 0
    BY DEF Counts
  <1> QED
    BY <1>1, <1>2, <1>3 DEF Counts

LEMMA CountsHalf ==
    ASSUME NEW x \in Nat, NEW u \in Nat, Counts(x, u)
    PROVE  HALF * x \in Nat /\ Counts(HALF * x, u)
  <1>1. HALF * x \in Nat /\ Same(HALF * x, x)
    BY SameHalf
  <1>2. Same(Times(HALF * x), Times(x))
    <2>1. CASE IsOdd
      <3>1. BYTE \in Int /\ x \in Int /\ HALF * x \in Int
        BY <1>1, Sizes
      <3>2. PICK y \in Int : y = HALF * x
        BY <3>1
      <3>3. Same(BYTE * y, BYTE * x)
        BY <1>1, <3>1, <3>2, SameTimes
      <3> QED
        BY <2>1, <3>2, <3>3 DEF Times
    <2>2. CASE ~IsOdd
      BY <1>1, <2>2 DEF Times
    <2> QED
      BY <2>1, <2>2
  <1>3. Times(HALF * x) \in Nat /\ Times(x) \in Nat
    BY <1>1, TimesAdd
  <1>4. Same(Times(HALF * x), u)
    BY <1>2, <1>3, SameTrans DEF Counts
  <1>5. HALF * x = 0 <=> x = 0
    BY Sizes
  <1> QED
    BY <1>1, <1>4, <1>5 DEF Counts

\* A load begins at an even address, but for the first byte of a buffer at an odd one.
Aligned(i) == IF IsOdd THEN \E h \in Nat : i = 2 * h + 1 ELSE \E h \in Nat : i = 2 * h

LEMMA AlignedTwo ==
    ASSUME NEW i \in Nat, Aligned(i)
    PROVE  Aligned(i + 2)
  <1>1. CASE IsOdd
    <2>1. PICK h \in Nat : i = 2 * h + 1
      BY <1>1 DEF Aligned
    <2>2. i + 2 = 2 * (h + 1) + 1 /\ h + 1 \in Nat
      BY <2>1
    <2> QED
      BY <1>1, <2>2 DEF Aligned
  <1>2. CASE ~IsOdd
    <2>1. PICK h \in Nat : i = 2 * h
      BY <1>2 DEF Aligned
    <2>2. i + 2 = 2 * (h + 1) /\ h + 1 \in Nat
      BY <2>1
    <2> QED
      BY <1>2, <2>2 DEF Aligned
  <1> QED
    BY <1>1, <1>2

\* Which bytes count BYTE there.
LEMMA AlignedTerms ==
    ASSUME data \in Seq(0 .. BYTE - 1), NEW i \in Nat, Aligned(i)
    PROVE  /\ i + 1 <= Len(data) => /\ data[i + 1] \in Nat
                                   /\ Term(data)[i + 1] = IF IsOdd THEN BYTE * data[i + 1] ELSE data[i + 1]
           /\ i + 2 <= Len(data) => /\ data[i + 2] \in Nat
                                   /\ Term(data)[i + 2] = IF IsOdd THEN data[i + 2] ELSE BYTE * data[i + 2]
  <1>1. \A k \in 1 .. Len(data) : /\ data[k] \in Nat
                                  /\ Term(data)[k] = IF k % 2 = 1 THEN data[k] ELSE BYTE * data[k]
    BY Elements, Sizes DEF Term
  <1>2. CASE IsOdd
    <2>1. PICK h \in Nat : i = 2 * h + 1
      BY <1>2 DEF Aligned
    <2>2. (i + 1) % 2 = 0 /\ (i + 2) % 2 = 1
      BY <2>1
    <2> QED
      BY <1>1, <1>2, <2>2
  <1>3. CASE ~IsOdd
    <2>1. PICK h \in Nat : i = 2 * h
      BY <1>3 DEF Aligned
    <2>2. (i + 1) % 2 = 1 /\ (i + 2) % 2 = 0
      BY <2>1
    <2> QED
      BY <1>1, <1>3, <2>2
  <1> QED
    BY <1>2, <1>3

\* Loads of a byte and of two.
LEMMA ByteCounts ==
    ASSUME data \in Seq(0 .. BYTE - 1), NEW i \in Nat, Aligned(i), i + 1 <= Len(data)
    PROVE  /\ data[i + 1] \in Nat
           /\ \E u \in Nat : Sums(data)[i + 1] = Sums(data)[i] + u /\ Counts(data[i + 1], u)
  <1>1. data[i + 1] \in Nat /\ Term(data)[i + 1] = Times(data[i + 1])
    BY AlignedTerms DEF Times
  <1>2. Times(data[i + 1]) \in Nat
    BY <1>1, TimesAdd
  <1>3. i + 1 \in 1 .. Len(data) /\ (i + 1) - 1 = i
    OBVIOUS
  <1>4. Sums(data)[i + 1] = Sums(data)[i] + Times(data[i + 1])
    BY <1>1, <1>3, SumsAdd DEF Adds
  <1>5. data[i + 1] = 0 <=> Times(data[i + 1]) = 0
    BY <1>1, Sizes DEF Times
  <1>6. Same(Times(data[i + 1]), Times(data[i + 1]))
    BY <1>2, SameSelf
  <1> QED
    BY <1>1, <1>2, <1>4, <1>5, <1>6 DEF Counts

ShortAt(i) == data[i + 1] + BYTE * data[i + 2]

LEMMA ShortCounts ==
    ASSUME data \in Seq(0 .. BYTE - 1), NEW i \in Nat, Aligned(i), i + 2 <= Len(data)
    PROVE  /\ ShortAt(i) \in Nat
           /\ \E u \in Nat : Sums(data)[i + 2] = Sums(data)[i] + u /\ Counts(ShortAt(i), u)
  <1>1. PICK a \in Nat, b \in Nat : a = data[i + 1] /\ b = data[i + 2]
    BY AlignedTerms
  <1>2. BYTE * a \in Nat /\ BYTE * b \in Nat /\ (BYTE * a = 0 <=> a = 0) /\ (BYTE * b = 0 <=> b = 0)
    BY Sizes
  <1>3. ShortAt(i) = a + BYTE * b
    BY <1>1 DEF ShortAt
  <1>4. i + 1 \in 1 .. Len(data) /\ (i + 1) - 1 = i /\ i + 2 \in 1 .. Len(data) /\ (i + 2) - 1 = i + 1
        /\ i \in 0 .. Len(data)
    OBVIOUS
  <1>5. Sums(data)[i + 1] = Sums(data)[i] + Term(data)[i + 1] /\ Sums(data)[i + 2] = Sums(data)[i + 1] + Term(data)[i + 2] /\ Sums(data)[i] \in Nat
    BY <1>4, SumsAdd DEF Adds
  <1>6. CASE ~IsOdd
    <2>1. Sums(data)[i + 2] = Sums(data)[i] + (a + BYTE * b)
      BY <1>1, <1>2, <1>5, <1>6, AlignedTerms
    <2>2. Times(a + BYTE * b) = a + BYTE * b
      BY <1>6 DEF Times
    <2>3. Counts(a + BYTE * b, a + BYTE * b)
      BY <1>2, <2>2, SameSelf DEF Counts
    <2> QED
      BY <1>2, <1>3, <2>1, <2>3
  <1>7. CASE IsOdd
    <2>1. Sums(data)[i + 2] = Sums(data)[i] + (BYTE * a + b)
      BY <1>1, <1>2, <1>5, <1>7, AlignedTerms
    <2>2. BYTE * (a + BYTE * b) = BYTE * a + HALF * b
      BY Sizes
    <2>3. HALF * b \in Nat /\ Same(HALF * b, b)
      BY SameHalf
    <2>4. Same(BYTE * a, BYTE * a)
      BY <1>2, SameSelf
    <2>5. Same(BYTE * a + HALF * b, BYTE * a + b)
      BY <1>2, <2>3, <2>4, SamePlus
    <2>6. a + BYTE * b = 0 <=> BYTE * a + b = 0
      BY <1>2
    <2>7. Counts(a + BYTE * b, BYTE * a + b)
      BY <1>7, <2>2, <2>5, <2>6 DEF Counts, Times
    <2> QED
      BY <1>2, <1>3, <2>1, <2>7
  <1> QED
    BY <1>6, <1>7
\* Where the sum has got to.
Loaded ==
    /\ pc \notin {"odd", "done"} => Aligned(pos)
    /\ pc = "done" => pos = Len(data)
    /\ Counts(total, Sums(data)[pos])

\* A load x that brings pos to i.
LEMMA LoadedMore ==
    ASSUME data \in Seq(0 .. BYTE - 1), Counts(total, Sums(data)[pos]), pos \in 0 .. Len(data), total \in Nat,
           NEW x \in Nat, NEW u \in Nat, NEW i \in Nat, Counts(x, u), Sums(data)[i] = Sums(data)[pos] + u,
           UNCHANGED <<data, addr>>, pos' = i, total' = total + x
    PROVE  Counts(total, Sums(data)[pos])'
  <1>1. Sums(data)[pos] \in Nat
    BY SumsAdd
  <1>2. Counts(total + x, Sums(data)[i])
    BY <1>1, CountsAdd
  <1>3. Sums(data)' = Sums(data)
    BY DEF Sums
  <1> QED
    BY <1>2, <1>3 DEF Counts, Times, IsOdd

LEMMA InitLoaded ==
    ASSUME data \in Seq(0 .. BYTE - 1), CsumInit
    PROVE  Loaded
  <1>1. Sums(data)[0] = 0
    BY SumsAdd DEF Adds
  <1>2. Times(0) = 0
    BY Sizes DEF Times
  <1> QED
    BY <1>1, <1>2, SameSelf DEF CsumInit, Loaded, Counts

LEMMA OddLoaded ==
    ASSUME CsumInv, Loaded, Odd
    PROVE  Loaded'
  <1>1. /\ pc = "odd" /\ data' = data /\ addr' = addr /\ addr \in 0 .. 3
        /\ total = 0 /\ pos = 0 /\ len = Len(data) /\ len \in Nat /\ data \in Seq(0 .. BYTE - 1)
    BY DEF CsumInv, CsumTypeOK, Place, Odd
  <1>2. Sums(data)' = Sums(data)
    BY <1>1 DEF Sums
  <1>3. CASE len > 0 /\ IsOdd
    <2>1. total' = Byte * BYTE /\ pos' = 1 /\ pc' = "align"
      BY <1>3 DEF Odd
    <2>2. PICK a \in Nat : a = Byte
      BY <1>1, <1>3, Loads, Sizes
    <2>3. Sums(data)[1] = a
      <3>1. Term(data)[1] = a
        BY <1>1, <1>3, <2>2 DEF Term, Byte
      <3>2. 1 \in 1 .. Len(data) /\ 1 - 1 = 0
        BY <1>1, <1>3
      <3> QED
        BY <1>1, <3>1, <3>2, SumsAdd DEF Adds
    <2>4. a * BYTE \in Nat /\ BYTE * (a * BYTE) = HALF * a /\ (a * BYTE = 0 <=> a = 0)
      BY Sizes
    <2>5. Same(HALF * a, a)
      BY SameHalf
    <2>6. Counts(a * BYTE, a)
      BY <1>3, <2>4, <2>5 DEF Counts, Times
    <2>7. Counts(total, Sums(data)[pos])'
      BY <1>1, <1>2, <2>1, <2>2, <2>3, <2>6 DEF Counts, Times, IsOdd
    <2>8. Aligned(1)
      <3>1. 1 = 2 * 0 + 1
        OBVIOUS
      <3> QED
        BY <1>3, <3>1 DEF Aligned
    <2>9. Aligned(pos)'
      BY <1>1, <2>1, <2>8 DEF Aligned, IsOdd
    <2> QED
      BY <2>1, <2>7, <2>9 DEF Loaded
  <1>4. CASE ~(len > 0 /\ IsOdd)
    <2>1. UNCHANGED <<pos, total>> /\ pc' = IF len > 0 THEN "align" ELSE "done"
      BY <1>4 DEF Odd
    <2>2. Counts(total, Sums(data)[pos])'
      BY <1>1, <1>2, <2>1 DEF Loaded, Counts, Times, IsOdd
    <2>3. len > 0 => Aligned(pos)'
      <3>1. 0 = 2 * 0
        OBVIOUS
      <3> QED
        BY <1>1, <1>4, <2>1, <3>1 DEF Aligned, IsOdd
    <2> QED
      BY <1>1, <2>1, <2>2, <2>3 DEF Loaded
  <1> QED
    BY <1>3, <1>4

LEMMA AlignLoaded ==
    ASSUME CsumInv, Loaded, Align
    PROVE  Loaded'
  <1>1. /\ pc = "align" /\ data' = data /\ addr' = addr /\ pos \in Nat /\ len \in Nat /\ total \in Nat
        /\ pos + len = Len(data) /\ data \in Seq(0 .. BYTE - 1) /\ pc' \in {"loop", "rest"}
        /\ Aligned(pos) /\ Counts(total, Sums(data)[pos])
    BY DEF CsumInv, CsumTypeOK, Place, Align, Loaded
  <1>2. CASE len >= 2 /\ (addr + pos) % 4 >= 2
    <2>1. total' = total + ShortAt(pos) /\ pos' = pos + 2
      BY <1>2 DEF Align, Short, ShortAt
    <2>2. pos \in 0 .. Len(data) /\ pos + 2 <= Len(data) /\ pos + 2 \in Nat
      BY <1>1, <1>2
    <2>3. PICK u \in Nat : Sums(data)[pos + 2] = Sums(data)[pos] + u /\ Counts(ShortAt(pos), u)
      BY <1>1, <2>2, ShortCounts
    <2>4. ShortAt(pos) \in Nat
      BY <1>1, <2>2, ShortCounts
    <2>5. Counts(total, Sums(data)[pos])'
      BY <1>1, <2>1, <2>2, <2>3, <2>4, LoadedMore
    <2>6. Aligned(pos + 2)
      BY <1>1, AlignedTwo
    <2>7. Aligned(pos)'
      BY <1>1, <2>1, <2>6 DEF Aligned, IsOdd
    <2> QED
      BY <1>1, <2>5, <2>7 DEF Loaded
  <1>3. CASE ~(len >= 2 /\ (addr + pos) % 4 >= 2)
    <2>1. UNCHANGED <<pos, total>>
      BY <1>3 DEF Align
    <2> QED
      BY <1>1, <2>1 DEF Loaded, Counts, Times, Aligned, IsOdd
  <1> QED
    BY <1>2, <1>3

LEMMA LoopLoaded ==
    ASSUME CsumInv, Loaded, Loop
    PROVE  Loaded'
  <1>1. /\ pc = "loop" /\ data' = data /\ addr' = addr /\ pos \in Nat /\ total \in Nat
        /\ pos + 4 <= Len(data) /\ data \in Seq(0 .. BYTE - 1) /\ pc' \in {"loop", "fold"}
        /\ Aligned(pos) /\ Counts(total, Sums(data)[pos]) /\ total' = total + Word /\ pos' = pos + 4
    BY DEF CsumInv, CsumTypeOK, Place, Loop, Loaded
  <1>2. /\ pos \in 0 .. Len(data) /\ pos + 2 \in Nat /\ pos + 2 <= Len(data) /\ (pos + 2) + 2 = pos + 4
        /\ (pos + 2) + 1 = pos + 3 /\ pos + 4 \in Nat
    BY <1>1
  <1>3. Aligned(pos + 2) /\ Aligned(pos + 4)
    BY <1>1, <1>2, AlignedTwo
  <1>4. PICK u \in Nat : Sums(data)[pos + 2] = Sums(data)[pos] + u /\ Counts(ShortAt(pos), u)
    BY <1>1, <1>2, ShortCounts
  <1>5. PICK v \in Nat : Sums(data)[pos + 4] = Sums(data)[pos + 2] + v /\ Counts(ShortAt(pos + 2), v)
    BY <1>1, <1>2, <1>3, ShortCounts
  <1>6. PICK a \in Nat, b \in Nat : a = ShortAt(pos) /\ b = ShortAt(pos + 2)
    BY <1>1, <1>2, <1>3, ShortCounts
  <1>7. Word = a + HALF * b
    BY <1>2, <1>6 DEF Word, Short, ShortAt
  <1>8. PICK c \in Nat : c = HALF * b /\ Counts(c, v)
    BY <1>5, <1>6, CountsHalf
  <1>9. Counts(a + c, u + v) /\ a + c \in Nat /\ u + v \in Nat
    <2>1. Counts(a, u) /\ Counts(c, v)
      BY <1>4, <1>6, <1>8
    <2>2. Counts(a + c, u + v)
      BY <2>1, CountsAdd
    <2> QED
      BY <2>2
  <1>10. Sums(data)[pos] \in Nat
    BY <1>1, <1>2, SumsAdd
  <1>11. Sums(data)[pos + 4] = Sums(data)[pos] + (u + v)
    BY <1>4, <1>5, <1>10
  <1>12. Counts(total, Sums(data)[pos])'
    BY <1>1, <1>2, <1>7, <1>8, <1>9, <1>11, LoadedMore
  <1>13. Aligned(pos)'
    BY <1>1, <1>3 DEF Aligned, IsOdd
  <1> QED
    BY <1>1, <1>12, <1>13 DEF Loaded

LEMMA FoldLoaded ==
    ASSUME CsumInv, Loaded, Fold
    PROVE  Loaded'
  BY DEF Fold, Loaded, Counts, Times, Aligned, IsOdd

LEMMA RestLoaded ==
    ASSUME CsumInv, Loaded, Rest
    PROVE  Loaded'
  <1>1. /\ pc = "rest" /\ pc' = "done" /\ data' = data /\ addr' = addr /\ pos \in Nat /\ total \in Nat
        /\ pos <= Len(data) /\ data \in Seq(0 .. BYTE - 1) /\ AtEnd(pos) /\ Rests(len) /\ len \in Nat
        /\ Aligned(pos) /\ Counts(total, Sums(data)[pos]) /\ total' = total + LastShort + LastByte
        /\ pos' = Len(data)
    BY DEF CsumInv, CsumTypeOK, Place, Rest, Loaded
  <1>2. PICK q \in Nat : Len(data) - pos = len - 4 * q
    BY <1>1 DEF Rests
  <1>3. PICK r \in 0 .. 3 : r = Len(data) - pos /\ r = len - 4 * q
    BY <1>1, <1>2 DEF AtEnd
  <1>4. ((len \div 2) % 2 = 1 <=> r >= 2) /\ (len % 2 = 1 <=> r \in {1, 3})
    BY <1>1, <1>3, RestBits
  <1>5. Counts(0, 0)
    <2>1. Times(0) = 0
      BY Sizes DEF Times
    <2> QED
      BY <2>1, SameSelf DEF Counts
  <1>6. \A i \in 0 .. Len(data) : Sums(data)[i] \in Nat
    BY <1>1, SumsAdd
  <1>7. PICK x \in Nat, u \in Nat, i \in 0 .. Len(data) :
              /\ x = LastShort /\ Counts(x, u) /\ Sums(data)[i] = Sums(data)[pos] + u /\ Aligned(i)
              /\ Len(data) = i + IF r \in {1, 3} THEN 1 ELSE 0
    <2>1. CASE r >= 2
      <3>1. LastShort = ShortAt(pos)
        BY <1>4, <2>1 DEF LastShort, Short, ShortAt
      <3>2. pos + 2 \in 0 .. Len(data) /\ Len(data) = (pos + 2) + IF r \in {1, 3} THEN 1 ELSE 0
        BY <1>1, <1>3, <2>1
      <3>3. PICK u \in Nat : Sums(data)[pos + 2] = Sums(data)[pos] + u /\ Counts(ShortAt(pos), u)
        BY <1>1, <3>2, ShortCounts
      <3>4. ShortAt(pos) \in Nat
        BY <1>1, <3>2, ShortCounts
      <3>5. Aligned(pos + 2)
        BY <1>1, AlignedTwo
      <3> QED
        BY <3>1, <3>2, <3>3, <3>4, <3>5
    <2>2. CASE r < 2
      <3>1. LastShort = 0
        BY <1>3, <1>4, <2>2 DEF LastShort
      <3>2. pos \in 0 .. Len(data) /\ Len(data) = pos + IF r \in {1, 3} THEN 1 ELSE 0
        BY <1>1, <1>3, <2>2
      <3>3. Sums(data)[pos] = Sums(data)[pos] + 0
        BY <1>6, <3>2
      <3> QED
        BY <1>1, <1>5, <3>1, <3>2, <3>3
    <2> QED
      BY <1>3, <2>1, <2>2
  <1>8. PICK y \in Nat, v \in Nat : y = LastByte /\ Counts(y, v) /\ Sums(data)[Len(data)] = Sums(data)[i] + v
    <2>1. CASE r \in {1, 3}
      <3>1. i \in Nat /\ Len(data) = i + 1
        BY <1>7, <2>1
      <3>2. LastByte = data[i + 1]
        BY <1>4, <2>1, <3>1 DEF LastByte
      <3>3. data[i + 1] \in Nat
        BY <1>1, <1>7, <3>1, ByteCounts
      <3>4. PICK v \in Nat : Sums(data)[i + 1] = Sums(data)[i] + v /\ Counts(data[i + 1], v)
        BY <1>1, <1>7, <3>1, ByteCounts
      <3> QED
        BY <3>1, <3>2, <3>3, <3>4
    <2>2. CASE r \notin {1, 3}
      <3>1. Len(data) = i /\ LastByte = 0
        BY <1>4, <1>7, <2>2 DEF LastByte
      <3>2. Sums(data)[i] = Sums(data)[i] + 0
        BY <1>6, <1>7
      <3> QED
        BY <1>5, <3>1, <3>2
    <2> QED
      BY <2>1, <2>2
  <1>9. Counts(x + y, u + v) /\ x + y \in Nat /\ u + v \in Nat
    BY <1>7, <1>8, CountsAdd
  <1>10. Len(data) \in Nat /\ pos \in 0 .. Len(data)
    BY <1>1
  <1>11. Sums(data)[Len(data)] = Sums(data)[pos] + (u + v)
    <2>1. Sums(data)[pos] \in Nat
      BY <1>6, <1>10
    <2> QED
      BY <1>7, <1>8, <2>1
  <1>12. total' = total + (x + y)
    BY <1>1, <1>7, <1>8
  <1>13. Counts(total, Sums(data)[pos])'
    BY <1>1, <1>9, <1>10, <1>11, <1>12, LoadedMore
  <1> QED
    BY <1>1, <1>13 DEF Loaded

LEMMA LoadedStep ==
    ASSUME CsumInv, Loaded, [do_csum]_csumVars
    PROVE  Loaded'
  <1>1. CASE UNCHANGED csumVars
    BY <1>1 DEF csumVars, Loaded, Counts, Times, Aligned, IsOdd
  <1> QED
    BY <1>1, OddLoaded, AlignLoaded, LoopLoaded, FoldLoaded, RestLoaded DEF do_csum

\* The ones'-complement sum is congruent to the number.
LEMMA OnesSumSame ==
    ASSUME NEW n \in Nat
    PROVE  /\ OnesSum(n) \in 0 .. HALF - 1 /\ Same(n, OnesSum(n))
           /\ n = 0 <=> OnesSum(n) = 0
  <1> DEFINE m == HALF - 1
  <1>1. m \in Nat /\ m > 0
    BY Sizes
  <1>2. CASE n = 0
    <2>1. OnesSum(n) = 0
      BY <1>2 DEF OnesSum
    <2> QED
      BY <1>1, <1>2, <2>1, SameSelf
  <1>3. CASE n > 0
    <2> DEFINE q == (n - 1) \div m
               r == (n - 1) % m
    <2>1. n - 1 = m * q + r /\ q \in Nat /\ r \in 0 .. m - 1
      <3>1. n - 1 \in Nat
        BY <1>3
      <3> HIDE DEF m
      <3> QED
        BY <3>1, <1>1, EuclideanDivision
    <2>2. OnesSum(n) = 1 + r
      BY <1>3 DEF OnesSum
    <2> HIDE DEF m, q, r
    <2>3. n = (1 + r) + q * m
      <3>1. q * m = m * q /\ m * q \in Int
        BY <1>1, <2>1
      <3> QED
        BY <2>1, <3>1
    <2> QED
      BY <1>1, <1>3, <2>1, <2>2, <2>3 DEF Same, m
  <1> QED
    BY <1>2, <1>3

LEMMA SameSym ==
    ASSUME NEW a \in Int, NEW b \in Int, Same(a, b)
    PROVE  Same(b, a)
  <1> DEFINE m == HALF - 1
  <1>1. PICK k \in Int : a = b + k * m
    BY DEF Same
  <1>2. m \in Int
    BY Sizes
  <1> HIDE DEF m
  <1>3. (-k) * m = -(k * m) /\ k * m \in Int /\ -k \in Int
    BY <1>2
  <1>4. b = a + (-k) * m
    BY <1>1, <1>3
  <1> QED
    BY <1>3, <1>4 DEF Same, m

\* Congruent numbers have one ones'-complement sum.
LEMMA SumsAgree ==
    ASSUME NEW a \in Nat, NEW b \in Nat, NEW x \in 0 .. HALF - 1, x = OnesSum(a), Same(a, b), a = 0 <=> b = 0
    PROVE  x = OnesSum(b)
  <1>1. Same(a, x) /\ (a = 0 <=> x = 0)
    BY OnesSumSame
  <1>2. a \in Int /\ b \in Int /\ x \in Int
    BY Sizes
  <1>3. Same(b, a)
    BY <1>2, SameSym
  <1>4. Same(b, x)
    BY <1>1, <1>2, <1>3, SameTrans
  <1> QED
    BY <1>1, <1>4, SumUnique

LEMMA ReturnsSum ==
    ASSUME CsumInv, Loaded, pc = "done"
    PROVE  result = OnesSum(WordSum(data))
  <1>1. data \in Seq(0 .. BYTE - 1) /\ total \in Nat /\ pos = Len(data)
    BY DEF CsumInv, CsumTypeOK, Loaded
  <1>2. result \in 0 .. HALF - 1 /\ result = OnesSum(Times(total))
    BY DEF CsumInv, Returned, Wanted, Times
  <1>3. PICK n \in Nat : n = WordSum(data) /\ Counts(total, n)
    BY <1>1, SumsAdd DEF Loaded
  <1>4. PICK w \in Nat : w = Times(total)
    BY <1>1, TimesAdd
  <1>5. w = 0 <=> total = 0
    BY <1>1, <1>4, Sizes DEF Times
  <1> QED
    BY <1>2, <1>3, <1>4, <1>5, SumsAgree DEF Counts

-----------------------------------------------------------------------------
(***************************************************************************)
(* Sums of words, one sequence of bytes after the other.                   *)
(***************************************************************************)
Digit == 0 .. BYTE - 1

LEMMA DigitsIn ==
    ASSUME NEW d \in Seq(Digit)
    PROVE  /\ d \in Seq(0 .. BYTE - 1) /\ Len(d) \in Nat
           /\ \A k \in 1 .. Len(d) : d[k] \in Digit /\ d[k] \in Nat /\ BYTE * d[k] \in Nat
  <1>1. Len(d) \in Nat /\ \A k \in 1 .. Len(d) : d[k] \in Digit
    OBVIOUS
  <1>2. \A x \in Digit : x \in Nat /\ BYTE * x \in Nat
    BY Sizes DEF Digit
  <1> QED
    BY <1>1, <1>2 DEF Digit

\* f counts the bytes of d.
Counting(f, d) ==
    /\ f[0] = 0 /\ \A k \in 0 .. Len(d) : f[k] \in Nat
    /\ \A k \in 0 .. Len(d) - 1 :
           f[k + 1] = f[k] + IF (k + 1) % 2 = 1 THEN d[k + 1] ELSE BYTE * d[k + 1]

LEMMA WordSumCounts ==
    ASSUME NEW d \in Seq(Digit)
    PROVE  WordSum(d) \in Nat /\ \E f : Counting(f, d) /\ WordSum(d) = f[Len(d)]
  <1>1. d \in Seq(0 .. BYTE - 1) /\ Len(d) \in Nat
    BY DigitsIn
  <1>2. PICK f : f = Sums(d)
    OBVIOUS
  <1>3. WordSum(d) = f[Len(d)] /\ Adds(f, Len(d), Term(d)) /\ \A k \in 0 .. Len(d) : f[k] \in Nat
    BY <1>1, <1>2, SumsAdd
  <1>4. ASSUME NEW k \in 0 .. Len(d) - 1
        PROVE  f[k + 1] = f[k] + IF (k + 1) % 2 = 1 THEN d[k + 1] ELSE BYTE * d[k + 1]
    <2>1. k + 1 \in 1 .. Len(d) /\ (k + 1) - 1 = k
      BY <1>1
    <2> QED
      BY <1>3, <2>1 DEF Adds, Term
  <1>5. Len(d) \in 0 .. Len(d)
    BY <1>1
  <1>6. Counting(f, d)
    BY <1>3, <1>4 DEF Adds, Counting
  <1> QED
    BY <1>3, <1>5, <1>6

\* Behind an even number of bytes a sequence counts as it does alone.
LEMMA WordSumJoin ==
    ASSUME NEW a \in Seq(Digit), NEW b \in Seq(Digit), NEW h \in Nat, Len(a) = 2 * h
    PROVE  /\ a \o b \in Seq(Digit) /\ Len(a \o b) = Len(a) + Len(b)
           /\ WordSum(a \o b) = WordSum(a) + WordSum(b)
  <1> DEFINE c == a \o b
             n == Len(a)
             m == Len(b)
  <1>1. /\ n \in Nat /\ m \in Nat /\ c \in Seq(Digit) /\ Len(c) = n + m /\ n = Len(a) /\ m = Len(b)
        /\ \A k \in 1 .. n : c[k] = a[k]
        /\ \A k \in 1 .. m : c[n + k] = b[k]
        /\ c = a \o b
    OBVIOUS
  <1> HIDE DEF c, n, m
  <1>0. n \in 0 .. n /\ m \in 0 .. m
    BY <1>1
  <1>2. PICK f : Counting(f, c) /\ WordSum(c) = f[n + m]
    BY <1>1, WordSumCounts
  <1>3. PICK g : Counting(g, a) /\ WordSum(a) = g[n]
    BY <1>1, WordSumCounts
  <1>4. PICK e : Counting(e, b) /\ WordSum(b) = e[m]
    BY <1>1, WordSumCounts
  <1>5. f[n] = g[n]
    <2> DEFINE T == {k \in 0 .. n : f[k] = g[k]}
    <2>1. 0 \in T
      BY <1>1, <1>2, <1>3 DEF Counting
    <2>2. ASSUME NEW k \in T, k < n PROVE k + 1 \in T
      <3>1. k \in 0 .. Len(a) - 1 /\ k \in 0 .. Len(c) - 1 /\ k + 1 \in 0 .. n /\ f[k] = g[k]
        BY <1>1, <2>2
      <3>2. c[k + 1] = a[k + 1]
        BY <1>1, <3>1
      <3>3. f[k + 1] = g[k + 1]
        BY <1>2, <1>3, <3>1, <3>2 DEF Counting
      <3> QED
        BY <3>1, <3>3
    <2>3. T \subseteq 0 .. n /\ (T = 0 .. n => f[n] = g[n])
      BY <1>0
    <2> HIDE DEF T
    <2> QED
      BY <1>1, <2>1, <2>2, <2>3, Induct
  <1>6. g[n] \in Nat /\ \A k \in 0 .. m : e[k] \in Nat
    BY <1>1, <1>3, <1>4 DEF Counting
  <1>7. f[n + m] = g[n] + e[m]
    <2> DEFINE U == {k \in 0 .. m : f[n + k] = g[n] + e[k]}
    <2>1. 0 \in U
      BY <1>1, <1>4, <1>5, <1>6 DEF Counting
    <2>2. ASSUME NEW k \in U, k < m PROVE k + 1 \in U
      <3>1. /\ k \in Nat /\ k \in 0 .. Len(b) - 1 /\ n + k \in 0 .. Len(c) - 1 /\ k + 1 \in 0 .. m
            /\ f[n + k] = g[n] + e[k] /\ (n + k) + 1 = n + (k + 1) /\ k + 1 \in 1 .. m
        BY <1>1, <2>2
      <3>2. c[(n + k) + 1] = b[k + 1]
        BY <1>1, <3>1
      <3>3. ((n + k) + 1) % 2 = 1 <=> (k + 1) % 2 = 1
        <4>1. (n + k) + 1 = 2 * h + (k + 1) /\ k + 1 \in Nat
          BY <1>1, <3>1
        <4>2. \A j \in Nat : (2 * h + j) % 2 = j % 2
          OBVIOUS
        <4> QED
          BY <4>1, <4>2
      <3> DEFINE t == IF (k + 1) % 2 = 1 THEN b[k + 1] ELSE BYTE * b[k + 1]
      <3>4. e[k + 1] = e[k] + t
        BY <1>4, <3>1 DEF Counting
      <3>5. f[(n + k) + 1] = f[n + k] + t
        BY <1>2, <3>1, <3>2, <3>3 DEF Counting
      <3>6. t \in Nat
        BY <1>1, <3>1, DigitsIn
      <3> HIDE DEF t
      <3>7. f[n + (k + 1)] = g[n] + e[k + 1]
        BY <1>6, <3>1, <3>4, <3>5, <3>6
      <3> QED
        BY <3>1, <3>7
    <2>3. U \subseteq 0 .. m /\ (U = 0 .. m => f[n + m] = g[n] + e[m])
      BY <1>0
    <2> HIDE DEF U
    <2> QED
      BY <1>1, <2>1, <2>2, <2>3, Induct
  <1> QED
    BY <1>1, <1>2, <1>3, <1>4, <1>7

\* A word from its bytes.
Load(b) == (b[1] + BYTE * b[2]) + HALF * (b[3] + BYTE * b[4])

LEMMA FourBytes ==
    ASSUME NEW b \in Seq(Digit), Len(b) = 4
    PROVE  /\ Load(b) \in 0 .. WORD - 1 /\ WordSum(b) \in Nat
           /\ Same(WordSum(b), Load(b)) /\ (WordSum(b) = 0 <=> Load(b) = 0)
  <1>1. PICK x \in Digit, y \in Digit, u \in Digit, v \in Digit :
             x = b[1] /\ y = b[2] /\ u = b[3] /\ v = b[4]
    <2>1. \A k \in 1 .. 4 : b[k] \in Digit
      BY DigitsIn
    <2> QED
      BY <2>1
  <1>2. /\ x \in Nat /\ u \in Nat /\ BYTE * y \in Nat /\ BYTE * v \in Nat
        /\ (BYTE * y = 0 <=> y = 0) /\ (BYTE * v = 0 <=> v = 0)
    BY Sizes DEF Digit
  <1>3. x + BYTE * y \in 0 .. HALF - 1 /\ u + BYTE * v \in 0 .. HALF - 1
    BY Sizes, Digits DEF Digit
  <1>4. PICK p1 \in 0 .. HALF - 1, p2 \in 0 .. HALF - 1 : p1 = x + BYTE * y /\ p2 = u + BYTE * v
    BY <1>3
  <1>5. p1 + HALF * p2 \in 0 .. WORD - 1
    BY Sizes, Digits
  <1>6. Load(b) = p1 + HALF * p2
    BY <1>1, <1>4 DEF Load
  <1>7. WordSum(b) = p1 + p2
    <2>1. /\ 0 \in 0 .. Len(b) - 1 /\ 1 \in 0 .. Len(b) - 1 /\ 2 \in 0 .. Len(b) - 1 /\ 3 \in 0 .. Len(b) - 1
          /\ 0 + 1 = 1 /\ 1 + 1 = 2 /\ 2 + 1 = 3 /\ 3 + 1 = 4
          /\ 1 % 2 = 1 /\ 2 % 2 = 0 /\ 3 % 2 = 1 /\ 4 % 2 = 0
      OBVIOUS
    <2>2. PICK f :
              /\ f[0] = 0 /\ WordSum(b) = f[4]
              /\ \A k \in 0 .. Len(b) - 1 : f[k + 1] = f[k] + IF (k + 1) % 2 = 1 THEN b[k + 1] ELSE BYTE * b[k + 1]
      BY WordSumCounts DEF Counting
    <2>3. f[1] = f[0] + x
      BY <1>1, <2>1, <2>2
    <2>4. f[2] = f[1] + BYTE * y
      BY <1>1, <2>1, <2>2
    <2>5. f[3] = f[2] + u
      BY <1>1, <2>1, <2>2
    <2>6. f[4] = f[3] + BYTE * v
      BY <1>1, <2>1, <2>2
    <2>7. f[0] = 0 /\ WordSum(b) = f[4]
      BY <2>2
    <2> QED
      <3>1. PICK i \in Nat, j \in Nat : i = BYTE * y /\ j = BYTE * v
        BY <1>2
      <3>2. x \in Nat /\ u \in Nat
        BY <1>2
      <3>3. f[2] = x + i
        BY <2>3, <2>4, <2>7, <3>1, <3>2
      <3>4. f[4] = ((x + i) + u) + j
        BY <2>5, <2>6, <3>1, <3>3
      <3>5. p1 = x + i /\ p2 = u + j
        BY <1>4, <3>1
      <3> QED
        BY <2>7, <3>1, <3>2, <3>4, <3>5
  <1>8. HALF * p2 \in Nat /\ Same(HALF * p2, p2)
    BY SameHalf, Sizes
  <1>9. PICK w \in Nat : w = HALF * p2 /\ (w = 0 <=> p2 = 0)
    BY <1>8, Sizes
  <1>10. Same(p1 + p2, p1 + w)
    <2>1. PICK j \in Int : w = p2 + j * (HALF - 1)
      BY <1>8, <1>9 DEF Same
    <2>2. j * (HALF - 1) \in Int /\ (-j) * (HALF - 1) = -(j * (HALF - 1)) /\ -j \in Int
      BY Sizes
    <2>3. p1 + p2 = (p1 + w) + (-j) * (HALF - 1)
      BY <1>9, <2>1, <2>2
    <2> QED
      BY <2>2, <2>3 DEF Same
  <1> QED
    BY <1>5, <1>6, <1>7, <1>9, <1>10
\* A number stored in an empty checksum is added to the sum.
LEMMA SetCheckAdds ==
    ASSUME NEW d \in Seq(Digit), NEW x \in 0 .. HALF - 1,
           CHECK + 1 <= Len(d), d[CHECK] = 0, d[CHECK + 1] = 0
    PROVE  /\ SetCheck(d, x) \in Seq(Digit) /\ Len(SetCheck(d, x)) = Len(d)
           /\ WordSum(SetCheck(d, x)) = WordSum(d) + x
  <1> DEFINE c == SetCheck(d, x)
             n == Len(d)
             q == x \div BYTE
             r == x % BYTE
  <1>0. CHECK \in Nat /\ CHECK % 2 = 1 /\ CHECK > 0
    BY BufferAssumption
  <1>1. q \in Digit /\ r \in Digit /\ q \in Nat /\ r \in Nat /\ BYTE * q \in Nat /\ x = r + BYTE * q
    <2>1. BYTE \in Nat /\ BYTE >= 2 /\ HALF = BYTE * BYTE /\ x \in Nat /\ x < HALF
      BY Sizes
    <2>2. x = BYTE * q + r /\ q \in Nat /\ r \in 0 .. BYTE - 1
      BY <2>1, EuclideanDivision
    <2> HIDE DEF q, r
    <2>3. q < BYTE
      <3>1. SUFFICES ASSUME q >= BYTE PROVE FALSE
        BY <2>1, <2>2
      <3>2. PICK t \in Nat : t = q - BYTE
        BY <2>1, <2>2, <3>1
      <3>3. BYTE * q = BYTE * BYTE + BYTE * t /\ BYTE * t \in Nat
        BY <2>1, <2>2, <3>2
      <3> QED
        BY <2>1, <2>2, <3>3
    <2>4. BYTE * q \in Nat
      BY <2>1, <2>2
    <2> QED
      BY <2>1, <2>2, <2>3, <2>4 DEF Digit
  <1>2. /\ c \in Seq(Digit) /\ Len(c) = n /\ n \in Nat /\ n \in 0 .. n
        /\ c[CHECK] = r /\ c[CHECK + 1] = q
        /\ \A k \in 1 .. n : k # CHECK /\ k # CHECK + 1 => c[k] = d[k]
    <2>1. d \in [1 .. n -> Digit] /\ n \in Nat /\ CHECK \in 1 .. n /\ CHECK + 1 \in 1 .. n /\ CHECK # CHECK + 1
      BY <1>0
    <2>2. c = [d EXCEPT ![CHECK] = r, ![CHECK + 1] = q]
      BY DEF SetCheck
    <2> HIDE DEF c, q, r
    <2>3. c \in [1 .. n -> Digit]
      BY <1>1, <2>1, <2>2
    <2>4. c[CHECK] = r /\ c[CHECK + 1] = q /\ \A k \in 1 .. n : k # CHECK /\ k # CHECK + 1 => c[k] = d[k]
      BY <1>1, <2>1, <2>2
    <2>5. c \in Seq(Digit) /\ Len(c) = n
      BY <2>1, <2>3
    <2> QED
      BY <2>1, <2>4, <2>5
  <1>3. n = Len(d) /\ c = SetCheck(d, x) /\ CHECK + 1 <= n
    OBVIOUS
  <1> HIDE DEF c, n, q, r
  <1>4. PICK f : Counting(f, c) /\ WordSum(c) = f[n]
    BY <1>2, WordSumCounts
  <1>5. PICK g : Counting(g, d) /\ WordSum(d) = g[n]
    BY <1>3, WordSumCounts
  <1> DEFINE more(k) == IF k < CHECK THEN 0 ELSE IF k = CHECK THEN r ELSE x
             T == {k \in 0 .. n : f[k] = g[k] + more(k)}
  <1>6. \A k \in 0 .. n : g[k] \in Nat
    BY <1>3, <1>5 DEF Counting
  <1>7. 0 \in T
    <2>1. f[0] = 0 /\ g[0] = 0
      BY <1>4, <1>5 DEF Counting
    <2>2. more(0) = 0 /\ 0 \in 0 .. n
      BY <1>0, <1>2
    <2> QED
      BY <2>1, <2>2
  <1>8. ASSUME NEW k \in T, k < n PROVE k + 1 \in T
    <2>1. /\ k \in Nat /\ k + 1 \in 0 .. n /\ k + 1 \in 1 .. n /\ k \in 0 .. Len(d) - 1 /\ k \in 0 .. Len(c) - 1
          /\ f[k] = g[k] + more(k) /\ g[k] \in Nat
      BY <1>2, <1>3, <1>6, <1>8
    <2>2. f[k + 1] = f[k] + IF (k + 1) % 2 = 1 THEN c[k + 1] ELSE BYTE * c[k + 1]
      BY <1>4, <2>1 DEF Counting
    <2>3. g[k + 1] = g[k] + IF (k + 1) % 2 = 1 THEN d[k + 1] ELSE BYTE * d[k + 1]
      BY <1>5, <2>1 DEF Counting
    <2>4. f[k + 1] = g[k + 1] + more(k + 1)
      <3>1. CASE k + 1 = CHECK
        <4>1. more(k) = 0 /\ more(k + 1) = r
          BY <1>0, <2>1, <3>1
        <4>2. f[k + 1] = f[k] + r /\ g[k + 1] = g[k] + 0
          BY <1>0, <1>2, <2>2, <2>3, <3>1
        <4> QED
          BY <1>1, <2>1, <4>1, <4>2
      <3>2. CASE k + 1 = CHECK + 1
        <4>1. k = CHECK /\ more(k) = r /\ more(k + 1) = x /\ (k + 1) % 2 # 1
          BY <1>0, <2>1, <3>2
        <4>2. BYTE * 0 = 0
          BY Sizes
        <4>3. f[k + 1] = f[k] + BYTE * q /\ g[k + 1] = g[k] + 0
          BY <1>2, <2>2, <2>3, <3>2, <4>1, <4>2
        <4> QED
          BY <1>1, <2>1, <4>1, <4>3
      <3>3. CASE k + 1 # CHECK /\ k + 1 # CHECK + 1
        <4>1. more(k + 1) = more(k) /\ more(k) \in Nat
          BY <1>0, <1>1, <2>1, <3>3
        <4>2. PICK t : t = IF (k + 1) % 2 = 1 THEN d[k + 1] ELSE BYTE * d[k + 1]
          OBVIOUS
        <4>3. t \in Nat
          BY <1>3, <2>1, <4>2, DigitsIn
        <4>4. f[k + 1] = f[k] + t /\ g[k + 1] = g[k] + t
          BY <1>2, <2>1, <2>2, <2>3, <3>3, <4>2
        <4> HIDE DEF more
        <4> QED
          BY <2>1, <4>1, <4>3, <4>4
      <3> QED
        BY <3>1, <3>2, <3>3
    <2> QED
      BY <2>1, <2>4
  <1>9. T \subseteq 0 .. n /\ (T = 0 .. n => f[n] = g[n] + more(n))
    BY <1>2
  <1> HIDE DEF T
  <1>10. f[n] = g[n] + more(n)
    BY <1>2, <1>7, <1>8, <1>9, Induct
  <1>11. more(n) = x
    BY <1>0, <1>2, <1>3
  <1> QED
    BY <1>2, <1>3, <1>4, <1>5, <1>10, <1>11

\* One's-complement addition.
LEMMA AddCarrySame ==
    ASSUME NEW s \in 0 .. WORD - 1, NEW a \in 0 .. WORD - 1
    PROVE  /\ AddCarry(s, a) \in 0 .. WORD - 1 /\ Same(s + a, AddCarry(s, a))
           /\ s + a = 0 <=> AddCarry(s, a) = 0
  <1>1. WORD \in Nat /\ WORD > 1
    BY Sizes
  <1>2. CASE s + a < WORD
    <2>1. (s + a) % WORD = s + a /\ s + a \in Nat
      BY <1>1, <1>2, SmallMod
    <2>2. AddCarry(s, a) = ((s + a) + IF s + a < a THEN 1 ELSE 0) % WORD
      BY <2>1 DEF AddCarry
    <2>3. AddCarry(s, a) = s + a
      BY <2>1, <2>2
    <2> QED
      BY <1>1, <1>2, <2>1, <2>3, SameSelf
  <1>3. CASE s + a >= WORD
    <2>1. PICK x \in Nat : x = s + a - WORD /\ x < WORD - 1 /\ x < a
      BY <1>1, <1>3
    <2>2. (s + a) % WORD = x
      <3>1. PICK n \in Nat : n = s + a /\ n < WORD + WORD /\ n >= WORD /\ x = n - WORD
        BY <1>1, <1>3, <2>1
      <3>2. n % WORD = n - WORD
        BY <1>1, <3>1, SmallMod
      <3> QED
        BY <3>1, <3>2
    <2>3. AddCarry(s, a) = (x + IF x < a THEN 1 ELSE 0) % WORD
      BY <2>2 DEF AddCarry
    <2>4. AddCarry(s, a) = (x + 1) % WORD
      BY <2>1, <2>3
    <2>5. (x + 1) % WORD = x + 1
      BY <1>1, <2>1, SmallMod
    <2>6. Same(x + WORD, x + 1)
      BY SameCarry
    <2>7. x + WORD = s + a
      BY <1>1, <2>1
    <2> QED
      BY <1>1, <1>3, <2>1, <2>4, <2>5, <2>6, <2>7
  <1> QED
    BY <1>1, <1>2, <1>3

\* Division in two steps.
LEMMA DivTwice ==
    ASSUME NEW n \in Nat, NEW a \in Nat, NEW b \in Nat, a > 0, b > 0
    PROVE  n \div (a * b) = (n \div a) \div b
  <1> DEFINE q == n \div a
             r == n % a
             t == q \div b
             u == q % b
             w == n \div (a * b)
             v == n % (a * b)
  <1>1. n = a * q + r /\ q \in Nat /\ r \in 0 .. a - 1
    BY EuclideanDivision
  <1>2. q = b * t + u /\ t \in Nat /\ u \in 0 .. b - 1
    <2>1. q \in Nat
      BY <1>1
    <2> HIDE DEF q
    <2> QED
      BY <2>1, EuclideanDivision
  <1>3. PICK c \in Nat : c = a * b /\ c > 0
    <2>1. a * b \in Nat
      OBVIOUS
    <2>2. PICK d \in Nat : d = b - 1
      OBVIOUS
    <2>3. a * b = a * d + a /\ a * d \in Nat
      BY <2>2
    <2> QED
      BY <2>1, <2>3
  <1>4. n = c * w + v /\ w \in Nat /\ v \in 0 .. c - 1
    BY <1>3, EuclideanDivision
  <1> HIDE DEF q, r, t, u, w, v
  <1>5. a * u + r \in 0 .. c - 1
    <2>1. PICK d \in Nat : d = (b - 1) - u
      BY <1>2
    <2>2. a * b = a * u + a * d + a /\ a * u \in Nat /\ a * d \in Nat
      BY <1>2, <2>1
    <2> QED
      BY <1>1, <1>3, <2>2
  <1>6. PICK y \in 0 .. c - 1 : y = a * u + r
    BY <1>5
  <1>7. n = c * t + y
    <2>1. a * (b * t + u) = (a * b) * t + a * u
      BY <1>2
    <2>2. a * u \in Nat /\ c * t \in Nat
      BY <1>2, <1>3
    <2> QED
      BY <1>1, <1>2, <1>3, <1>6, <2>1, <2>2
  <1>8. w = t
    <2>1. ASSUME w > t PROVE FALSE
      <3>1. PICK d \in Nat : w = t + 1 + d
        <4>1. w - t - 1 \in Nat /\ w = t + 1 + (w - t - 1)
          BY <1>2, <1>4, <2>1
        <4> QED
          BY <4>1
      <3>2. c * w = c * t + c + c * d /\ c * t \in Nat /\ c * d \in Nat
        BY <1>2, <3>1
      <3> QED
        BY <1>4, <1>6, <1>7, <3>2
    <2>2. ASSUME t > w PROVE FALSE
      <3>1. PICK d \in Nat : t = w + 1 + d
        <4>1. t - w - 1 \in Nat /\ t = w + 1 + (t - w - 1)
          BY <1>2, <1>4, <2>2
        <4> QED
          BY <4>1
      <3>2. c * t = c * w + c + c * d /\ c * w \in Nat /\ c * d \in Nat
        BY <1>4, <3>1
      <3> QED
        BY <1>4, <1>6, <1>7, <3>2
    <2> QED
      BY <1>2, <1>4, <2>1, <2>2
  <1> QED
    BY <1>8 DEF w, t, q

\* The bytes of a word, one way and the other.
LEMMA WordBytes ==
    ASSUME NEW w \in 0 .. WORD - 1
    PROVE  Bytes(w) \in Seq(Digit) /\ Len(Bytes(w)) = 4 /\ Load(Bytes(w)) = w
  <1> DEFINE q1 == w \div BYTE
             q2 == q1 \div BYTE
             q3 == q2 \div BYTE
             r0 == w % BYTE
             r1 == q1 % BYTE
             r2 == q2 % BYTE
  <1>1. BYTE \in Nat /\ BYTE > 0 /\ HALF \in Nat /\ HALF > 0 /\ HALF = BYTE * BYTE /\ WORD = HALF * HALF
    BY Sizes
  <1>2. w = BYTE * q1 + r0 /\ q1 \in Nat /\ r0 \in 0 .. BYTE - 1
    BY <1>1, EuclideanDivision
  <1>3. q1 = BYTE * q2 + r1 /\ q2 \in Nat /\ r1 \in 0 .. BYTE - 1
    <2>1. q1 \in Nat
      BY <1>2
    <2> HIDE DEF q1
    <2> QED
      BY <1>1, <2>1, EuclideanDivision
  <1>4. q2 = BYTE * q3 + r2 /\ q3 \in Nat /\ r2 \in 0 .. BYTE - 1
    <2>1. q2 \in Nat
      BY <1>3
    <2> HIDE DEF q2
    <2> QED
      BY <1>1, <2>1, EuclideanDivision
  <1>5. w \div HALF = q2
    BY <1>1, DivTwice
  <1>6. w \div (HALF * BYTE) = q3
    <2>1. w \div (HALF * BYTE) = (w \div HALF) \div BYTE
      BY <1>1, DivTwice
    <2> QED
      BY <1>5, <2>1
  <1>7. Bytes(w) = <<r0, r1, r2, q3 % BYTE>>
    BY <1>5, <1>6 DEF Bytes
  <1> HIDE DEF q1, q2, q3, r0, r1, r2
  <1>8. w = (r0 + BYTE * r1) + HALF * (r2 + BYTE * q3)
    <2>1. BYTE * (BYTE * q2 + r1) = HALF * q2 + BYTE * r1
      BY <1>1, <1>3, <1>4
    <2>2. HALF * q2 \in Nat /\ BYTE * r1 \in Nat
      BY <1>1, <1>3, <1>4
    <2> QED
      BY <1>1, <1>2, <1>3, <1>4, <2>1, <2>2
  <1>9. q3 < BYTE
    <2>1. SUFFICES ASSUME q3 >= BYTE PROVE FALSE
      BY <1>1, <1>4
    <2>2. PICK t \in Nat : q3 = BYTE + t
      <3>1. q3 - BYTE \in Nat /\ q3 = BYTE + (q3 - BYTE)
        BY <1>1, <1>4, <2>1
      <3> QED
        BY <3>1
    <2>3. PICK e \in Nat : e = r2 + BYTE * t
      <3>1. BYTE * t \in Nat
        BY <1>1
      <3> QED
        BY <1>1, <1>4, <3>1
    <2>4. r2 + BYTE * q3 = HALF + e
      <3>1. BYTE * q3 = HALF + BYTE * t /\ BYTE * t \in Nat
        BY <1>1, <2>2
      <3> QED
        BY <1>1, <1>4, <2>3, <3>1
    <2>5. HALF * (HALF + e) = WORD + HALF * e /\ HALF * e \in Nat
      BY <1>1, <2>3
    <2>6. BYTE * r1 \in Nat
      BY <1>1, <1>3
    <2> QED
      BY <1>1, <1>2, <1>8, <2>4, <2>5, <2>6
  <1>10. q3 % BYTE = q3
    BY <1>1, <1>4, <1>9, SmallMod
  <1>11. r0 \in Digit /\ r1 \in Digit /\ r2 \in Digit /\ q3 \in Digit
    BY <1>1, <1>2, <1>3, <1>4, <1>9 DEF Digit
  <1>12. Bytes(w) = <<r0, r1, r2, q3>>
    BY <1>7, <1>10
  <1>13. Bytes(w) \in Seq(Digit) /\ Len(Bytes(w)) = 4
    BY <1>11, <1>12
  <1>14. Load(Bytes(w)) = w
    BY <1>8, <1>12 DEF Load
  <1> QED
    BY <1>13, <1>14

LEMMA NetworkBytes ==
    ASSUME NEW n \in Nat
    PROVE  BigEndian(n) \in Seq(Digit) /\ Len(BigEndian(n)) = 4 /\ htonl(n) = Load(BigEndian(n))
  <1>1. BYTE \in Nat /\ BYTE > 0 /\ HALF \in Nat /\ HALF > 0 /\ HALF * BYTE \in Nat
    BY Sizes
  <1>2. HALF * BYTE > 0
    <2>1. PICK d \in Nat : d = BYTE - 1
      BY <1>1
    <2>2. HALF * BYTE = HALF * d + HALF /\ HALF * d \in Nat
      BY <1>1, <2>1
    <2> QED
      BY <1>1, <2>2
  <1>3. \A m \in Nat : m % BYTE \in Digit
    BY <1>1, EuclideanDivision DEF Digit
  <1>4. n \div (HALF * BYTE) \in Nat /\ n \div HALF \in Nat /\ n \div BYTE \in Nat
    BY <1>1, <1>2, EuclideanDivision
  <1>5. PICK a \in Digit, b \in Digit, c \in Digit, d \in Digit : BigEndian(n) = <<a, b, c, d>>
    BY <1>3, <1>4 DEF BigEndian
  <1>6. BigEndian(n) \in Seq(Digit) /\ Len(BigEndian(n)) = 4
    BY <1>5
  <1> QED
    BY <1>6 DEF htonl, Load

\* The bytes c are j words, and s is their one's-complement sum with x.
Adding(c, j, s, x) ==
    /\ c \in Seq(Digit) /\ Len(c) = 4 * j
    /\ s \in 0 .. WORD - 1
    /\ Same(WordSum(c) + x, s) /\ (WordSum(c) + x = 0 <=> s = 0)

\* One word more.
LEMMA AddOneWord ==
    ASSUME NEW c, NEW j \in Nat, NEW s, NEW x \in Nat, Adding(c, j, s, x),
           NEW b \in Seq(Digit), Len(b) = 4
    PROVE  Adding(c \o b, j + 1, AddCarry(s, Load(b)), x)
  <1>1. c \in Seq(Digit) /\ Len(c) = 2 * (2 * j) /\ 2 * j \in Nat /\ s \in 0 .. WORD - 1
    BY DEF Adding
  <1>2. PICK d : d = c \o b /\ d \in Seq(Digit) /\ Len(d) = Len(c) + Len(b) /\ WordSum(d) = WordSum(c) + WordSum(b)
    BY <1>1, WordSumJoin
  <1>3. PICK l \in 0 .. WORD - 1, v \in Nat :
            l = Load(b) /\ v = WordSum(b) /\ Same(v, l) /\ (v = 0 <=> l = 0)
    BY FourBytes
  <1>4. PICK u \in Nat : u = WordSum(c) /\ Same(u + x, s) /\ (u + x = 0 <=> s = 0)
    BY <1>1, WordSumCounts DEF Adding
  <1>5. PICK t \in 0 .. WORD - 1 :
            t = AddCarry(s, l) /\ Same(s + l, t) /\ (s + l = 0 <=> t = 0)
    BY <1>1, AddCarrySame
  <1>6. u + x \in Int /\ s \in Int /\ v \in Int /\ l \in Int /\ t \in Int /\ (u + x) + v \in Int /\ s + l \in Int
    BY <1>1, Sizes
  <1>7. Same((u + x) + v, s + l)
    BY <1>3, <1>4, <1>6, SamePlus
  <1>8. Same((u + x) + v, t)
    BY <1>5, <1>6, <1>7, SameTrans
  <1>9. WordSum(d) + x = (u + x) + v
    BY <1>2, <1>3, <1>4
  <1>10. (u + x) + v = 0 <=> t = 0
    <2>1. PICK a \in Nat : a = u + x
      BY <1>4
    <2>2. s \in Nat /\ l \in Nat
      BY <1>1, Sizes
    <2>3. (a = 0 <=> s = 0) /\ (v = 0 <=> l = 0)
      BY <1>3, <1>4, <2>1
    <2>4. a + v = 0 <=> s + l = 0
      BY <2>2, <2>3
    <2> QED
      BY <1>5, <2>1, <2>4
  <1>11. Len(d) = 4 * (j + 1)
    BY <1>1, <1>2
  <1> QED
    BY <1>2, <1>3, <1>5, <1>8, <1>9, <1>10, <1>11 DEF Adding

\* No words.
LEMMA AddNoWord ==
    ASSUME NEW x \in 0 .. WORD - 1
    PROVE  Adding(<<>>, 0, x, x)
  <1>1. PICK c : c = <<>> /\ c \in Seq(Digit) /\ Len(c) = 0
    <2>1. <<>> \in Seq(Digit) /\ Len(<<>>) = 0
      OBVIOUS
    <2> QED
      BY <2>1
  <1>2. WordSum(c) = 0
    BY <1>1, WordSumCounts DEF Counting
  <1>3. 0 + x = x /\ x \in Int
    BY Sizes
  <1>4. Same(x, x)
    BY <1>3, SameSelf
  <1> QED
    BY <1>1, <1>2, <1>3, <1>4 DEF Adding

\* What the chain of additions computes.
LEMMA AddedWords ==
    ASSUME NEW ws \in Seq(0 .. WORD - 1), NEW x \in 0 .. WORD - 1, NEW sum,
           sum = CHOOSE g : g = [k \in 0 .. Len(ws) |-> IF k = 0 THEN x ELSE AddCarry(g[k - 1], ws[k])]
    PROVE  sum[0] = x /\ \A k \in 1 .. Len(ws) : sum[k] = AddCarry(sum[k - 1], ws[k])
  <1> DEFINE n == Len(ws)
             V == 0 .. WORD - 1
             r(g, k) == IF k = 0 THEN x ELSE AddCarry(g[k - 1], ws[k])
             Is(g) == g = [k \in 0 .. n |-> r(g, k)]
             F == [k \in 1 .. n |-> [v \in V |-> AddCarry(v, ws[k])]]
  <1>1. n \in Nat /\ \A k \in 1 .. n : ws[k] \in V
    <2>1. ws \in Seq(V)
      OBVIOUS
    <2> HIDE DEF V
    <2> QED
      BY <2>1
  <1>2. \A k \in 1 .. n : \A v \in V : AddCarry(v, ws[k]) \in V
    BY <1>1, AddCarrySame
  <1>3. n = Len(ws) /\ x \in V /\ sum = CHOOSE g : Is(g)
    OBVIOUS
  <1>4. F \in [1 .. n -> [V -> V]] /\ \A k \in 1 .. n : \A v \in V : F[k][v] = AddCarry(v, ws[k])
    <2> HIDE DEF V, n
    <2> QED
      BY <1>2
  <1> HIDE DEF F, V, n
  <1>5. PICK f \in [0 .. n -> V] : Computes(f, n, x, F)
    BY <1>1, <1>3, <1>4, Recursion
  <1>6. Is(f)
    <2>1. ASSUME NEW k \in 0 .. n PROVE f[k] = r(f, k)
      <3>1. CASE k = 0
        BY <1>5, <3>1 DEF Computes
      <3>2. CASE k # 0
        <4>1. k \in 1 .. n /\ k - 1 \in 0 .. n
          BY <1>1, <3>2
        <4>2. f[k] = F[k][f[k - 1]] /\ f[k - 1] \in V
          BY <1>5, <4>1 DEF Computes
        <4> QED
          BY <1>4, <3>2, <4>1, <4>2
      <3> QED
        BY <3>1, <3>2
    <2>2. f = [k \in 0 .. n |-> f[k]]
      BY <1>5
    <2> HIDE DEF r
    <2> QED
      BY <2>1, <2>2
  <1> HIDE DEF Is
  <1>7. Is(sum)
    BY <1>3, <1>6
  <1>8. \A k \in 0 .. n : sum[k] = r(sum, k)
    BY <1>7 DEF Is
  <1>9. 0 \in 0 .. n /\ \A k \in 1 .. n : k # 0 /\ k \in 0 .. n
    BY <1>1
  <1>10. sum[0] = x /\ \A k \in 1 .. n : sum[k] = AddCarry(sum[k - 1], ws[k])
    BY <1>8, <1>9
  <1> QED
    BY <1>10 DEF n

\* csum_ipv6_magic folds the sum of the pseudo-header and of what it is given.
LEMMA HeaderSum ==
    ASSUME NEW wa \in Seq(0 .. WORD - 1), NEW n \in Nat, NEW proto \in Nat, NEW x \in 0 .. WORD - 1
    PROVE  \E c, s :
               /\ c = Concatenation([i \in DOMAIN wa |-> Bytes(wa[i])]) \o BigEndian(n) \o BigEndian(proto)
               /\ Adding(c, Len(wa) + 2, s, x) /\ csum_ipv6_magic(wa, n, proto, x) = csum_fold(s)
  <1> DEFINE m == Len(wa)
             W == 0 .. WORD - 1
             ws == wa \o <<htonl(n), htonl(proto)>>
             ss == [i \in DOMAIN wa |-> Bytes(wa[i])]
             sum == CHOOSE g : g = [k \in 0 .. Len(ws) |-> IF k = 0 THEN x ELSE AddCarry(g[k - 1], ws[k])]
  <1>1. htonl(n) \in W /\ htonl(proto) \in W
    BY NetworkBytes, FourBytes
  <1>2. wa \in Seq(W)
    OBVIOUS
  <1>3. csum_ipv6_magic(wa, n, proto, x) = csum_fold(sum[Len(ws)])
    BY DEF csum_ipv6_magic
  <1>4. /\ m \in Nat /\ m = Len(wa) /\ DOMAIN wa = 1 .. m /\ \A k \in 1 .. m : wa[k] \in W
    <2> HIDE DEF W
    <2> QED
      BY <1>2
  <1>5. /\ ws \in Seq(W) /\ Len(ws) = m + 2
        /\ ws[m + 1] = htonl(n) /\ ws[m + 2] = htonl(proto) /\ \A k \in 1 .. m : ws[k] = wa[k]
    <2> HIDE DEF W
    <2>1. PICK u \in W, v \in W : u = htonl(n) /\ v = htonl(proto)
      BY <1>1
    <2>2. PICK t : t = <<u, v>> /\ t \in Seq(W) /\ Len(t) = 2 /\ t[1] = u /\ t[2] = v
      <3>1. <<u, v>> \in Seq(W) /\ Len(<<u, v>>) = 2 /\ <<u, v>>[1] = u /\ <<u, v>>[2] = v
        OBVIOUS
      <3> QED
        BY <3>1
    <2>3. ws = wa \o t
      BY <2>1, <2>2
    <2> HIDE DEF ws
    <2> QED
      BY <1>2, <1>4, <2>1, <2>2, <2>3
  <1>6. /\ ws \in Seq(0 .. WORD - 1)
        /\ sum = CHOOSE g : g = [k \in 0 .. Len(ws) |-> IF k = 0 THEN x ELSE AddCarry(g[k - 1], ws[k])]
    BY <1>5
  <1>7. sum[0] = x /\ \A k \in 1 .. Len(ws) : sum[k] = AddCarry(sum[k - 1], ws[k])
    <2> HIDE DEF ws, sum
    <2> QED
      BY <1>6, AddedWords
  <1>8. \A k \in 1 .. m : Bytes(wa[k]) \in Seq(Digit) /\ Len(Bytes(wa[k])) = 4 /\ Load(Bytes(wa[k])) = wa[k]
    BY <1>4, WordBytes
  <1>9. ss \in Seq(Seq(Nat)) /\ Len(ss) = m /\ \A k \in 1 .. m : ss[k] = Bytes(wa[k])
    <2>1. \A d \in Seq(Digit) : d \in Seq(Nat)
      <3>1. \A e \in Digit : e \in Nat
        BY Sizes DEF Digit
      <3> QED
        BY <3>1
    <2>2. \A k \in 1 .. m : Bytes(wa[k]) \in Seq(Nat)
      BY <1>8, <2>1
    <2>3. ss = [k \in 1 .. m |-> Bytes(wa[k])]
      BY <1>4
    <2> HIDE DEF ss, m
    <2> QED
      BY <1>4, <2>2, <2>3
  <1> HIDE DEF m, W, ws, ss, sum
  <1>10. PICK g : Joins(g, ss, m) /\ Concatenation(ss) = g[m]
    BY <1>4, <1>9, ConcatenationJoins
  <1> DEFINE T == {k \in 0 .. m : Adding(g[k], k, sum[k], x)}
  <1>11. 0 \in T
    <2>1. g[0] = <<>> /\ sum[0] = x
      BY <1>7, <1>10 DEF Joins
    <2>2. Adding(<<>>, 0, x, x)
      BY AddNoWord
    <2> QED
      BY <1>4, <2>1, <2>2
  <1>12. x \in Nat
    BY Sizes
  <1>13. ASSUME NEW k \in T, k < m PROVE k + 1 \in T
    <2>1. k \in Nat /\ k + 1 \in 1 .. m /\ k + 1 \in 0 .. m /\ (k + 1) - 1 = k /\ k + 1 \in 1 .. Len(ws)
      BY <1>4, <1>5, <1>13
    <2>5. g[k + 1] = g[k] \o Bytes(wa[k + 1])
      BY <1>9, <1>10, <2>1 DEF Joins
    <2>6. sum[k + 1] = AddCarry(sum[k], ws[k + 1]) /\ ws[k + 1] = wa[k + 1]
      BY <1>5, <1>7, <2>1
    <2>2. g[k + 1] = g[k] \o Bytes(wa[k + 1]) /\ sum[k + 1] = AddCarry(sum[k], Load(Bytes(wa[k + 1])))
      BY <1>8, <2>1, <2>5, <2>6
    <2>3. Adding(g[k], k, sum[k], x)
      OBVIOUS
    <2>4. Adding(g[k + 1], k + 1, sum[k + 1], x)
      BY <1>8, <1>12, <2>1, <2>2, <2>3, AddOneWord
    <2> QED
      BY <2>1, <2>4
  <1>14. T \subseteq 0 .. m /\ (T = 0 .. m => Adding(g[m], m, sum[m], x))
    BY <1>4
  <1> HIDE DEF T
  <1>15. Adding(g[m], m, sum[m], x)
    BY <1>4, <1>11, <1>13, <1>14, Induct
  <1>16. sum[m + 1] = AddCarry(sum[m], htonl(n)) /\ sum[m + 2] = AddCarry(sum[m + 1], htonl(proto))
    <2>1. m + 1 \in 1 .. Len(ws) /\ m + 2 \in 1 .. Len(ws) /\ (m + 1) - 1 = m /\ (m + 2) - 1 = m + 1
      BY <1>4, <1>5
    <2> QED
      BY <1>5, <1>7, <2>1
  <1>17. Adding(g[m] \o BigEndian(n), m + 1, sum[m + 1], x)
    BY <1>4, <1>12, <1>15, <1>16, NetworkBytes, AddOneWord
  <1>18. Adding((g[m] \o BigEndian(n)) \o BigEndian(proto), (m + 1) + 1, sum[m + 2], x)
    <2>1. m + 1 \in Nat
      BY <1>4
    <2> QED
      BY <1>12, <1>16, <1>17, <2>1, NetworkBytes, AddOneWord
  <1>19. (m + 1) + 1 = m + 2
    BY <1>4
  <1>20. csum_ipv6_magic(wa, n, proto, x) = csum_fold(sum[m + 2])
    BY <1>3, <1>5
  <1> QED
    BY <1>4, <1>10, <1>18, <1>19, <1>20 DEF ss

\* The complement of the sum.
LEMMA Complement ==
    ASSUME NEW s \in 0 .. WORD - 1
    PROVE  /\ from32to16(csum_fold(s)) \in 0 .. HALF - 1
           /\ \E y \in 0 .. HALF - 1 :
                  /\ Same(s, y) /\ (s = 0 <=> y = 0)
                  /\ y + from32to16(csum_fold(s)) = HALF - 1
  <1>1. HALF \in Nat /\ HALF > 1 /\ WORD \in Nat /\ s \in Nat /\ s < WORD
    BY Sizes
  <1>2. PICK y \in 0 .. HALF - 1 : y = from32to16(s) /\ Same(s, y) /\ (s = 0 <=> y = 0)
    BY <1>1, HalfWord
  <1>3. PICK z \in 0 .. HALF - 1 : z = csum_fold(s) /\ y + z = HALF - 1
    <2>1. csum_fold(s) = HALF - 1 - y
      BY <1>2 DEF csum_fold, from32to16
    <2> QED
      BY <1>1, <1>2, <2>1
  <1>4. Fold16(z) = z
    <2>1. z % HALF = z
      BY <1>1, SmallMod
    <2>2. z = HALF * (z \div HALF) + (z % HALF) /\ z \div HALF \in Nat
      BY <1>1, EuclideanDivision
    <2>3. PICK q \in Nat : q = z \div HALF
      BY <2>2
    <2>4. HALF * q = 0
      BY <1>1, <2>1, <2>2, <2>3
    <2>5. q = 0
      BY <1>1, <2>4
    <2>6. Fold16(z) = z + q
      BY <2>1, <2>3 DEF Fold16
    <2> QED
      BY <2>5, <2>6
  <1>5. from32to16(z) = z
    <2>1. z % HALF = z
      BY <1>1, SmallMod
    <2> QED
      BY <1>4, <2>1 DEF from32to16
  <1> QED
    BY <1>2, <1>3, <1>5

-----------------------------------------------------------------------------
(***************************************************************************)
(* The header whose addresses are added.                                   *)
(***************************************************************************)
\* A chain begins with IPv6 and ends with the only TCP.
LEMMA ChainShape ==
    ASSUME NEW c \in Chain, NEW n, n = Len(c)
    PROVE  /\ n \in Nat /\ n >= 2 /\ DOMAIN c = 1 .. n
           /\ c[1].kind = "IPV6" /\ c[n].kind = "TCP"
           /\ \A k \in 1 .. n : call_parse(c[k].kind) /\ (c[k].kind = "TCP" <=> k = n)
  <1> DEFINE R == [kind : Parsed, size : Nat]
  <1>1. c \in Seq(R) /\ c # <<>> /\ \A h \in R : h.kind \in Parsed
    BY BufferAssumption
  <1> HIDE DEF R
  <1>2. n \in Nat /\ n # 0 /\ DOMAIN c = 1 .. n /\ \A k \in 1 .. n : c[k] \in R
    BY <1>1
  <1>3. c[1].kind = "IPV6" /\ \A k \in 1 .. n : c[k].kind = "TCP" <=> k = n
    BY <1>2, BufferAssumption
  <1>4. n >= 2 /\ n \in 1 .. n
    <2>1. 1 \in 1 .. n
      BY <1>2
    <2>2. n # 1
      BY <1>3, <2>1
    <2> QED
      BY <1>2, <2>2
  <1> QED
    BY <1>1, <1>2, <1>3, <1>4 DEF call_parse

\* What a walk to `limit' over the headers of c finds from each of them.
Walk(w, c, limit) ==
    /\ w[Len(c) + 1] = 0
    /\ \A j \in 1 .. Len(c) : w[j] = IF c[j].kind = limit THEN j ELSE w[j + 1]

\* The walk from the first header.
LEMMA Walks ==
    ASSUME NEW c \in Chain, NEW limit
    PROVE  \E w : Walk(w, c, limit) /\ parse_until(limit, c, 1, c[1].kind) = w[1]
  <1> SUFFICES ASSUME NEW n, n = Len(c)
               PROVE  \E w : /\ w[n + 1] = 0 /\ parse_until(limit, c, 1, c[1].kind) = w[1]
                             /\ \A j \in 1 .. n : w[j] = IF c[j].kind = limit THEN j ELSE w[j + 1]
    BY DEF Walk
  <1> DEFINE kindAt(j) == IF j = 1 THEN c[1].kind ELSE NextHeader(c, j - 1)
             r(g, j) == IF ~call_parse(kindAt(j)) THEN 0 ELSE IF kindAt(j) = limit THEN j ELSE g[j + 1]
             Is(g) == g = [j \in 1 .. n + 1 |-> r(g, j)]
             walk == CHOOSE g : Is(g)
             F == [k \in 1 .. n |-> [v \in Nat |-> IF kindAt(n + 1 - k) = limit THEN n + 1 - k ELSE v]]
  <1>1. n \in Nat /\ n >= 2 /\ \A k \in 1 .. n : call_parse(c[k].kind)
    BY ChainShape
  <1>2. parse_until(limit, c, 1, c[1].kind) = walk[1]
    BY DEF parse_until
  <1>3. \A j \in 1 .. n : kindAt(j) = c[j].kind
    <2> SUFFICES ASSUME NEW j \in 1 .. n, j # 1 PROVE NextHeader(c, j - 1) = c[j].kind
      OBVIOUS
    <2>1. j - 1 < Len(c) /\ (j - 1) + 1 = j
      BY <1>1
    <2> QED
      BY <2>1 DEF NextHeader
  <1>4. ~call_parse(kindAt(n + 1))
    <2>1. n + 1 # 1 /\ (n + 1) - 1 = n /\ ~(n < Len(c))
      BY <1>1
    <2>2. kindAt(n + 1) = "none"
      BY <2>1 DEF NextHeader
    <2> QED
      BY <2>2 DEF call_parse, Parsed
  <1> HIDE DEF kindAt
  <1>5. F \in [1 .. n -> [Nat -> Nat]]
    <2>1. \A k \in 1 .. n : n + 1 - k \in Nat
      BY <1>1
    <2> QED
      BY <2>1
  <1>6. \A k \in 1 .. n : \A v \in Nat : F[k][v] = IF kindAt(n + 1 - k) = limit THEN n + 1 - k ELSE v
    OBVIOUS
  <1> HIDE DEF walk, F
  <1>7. PICK f \in [0 .. n -> Nat] : Computes(f, n, 0, F)
    BY <1>1, <1>5, Recursion
  <1> DEFINE h == [j \in 1 .. n + 1 |-> f[n + 1 - j]]
  <1>8. Is(h)
    <2>1. ASSUME NEW j \in 1 .. n + 1 PROVE h[j] = r(h, j)
      <3>1. CASE j = n + 1
        <4>1. n + 1 - j = 0
          BY <1>1, <3>1
        <4> QED
          BY <1>4, <1>7, <3>1, <4>1 DEF Computes
      <3>2. CASE j # n + 1
        <4>1. PICK k \in 1 .. n : k = n + 1 - j /\ n + 1 - k = j /\ k - 1 = n + 1 - (j + 1)
          BY <1>1, <3>2
        <4>2. k - 1 \in 0 .. n /\ j \in 1 .. n /\ j + 1 \in 1 .. n + 1
          BY <1>1, <3>2, <4>1
        <4>3. h[j] = f[k] /\ h[j + 1] = f[k - 1] /\ f[k - 1] \in Nat
          BY <1>7, <4>1, <4>2
        <4>4. f[k] = F[k][f[k - 1]]
          BY <1>7 DEF Computes
        <4>5. f[k] = IF kindAt(j) = limit THEN j ELSE f[k - 1]
          BY <1>6, <4>1, <4>3, <4>4
        <4>6. call_parse(kindAt(j))
          BY <1>1, <1>3, <4>2
        <4> HIDE DEF h
        <4> QED
          BY <4>3, <4>5, <4>6
      <3> QED
        BY <3>1, <3>2
    <2>2. h = [j \in 1 .. n + 1 |-> h[j]]
      OBVIOUS
    <2> HIDE DEF h, r
    <2> QED
      BY <2>1, <2>2
  <1> HIDE DEF h, Is
  <1>9. Is(walk)
    BY <1>8 DEF walk
  <1>10. \A j \in 1 .. n + 1 : walk[j] = r(walk, j)
    BY <1>9 DEF Is
  <1>11. walk[n + 1] = 0
    <2>1. n + 1 \in 1 .. n + 1
      BY <1>1
    <2> QED
      BY <1>4, <1>10, <2>1
  <1>12. \A j \in 1 .. n : walk[j] = IF c[j].kind = limit THEN j ELSE walk[j + 1]
    <2>1. \A j \in 1 .. n : j \in 1 .. n + 1
      BY <1>1
    <2> QED
      BY <1>1, <1>3, <1>10, <2>1
  <1> QED
    BY <1>2, <1>11, <1>12

\* It gets to the last header.
LEMMA WalkToEnd ==
    ASSUME NEW c \in Chain
    PROVE  parse_until("TCP", c, 1, c[1].kind) = Len(c)
  <1> DEFINE n == Len(c)
  <1>1. n \in Nat /\ n >= 2 /\ \A k \in 1 .. n : c[k].kind = "TCP" <=> k = n
    BY ChainShape
  <1>2. PICK w : Walk(w, c, "TCP") /\ parse_until("TCP", c, 1, c[1].kind) = w[1]
    BY Walks
  <1> HIDE DEF n
  <1>3. w[n] = n /\ \A j \in 1 .. n - 1 : w[j] = w[j + 1]
    <2>1. n \in 1 .. n /\ \A j \in 1 .. n - 1 : j \in 1 .. n /\ j # n
      BY <1>1
    <2>2. \A j \in 1 .. n : w[j] = IF c[j].kind = "TCP" THEN j ELSE w[j + 1]
      BY <1>2 DEF Walk, n
    <2> QED
      BY <1>1, <2>1, <2>2
  <1> DEFINE S == {k \in 0 .. n - 1 : w[n - k] = n}
  <1>4. 0 \in S
    BY <1>1, <1>3
  <1>5. ASSUME NEW k \in S, k < n - 1 PROVE k + 1 \in S
    <2>1. n - (k + 1) \in 1 .. n - 1 /\ (n - (k + 1)) + 1 = n - k /\ k + 1 \in 0 .. n - 1
      BY <1>1, <1>5
    <2> QED
      BY <1>3, <2>1
  <1>6. S \subseteq 0 .. n - 1 /\ n - 1 \in Nat /\ n - 1 \in 0 .. n - 1 /\ n - (n - 1) = 1
    BY <1>1
  <1>7. n - 1 \in S => w[n - (n - 1)] = n
    OBVIOUS
  <1> HIDE DEF S
  <1>8. S = 0 .. n - 1
    BY <1>4, <1>5, <1>6, Induct
  <1>9. w[1] = n
    BY <1>6, <1>7, <1>8
  <1> QED
    BY <1>2, <1>9 DEF n

\* The header found in front of TCP is the innermost.
LEMMA InnermostFound ==
    ASSUME p \in Chain
    PROVE  ip6hdr = Innermost /\ ip6hdr \in IPv6s
  <1> DEFINE n == Len(p)
             r(g, k) == IF k = 0 THEN 0 ELSE IF p[k].kind = "IPV6" THEN k ELSE g[k - 1]
             Is(g) == g = [k \in 0 .. n |-> r(g, k)]
             last == CHOOSE g : Is(g)
             upTo(m) == CHOOSE g : g = [k \in 0 .. m |-> r(g, k)]
             V == 0 .. n
             F == [k \in 1 .. n |-> [v \in V |-> IF p[k].kind = "IPV6" THEN k ELSE v]]
  <1>1. /\ n \in Nat /\ n >= 2 /\ DOMAIN p = 1 .. n
        /\ p[1].kind = "IPV6" /\ p[n].kind = "TCP"
    BY ChainShape
  <1>2. parse_until("TCP", p, 1, p[1].kind) = n
    BY WalkToEnd
  <1>3. ip6hdr = last[n - 1]
    <2> DEFINE at == parse_until("TCP", p, 1, p[1].kind)
    <2>1. ip6hdr = IF at = 0 THEN 0 ELSE upTo(at)[at - 1]
      BY DEF ip6hdr, find_hdr_before
    <2>2. at = n /\ n # 0 /\ last = upTo(n)
      BY <1>1, <1>2
    <2> HIDE DEF at, n, upTo, last
    <2> QED
      BY <2>1, <2>2
  <1>4. F \in [1 .. n -> [V -> V]] /\ 0 \in V
    BY <1>1
  <1>5. \A k \in 1 .. n : \A v \in V : F[k][v] = IF p[k].kind = "IPV6" THEN k ELSE v
    OBVIOUS
  <1> HIDE DEF n, F, V, last
  <1>6. PICK f \in [0 .. n -> V] : Computes(f, n, 0, F)
    BY <1>1, <1>4, Recursion
  <1>7. Is(f)
    <2>1. ASSUME NEW k \in 0 .. n PROVE f[k] = r(f, k)
      <3>1. CASE k = 0
        BY <1>6, <3>1 DEF Computes
      <3>2. CASE k # 0
        <4>1. k \in 1 .. n /\ k - 1 \in 0 .. n
          BY <1>1, <3>2
        <4>2. f[k] = F[k][f[k - 1]] /\ f[k - 1] \in V
          BY <1>6, <4>1 DEF Computes
        <4> QED
          BY <1>5, <3>2, <4>1, <4>2
      <3> QED
        BY <3>1, <3>2
    <2>2. f = [k \in 0 .. n |-> f[k]]
      BY <1>6
    <2> HIDE DEF r
    <2> QED
      BY <2>1, <2>2
  <1> HIDE DEF Is
  <1>8. Is(last)
    BY <1>7 DEF last
  <1>9. \A k \in 0 .. n : last[k] = r(last, k)
    BY <1>8 DEF Is
  <1>10. \A k \in 1 .. n : last[k] = IF p[k].kind = "IPV6" THEN k ELSE last[k - 1]
    <2>1. \A k \in 1 .. n : k # 0 /\ k \in 0 .. n
      BY <1>1
    <2> QED
      BY <1>9, <2>1
  <1> HIDE DEF r
  <1> DEFINE Found(k, x) ==
                 /\ x \in 1 .. k /\ p[x].kind = "IPV6"
                 /\ \A j \in 1 .. k : p[j].kind = "IPV6" => j <= x
             S == {k \in 0 .. n - 2 : Found(k + 1, last[k + 1])}
  <1>11. 0 \in S
    <2>1. 1 \in 1 .. n /\ 0 \in 0 .. n - 2 /\ 0 + 1 = 1 /\ 1 \in 1 .. 1 /\ \A j \in 1 .. 1 : j <= 1
      BY <1>1
    <2>2. last[1] = 1
      BY <1>1, <1>10, <2>1
    <2> QED
      BY <1>1, <2>1, <2>2
  <1>12. ASSUME NEW k \in S, k < n - 2 PROVE k + 1 \in S
    <2>1. PICK i \in Nat : i = k + 1 /\ i \in 1 .. n /\ i + 1 \in 1 .. n /\ (i + 1) - 1 = i /\ i \in 0 .. n - 2
      BY <1>1, <1>12
    <2>2. Found(i, last[i])
      BY <2>1
    <2>3. last[i + 1] = IF p[i + 1].kind = "IPV6" THEN i + 1 ELSE last[i]
      BY <1>10, <2>1
    <2>4. \A j \in 1 .. i + 1 : j = i + 1 \/ j \in 1 .. i
      BY <2>1
    <2>5. Found(i + 1, last[i + 1])
      <3>1. CASE p[i + 1].kind = "IPV6"
        <4>1. i + 1 \in 1 .. i + 1 /\ \A j \in 1 .. i + 1 : j <= i + 1
          BY <2>1
        <4> QED
          BY <2>3, <3>1, <4>1
      <3>2. CASE p[i + 1].kind # "IPV6"
        <4>1. last[i + 1] = last[i] /\ last[i] \in 1 .. i + 1
          BY <2>1, <2>2, <2>3, <3>2
        <4> QED
          BY <2>2, <2>4, <3>2, <4>1
      <3> QED
        BY <3>1, <3>2
    <2> HIDE DEF Found
    <2> QED
      BY <2>1, <2>5
  <1>13. S \subseteq 0 .. n - 2 /\ n - 2 \in Nat /\ (S = 0 .. n - 2 => Found(n - 1, last[n - 1]))
    <2>1. n - 2 \in 0 .. n - 2 /\ n - 2 \in Nat /\ (n - 2) + 1 = n - 1
      BY <1>1
    <2> HIDE DEF Found
    <2>2. n - 2 \in S => Found((n - 2) + 1, last[(n - 2) + 1])
      OBVIOUS
    <2>3. S \subseteq 0 .. n - 2
      OBVIOUS
    <2> HIDE DEF S
    <2> QED
      BY <2>1, <2>2, <2>3
  <1> HIDE DEF S, Found
  <1>14. Found(n - 1, last[n - 1])
    BY <1>11, <1>12, <1>13, Induct
  <1>15. PICK x : x = last[n - 1] /\ x \in 1 .. n - 1 /\ x \in 1 .. n /\ p[x].kind = "IPV6"
                  /\ \A j \in 1 .. n - 1 : p[j].kind = "IPV6" => j <= x
    BY <1>1, <1>14 DEF Found
  <1>16. x \in IPv6s /\ \A j \in IPv6s : j <= x
    <2>1. \A j \in 1 .. n : j = n \/ j \in 1 .. n - 1
      BY <1>1
    <2> QED
      BY <1>1, <1>15, <2>1 DEF IPv6s
  <1>17. \A j \in IPv6s : j \in Nat
    BY <1>1 DEF IPv6s
  <1>18. \A y \in IPv6s : (\A j \in IPv6s : j <= y) => y = x
    BY <1>16, <1>17
  <1>19. Innermost = x
    BY <1>16, <1>18 DEF Innermost
  <1> QED
    BY <1>3, <1>15, <1>16, <1>19
-----------------------------------------------------------------------------
(***************************************************************************)
(* do_csum where send_buffer calls it.                                     *)
(***************************************************************************)
\* Bytes in front of a header.
LEMMA OffsetIsNat ==
    ASSUME NEW c \in Chain
    PROVE  Offset(c, Len(c)) \in Nat
  <1> DEFINE n == Len(c)
             a == [k \in 1 .. n |-> c[k].size]
             r(g, k) == IF k = 0 THEN 0 ELSE g[k - 1] + c[k].size
             upTo == CHOOSE g : g = [k \in 0 .. n |-> r(g, k)]
             Is(g) == g = [k \in 0 .. n |-> r(g, k)]
  <1>1. n \in Nat /\ n - 1 \in 0 .. n /\ \A k \in 1 .. n : c[k].size \in Nat
    <2> DEFINE R == [kind : Parsed, size : Nat]
    <2>1. c \in Seq(R) /\ c # <<>> /\ \A h \in R : h.size \in Nat
      BY BufferAssumption
    <2> HIDE DEF R
    <2>2. Len(c) \in Nat /\ Len(c) # 0 /\ \A k \in 1 .. Len(c) : c[k] \in R
      BY <2>1
    <2> QED
      BY <2>1, <2>2
  <1>2. Offset(c, n) = upTo[n - 1]
    BY DEF Offset
  <1>3. a \in [1 .. n -> Nat] /\ \A k \in 1 .. n : a[k] = c[k].size
    BY <1>1
  <1>4. \A g : \A k \in 0 .. n : r(g, k) = IF k = 0 THEN 0 ELSE g[k - 1] + a[k]
    <2>1. \A k \in 0 .. n : k # 0 => k \in 1 .. n
      BY <1>1
    <2> QED
      BY <1>3, <2>1
  <1>5. upTo = CHOOSE g : Is(g)
    OBVIOUS
  <1>6. n = Len(c)
    OBVIOUS
  <1> HIDE DEF n, a, r, upTo
  <1>7. PICK f \in [0 .. n -> Nat] : Adds(f, n, a)
    BY <1>1, <1>3, SumsExist
  <1>8. Is(f)
    <2>1. \A k \in 0 .. n : k # 0 => k \in 1 .. n
      BY <1>1
    <2>2. \A k \in 0 .. n : f[k] = r(f, k)
      BY <1>4, <1>7, <2>1 DEF Adds
    <2>3. f = [k \in 0 .. n |-> f[k]]
      BY <1>7
    <2> QED
      BY <2>2, <2>3
  <1> HIDE DEF Is
  <1>9. Is(upTo)
    BY <1>5, <1>8
  <1>10. \A k \in 0 .. n : upTo[k] = r(upTo, k)
    BY <1>9 DEF Is
  <1>11. Adds(upTo, n, a)
    <2>1. 0 \in 0 .. n /\ \A k \in 1 .. n : k # 0 /\ k \in 0 .. n
      BY <1>1
    <2> QED
      BY <1>4, <1>10, <2>1 DEF Adds
  <1>12. upTo[n - 1] \in Nat
    BY <1>1, <1>3, <1>11, SumsInNat
  <1> QED
    BY <1>2, <1>6, <1>12

\* The loop over the IPv6 headers (bulk_buffer.c 117-123) begins with the outermost.
LEMMA FirstFound ==
    ASSUME p \in Chain
    PROVE  1 \in AllFound
  <1> DEFINE v == [at |-> 0, nh |-> "IPV6", found |-> {}]
             Is(g, m) == g = [k \in 0 .. m |-> IF k = 0 THEN v ELSE Turn(g[k - 1])]
             after == CHOOSE g : Is(g, Len(p))
  <1>1. PICK n \in Nat : n = Len(p) /\ n >= 2 /\ 1 \in 1 .. n /\ p[1].kind = "IPV6"
    <2>1. Len(p) \in Nat /\ Len(p) >= 2 /\ p[1].kind = "IPV6"
      BY ChainShape
    <2> QED
      BY <2>1
  <1>2. AllFound = after[n].found
    BY <1>1 DEF AllFound
  <1>3. Turn(v).found = {1}
    <2>1. PICK w : Walk(w, p, "IPV6") /\ parse_until("IPV6", p, 1, p[1].kind) = w[1]
      BY Walks
    <2>2. w[1] = 1
      BY <1>1, <2>1 DEF Walk
    <2>3. v.at + 1 = 1 /\ v.nh = "IPV6" /\ v.found = {} /\ 1 # 0
      OBVIOUS
    <2> HIDE DEF v
    <2>4. find_hdr("IPV6", p, v.at + 1, v.nh).at = 1
      BY <1>1, <2>1, <2>2, <2>3 DEF find_hdr
    <2>5. Turn(v).found = v.found \cup {1}
      BY <2>3, <2>4 DEF Turn
    <2> QED
      BY <2>3, <2>5
  <1>4. \A u : u.found \subseteq Turn(u).found
    BY DEF Turn
  <1>5. \E g : Is(g, n)
    <2> DEFINE S == {m \in 0 .. n : \E g : Is(g, m)}
    <2>1. 0 \in S
      <3>1. Is([k \in 0 .. 0 |-> v], 0)
        <4>1. \A k \in 0 .. 0 : k = 0
          OBVIOUS
        <4> HIDE DEF v
        <4> QED
          BY <4>1
      <3>2. 0 \in 0 .. n
        BY <1>1
      <3> QED
        BY <3>1, <3>2
    <2>2. ASSUME NEW m \in S, m < n PROVE m + 1 \in S
      <3>1. PICK g : Is(g, m)
        OBVIOUS
      <3> DEFINE h == [k \in 0 .. m + 1 |-> IF k \in 0 .. m THEN g[k] ELSE Turn(g[m])]
      <3>2. m \in 0 .. n /\ m + 1 \in 0 .. n /\ m \in 0 .. m
        BY <1>1, <2>2
      <3> HIDE DEF S
      <3>3. ASSUME NEW k \in 0 .. m + 1 PROVE h[k] = IF k = 0 THEN v ELSE Turn(h[k - 1])
        <4> HIDE DEF v
        <4>1. CASE k = 0
          <5>1. 0 \in 0 .. m /\ 0 \in 0 .. m + 1
            BY <3>2
          <5>2. h[0] = g[0]
            BY <5>1
          <5>3. g[0] = v
            BY <3>1, <5>1
          <5> QED
            BY <4>1, <5>2, <5>3
        <4>2. CASE k \in 1 .. m
          <5>1. k - 1 \in 0 .. m /\ k - 1 \in 0 .. m + 1 /\ k \in 0 .. m /\ k # 0
            BY <3>2, <4>2
          <5>2. h[k] = g[k] /\ h[k - 1] = g[k - 1]
            BY <5>1
          <5>3. g[k] = Turn(g[k - 1])
            BY <3>1, <5>1
          <5> QED
            BY <5>1, <5>2, <5>3
        <4>3. CASE k = m + 1
          <5>1. k - 1 = m /\ m \in 0 .. m /\ m \in 0 .. m + 1 /\ k \notin 0 .. m /\ k # 0
            BY <3>2, <4>3
          <5>2. h[k] = Turn(g[m]) /\ h[m] = g[m]
            BY <5>1
          <5> QED
            BY <5>1, <5>2
        <4> QED
          BY <3>2, <4>1, <4>2, <4>3
      <3>4. h = [k \in 0 .. m + 1 |-> h[k]]
        OBVIOUS
      <3> HIDE DEF h, v
      <3>5. Is(h, m + 1)
        BY <3>3, <3>4
      <3> QED
        BY <3>2, <3>5 DEF S
    <2>3. S \subseteq 0 .. n /\ n \in 0 .. n
      BY <1>1
    <2>4. n \in S => \E g : Is(g, n)
      OBVIOUS
    <2> HIDE DEF S, Is
    <2> QED
      BY <1>1, <2>1, <2>2, <2>3, <2>4, Induct
  <1>6. Is(after, n)
    <2> HIDE DEF Is
    <2> QED
      BY <1>1, <1>5
  <1> HIDE DEF after, v
  <1>7. after[0] = v /\ \A k \in 0 .. n - 1 : after[k + 1] = Turn(after[k])
    <2>1. 0 \in 0 .. n
      BY <1>1
    <2>2. \A k \in 0 .. n - 1 : k + 1 \in 0 .. n /\ k + 1 # 0 /\ (k + 1) - 1 = k
      BY <1>1
    <2> QED
      BY <1>6, <2>1, <2>2
  <1> DEFINE T == {k \in 0 .. n - 1 : 1 \in after[k + 1].found}
  <1>8. 0 \in T
    <2>1. 0 \in 0 .. n - 1 /\ 0 + 1 = 1
      BY <1>1
    <2> QED
      BY <1>3, <1>7, <2>1
  <1>9. ASSUME NEW k \in T, k < n - 1 PROVE k + 1 \in T
    <2>1. k + 1 \in 0 .. n - 1 /\ 1 \in after[k + 1].found
      BY <1>1, <1>9
    <2> QED
      BY <1>4, <1>7, <2>1
  <1>10. n - 1 \in Nat /\ T \subseteq 0 .. n - 1 /\ n - 1 \in 0 .. n - 1 /\ (n - 1) + 1 = n
    BY <1>1
  <1>11. n - 1 \in T => 1 \in after[(n - 1) + 1].found
    OBVIOUS
  <1> HIDE DEF T
  <1>12. T = 0 .. n - 1
    BY <1>8, <1>9, <1>10, Induct
  <1> QED
    BY <1>2, <1>10, <1>11, <1>12

\* Whatever update_tcp_hdr writes into addresses, they are words.
Addresses ==
    /\ address = [k \in IPv6s |-> address[k]]
    /\ \A k \in IPv6s : address[k] \in Seq(0 .. WORD - 1)

LEMMA OverwrittenWord ==
    ASSUME NEW w \in 0 .. WORD - 1, NEW n \in Nat
    PROVE  HALF * (w \div HALF) + htons(n) \in 0 .. WORD - 1
  <1> DEFINE q == w \div HALF
             r == w % HALF
             h == htons(n)
  <1>1. HALF \in Nat /\ HALF > 0 /\ WORD = HALF * HALF /\ w \in Nat /\ w < WORD
    BY Sizes
  <1>2. w = HALF * q + r /\ q \in Nat /\ r \in 0 .. HALF - 1
    BY <1>1, EuclideanDivision
  <1>3. h \in 0 .. HALF - 1
    <2>1. n % HALF \in 0 .. HALF - 1
      BY <1>1, EuclideanDivision
    <2> QED
      BY <2>1, SwapSame DEF htons
  <1> HIDE DEF q, r, h
  <1>4. q \in 0 .. HALF - 1
    <2>1. SUFFICES ASSUME q >= HALF PROVE FALSE
      BY <1>1, <1>2
    <2>2. PICK d \in Nat : d = q - HALF
      BY <1>1, <1>2, <2>1
    <2>3. HALF * q = HALF * HALF + HALF * d /\ HALF * d \in Nat
      BY <1>1, <1>2, <2>2
    <2> QED
      BY <1>1, <1>2, <2>3
  <1>5. h + HALF * q \in 0 .. HALF * HALF - 1
    BY <1>1, <1>3, <1>4, Digits
  <1>6. h + HALF * q = HALF * q + h
    BY <1>1, <1>3, <1>4
  <1>7. HALF * q + h \in 0 .. WORD - 1
    BY <1>1, <1>5, <1>6
  <1> QED
    BY <1>7 DEF q, h

LEMMA AddressesKept ==
    ASSUME p \in Chain, Len(data) \in Nat, Addresses, update_tcp_hdr
    PROVE  Addresses'
  <1>1. p' = p /\ IPv6s' = IPv6s
    BY DEF update_tcp_hdr, IPv6s
  <1>2. CASE address' = address
    BY <1>1, <1>2 DEF Addresses
  <1>3. CASE OverwriteAddress
    <2>1. PICK k \in IPv6s : \E i \in DOMAIN address[k] :
              address' = [address EXCEPT ![k][i] = HALF * (@ \div HALF) + htons(Len(data))]
      BY <1>3 DEF OverwriteAddress
    <2>2. PICK i \in DOMAIN address[k] :
              address' = [address EXCEPT ![k][i] = HALF * (@ \div HALF) + htons(Len(data))]
      BY <2>1
    <2>3. PICK a : a = address[k] /\ a \in Seq(0 .. WORD - 1)
      BY DEF Addresses
    <2>4. a[i] \in 0 .. WORD - 1
      <3>1. DOMAIN a = 1 .. Len(a) /\ Len(a) \in Nat
        BY <2>3
      <3>2. \A j \in Nat : j > 0 /\ j <= Len(a) => a[j] \in 0 .. WORD - 1
        BY <2>3, Elements
      <3>3. i \in Nat /\ i > 0 /\ i <= Len(a)
        BY <2>2, <2>3, <3>1
      <3> QED
        BY <3>2, <3>3
    <2>5. PICK w \in 0 .. WORD - 1 : w = HALF * (a[i] \div HALF) + htons(Len(data))
      BY <2>4, OverwrittenWord
    <2>6. [a EXCEPT ![i] = w] \in Seq(0 .. WORD - 1)
      BY <2>3
    <2>7. address' = [address EXCEPT ![k] = [a EXCEPT ![i] = w]]
      BY <2>2, <2>3, <2>5
    <2>8. DOMAIN address = IPv6s
      BY DEF Addresses
    <2>9. \A m \in IPv6s : address'[m] = IF m = k THEN [a EXCEPT ![i] = w] ELSE address[m]
      BY <2>7, <2>8
    <2>10. address' = [m \in IPv6s |-> address'[m]]
      BY <2>7, <2>8
    <2>11. \A m \in IPv6s : address'[m] \in Seq(0 .. WORD - 1)
      BY <2>6, <2>9 DEF Addresses
    <2> QED
      BY <1>1, <2>10, <2>11 DEF Addresses
  <1> QED
    BY <1>2, <1>3 DEF update_tcp_hdr, SetLength, OverwriteOther

\* What set_tcp_checksum stores makes the sum over everything all ones.
LEMMA StoredVerifies ==
    ASSUME p \in Chain, Addresses,
           data \in Seq(Digit), CHECK + 1 <= Len(data), data[CHECK] = 0, data[CHECK + 1] = 0,
           result = OnesSum(WordSum(data)), data' = SetCheck(data, tcp_checksum(address[ip6hdr]))
    PROVE  OnesSum(WordSum(PseudoHeader \o data')) = HALF - 1 /\ Len(data') = Len(data)
  <1>1. PICK v \in Nat : v = WordSum(data)
    BY WordSumCounts
  <1>2. result \in 0 .. HALF - 1 /\ Same(v, result) /\ (v = 0 <=> result = 0)
    BY <1>1, OnesSumSame
  <1>3. PICK wa \in Seq(0 .. WORD - 1) : wa = address[ip6hdr] /\ wa = address[Innermost]
    BY InnermostFound DEF Addresses
  <1>4. PICK j \in Nat : j = Len(wa) + 2
    <2>1. Len(wa) \in Nat
      OBVIOUS
    <2> QED
      BY <2>1
  <1>5. Len(data) \in Nat /\ TCP \in Nat /\ result \in 0 .. WORD - 1 /\ result \in Nat
    BY <1>2, Sizes, DigitsIn, BufferAssumption
  <1>6. PICK c, s :
            /\ c = Concatenation([i \in DOMAIN wa |-> Bytes(wa[i])]) \o BigEndian(Len(data)) \o BigEndian(TCP)
            /\ Adding(c, j, s, result) /\ csum_ipv6_magic(wa, Len(data), TCP, result) = csum_fold(s)
    <2>1. PICK n \in Nat, proto \in Nat, x \in 0 .. WORD - 1 : n = Len(data) /\ proto = TCP /\ x = result
      BY <1>5
    <2>2. \E c, s :
              /\ c = Concatenation([i \in DOMAIN wa |-> Bytes(wa[i])]) \o BigEndian(n) \o BigEndian(proto)
              /\ Adding(c, Len(wa) + 2, s, x) /\ csum_ipv6_magic(wa, n, proto, x) = csum_fold(s)
      BY HeaderSum
    <2> QED
      BY <1>4, <2>1, <2>2
  <1>7. c = PseudoHeader
    BY <1>3, <1>6 DEF PseudoHeader
  <1>8. PICK u \in Nat : u = WordSum(c) /\ Same(u + result, s) /\ (u + result = 0 <=> s = 0)
    BY <1>6, WordSumCounts DEF Adding
  <1>9. c \in Seq(Digit) /\ Len(c) = 2 * (2 * j) /\ s \in 0 .. WORD - 1
    BY <1>6 DEF Adding
  <1>10. PICK t \in 0 .. HALF - 1, y \in 0 .. HALF - 1 :
             /\ t = from32to16(csum_fold(s)) /\ y + t = HALF - 1
             /\ Same(s, y) /\ (s = 0 <=> y = 0)
    BY <1>9, Complement
  <1>11. data' = SetCheck(data, t)
    BY <1>3, <1>6, <1>10 DEF tcp_checksum
  <1>12. data' \in Seq(Digit) /\ Len(data') = Len(data) /\ WordSum(data') = v + t
    BY <1>1, <1>11, SetCheckAdds
  <1>13. WordSum(c \o data') = u + (v + t)
    <2>1. PICK h \in Nat : Len(c) = 2 * h
      <3>1. 2 * j \in Nat
        BY <1>4
      <3> QED
        BY <1>9, <3>1
    <2>2. PICK d \in Seq(Digit) : d = data'
      BY <1>12
    <2>3. WordSum(c \o d) = WordSum(c) + WordSum(d)
      BY <1>9, <2>1, WordSumJoin
    <2> QED
      BY <1>8, <1>12, <2>2, <2>3
  <1>14. PICK n \in Nat : n = u + v /\ n + t = u + (v + t)
    BY <1>10
  <1>15. n \in Int /\ result \in Int /\ u \in Int /\ v \in Int /\ s \in Int /\ y \in Int /\ t \in Int
         /\ u + result \in Int /\ HALF - 1 \in Int
    BY <1>5, <1>9, <1>10, Sizes
  <1>16. Same(n, u + result)
    <2>1. Same(u, u)
      BY <1>15, SameSelf
    <2> QED
      BY <1>2, <1>14, <1>15, <2>1, SamePlus
  <1>17. Same(n, s)
    BY <1>8, <1>15, <1>16, SameTrans
  <1>18. Same(n, y)
    BY <1>10, <1>15, <1>17, SameTrans
  <1>19. Same(n + t, y + t)
    BY <1>15, <1>18, SameAdd
  <1>20. n + t # 0
    <2>1. HALF - 1 > 0 /\ t \in Nat /\ y \in Nat
      BY Sizes
    <2>2. ASSUME n + t = 0 PROVE FALSE
      <3>1. n = 0 /\ t = 0
        BY <2>1, <2>2
      <3>2. u = 0 /\ v = 0
        BY <1>14, <3>1
      <3>3. u + result = 0
        BY <1>2, <3>2
      <3>4. y = 0
        BY <1>8, <1>10, <3>3
      <3> QED
        BY <1>10, <2>1, <3>1, <3>4
    <2> QED
      BY <2>2
  <1>21. PICK o \in 0 .. HALF - 1, w \in Nat : o = HALF - 1 /\ w = n + t /\ Same(w, o) /\ (w = 0 <=> o = 0)
    <2>1. HALF - 1 \in 0 .. HALF - 1 /\ HALF - 1 # 0 /\ n + t \in Nat
      BY <1>10, Sizes
    <2> QED
      BY <1>10, <1>19, <1>20, <2>1
  <1>22. o = OnesSum(w)
    BY <1>21, SumUnique
  <1> QED
    BY <1>7, <1>12, <1>13, <1>14, <1>21, <1>22

\* Until the packet is sent the buffer holds bytes, and the sum has begun or not; while
\* it goes on the checksum in the header is 0.
Sending ==
    /\ p \in Chain /\ Addresses
    /\ step # "sent" =>
           /\ data \in Seq(Digit) /\ CHECK + 1 <= Len(data) /\ addr \in 0 .. 3
           /\ IF step = "sum" THEN CsumInv /\ Loaded /\ data[CHECK] = 0 /\ data[CHECK + 1] = 0
              ELSE CsumInit
    /\ ChecksumVerifies

LEMMA InitSending == Init => Sending
  <1> SUFFICES ASSUME Init PROVE Sending
    OBVIOUS
  <1>1. data \in Seq(Digit) /\ CHECK + 1 <= Len(data) /\ CsumInit /\ step = "merge" /\ p \in Chain
    BY BufferAssumption DEF Init, Digit
  <1>2. PICK n \in Nat : n = Offset(p, Len(p))
    BY OffsetIsNat DEF Init
  <1>3. PICK base \in 0 .. 3 : addr = (base + n) % 4
    BY <1>2 DEF Init
  <1>4. addr \in 0 .. 3
    BY <1>3
  <1>5. Addresses
    <2>1. address = [k \in IPv6s |-> Address[k]] /\ \A k \in IPv6s : k \in DOMAIN p
      BY DEF Init, IPv6s
    <2>2. \A k \in IPv6s : Address[k] \in Seq(0 .. WORD - 1)
      BY <1>1, <2>1, BufferAssumption
    <2> QED
      BY <2>1, <2>2 DEF Addresses
  <1> QED
    BY <1>1, <1>4, <1>5 DEF Sending, ChecksumVerifies

\* set_tcp_checksum begins with a checksum of 0 (checksum.c 167).
LEMMA ZeroedCheck ==
    ASSUME data \in Seq(Digit), CHECK + 1 <= Len(data), data' = SetCheck(data, 0)
    PROVE  data' \in Seq(Digit) /\ Len(data') = Len(data) /\ data'[CHECK] = 0 /\ data'[CHECK + 1] = 0
  <1>1. 0 % BYTE = 0 /\ 0 \div BYTE = 0 /\ 0 \in Digit
    BY Sizes DEF Digit
  <1> DEFINE n == Len(data)
  <1>2. data \in [1 .. n -> Digit] /\ n \in Nat /\ CHECK \in 1 .. n /\ CHECK + 1 \in 1 .. n /\ CHECK # CHECK + 1
    <2>1. CHECK \in Nat /\ CHECK > 0
      BY BufferAssumption
    <2>2. data \in [1 .. n -> Digit] /\ n \in Nat
      OBVIOUS
    <2>3. CHECK + 1 <= n
      OBVIOUS
    <2> HIDE DEF n
    <2> QED
      BY <2>1, <2>2, <2>3
  <1>3. data' = [data EXCEPT ![CHECK] = 0, ![CHECK + 1] = 0]
    BY <1>1 DEF SetCheck
  <1> HIDE DEF n
  <1>4. data' \in [1 .. n -> Digit] /\ data'[CHECK] = 0 /\ data'[CHECK + 1] = 0
    BY <1>1, <1>2, <1>3
  <1>5. data' \in Seq(Digit) /\ Len(data') = n
    BY <1>2, <1>4
  <1> QED
    BY <1>4, <1>5 DEF n

LEMMA ZeroSending ==
    ASSUME Sending, Zero
    PROVE  Sending'
  <1>1. /\ data \in Seq(Digit) /\ CHECK + 1 <= Len(data) /\ addr \in 0 .. 3 /\ CsumInit /\ step' = "sum"
        /\ UNCHANGED <<p, address, addr, pc, pos, len, result, carry, total>> /\ data' = SetCheck(data, 0)
        /\ p \in Chain /\ Addresses
    BY DEF Sending, Zero
  <1>2. data' \in Seq(Digit) /\ Len(data') = Len(data) /\ data'[CHECK] = 0 /\ data'[CHECK + 1] = 0
    BY <1>1, ZeroedCheck
  <1>3. CsumInit'
    BY <1>1, <1>2 DEF CsumInit
  <1>4. (data \in Seq(0 .. BYTE - 1) /\ addr \in 0 .. 3 /\ CsumInit => CsumInv /\ Loaded)'
    BY InitCsum, InitLoaded, PTL
  <1>5. (CsumInv /\ Loaded)'
    BY <1>1, <1>2, <1>3, <1>4 DEF Digit
  <1>6. Addresses'
    BY <1>1 DEF Addresses, IPv6s
  <1> QED
    BY <1>1, <1>2, <1>5, <1>6 DEF Sending, ChecksumVerifies, Digit

LEMMA SumSending ==
    ASSUME Sending, Sum
    PROVE  Sending'
  <1>1. /\ CsumInv /\ Loaded /\ do_csum /\ step' = step /\ step = "sum" /\ p' = p /\ p \in Chain
        /\ Addresses /\ address' = address
        /\ data \in Seq(Digit) /\ CHECK + 1 <= Len(data) /\ data[CHECK] = 0 /\ data[CHECK + 1] = 0
    BY DEF Sum, Sending, sendVars
  <1>2. CsumInv'
    BY <1>1, OddStep, AlignStep, LoopStep, FoldStep, RestStep DEF do_csum
  <1>3. Loaded'
    BY <1>1, LoadedStep
  <1>4. data' = data /\ addr' = addr /\ addr \in 0 .. 3
    BY <1>1 DEF do_csum, Odd, Align, Loop, Fold, Rest, CsumInv, CsumTypeOK
  <1>5. CHECK' = CHECK /\ Digit' = Digit
    BY DEF Digit
  <1>6. Addresses'
    BY <1>1 DEF Addresses, IPv6s
  <1> QED
    BY <1>1, <1>2, <1>3, <1>4, <1>5, <1>6 DEF Sending, ChecksumVerifies

LEMMA StoreSending ==
    ASSUME Sending, SetChecksum
    PROVE  Sending'
  <1>1. /\ p \in Chain /\ data \in Seq(Digit) /\ CHECK + 1 <= Len(data) /\ data[CHECK] = 0 /\ data[CHECK + 1] = 0
        /\ CsumInv /\ Loaded /\ pc = "done" /\ data' = SetCheck(data, tcp_checksum(address[ip6hdr]))
        /\ step' = "sent" /\ p' = p /\ Addresses /\ address' = address
    BY DEF Sending, SetChecksum
  <1>2. result = OnesSum(WordSum(data))
    BY <1>1, ReturnsSum
  <1>3. OnesSum(WordSum(PseudoHeader \o data')) = HALF - 1 /\ Len(data') = Len(data)
    BY <1>1, <1>2, StoredVerifies
  <1>4. PseudoHeader' = PseudoHeader
    BY <1>1, <1>3 DEF PseudoHeader, Innermost, IPv6s
  <1>5. ChecksumVerifies'
    BY <1>1, <1>3, <1>4 DEF ChecksumVerifies
  <1>6. Addresses'
    BY <1>1 DEF Addresses, IPv6s
  <1> QED
    BY <1>1, <1>5, <1>6 DEF Sending

LEMMA NextSending == Sending /\ [Next]_vars => Sending'
  <1> SUFFICES ASSUME Sending, [Next]_vars PROVE Sending'
    OBVIOUS
  <1>1. CASE update_tcp_hdr \/ Lengths
    <2>1. UNCHANGED csumVars /\ p' = p /\ step # "sent" /\ step # "sum" /\ step' # "sum" /\ step' # "sent"
      BY <1>1 DEF update_tcp_hdr, Lengths
    <2>2. Addresses'
      <3>1. CASE update_tcp_hdr
        <4>1. p \in Chain /\ Addresses /\ Len(data) \in Nat
          BY <2>1, DigitsIn DEF Sending
        <4> QED
          BY <3>1, <4>1, AddressesKept
      <3>2. CASE Lengths
        BY <3>2 DEF Lengths, Sending, Addresses, IPv6s
      <3> QED
        BY <1>1, <3>1, <3>2
    <2> QED
      BY <2>1, <2>2 DEF Sending, csumVars, CsumInit, ChecksumVerifies
  <1>2. CASE UNCHANGED vars
    <2>1. UNCHANGED csumVars /\ p' = p /\ step' = step /\ address' = address
      BY <1>2 DEF vars, sendVars
    <2>2. ChecksumVerifies'
      BY <2>1 DEF Sending, csumVars, ChecksumVerifies, PseudoHeader, Innermost, IPv6s
    <2>3. CsumInit => CsumInit'
      BY <2>1 DEF csumVars, CsumInit
    <2>4. CsumInv => CsumInv'
      BY <2>1 DEF csumVars, CsumInv, CsumTypeOK, Place, AtEnd, Rests, CarryFits, SumKept, Returned, Wanted, IsOdd
    <2>5. CsumInv /\ Loaded => Loaded'
      BY <2>1, LoadedStep
    <2>6. Addresses'
      BY <2>1 DEF Sending, Addresses, IPv6s
    <2> QED
      BY <2>1, <2>2, <2>3, <2>4, <2>5, <2>6 DEF Sending, csumVars
  <1> QED
    BY <1>1, <1>2, ZeroSending, SumSending, StoreSending DEF Next, send_buffer, set_tcp_checksum

\* For bytes of any base, a buffer of any length and at any address, do_csum returns the
\* ones'-complement sum of the words of the buffer, as RFC 1071 defines it (checksum.c
\* 32-84): no byte is left out or counted in the wrong place.
THEOREM SumsWords == Spec => []SumIsOnesComplement
  <1>1. Sending => SumIsOnesComplement
    BY ReturnsSum DEF Sending, SumIsOnesComplement
  <1> QED
    BY <1>1, InitSending, NextSending, PTL DEF Spec

\* Whatever the headers in front of TCP, their addresses and the bytes, the checksum that
\* send_buffer stores verifies with the addresses that the innermost header is sent with,
\* also where update_tcp_hdr has written into one (checksum.c 160-171, bulk_buffer.c 42-44
\* and 131).
THEOREM SentVerifies == Spec => []ChecksumVerifies
  <1>1. Sending => ChecksumVerifies
    BY DEF Sending
  <1> QED
    BY <1>1, InitSending, NextSending, PTL DEF Spec

\* The bytes behind the last IPv6 header are TCP and its data, which is what
\* update_tcp_hdr puts into that header (line 44).
LEMMA BehindLast ==
    ASSUME p \in Chain, Len(data) \in Nat
    PROVE  Behind(Len(p) - 1) = Len(data)
  <1>1. Len(p) \in Nat /\ (Len(p) - 1) + 1 = Len(p)
    BY ChainShape
  <1>2. PICK n \in Nat : n = Offset(p, Len(p))
    BY OffsetIsNat
  <1>3. PICK m \in Nat : m = Len(data) /\ (n - n) + m = m
    OBVIOUS
  <1>4. Behind(Len(p) - 1) = (n - n) + m
    BY <1>1, <1>2, <1>3 DEF Behind
  <1> QED
    BY <1>3, <1>4

\* The length in the header in front of TCP is set from update_tcp_hdr on, that of the
\* first from the loop on, to what two bytes hold of it.
LengthsInv ==
    /\ length = [k \in IPv6s |-> length[k]]
    /\ step = "lengths" => \A k \in IPv6s : k = InFront => length[k] = Behind(k) % HALF
    /\ step \in {"zero", "sum", "sent"} =>
           \A k \in IPv6s \cap {1, InFront} : length[k] = Behind(k) % HALF

LEMMA LengthsKept ==
    ASSUME LengthsInv, p' = p, length' = length, Len(data') = Len(data),
           step' = step \/ (step \in {"zero", "sum"} /\ step' \in {"sum", "sent"})
    PROVE  LengthsInv'
  <1>1. IPv6s' = IPv6s
    BY DEF IPv6s
  <1>2. \A k : Behind(k)' = Behind(k)
    BY DEF Behind
  <1>3. InFront' = InFront
    BY DEF InFront
  <1> QED
    BY <1>1, <1>2, <1>3 DEF LengthsInv

LEMMA NextLengths == Sending /\ LengthsInv /\ [Next]_vars => LengthsInv'
  <1> SUFFICES ASSUME Sending, LengthsInv, [Next]_vars PROVE LengthsInv'
    OBVIOUS
  <1>1. CASE update_tcp_hdr
    <2>1. p' = p /\ data' = data /\ step' = "lengths" /\ p \in Chain /\ data \in Seq(Digit)
      BY <1>1 DEF update_tcp_hdr, Sending, csumVars
    <2>2. IPv6s' = IPv6s /\ InFront' = InFront /\ \A k : Behind(k)' = Behind(k)
      BY <2>1 DEF IPv6s, InFront, Behind
    <2>3. DOMAIN length = IPv6s
      BY DEF LengthsInv
    <2>4. CASE SetLength
      <3>1. length' = [length EXCEPT ![InFront] = Len(data) % HALF]
        BY <2>4 DEF SetLength
      <3>2. Behind(InFront) = Len(data)
        BY <2>1, DigitsIn, BehindLast DEF InFront
      <3>3. \A k \in IPv6s : k = InFront => length'[k] = Behind(k) % HALF
        BY <3>1, <3>2, <2>3
      <3>4. length' = [k \in IPv6s |-> length'[k]]
        BY <3>1, <2>3
      <3> QED
        BY <2>1, <2>2, <3>3, <3>4 DEF LengthsInv
    <2>5. CASE OverwriteAddress \/ OverwriteOther
      <3>1. length' = length /\ p[InFront].kind # "IPV6"
        BY <2>5 DEF OverwriteAddress, OverwriteOther
      <3>2. \A k \in IPv6s : k # InFront
        BY <3>1 DEF IPv6s
      <3> QED
        BY <2>1, <2>2, <3>1, <3>2 DEF LengthsInv
    <2> QED
      BY <1>1, <2>4, <2>5 DEF update_tcp_hdr
  <1>2. CASE Lengths
    <2>1. /\ p' = p /\ data' = data /\ step = "lengths" /\ step' = "zero" /\ p \in Chain
          /\ length' = [k \in IPv6s |-> IF k \in Updated THEN Behind(k) % HALF ELSE length[k]]
      BY <1>2 DEF Lengths, Sending, csumVars
    <2>2. IPv6s' = IPv6s /\ InFront' = InFront /\ \A k : Behind(k)' = Behind(k)
      BY <2>1 DEF IPv6s, InFront, Behind
    <2>3. 1 \in Updated
      BY <2>1, FirstFound DEF Updated
    <2>4. \A k \in IPv6s \cap {1, InFront} : length'[k] = Behind(k) % HALF
      BY <2>1, <2>3 DEF LengthsInv
    <2>5. length' = [k \in IPv6s |-> length'[k]]
      BY <2>1
    <2> QED
      BY <2>1, <2>2, <2>4, <2>5 DEF LengthsInv
  <1>3. CASE Zero
    <2>1. /\ p' = p /\ length' = length /\ step = "zero" /\ step' = "sum"
          /\ data \in Seq(Digit) /\ CHECK + 1 <= Len(data) /\ data' = SetCheck(data, 0)
      BY <1>3 DEF Zero, Sending
    <2>2. Len(data') = Len(data)
      BY <2>1, ZeroedCheck
    <2> QED
      BY <2>1, <2>2, LengthsKept
  <1>4. CASE Sum
    <2>1. p' = p /\ length' = length /\ step' = step /\ data' = data
      BY <1>4 DEF Sum, sendVars, do_csum, Odd, Align, Loop, Fold, Rest
    <2> QED
      BY <2>1, LengthsKept
  <1>5. CASE SetChecksum
    <2>1. /\ p \in Chain /\ data \in Seq(Digit) /\ CHECK + 1 <= Len(data) /\ data[CHECK] = 0 /\ data[CHECK + 1] = 0
          /\ CsumInv /\ Loaded /\ pc = "done" /\ data' = SetCheck(data, tcp_checksum(address[ip6hdr]))
          /\ step = "sum" /\ step' = "sent" /\ p' = p /\ length' = length /\ Addresses
      BY <1>5 DEF Sending, SetChecksum
    <2>2. result = OnesSum(WordSum(data))
      BY <2>1, ReturnsSum
    <2>3. Len(data') = Len(data)
      BY <2>1, <2>2, StoredVerifies
    <2> QED
      BY <2>1, <2>3, LengthsKept
  <1>6. CASE UNCHANGED vars
    <2>1. p' = p /\ length' = length /\ step' = step /\ data' = data
      BY <1>6 DEF vars, sendVars, csumVars
    <2> QED
      BY <2>1, LengthsKept
  <1> QED
    BY <1>1, <1>2, <1>3, <1>4, <1>5, <1>6 DEF Next, send_buffer, set_tcp_checksum

\* In a merged packet that is sent, the length of the first header, and of an IPv6 header
\* directly in front of TCP, is right when it fits in two bytes, whatever other headers
\* there are and whichever way the lengths are set: update_tcp_hdr sees to the one in
\* front of TCP, the loop or the line behind it to the first (bulk_buffer.c 42-44 and
\* 112-128).
THEOREM SentLengths == Spec => []LengthsRight
  <1>1. Init => LengthsInv
    BY DEF Init, LengthsInv
  <1>2. LengthsInv => LengthsRight
    <2>1. \A b : b \in 0 .. HALF - 1 => b % HALF = b
      BY Sizes, SmallMod
    <2> QED
      BY <2>1 DEF LengthsInv, LengthsRight
  <1> QED
    BY <1>1, <1>2, InitSending, NextSending, NextLengths, PTL DEF Spec
=============================================================================
