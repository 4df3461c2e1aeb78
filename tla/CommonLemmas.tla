---------------------------- MODULE CommonLemmas ---------------------------
(***************************************************************************)
(* What the proofs of the other modules count and compare with: induction  *)
(* and recursion up to a number, for sets and functions; sets with at most *)
(* one member; sequences of sequences, one after the other.                *)
(***************************************************************************)
EXTENDS Streams, Integers, FiniteSetTheorems, TLAPS

\* Were m the first that is missing, adding 1 would map the members below m to those
\* above 0, which are one less.
LEMMA Induct ==
    ASSUME NEW n \in Nat, NEW S, S \subseteq 0 .. n, 0 \in S,
           \A k \in S : k < n => k + 1 \in S
    PROVE  S = 0 .. n
  <1>1. IsFiniteSet(S)
    <2>1. IsFiniteSet(0 .. n)
      BY FS_Interval
    <2> QED
      BY <2>1, FS_Subset
  <1> SUFFICES ASSUME NEW m \in 0 .. n, m \notin S
               PROVE  FALSE
    OBVIOUS
  <1> DEFINE T == S \cap 0 .. m
             f == [k \in T |-> k + 1]
  <1>2. IsFiniteSet(T) /\ Cardinality(T) \in Nat /\ 0 \in T
    BY <1>1, FS_Subset, FS_CardinalityType
  <1>3. IsFiniteSet(T \ {0}) /\ Cardinality(T \ {0}) = Cardinality(T) - 1
    BY <1>2, FS_RemoveElement
  <1>4. f \in Injection(T, T \ {0})
    BY DEF Injection, IsInjective
  <1> HIDE DEF T, f
  <1>5. Cardinality(T) <= Cardinality(T \ {0})
    BY <1>3, <1>4, FS_Injection
  <1> QED
    BY <1>2, <1>3, <1>5

\* What g does up to n: it starts at v and goes on by F.
Computes(g, n, v, F) == g[0] = v /\ \A k \in 1 .. n : g[k] = F[k][g[k - 1]]

\* A computation of n steps has a result.
LEMMA Recursion ==
    ASSUME NEW n \in Nat, NEW V, NEW v \in V, NEW F \in [1 .. n -> [V -> V]]
    PROVE  \E g \in [0 .. n -> V] : Computes(g, n, v, F)
  <1> DEFINE S == {k \in 0 .. n : \E g \in [0 .. k -> V] : Computes(g, k, v, F)}
  <1>1. 0 \in S
    <2>1. [i \in 0 .. 0 |-> v] \in [0 .. 0 -> V]
      OBVIOUS
    <2>2. Computes([i \in 0 .. 0 |-> v], 0, v, F)
      BY DEF Computes
    <2> QED
      BY <2>1, <2>2
  <1>2. ASSUME NEW k \in S, k < n PROVE k + 1 \in S
    <2>1. PICK g \in [0 .. k -> V] : Computes(g, k, v, F)
      BY <1>2
    <2>2. k \in Nat /\ k + 1 \in 1 .. n /\ g[k] \in V
      BY <1>2
    <2>3. F[k + 1][g[k]] \in V
      BY <2>2
    <2> DEFINE h == [i \in 0 .. k + 1 |-> IF i = k + 1 THEN F[k + 1][g[k]] ELSE g[i]]
    <2>4. h \in [0 .. k + 1 -> V]
      BY <2>2, <2>3
    <2>5. h[0] = v
      BY <2>1, <2>2 DEF Computes
    <2>6. ASSUME NEW i \in 1 .. k + 1 PROVE h[i] = F[i][h[i - 1]]
      <3>1. CASE i = k + 1
        <4>1. i - 1 = k /\ k \in 0 .. k + 1 /\ k # k + 1
          BY <2>2, <3>1
        <4>2. h[i - 1] = g[k] /\ h[i] = F[k + 1][g[k]]
          BY <2>2, <3>1, <4>1
        <4> QED
          BY <3>1, <4>2
      <3>2. CASE i # k + 1
        <4>1. i \in 1 .. k /\ i - 1 \in 0 .. k /\ i - 1 # k + 1
          BY <2>2, <3>2
        <4>2. h[i] = g[i] /\ h[i - 1] = g[i - 1]
          BY <2>2, <3>2, <4>1
        <4> QED
          BY <2>1, <4>1, <4>2 DEF Computes
      <3> QED
        BY <3>1, <3>2
    <2> HIDE DEF h
    <2>7. Computes(h, k + 1, v, F)
      BY <2>5, <2>6 DEF Computes
    <2> QED
      BY <2>2, <2>4, <2>7
  <1>3. S \subseteq 0 .. n /\ \A k \in S : k < n => k + 1 \in S
    BY <1>2
  <1>4. n \in S => \E g \in [0 .. n -> V] : Computes(g, n, v, F)
    OBVIOUS
  <1> HIDE DEF S
  <1>5. S = 0 .. n
    BY <1>1, <1>3, Induct
  <1> QED
    BY <1>4, <1>5

\* f gives the sums of the first numbers of a.
Adds(f, n, a) == f[0] = 0 /\ \A k \in 1 .. n : f[k] = f[k - 1] + a[k]

LEMMA SumsExist ==
    ASSUME NEW n \in Nat, NEW a \in [1 .. n -> Nat]
    PROVE  \E f \in [0 .. n -> Nat] : Adds(f, n, a)
  <1> DEFINE F == [k \in 1 .. n |-> [v \in Nat |-> v + a[k]]]
  <1>1. F \in [1 .. n -> [Nat -> Nat]] /\ \A k \in 1 .. n : \A v \in Nat : F[k][v] = v + a[k]
    OBVIOUS
  <1> HIDE DEF F
  <1>2. PICK f \in [0 .. n -> Nat] : Computes(f, n, 0, F)
    BY <1>1, Recursion
  <1>3. ASSUME NEW k \in 1 .. n PROVE f[k] = f[k - 1] + a[k]
    <2>1. k - 1 \in 0 .. n
      OBVIOUS
    <2>2. f[k - 1] \in Nat /\ f[k] = F[k][f[k - 1]]
      BY <1>2, <2>1 DEF Computes
    <2> QED
      BY <1>1, <2>2
  <1> QED
    BY <1>2, <1>3 DEF Adds, Computes

LEMMA SumsInNat ==
    ASSUME NEW n \in Nat, NEW a \in [1 .. n -> Nat], NEW f, Adds(f, n, a)
    PROVE  \A k \in 0 .. n : f[k] \in Nat
  <1> DEFINE S == {k \in 0 .. n : f[k] \in Nat}
  <1>1. 0 \in S
    BY DEF Adds
  <1>2. ASSUME NEW k \in S, k < n PROVE k + 1 \in S
    <2>1. k + 1 \in 1 .. n /\ (k + 1) - 1 = k /\ f[k] \in Nat
      BY <1>2
    <2>2. f[k + 1] = f[k] + a[k + 1] /\ a[k + 1] \in Nat
      BY <2>1 DEF Adds
    <2> QED
      BY <2>1, <2>2
  <1>3. S \subseteq 0 .. n /\ (S = 0 .. n => \A k \in 0 .. n : f[k] \in Nat)
    OBVIOUS
  <1> HIDE DEF S
  <1>4. S = 0 .. n
    BY <1>1, <1>2, <1>3, Induct
  <1> QED
    BY <1>3, <1>4

\* A set of which any two members are equal.
LEMMA AtMostOne ==
    ASSUME NEW S, \A x, y \in S : x = y
    PROVE  Cardinality(S) = IF S = {} THEN 0 ELSE 1
  <1>1. CASE S = {}
    BY <1>1, FS_EmptySet
  <1>2. CASE S # {}
    <2>1. PICK x \in S : S = {x}
      BY <1>2
    <2> QED
      BY <2>1, FS_Singleton
  <1> QED
    BY <1>1, <1>2

-----------------------------------------------------------------------------
(***************************************************************************)
(* Sequences one after the other.                                          *)
(***************************************************************************)
\* g gives the first k sequences of ss together, for each k up to n.
Joins(g, ss, n) == g[0] = <<>> /\ \A k \in 1 .. n : g[k] = g[k - 1] \o ss[k]

\* They are determined by ss.
LEMMA JoinsUnique ==
    ASSUME NEW n \in Nat, NEW ss, NEW g, NEW h, Joins(g, ss, n), Joins(h, ss, n)
    PROVE  g[n] = h[n]
  <1> DEFINE S == {k \in 0 .. n : g[k] = h[k]}
  <1>1. g[0] = h[0]
    BY DEF Joins
  <1>2. \A k \in S : k < n => k + 1 \in S
    <2> SUFFICES ASSUME NEW k \in S, k < n PROVE g[k + 1] = h[k + 1]
      OBVIOUS
    <2>1. k + 1 \in 1 .. n /\ (k + 1) - 1 = k /\ g[k] = h[k]
      OBVIOUS
    <2> QED
      BY <2>1 DEF Joins
  <1>3. 0 \in S /\ S \subseteq 0 .. n /\ (n \in S => g[n] = h[n]) /\ n \in 0 .. n
    BY <1>1
  <1> HIDE DEF S
  <1>4. S = 0 .. n
    BY <1>2, <1>3, Induct
  <1> QED
    BY <1>3, <1>4

\* Concatenation computes them; what a recursive function gives at each place is
\* what a computation that exists gives there.
LEMMA ConcatenationJoins ==
    ASSUME NEW ss \in Seq(Seq(Nat)), NEW n \in Nat, n = Len(ss)
    PROVE  \E g \in [0 .. n -> Seq(Nat)] : Joins(g, ss, n) /\ Concatenation(ss) = g[n]
  <1> DEFINE upTo == CHOOSE g : g = [k \in 0 .. Len(ss) |-> IF k = 0 THEN <<>> ELSE g[k - 1] \o ss[k]]
             F == [k \in 1 .. n |-> [v \in Seq(Nat) |-> v \o ss[k]]]
  <1>1. <<>> \in Seq(Nat) /\ \A k \in 1 .. n : \A v \in Seq(Nat) : v \o ss[k] \in Seq(Nat)
    OBVIOUS
  <1>2. F \in [1 .. n -> [Seq(Nat) -> Seq(Nat)]]
    BY <1>1
  <1>3. \A k \in 1 .. n : \A v \in Seq(Nat) : F[k][v] = v \o ss[k]
    OBVIOUS
  <1> HIDE DEF F
  <1>4. PICK g \in [0 .. n -> Seq(Nat)] : Computes(g, n, <<>>, F)
    BY <1>1, <1>2, Recursion
  <1>5. ASSUME NEW k \in 1 .. n PROVE g[k] = g[k - 1] \o ss[k]
    <2>1. k - 1 \in 0 .. n
      OBVIOUS
    <2>2. g[k - 1] \in Seq(Nat) /\ g[k] = F[k][g[k - 1]]
      BY <1>4, <2>1 DEF Computes
    <2> QED
      BY <1>3, <2>2
  <1>6. Joins(g, ss, n)
    BY <1>4, <1>5 DEF Joins, Computes
  <1>7. g = [k \in 0 .. Len(ss) |-> IF k = 0 THEN <<>> ELSE g[k - 1] \o ss[k]]
    <2>1. \A k \in 0 .. n : k = 0 \/ k \in 1 .. n
      OBVIOUS
    <2>2. \A k \in 0 .. n : g[k] = IF k = 0 THEN <<>> ELSE g[k - 1] \o ss[k]
      BY <1>6, <2>1 DEF Joins
    <2> QED
      BY <2>2
  <1>8. upTo = [k \in 0 .. Len(ss) |-> IF k = 0 THEN <<>> ELSE upTo[k - 1] \o ss[k]]
    BY <1>7
  <1>9. Concatenation(ss) = upTo[n]
    BY DEF Concatenation
  <1> HIDE DEF upTo
  <1>10. \A k \in 0 .. n : upTo[k] = IF k = 0 THEN <<>> ELSE upTo[k - 1] \o ss[k]
    <2> DEFINE r(k) == IF k = 0 THEN <<>> ELSE upTo[k - 1] \o ss[k]
    <2>1. upTo = [k \in 0 .. n |-> r(k)]
      BY <1>8
    <2> HIDE DEF r
    <2>2. \A k \in 0 .. n : upTo[k] = r(k)
      BY <2>1
    <2> QED
      BY <2>2 DEF r
  <1>11. Joins(upTo, ss, n)
    <2>1. 0 \in 0 .. n /\ \A k \in 1 .. n : k # 0 /\ k \in 0 .. n
      OBVIOUS
    <2>2. upTo[0] = <<>>
      BY <1>10, <2>1
    <2>3. \A k \in 1 .. n : upTo[k] = upTo[k - 1] \o ss[k]
      BY <1>10, <2>1
    <2> QED
      BY <2>2, <2>3 DEF Joins
  <1>12. upTo[n] = g[n]
    BY <1>6, <1>11, JoinsUnique
  <1> QED
    BY <1>6, <1>9, <1>12

\* One sequence more.
LEMMA ConcatenationAppend ==
    ASSUME NEW ss \in Seq(Seq(Nat)), NEW s \in Seq(Nat)
    PROVE  /\ Concatenation(ss) \in Seq(Nat)
           /\ Concatenation(Append(ss, s)) = Concatenation(ss) \o s
  <1> DEFINE n == Len(ss)
             tt == Append(ss, s)
  <1>1. /\ tt \in Seq(Seq(Nat)) /\ Len(tt) = n + 1 /\ tt[n + 1] = s /\ n + 1 \in Nat /\ n \in Nat
        /\ \A k \in 1 .. n : tt[k] = ss[k]
    OBVIOUS
  <1> HIDE DEF n, tt
  <1>2. PICK g : g \in [0 .. n -> Seq(Nat)] /\ Joins(g, ss, n) /\ Concatenation(ss) = g[n]
    BY <1>1, ConcatenationJoins DEF n
  <1>3. PICK h : h \in [0 .. n + 1 -> Seq(Nat)] /\ Joins(h, tt, n + 1) /\ Concatenation(tt) = h[n + 1]
    BY <1>1, ConcatenationJoins
  <1>4. Joins(g, tt, n)
    BY <1>1, <1>2 DEF Joins
  <1>5. n + 1 \in 1 .. n + 1 /\ (n + 1) - 1 = n /\ \A k \in 1 .. n : k \in 1 .. n + 1
    BY <1>1
  <1>6. Joins(h, tt, n) /\ h[n + 1] = h[n] \o s
    BY <1>1, <1>3, <1>5 DEF Joins
  <1>7. g[n] = h[n]
    BY <1>1, <1>4, <1>6, JoinsUnique
  <1>8. g[n] \in Seq(Nat)
    BY <1>1, <1>2
  <1>9. Concatenation(tt) = Concatenation(ss) \o s
    BY <1>2, <1>3, <1>6, <1>7
  <1> QED
    BY <1>2, <1>8, <1>9 DEF tt

\* None.
LEMMA ConcatenationEmpty == Concatenation(<<>>) = <<>>
  <1>1. <<>> \in Seq(Seq(Nat)) /\ Len(<<>>) = 0
    OBVIOUS
  <1> QED
    BY <1>1, ConcatenationJoins DEF Joins

-----------------------------------------------------------------------------
(***************************************************************************)
(* Where a number is, in sequences one after the other.                    *)
(***************************************************************************)
\* The number n is somewhere in the sequence c; in one of the sequences ss.
In(c, n)   == \E i \in DOMAIN c : c[i] = n
Has(ss, n) == \E k \in DOMAIN ss : In(ss[k], n)

\* No number is at two places of c; of ss.
Distinct(c) == \A i, j \in DOMAIN c : c[i] = c[j] => i = j
Unique(ss) ==
    \A k, l \in DOMAIN ss : \A i \in DOMAIN ss[k], j \in DOMAIN ss[l] :
        ss[k][i] = ss[l][j] => k = l /\ i = j

\* Append as a function.
LEMMA AppendIs ==
    ASSUME NEW S, NEW ss \in Seq(S), NEW s \in S, NEW n \in Nat, n = Len(ss)
    PROVE  /\ Append(ss, s) = [m \in 1 .. n + 1 |-> IF m = n + 1 THEN s ELSE ss[m]]
           /\ DOMAIN ss = 1 .. n
  <1> DEFINE z == Append(ss, s)
  <1>1. z \in Seq(S) /\ Len(z) = n + 1 /\ DOMAIN ss = 1 .. n
    OBVIOUS
  <1>2. \A m \in 1 .. n + 1 : z[m] = IF m = n + 1 THEN s ELSE ss[m]
    OBVIOUS
  <1> HIDE DEF z
  <1>3. z = [m \in 1 .. Len(z) |-> z[m]]
    BY <1>1
  <1> QED
    BY <1>1, <1>2, <1>3 DEF z

\* A number more at the end of a sequence.
LEMMA InAppend ==
    ASSUME NEW c \in Seq(Nat), NEW n \in Nat
    PROVE  /\ \A x : In(Append(c, n), x) <=> In(c, x) \/ x = n
           /\ Distinct(c) /\ ~In(c, n) => Distinct(Append(c, n))
  <1>1. /\ DOMAIN Append(c, n) = DOMAIN c \cup {Len(c) + 1}
        /\ Append(c, n)[Len(c) + 1] = n
        /\ \A i \in DOMAIN c : Append(c, n)[i] = c[i]
    OBVIOUS
  <1> QED
    BY <1>1 DEF In, Distinct

\* Sequences of one number and of none.
LEMMA InFew ==
    ASSUME NEW n
    PROVE  /\ \A x : In(<<n>>, x) <=> x = n
           /\ Distinct(<<n>>) /\ Distinct(<<>>) /\ \A x : ~In(<<>>, x)
  <1>1. DOMAIN <<n>> = {1} /\ <<n>>[1] = n /\ DOMAIN <<>> = {}
    OBVIOUS
  <1> QED
    BY <1>1 DEF In, Distinct

\* A number more at the end of two sequences.
LEMMA Joining ==
    ASSUME NEW u \in Seq(Nat)
    PROVE  /\ u \o <<>> = u
           /\ \A n \in Nat : u \o <<n>> = Append(u, n)
           /\ \A v \in Seq(Nat), n \in Nat : u \o Append(v, n) = Append(u \o v, n)
  OBVIOUS

\* A sequence more at the end of the sequences.
LEMMA HasAppend ==
    ASSUME NEW ss \in Seq(Seq(Nat)), NEW c \in Seq(Nat)
    PROVE  /\ \A x : Has(Append(ss, c), x) <=> Has(ss, x) \/ In(c, x)
           /\ Unique(Append(ss, c)) <=>
                  Unique(ss) /\ Distinct(c) /\ \A x : ~(In(c, x) /\ Has(ss, x))
  <1> DEFINE n == Len(ss) + 1
             tt == Append(ss, c)
  <1>1. /\ DOMAIN tt = DOMAIN ss \cup {n} /\ tt[n] = c /\ n \notin DOMAIN ss
        /\ \A k \in DOMAIN ss : tt[k] = ss[k]
    OBVIOUS
  <1> HIDE DEF n, tt
  <1>2. \A x : Has(tt, x) <=> Has(ss, x) \/ In(c, x)
    BY <1>1 DEF Has
  <1>3. ASSUME Unique(tt) PROVE Unique(ss) /\ Distinct(c) /\ \A x : ~(In(c, x) /\ Has(ss, x))
    <2>1. Unique(ss)
      <3> SUFFICES ASSUME NEW k \in DOMAIN ss, NEW l \in DOMAIN ss, NEW i \in DOMAIN ss[k],
                          NEW j \in DOMAIN ss[l], ss[k][i] = ss[l][j]
                   PROVE  k = l /\ i = j
        BY DEF Unique
      <3>1. k \in DOMAIN tt /\ l \in DOMAIN tt /\ tt[k] = ss[k] /\ tt[l] = ss[l]
        BY <1>1
      <3> QED
        BY <1>3, <3>1 DEF Unique
    <2>2. Distinct(c)
      BY <1>1, <1>3 DEF Unique, Distinct
    <2>3. ASSUME NEW x, In(c, x), Has(ss, x) PROVE FALSE
      <3>1. PICK i \in DOMAIN c : c[i] = x
        BY <2>3 DEF In
      <3>2. PICK k \in DOMAIN ss : In(ss[k], x)
        BY <2>3 DEF Has
      <3>3. PICK j \in DOMAIN ss[k] : ss[k][j] = x
        BY <3>2 DEF In
      <3>4. /\ n \in DOMAIN tt /\ tt[n] = c /\ k \in DOMAIN tt /\ tt[k] = ss[k] /\ k # n
            /\ i \in DOMAIN tt[n] /\ j \in DOMAIN tt[k] /\ tt[n][i] = tt[k][j]
        BY <1>1, <3>1, <3>2, <3>3
      <3> QED
        BY <1>3, <3>4 DEF Unique
    <2> QED
      BY <2>1, <2>2, <2>3
  <1>4. ASSUME Unique(ss), Distinct(c), \A x : ~(In(c, x) /\ Has(ss, x)) PROVE Unique(tt)
    <2> SUFFICES ASSUME NEW k \in DOMAIN tt, NEW l \in DOMAIN tt, NEW i \in DOMAIN tt[k],
                        NEW j \in DOMAIN tt[l], tt[k][i] = tt[l][j]
                 PROVE  k = l /\ i = j
      BY DEF Unique
    <2>1. CASE k = n /\ l = n
      BY <1>1, <1>4, <2>1 DEF Distinct
    <2>2. CASE k # n /\ l # n
      BY <1>1, <1>4, <2>2 DEF Unique
    <2>3. CASE k = n /\ l # n
      <3>1. In(c, tt[k][i]) /\ Has(ss, tt[k][i])
        BY <1>1, <2>3 DEF In, Has
      <3> QED
        BY <1>4, <3>1
    <2>4. CASE k # n /\ l = n
      <3>1. In(c, tt[k][i]) /\ Has(ss, tt[k][i])
        BY <1>1, <2>4 DEF In, Has
      <3> QED
        BY <1>4, <3>1
    <2> QED
      BY <2>1, <2>2, <2>3, <2>4
  <1>5. Unique(tt) <=> Unique(ss) /\ Distinct(c) /\ \A x : ~(In(c, x) /\ Has(ss, x))
    BY <1>3, <1>4
  <1> QED
    BY <1>2, <1>5 DEF tt

\* A number is added to those in ss; nothing is.
Gains(ss, tt, n) ==
    /\ \A x : Has(tt, x) <=> Has(ss, x) \/ x = n
    /\ Unique(ss) /\ ~Has(ss, n) => Unique(tt)
Keeps(ss, tt) ==
    /\ \A x : Has(tt, x) <=> Has(ss, x)
    /\ Unique(ss) => Unique(tt)
=============================================================================
