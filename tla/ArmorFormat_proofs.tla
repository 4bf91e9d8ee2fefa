-------------------------- MODULE ArmorFormat_proofs --------------------------
(***************************************************************************)
(* What the operators of BaseX and ArmorFormat compute, for every input.   *)
(***************************************************************************)
EXTENDS ArmorFormat, InductionFacts

-----------------------------------------------------------------------------
(* Powers and products.                                                    *)

\* Power(b, n) is b multiplied n times.
LEMMA PowerStep ==
    ASSUME NEW b \in Nat
    PROVE  /\ Power(b, 0) = 1
           /\ \A n \in Nat : Power(b, n) \in Nat /\ Power(b, n + 1) = b * Power(b, n)
  <1> DEFINE Fcn(f) == f = [i \in Nat |-> IF i = 0 THEN 1 ELSE b * f[i - 1]]
             power == CHOOSE f : Fcn(f)
             step == [p \in Nat \X Nat |-> b * p[2]]
  <1>1. \E f : Fcn(f)
    <2>1. \A n \in Nat, v \in Nat : step[<<n, v>>] = b * v /\ b * v \in Nat
      OBVIOUS
    <2> HIDE DEF step
    <2>2. PICK f : Follows(f, Nat, 1, step)
      <3>1. StepIn(step, Nat)
        BY <2>1 DEF StepIn
      <3> QED
        BY <3>1, Recursion
    <2> USE DEF Follows
    <2>3. ASSUME NEW i \in Nat
          PROVE  f[i] = IF i = 0 THEN 1 ELSE b * f[i - 1]
      <3>1. CASE i = 0
        BY <2>2, <3>1
      <3>2. CASE i # 0
        <4>1. i - 1 \in Nat /\ (i - 1) + 1 = i
          BY <3>2
        <4>2. f[(i - 1) + 1] = step[<<i - 1, f[i - 1]>>]
          BY <2>2, <4>1
        <4>3. step[<<i - 1, f[i - 1]>>] = b * f[i - 1]
          BY <2>1, <2>2, <4>1
        <4> QED
          BY <3>2, <4>1, <4>2, <4>3
      <3> QED
        BY <3>1, <3>2
    <2>4. f = [i \in Nat |-> f[i]]
      BY <2>2
    <2>5. Fcn(f)
      BY <2>3, <2>4
    <2> QED
      BY <2>5
  <1>2. Fcn(power)
    BY <1>1
  <1>3. \A n \in Nat : Power(b, n) = power[n]
    BY DEF Power
  <1> HIDE DEF power
  <1>4. power[0] = 1 /\ \A n \in Nat : power[n + 1] = b * power[n]
    BY <1>2
  <1>5. \A n \in Nat : power[n] \in Nat
    <2> DEFINE T == {n \in Nat : power[n] \in Nat}
    <2>1. 0 \in T
      BY <1>4
    <2>2. \A n \in Nat : n \in T => n + 1 \in T
      BY <1>4
    <2> HIDE DEF T
    <2>3. \A n \in Nat : n \in T
      BY <2>1, <2>2, NatInduct
    <2> QED
      BY <2>3 DEF T
  <1> QED
    BY <1>3, <1>4, <1>5

LEMMA PowerAdd ==
    ASSUME NEW b \in Nat, NEW m \in Nat
    PROVE  \A n \in Nat : Power(b, m + n) = Power(b, m) * Power(b, n)
  <1> DEFINE T == {n \in Nat : Power(b, m + n) = Power(b, m) * Power(b, n)}
  <1>1. 0 \in T
    BY PowerStep
  <1>2. ASSUME NEW n \in Nat, n \in T
        PROVE  n + 1 \in T
    <2> DEFINE p == Power(b, m)
               q == Power(b, n)
               r == Power(b, m + n)
    <2>1. /\ p \in Nat /\ q \in Nat /\ r \in Nat /\ r = p * q
          /\ Power(b, n + 1) = b * q /\ Power(b, m + (n + 1)) = b * r
      <3>1. m + n \in Nat /\ m + (n + 1) = (m + n) + 1
        OBVIOUS
      <3> QED
        BY <1>2, <3>1, PowerStep
    <2> HIDE DEF p, q, r
    <2>2. b * r = p * (b * q)
      BY <2>1
    <2> QED
      BY <2>1, <2>2 DEF p
  <1> HIDE DEF T
  <1>3. \A n \in Nat : n \in T
    BY <1>1, <1>2, NatInduct
  <1> QED
    BY <1>3 DEF T

\* Powers of a base above 1 grow, with the exponent and with the base.
LEMMA PowerGrows ==
    ASSUME NEW b \in Nat, b >= 2
    PROVE  /\ \A n \in Nat : Power(b, n) > n
           /\ \A n \in Nat : Power(b, n) < Power(b, n + 1)
           /\ \A m \in Nat, n \in Nat : m <= n => Power(b, m) <= Power(b, n)
           /\ \A m \in Nat, n \in Nat : Power(b, m) < Power(b, n) => m < n
  <1>1. \A n \in Nat : Power(b, n) \in Nat /\ Power(b, n + 1) = b * Power(b, n)
    BY PowerStep
  <1>2. \A n \in Nat : Power(b, n) > n
    <2> DEFINE T == {n \in Nat : Power(b, n) > n}
    <2>1. 0 \in T
      BY PowerStep
    <2>2. ASSUME NEW n \in Nat, n \in T
          PROVE  n + 1 \in T
      <3> DEFINE p == Power(b, n)
      <3>1. p \in Nat /\ p > n /\ Power(b, n + 1) = b * p
        BY <1>1, <2>2
      <3> HIDE DEF p
      <3>2. 2 * p <= b * p
        BY <3>1, MultMonotonic
      <3>3. b * p \in Nat
        BY <3>1
      <3> QED
        BY <3>1, <3>2, <3>3
    <2> HIDE DEF T
    <2>3. \A n \in Nat : n \in T
      BY <2>1, <2>2, NatInduct
    <2> QED
      BY <2>3 DEF T
  <1>3. ASSUME NEW n \in Nat
        PROVE  Power(b, n) < Power(b, n + 1)
    <2> DEFINE p == Power(b, n)
    <2>1. p \in Nat /\ p > 0 /\ Power(b, n + 1) = b * p
      BY <1>1, <1>2
    <2> HIDE DEF p
    <2>2. 2 * p <= b * p
      BY <2>1, MultMonotonic
    <2>3. b * p \in Nat
      BY <2>1
    <2> QED
      BY <2>1, <2>2, <2>3 DEF p
  <1>4. ASSUME NEW m \in Nat
        PROVE  \A n \in Nat : m <= n => Power(b, m) <= Power(b, n)
    <2> DEFINE T == {n \in Nat : m <= n => Power(b, m) <= Power(b, n)}
    <2>1. 0 \in T
      BY <1>1
    <2>2. ASSUME NEW n \in Nat, n \in T
          PROVE  n + 1 \in T
      <3>1. CASE m = n + 1
        BY <1>1, <3>1
      <3>2. CASE m # n + 1
        <4>1. Power(b, n) < Power(b, n + 1) /\ Power(b, n) \in Nat
              /\ Power(b, m) \in Nat /\ Power(b, n + 1) \in Nat
          BY <1>1, <1>3
        <4>2. m <= n + 1 => Power(b, m) <= Power(b, n)
          BY <2>2, <3>2
        <4> QED
          BY <4>1, <4>2
      <3> QED
        BY <3>1, <3>2
    <2> HIDE DEF T
    <2>3. \A n \in Nat : n \in T
      BY <2>1, <2>2, NatInduct
    <2> QED
      BY <2>3 DEF T
  <1>5. ASSUME NEW m \in Nat, NEW n \in Nat, Power(b, m) < Power(b, n)
        PROVE  m < n
    <2>1. ~(n <= m)
      BY <1>1, <1>4, <1>5
    <2> QED
      BY <2>1
  <1> QED
    BY <1>2, <1>3, <1>4, <1>5

LEMMA PowerOfMore ==
    ASSUME NEW a \in Nat, NEW b \in Nat, a <= b
    PROVE  \A n \in Nat : Power(a, n) <= Power(b, n)
  <1> DEFINE T == {n \in Nat : Power(a, n) <= Power(b, n)}
  <1>1. 0 \in T
    BY PowerStep
  <1>2. ASSUME NEW n \in Nat, n \in T
        PROVE  n + 1 \in T
    <2> DEFINE p == Power(a, n)
               q == Power(b, n)
    <2>1. /\ p \in Nat /\ q \in Nat /\ p <= q
          /\ Power(a, n + 1) = a * p /\ Power(b, n + 1) = b * q
      BY <1>2, PowerStep
    <2> HIDE DEF p, q
    <2>2. a * p <= b * q
      BY <2>1, MultMonotonic
    <2> QED
      BY <2>1, <2>2
  <1> HIDE DEF T
  <1>3. \A n \in Nat : n \in T
    BY <1>1, <1>2, NatInduct
  <1> QED
    BY <1>3 DEF T
-----------------------------------------------------------------------------
(* Functions applied to the elements, and to the blocks, of a sequence.    *)

Map(f, s) == [i \in DOMAIN s |-> f[s[i]]]

IsMap(f, S, R) == f \in [S -> R]

LEMMA MapType ==
    ASSUME NEW S, NEW R, NEW f, IsMap(f, S, R), NEW s \in Seq(S)
    PROVE  Map(f, s) \in Seq(R) /\ Len(Map(f, s)) = Len(s)
  <1>1. Len(s) \in Nat /\ DOMAIN s = 1 .. Len(s) /\ \A i \in 1 .. Len(s) : s[i] \in S
    BY LenProperties, ElementOfSeq
  <1>2. Map(f, s) \in [1 .. Len(s) -> R]
    BY <1>1 DEF Map, IsMap
  <1> QED
    BY <1>1, <1>2, FunctionSeq

LEMMA MapConcat ==
    ASSUME NEW S, NEW R, NEW f, IsMap(f, S, R), NEW s \in Seq(S), NEW t \in Seq(S)
    PROVE  Map(f, s \o t) = Map(f, s) \o Map(f, t)
  <1> DEFINE u == s \o t
  <1>1. /\ u \in Seq(S) /\ Len(u) = Len(s) + Len(t)
        /\ Len(s) \in Nat /\ Len(t) \in Nat
    BY ConcatProperties, LenProperties
  <1>2. \A i \in 1 .. Len(s) + Len(t) :
           u[i] = IF i <= Len(s) THEN s[i] ELSE t[i - Len(s)]
    BY ConcatProperties
  <1> HIDE DEF u
  <1> DEFINE l == Map(f, u)
             a == Map(f, s)
             b == Map(f, t)
  <1>3. l \in Seq(R) /\ Len(l) = Len(s) + Len(t)
    BY <1>1, MapType
  <1>4. a \in Seq(R) /\ Len(a) = Len(s) /\ b \in Seq(R) /\ Len(b) = Len(t)
    BY MapType
  <1>5. \A i \in 1 .. Len(s) + Len(t) : l[i] = f[u[i]]
    BY <1>1, LenProperties DEF Map
  <1>6. /\ \A i \in 1 .. Len(s) : a[i] = f[s[i]]
        /\ \A i \in 1 .. Len(t) : b[i] = f[t[i]]
    BY LenProperties DEF Map
  <1> HIDE DEF l, a, b
  <1> DEFINE v == a \o b
  <1>7. v \in Seq(R) /\ Len(v) = Len(s) + Len(t)
    BY <1>4
  <1>8. \A i \in 1 .. Len(s) + Len(t) :
           v[i] = IF i <= Len(s) THEN a[i] ELSE b[i - Len(s)]
    <2> SUFFICES ASSUME NEW i \in 1 .. Len(s) + Len(t)
                 PROVE  v[i] = IF i <= Len(s) THEN a[i] ELSE b[i - Len(s)]
      OBVIOUS
    <2>1. i \in 1 .. Len(a) + Len(b)
      BY <1>4
    <2> QED
      BY <1>4, <2>1, ConcatProperties
  <1> HIDE DEF v
  <1>9. ASSUME NEW i \in 1 .. Len(s) + Len(t)
        PROVE  l[i] = v[i]
    <2>0. l[i] = f[u[i]]
      BY <1>5
    <2>1. CASE i <= Len(s)
      <3>1. i \in 1 .. Len(s)
        BY <1>1, <2>1
      <3>2. a[i] = f[s[i]]
        BY <1>6, <3>1
      <3>3. v[i] = a[i] /\ u[i] = s[i]
        BY <1>2, <1>8, <2>1
      <3> QED
        BY <2>0, <3>2, <3>3
    <2>2. CASE i > Len(s)
      <3>1. i - Len(s) \in 1 .. Len(t)
        BY <1>1, <2>2
      <3>2. b[i - Len(s)] = f[t[i - Len(s)]]
        BY <1>6, <3>1
      <3>3. v[i] = b[i - Len(s)] /\ u[i] = t[i - Len(s)]
        BY <1>1, <1>2, <1>8, <2>2
      <3> QED
        BY <2>0, <3>2, <3>3
    <2>3. i <= Len(s) \/ i > Len(s)
      BY <1>1
    <2> QED
      BY <2>1, <2>2, <2>3
  <1>10. l = v
    BY <1>3, <1>7, <1>9, SeqEqual
  <1> QED
    BY <1>10 DEF l, a, b, u, v

LEMMA BlocksType ==
    ASSUME NEW S, NEW s \in Seq(S), NEW n \in Nat \ {0}
    PROVE  /\ BlocksOf(s, n) \in Seq(Seq(S))
           /\ Len(BlocksOf(s, n)) = (Len(s) + n - 1) \div n
           /\ \A i \in 1 .. Len(BlocksOf(s, n)) :
                 BlocksOf(s, n)[i] =
                    SubSeq(s, (i - 1) * n + 1, IF i * n < Len(s) THEN i * n ELSE Len(s))
  <1> DEFINE m == (Len(s) + n - 1) \div n
             blocks == BlocksOf(s, n)
  <1>1. Len(s) \in Nat /\ Len(s) + n - 1 \in Nat
    BY LenProperties
  <1>2. m \in Nat
    BY <1>1, DivProperties
  <1>3. ASSUME NEW i \in 1 .. m
        PROVE  SubSeq(s, (i - 1) * n + 1, IF i * n < Len(s) THEN i * n ELSE Len(s)) \in Seq(S)
    <2>1. PICK k \in Nat : i = k + 1
      <3>1. i - 1 \in Nat /\ i = (i - 1) + 1
        BY <1>2
      <3> QED
        BY <3>1
    <2>2. k * n \in Nat /\ i * n \in Nat
      BY <2>1
    <2>3. i - 1 = k
      BY <2>1
    <2> DEFINE lo == (i - 1) * n + 1
               hi == IF i * n < Len(s) THEN i * n ELSE Len(s)
    <2>4. lo \in Nat /\ lo >= 1 /\ hi \in Nat /\ hi <= Len(s)
      BY <1>1, <2>2, <2>3
    <2> HIDE DEF lo, hi
    <2>5. \A j \in lo .. hi : s[j] \in S
      BY <1>1, <2>4, ElementOfSeq
    <2>6. SubSeq(s, lo, hi) \in Seq(S)
      BY <2>4, <2>5, SubSeqProperties
    <2> QED
      BY <2>6 DEF lo, hi
  <1>4. /\ blocks \in [1 .. m -> Seq(S)]
        /\ \A i \in 1 .. m : blocks[i] =
              SubSeq(s, (i - 1) * n + 1, IF i * n < Len(s) THEN i * n ELSE Len(s))
    <2> DEFINE g == [i \in 1 .. m |->
                        SubSeq(s, (i - 1) * n + 1,
                               IF i * n < Len(s) THEN i * n ELSE Len(s))]
    <2>1. blocks = g
      BY DEF BlocksOf
    <2> HIDE DEF m, blocks
    <2>2. g \in [1 .. m -> Seq(S)]
      BY <1>3
    <2> QED
      BY <2>1, <2>2
  <1> HIDE DEF m, blocks
  <1>5. blocks \in Seq(Seq(S)) /\ Len(blocks) = m
    <2>1. blocks \in [1 .. m -> Seq(S)]
      BY <1>4
    <2> QED
      BY <1>2, <2>1, FunctionSeq
  <1> QED
    BY <1>4, <1>5 DEF m, blocks

LEMMA SubSeqLeft ==
    ASSUME NEW S, NEW s \in Seq(S), NEW t \in Seq(S),
           NEW lo \in Nat \ {0}, NEW hi \in Nat, hi <= Len(s)
    PROVE  SubSeq(s \o t, lo, hi) = SubSeq(s, lo, hi)
  OBVIOUS

LEMMA SubSeqRight ==
    ASSUME NEW S, NEW s \in Seq(S), NEW t \in Seq(S),
           NEW lo \in Nat \ {0}, NEW hi \in Nat, hi <= Len(t)
    PROVE  SubSeq(s \o t, Len(s) + lo, Len(s) + hi) = SubSeq(t, lo, hi)
  OBVIOUS

LEMMA SubSeqAll ==
    ASSUME NEW S, NEW s \in Seq(S)
    PROVE  SubSeq(s, 1, Len(s)) = s
  OBVIOUS

LEMMA BlocksOfNone ==
    ASSUME NEW n \in Nat \ {0}
    PROVE  BlocksOf(<< >>, n) = << >>
  <1>1. Len(<< >>) = 0
    OBVIOUS
  <1>2. (0 + n - 1) \div n = 0
    OBVIOUS
  <1>3. (Len(<< >>) + n - 1) \div n = 0
    BY <1>1, <1>2
  <1> QED
    BY <1>3 DEF BlocksOf

LEMMA OneBlock ==
    ASSUME NEW S, NEW s \in Seq(S), NEW n \in Nat \ {0}, s # << >>, Len(s) <= n
    PROVE  BlocksOf(s, n) = <<s>>
  <1> DEFINE blocks == BlocksOf(s, n)
  <1>1. Len(s) \in 1 .. n
    BY EmptySeq, LenProperties
  <1>2. (Len(s) + n - 1) \div n = 1
    <2>1. PICK r \in 0 .. n - 1 : Len(s) = r + 1
      <3>1. Len(s) - 1 \in 0 .. n - 1 /\ Len(s) = (Len(s) - 1) + 1
        BY <1>1
      <3> QED
        BY <3>1
    <2>2. Len(s) + n - 1 = 1 * n + r
      BY <2>1
    <2> QED
      BY <2>2, DivUnique
  <1>3. blocks \in Seq(Seq(S)) /\ Len(blocks) = 1
    <2>1. /\ blocks \in Seq(Seq(S))
          /\ Len(blocks) = (Len(s) + n - 1) \div n
      BY BlocksType
    <2> QED
      BY <1>2, <2>1
  <1>4. blocks[1] = SubSeq(s, (1 - 1) * n + 1, IF 1 * n < Len(s) THEN 1 * n ELSE Len(s))
    <2>1. 1 \in 1 .. Len(blocks)
      BY <1>3
    <2> QED
      BY <2>1, BlocksType
  <1>5. (1 - 1) * n + 1 = 1 /\ 1 * n = n
    OBVIOUS
  <1>6. blocks[1] = SubSeq(s, 1, Len(s))
    <2>1. ~(1 * n < Len(s))
      BY <1>1, <1>5
    <2> QED
      BY <1>4, <1>5, <2>1, Zenon
  <1>7. blocks[1] = s
    BY <1>6, SubSeqAll
  <1> HIDE DEF blocks
  <1>8. blocks = <<s>>
    BY <1>3, <1>7
  <1> QED
    BY <1>8 DEF blocks

\* s has no short block at the end.
Whole(s, n) == \E k \in Nat : Len(s) = k * n

LEMMA BlocksConcat ==
    ASSUME NEW S, NEW s \in Seq(S), NEW t \in Seq(S), NEW n \in Nat \ {0},
           Whole(s, n)
    PROVE  BlocksOf(s \o t, n) = BlocksOf(s, n) \o BlocksOf(t, n)
  <1> PICK k \in Nat : Len(s) = k * n
    BY DEF Whole
  <1> DEFINE u == s \o t
             m == (Len(t) + n - 1) \div n
             End(i, l) == IF i * n < l THEN i * n ELSE l
             Block(x, i) == SubSeq(x, (i - 1) * n + 1, End(i, Len(x)))
  <1>0. Len(t) \in Nat /\ k * n \in Nat /\ m \in Nat
    <2>1. Len(t) \in Nat /\ Len(t) + n - 1 \in Nat /\ k * n \in Nat
      BY LenProperties
    <2> QED
      BY <2>1, DivProperties
  <1>1. u \in Seq(S) /\ Len(u) = k * n + Len(t)
    OBVIOUS
  <1>2. (Len(u) + n - 1) \div n = k + m
    <2>1. Len(u) + n - 1 = k * n + (Len(t) + n - 1) /\ Len(t) + n - 1 \in Nat
      BY <1>0, <1>1
    <2> QED
      BY <2>1, DivShift
  <1>3. (Len(s) + n - 1) \div n = k
    <2>1. Len(s) + n - 1 = k * n + (n - 1) /\ n - 1 \in 0 .. n - 1
      BY <1>0
    <2> QED
      BY <2>1, DivUnique
  <1> DEFINE a == BlocksOf(s, n)
             b == BlocksOf(t, n)
             c == BlocksOf(u, n)
  <1>4. /\ a \in Seq(Seq(S)) /\ Len(a) = k
        /\ \A i \in 1 .. k : a[i] = Block(s, i)
    BY <1>3, BlocksType
  <1>5. /\ b \in Seq(Seq(S)) /\ Len(b) = m
        /\ \A i \in 1 .. m : b[i] = Block(t, i)
    BY BlocksType
  <1>6. /\ c \in Seq(Seq(S)) /\ Len(c) = k + m
        /\ \A i \in 1 .. k + m : c[i] = Block(u, i)
    BY <1>1, <1>2, BlocksType
  <1> HIDE DEF a, b, c, m
  <1>7. ASSUME NEW i \in 1 .. k
        PROVE  Block(u, i) = Block(s, i)
    <2>1. PICK j \in Nat : i = j + 1 /\ i - 1 = j
      <3>1. i - 1 \in Nat /\ i = (i - 1) + 1
        OBVIOUS
      <3> QED
        BY <3>1
    <2>2. i * n \in Nat /\ j * n \in Nat /\ i * n <= k * n
      BY <1>0, <2>1, MultMonotonic
    <2>3. End(i, Len(u)) = i * n /\ End(i, Len(s)) = i * n
      <3> DEFINE p == i * n
                 q == k * n
      <3>1. p \in Nat /\ q \in Nat /\ p <= q /\ Len(u) = q + Len(t) /\ Len(s) = q
        BY <1>0, <1>1, <2>2
      <3> HIDE DEF p, q, u
      <3>2. /\ (IF p < Len(u) THEN p ELSE Len(u)) = p
            /\ (IF p < Len(s) THEN p ELSE Len(s)) = p
        BY <1>0, <3>1
      <3> QED
        BY <3>2 DEF p
    <2>4. SubSeq(s \o t, j * n + 1, i * n) = SubSeq(s, j * n + 1, i * n)
      <3> DEFINE lo == j * n + 1
                 hi == i * n
      <3>1. lo \in Nat \ {0} /\ hi \in Nat /\ hi <= Len(s)
        BY <2>2
      <3> HIDE DEF lo, hi
      <3>2. SubSeq(s \o t, lo, hi) = SubSeq(s, lo, hi)
        BY <3>1, SubSeqLeft
      <3> QED
        BY <3>2 DEF lo, hi
    <2> HIDE DEF End, u
    <2>5. Block(u, i) = SubSeq(u, j * n + 1, i * n) /\ Block(s, i) = SubSeq(s, j * n + 1, i * n)
      BY <2>1, <2>3, Zenon
    <2> QED
      BY <2>4, <2>5 DEF u
  <1>8. ASSUME NEW i \in 1 .. m
        PROVE  Block(u, k + i) = Block(t, i)
    <2>1. PICK j \in Nat : i = j + 1 /\ i - 1 = j /\ (k + i) - 1 = k + j
      <3>1. i - 1 \in Nat /\ i = (i - 1) + 1 /\ (k + i) - 1 = k + (i - 1)
        BY <1>0
      <3> QED
        BY <3>1
    <2>2. /\ i * n \in Nat /\ j * n \in Nat /\ (k + i) * n = k * n + i * n
          /\ (k + j) * n = k * n + j * n
      BY <1>0, <2>1
    <2> DEFINE lo == j * n + 1
               hi == End(i, Len(t))
    <2>3. End(k + i, Len(u)) = Len(s) + hi
      <3> DEFINE p == i * n
                 q == k * n
                 r == (k + i) * n
      <3>1. /\ p \in Nat /\ q \in Nat /\ r = q + p /\ Len(u) = q + Len(t)
            /\ Len(s) = q
        BY <1>0, <1>1, <2>2
      <3> HIDE DEF p, q, r, u
      <3>2. (IF r < Len(u) THEN r ELSE Len(u)) = q + (IF p < Len(t) THEN p ELSE Len(t))
        BY <1>0, <3>1
      <3> QED
        BY <3>1, <3>2 DEF p, r
    <2>4. lo \in Nat \ {0} /\ hi \in Nat /\ hi <= Len(t)
      BY <1>0, <2>2
    <2>5. (k + j) * n + 1 = Len(s) + lo
      BY <1>0, <2>2
    <2> HIDE DEF lo, hi
    <2>6. SubSeq(s \o t, Len(s) + lo, Len(s) + hi) = SubSeq(t, lo, hi)
      BY <2>4, SubSeqRight
    <2>7. Block(u, k + i) = SubSeq(u, Len(s) + lo, Len(s) + hi)
      <3> HIDE DEF End, u
      <3> QED
        BY <2>1, <2>3, <2>5
    <2>8. Block(t, i) = SubSeq(t, lo, hi)
      BY <2>1 DEF lo, hi
    <2> QED
      BY <2>6, <2>7, <2>8
  <1> HIDE DEF Block
  <1> DEFINE v == a \o b
  <1>9. v \in Seq(Seq(S)) /\ Len(v) = k + m
    <2>1. a \in Seq(Seq(S)) /\ Len(a) = k /\ b \in Seq(Seq(S)) /\ Len(b) = m
      BY <1>4, <1>5
    <2>2. v \in Seq(Seq(S)) /\ Len(v) = Len(a) + Len(b)
      BY <2>1, ConcatProperties
    <2> QED
      BY <2>1, <2>2
  <1>10. ASSUME NEW i \in 1 .. k + m
         PROVE  v[i] = c[i]
    <2>1. CASE i \in 1 .. k
      <3>1. v[i] = a[i]
        BY <1>4, <1>5, <2>1
      <3> QED
        BY <1>4, <1>6, <1>7, <2>1, <3>1
    <2>2. CASE i \notin 1 .. k
      <3>1. PICK j \in 1 .. m : i = k + j
        <4>1. i - k \in 1 .. m /\ i = k + (i - k)
          BY <1>0, <2>2
        <4> QED
          BY <4>1
      <3>2. v[i] = b[j]
        <4>1. a \in Seq(Seq(S)) /\ Len(a) = k /\ b \in Seq(Seq(S)) /\ Len(b) = m
          BY <1>4, <1>5
        <4>2. i - Len(a) = j /\ ~(i <= Len(a)) /\ i \in 1 .. Len(a) + Len(b)
          BY <1>0, <3>1, <4>1
        <4>3. v[i] = IF i <= Len(a) THEN a[i] ELSE b[i - Len(a)]
          BY <4>1, <4>2, ConcatProperties
        <4> QED
          BY <4>2, <4>3, Zenon
      <3> QED
        BY <1>5, <1>6, <1>8, <3>1, <3>2
    <2> QED
      BY <2>1, <2>2
  <1> HIDE DEF v
  <1>11. v = c
    BY <1>6, <1>9, <1>10, SeqEqual
  <1> QED
    BY <1>11 DEF a, b, c, u, v

\* A function applied to the blocks of a sequence, the results put together.
Blockwise(f, s, n) == FlattenSeq(Map(f, BlocksOf(s, n)))

LEMMA BlockwiseType ==
    ASSUME NEW S, NEW R, NEW f, IsMap(f, Seq(S), Seq(R)), NEW s \in Seq(S),
           NEW n \in Nat \ {0}
    PROVE  Blockwise(f, s, n) \in Seq(R)
  <1> DEFINE blocks == BlocksOf(s, n)
  <1>1. blocks \in Seq(Seq(S))
    BY BlocksType
  <1> HIDE DEF blocks
  <1>2. Map(f, blocks) \in Seq(Seq(R))
    BY <1>1, MapType
  <1>3. FlattenSeq(Map(f, blocks)) \in Seq(R)
    BY <1>2, FlattenType
  <1> QED
    BY <1>3 DEF Blockwise, blocks

LEMMA BlockwiseNone ==
    ASSUME NEW f, NEW n \in Nat \ {0}
    PROVE  Blockwise(f, << >>, n) = << >>
  <1>1. BlocksOf(<< >>, n) = << >>
    BY BlocksOfNone
  <1>2. Map(f, << >>) = << >>
    BY DEF Map
  <1>3. FlattenSeq(<< >>) = << >>
    BY DEF FlattenSeq
  <1> QED
    BY <1>1, <1>2, <1>3 DEF Blockwise

LEMMA BlockwiseOne ==
    ASSUME NEW S, NEW R, NEW f, IsMap(f, Seq(S), Seq(R)), NEW s \in Seq(S),
           NEW n \in Nat \ {0}, s # << >>, Len(s) <= n
    PROVE  Blockwise(f, s, n) = f[s]
  <1>1. BlocksOf(s, n) = <<s>>
    BY OneBlock
  <1>2. f[s] \in Seq(R)
    BY DEF IsMap
  <1>3. Map(f, <<s>>) = <<f[s]>>
    BY DEF Map
  <1>4. FlattenSeq(Append(<< >>, f[s])) = FlattenSeq(<< >>) \o f[s]
    <2>1. << >> \in Seq(Seq(R))
      OBVIOUS
    <2> QED
      BY <1>2, <2>1, FlattenAppend
  <1>5. Append(<< >>, f[s]) = <<f[s]>> /\ << >> \o f[s] = f[s]
    BY <1>2
  <1>6. FlattenSeq(<< >>) = << >>
    BY DEF FlattenSeq
  <1> QED
    BY <1>1, <1>3, <1>4, <1>5, <1>6 DEF Blockwise

LEMMA BlockwiseConcat ==
    ASSUME NEW S, NEW R, NEW f, IsMap(f, Seq(S), Seq(R)), NEW s \in Seq(S),
           NEW t \in Seq(S), NEW n \in Nat \ {0}, Whole(s, n)
    PROVE  Blockwise(f, s \o t, n) = Blockwise(f, s, n) \o Blockwise(f, t, n)
  <1> DEFINE a == BlocksOf(s, n)
             b == BlocksOf(t, n)
  <1>1. a \in Seq(Seq(S)) /\ b \in Seq(Seq(S))
    BY BlocksType
  <1>2. BlocksOf(s \o t, n) = a \o b
    BY BlocksConcat
  <1> HIDE DEF a, b
  <1>3. Map(f, a \o b) = Map(f, a) \o Map(f, b)
    BY <1>1, MapConcat
  <1>4. Map(f, a) \in Seq(Seq(R)) /\ Map(f, b) \in Seq(Seq(R))
    BY <1>1, MapType
  <1>5. FlattenSeq(Map(f, a) \o Map(f, b)) = FlattenSeq(Map(f, a)) \o FlattenSeq(Map(f, b))
    BY <1>4, FlattenConcat
  <1> QED
    BY <1>2, <1>3, <1>5 DEF Blockwise, a, b

\* Induction over blocks: a property of short sequences that is kept when a
\* full block is put in front holds for all.
LEMMA BlockInduct ==
    ASSUME NEW S, NEW n \in Nat \ {0}, NEW T, << >> \in T,
           \A s \in Seq(S) : s # << >> /\ Len(s) <= n => s \in T,
           \A s \in Seq(S), t \in Seq(S) : Len(s) = n /\ t \in T => s \o t \in T
    PROVE  \A s \in Seq(S) : s \in T
  <1> DEFINE U == {k \in Nat : \A s \in Seq(S) : Len(s) <= k => s \in T}
  <1>1. 0 \in U
    BY EmptySeq, LenProperties
  <1>2. ASSUME NEW k \in Nat, k \in U
        PROVE  k + 1 \in U
    <2>1. ASSUME NEW s \in Seq(S), Len(s) <= k + 1
          PROVE  s \in T
      <3>0. Len(s) \in Nat
        BY LenProperties
      <3>1. CASE Len(s) <= n
        BY <3>1
      <3>2. CASE Len(s) > n
        <4> DEFINE a == SubSeq(s, 1, n)
                   b == SubSeq(s, n + 1, Len(s))
        <4>1. /\ a \in Seq(S) /\ Len(a) = n
              /\ b \in Seq(S) /\ Len(b) = Len(s) - n
          BY <3>0, <3>2
        <4>2. s = a \o b
          <5>1. n \in 0 .. Len(s)
            BY <3>0, <3>2
          <5> QED
            BY <5>1, SplitAt
        <4> HIDE DEF a, b
        <4>3. Len(b) <= k
          BY <2>1, <3>0, <4>1
        <4>4. b \in T
          BY <1>2, <4>1, <4>3
        <4> QED
          BY <4>1, <4>2, <4>4
      <3> QED
        BY <3>0, <3>1, <3>2
    <2> QED
      BY <2>1
  <1> HIDE DEF U
  <1>3. \A k \in Nat : k \in U
    BY <1>1, <1>2, NatInduct
  <1> QED
    BY <1>3, LenProperties DEF U

-----------------------------------------------------------------------------
(* Lengths.                                                                *)

LEMMA Bases == /\ ByteBase \in Nat /\ ByteBase >= 2
               /\ Base \in Nat /\ Base >= 2 /\ Base <= ByteBase
               /\ BlockLen \in Nat \ {0}
  BY BaseAssumption

LEMMA DigitsForProperties ==
    ASSUME NEW n \in Nat
    PROVE  /\ DigitsFor(n) \in Nat
           /\ Power(Base, DigitsFor(n)) >= Power(ByteBase, n)
           /\ \A j \in 0 .. DigitsFor(n) - 1 : Power(Base, j) < Power(ByteBase, n)
  <1> DEFINE P(k) == Power(Base, k)
             Q(k) == Power(ByteBase, k)
             T == {k \in Nat : P(k) >= Q(n)}
             U == {k \in Nat : P(k * ByteBase) >= Q(k)}
  <1>0. \A k \in Nat : P(k) \in Nat /\ Q(k) \in Nat /\ Q(k + 1) = ByteBase * Q(k)
    BY Bases, PowerStep
  <1>1. 0 \in U
    <2>1. 0 * ByteBase = 0
      BY Bases
    <2>2. P(0) = 1 /\ Q(0) = 1
      BY Bases, PowerStep
    <2> QED
      BY <2>1, <2>2
  <1>2. ASSUME NEW k \in Nat, k \in U
        PROVE  k + 1 \in U
    <2> DEFINE l == k * ByteBase
               x == P(l)
               y == P(ByteBase)
    <2>1. l \in Nat /\ (k + 1) * ByteBase = l + ByteBase
      BY Bases
    <2>2. x \in Nat /\ y \in Nat /\ y >= ByteBase
      <3>1. x \in Nat /\ y \in Nat
        BY <1>0, <2>1, Bases
      <3>2. y > ByteBase
        BY Bases, PowerGrows
      <3> QED
        BY <3>1, <3>2, Bases
    <2>3. P(l + ByteBase) = x * y
      BY <2>1, Bases, PowerAdd
    <2>4. x >= Q(k)
      BY <1>2
    <2>5. Q(k + 1) = ByteBase * Q(k) /\ Q(k) \in Nat
      BY <1>0
    <2> DEFINE q == Q(k)
    <2> HIDE DEF x, y, q, l
    <2>6. q * ByteBase <= x * y
      BY <2>2, <2>4, <2>5, Bases, MultMonotonic DEF q
    <2>7. P((k + 1) * ByteBase) = x * y /\ Q(k + 1) = q * ByteBase
      BY <2>1, <2>3, <2>5, Bases DEF q
    <2> QED
      BY <2>2, <2>5, <2>6, <2>7, Bases DEF q
  <1> HIDE DEF U
  <1>3. n \in U
    BY <1>1, <1>2, NatInduct
  <1> DEFINE N == n * ByteBase
  <1>4. N \in Nat /\ P(N) >= Q(n)
    BY <1>3, Bases DEF U
  <1> HIDE DEF P, Q, N
  <1>5. PICK k \in T : \A l \in T : k <= l
    BY <1>4, LeastNat
  <1> DEFINE Is(m) == P(m) >= Q(n) /\ \A j \in 0 .. m - 1 : P(j) < Q(n)
  <1>6. k \in 0 .. N /\ Is(k)
    <2>1. k \in Nat /\ k <= N /\ P(k) >= Q(n)
      BY <1>4, <1>5
    <2>2. ASSUME NEW j \in 0 .. k - 1
          PROVE  P(j) < Q(n)
      <3>1. j \in Nat /\ j \notin T
        BY <1>5, <2>1
      <3> QED
        BY <1>0, <3>1
    <2> QED
      BY <2>1, <2>2
  <1>7. DigitsFor(n) = CHOOSE m \in 0 .. N : Is(m)
    BY DEF DigitsFor, P, Q, N
  <1> HIDE DEF Is
  <1>8. DigitsFor(n) \in 0 .. N /\ Is(DigitsFor(n))
    BY <1>6, <1>7
  <1> QED
    BY <1>4, <1>8 DEF Is, P, Q

LEMMA BytesInProperties ==
    ASSUME NEW n \in Nat
    PROVE  /\ BytesIn(n) \in Nat
           /\ Power(ByteBase, BytesIn(n)) <= Power(Base, n)
           /\ Power(ByteBase, BytesIn(n) + 1) > Power(Base, n)
  <1> DEFINE P(k) == Power(Base, k)
             Q(k) == Power(ByteBase, k)
             T == {k \in Nat : Q(k + 1) > P(n)}
             N == n * Base
  <1>0. \A k \in Nat : P(k) \in Nat /\ Q(k) \in Nat /\ P(k) <= Q(k) /\ Q(k) < Q(k + 1)
    BY Bases, PowerStep, PowerGrows, PowerOfMore
  <1>1. Q(0) = 1 /\ P(n) > n
    BY Bases, PowerStep, PowerGrows
  <1>2. N \in Nat /\ n <= N
    <2>1. n * 1 <= n * Base
      BY Bases, MultMonotonic
    <2> QED
      BY <2>1, Bases
  <1> HIDE DEF P, Q, N
  <1>3. n \in T
    BY <1>0
  <1>4. PICK k \in T : \A l \in T : k <= l
    BY <1>3, LeastNat
  <1> DEFINE Is(m) == Q(m) <= P(n) /\ Q(m + 1) > P(n)
  <1>5. k \in 0 .. N /\ Is(k)
    <2>1. k \in Nat /\ k <= n /\ Q(k + 1) > P(n)
      BY <1>3, <1>4
    <2>2. CASE k = 0
      BY <1>0, <1>1, <1>2, <2>1, <2>2
    <2>3. CASE k # 0
      <3>1. PICK j \in Nat : k = j + 1
        <4>1. k - 1 \in Nat /\ k = (k - 1) + 1
          BY <2>1, <2>3
        <4> QED
          BY <4>1
      <3>2. j \notin T
        BY <1>4, <3>1
      <3>3. Q(k) <= P(n)
        BY <1>0, <2>1, <3>1, <3>2
      <3> QED
        BY <1>2, <2>1, <3>3
    <2> QED
      BY <2>2, <2>3
  <1>6. BytesIn(n) = CHOOSE m \in 0 .. N : Is(m)
    BY DEF BytesIn, P, Q, N
  <1> HIDE DEF Is
  <1>7. BytesIn(n) \in 0 .. N /\ Is(BytesIn(n))
    BY <1>5, <1>6
  <1> QED
    BY <1>2, <1>7 DEF Is, P, Q

\* m bytes fit into n digits.
LEMMA BytesInWhen ==
    ASSUME NEW n \in Nat, NEW m \in Nat
    PROVE  Power(ByteBase, m) <= Power(Base, n) <=> m <= BytesIn(n)
  <1> DEFINE k == BytesIn(n)
             p == Power(Base, n)
             Q(i) == Power(ByteBase, i)
  <1>1. k \in Nat /\ Q(k) <= p /\ Q(k + 1) > p
    BY BytesInProperties
  <1>2. p \in Nat /\ \A i \in Nat : Q(i) \in Nat
    BY Bases, PowerStep
  <1>3. /\ \A i \in Nat, j \in Nat : i <= j => Q(i) <= Q(j)
        /\ \A i \in Nat, j \in Nat : Q(i) < Q(j) => i < j
    BY Bases, PowerGrows
  <1> HIDE DEF k, p, Q
  <1>4. m <= k => Q(m) <= p
    <2>1. m <= k => Q(m) <= Q(k)
      BY <1>1, <1>3
    <2> QED
      BY <1>1, <1>2, <2>1
  <1>5. Q(m) <= p => m <= k
    <2>1. SUFFICES ASSUME Q(m) <= p PROVE m <= k
      OBVIOUS
    <2>2. Q(m) < Q(k + 1)
      BY <1>1, <1>2, <2>1
    <2>3. m < k + 1
      BY <1>1, <1>3, <2>2
    <2> QED
      BY <1>1, <2>3
  <1> QED
    BY <1>4, <1>5 DEF k, p, Q

LEMMA NoBytesInNone == BytesIn(0) = 0 /\ DigitsFor(0) = 0
  <1>1. Power(ByteBase, 0) = 1 /\ Power(Base, 0) = 1
    BY Bases, PowerStep
  <1>2. BytesIn(0) = 0
    <2>1. BytesIn(0) \in Nat /\ Power(ByteBase, BytesIn(0)) <= 1
      BY <1>1, BytesInProperties
    <2>2. Power(ByteBase, BytesIn(0)) > BytesIn(0)
      BY <2>1, Bases, PowerGrows
    <2>3. Power(ByteBase, BytesIn(0)) \in Nat
      BY <2>1, Bases, PowerStep
    <2> QED
      BY <2>1, <2>2, <2>3
  <1>3. DigitsFor(0) = 0
    <2>1. DigitsFor(0) \in Nat /\ \A j \in 0 .. DigitsFor(0) - 1 : Power(Base, j) < 1
      BY <1>1, DigitsForProperties
    <2>2. 0 \notin 0 .. DigitsFor(0) - 1
      BY <1>1, <2>1
    <2> QED
      BY <2>1, <2>2
  <1> QED
    BY <1>2, <1>3

\* The digits for n bytes are enough for n bytes, and for no more; with one
\* digit less they would not be.
LEMMA LengthsMatch ==
    ASSUME NEW n \in Nat
    PROVE  /\ BytesIn(DigitsFor(n)) = n
           /\ n # 0 => /\ DigitsFor(n) \in Nat \ {0}
                       /\ BytesIn(DigitsFor(n) - 1) < n
  <1>1. CASE n = 0
    BY <1>1, NoBytesInNone
  <1>2. CASE n # 0
    <2> DEFINE k == DigitsFor(n)
               P(i) == Power(Base, i)
               Q(i) == Power(ByteBase, i)
    <2>1. k \in Nat /\ P(k) >= Q(n) /\ \A j \in 0 .. k - 1 : P(j) < Q(n)
      BY DigitsForProperties
    <2>2. /\ \A i \in Nat : P(i) \in Nat /\ P(i + 1) = Base * P(i)
          /\ \A i \in Nat : Q(i) \in Nat /\ Q(i + 1) = ByteBase * Q(i)
          /\ P(0) = 1 /\ Q(n) > n
      BY Bases, PowerStep, PowerGrows
    <2> HIDE DEF k, P, Q
    <2>3. k # 0
      BY <1>2, <2>1, <2>2
    <2>4. PICK j \in Nat : k = j + 1 /\ k - 1 = j
      <3>1. k - 1 \in Nat /\ k = (k - 1) + 1
        BY <2>1, <2>3
      <3> QED
        BY <3>1
    <2>5. P(j) < Q(n)
      BY <2>1, <2>4
    <2>6. P(k) < Q(n + 1)
      <3> DEFINE x == P(j)
                 y == Q(n)
      <3>1. x \in Nat /\ y \in Nat /\ x < y /\ P(k) = Base * x /\ Q(n + 1) = ByteBase * y
        BY <2>2, <2>4, <2>5
      <3> HIDE DEF x, y
      <3>2. Base * x <= ByteBase * x /\ ByteBase * x < ByteBase * y
        <4>1. Base * x <= ByteBase * x
          BY <3>1, Bases, MultMonotonic
        <4>2. ByteBase * (x + 1) <= ByteBase * y
          BY <3>1, Bases, MultMonotonic
        <4>3. ByteBase * (x + 1) = ByteBase * x + ByteBase
          BY <3>1, Bases
        <4>4. ByteBase * x \in Nat /\ ByteBase * y \in Nat
          BY <3>1, Bases
        <4> QED
          BY <4>1, <4>2, <4>3, <4>4, Bases
      <3>3. Base * x \in Nat /\ ByteBase * x \in Nat /\ ByteBase * y \in Nat
        BY <3>1, Bases
      <3> QED
        BY <3>1, <3>2, <3>3
    <2>7. ~(Q(n + 1) <= P(k)) /\ Q(n) <= P(k) /\ ~(Q(n) <= P(j))
      BY <2>1, <2>2, <2>4, <2>5, <2>6
    <2>8. BytesIn(k) \in Nat /\ ~(n + 1 <= BytesIn(k)) /\ n <= BytesIn(k)
      BY <2>1, <2>7, BytesInWhen, BytesInProperties DEF P, Q
    <2>9. BytesIn(j) \in Nat /\ ~(n <= BytesIn(j))
      BY <2>7, BytesInWhen, BytesInProperties DEF P, Q
    <2> QED
      BY <2>1, <2>3, <2>4, <2>8, <2>9 DEF k
  <1> QED
    BY <1>1, <1>2

LEMMA BytesInMonotonic ==
    ASSUME NEW m \in Nat, NEW n \in Nat, m <= n
    PROVE  BytesIn(m) <= BytesIn(n)
  <1> DEFINE k == BytesIn(m)
  <1>1. k \in Nat /\ Power(ByteBase, k) <= Power(Base, m)
    BY BytesInProperties
  <1>2. Power(Base, m) <= Power(Base, n)
    BY Bases, PowerGrows
  <1>3. Power(ByteBase, k) \in Nat /\ Power(Base, m) \in Nat /\ Power(Base, n) \in Nat
    BY <1>1, Bases, PowerStep
  <1>4. Power(ByteBase, k) <= Power(Base, n)
    BY <1>1, <1>2, <1>3
  <1> QED
    BY <1>1, <1>4, BytesInWhen

\* Fewer bytes have fewer digits.
LEMMA DigitsForMonotonic ==
    ASSUME NEW m \in Nat, NEW n \in Nat, m < n
    PROVE  DigitsFor(m) < DigitsFor(n)
  <1>1. /\ DigitsFor(m) \in Nat /\ DigitsFor(n) \in Nat
        /\ BytesIn(DigitsFor(m)) = m /\ BytesIn(DigitsFor(n)) = n
    BY DigitsForProperties, LengthsMatch
  <1>2. DigitsFor(n) <= DigitsFor(m) => n <= m
    BY <1>1, BytesInMonotonic
  <1> QED
    BY <1>1, <1>2

\* The lengths of encoded and of decoded blocks.
LEMMA BlockLengths ==
    /\ DigitBlockLen \in Nat \ {0}
    /\ DecodedLen(DigitBlockLen) = BlockLen
    /\ \A n \in 1 .. BlockLen :
          /\ EncodedLen(n) = DigitsFor(n)
          /\ EncodedLen(n) \in 1 .. DigitBlockLen
          /\ DecodedLen(EncodedLen(n)) = n
          /\ IsValidEncodingLength(EncodedLen(n))
  <1>1. DigitBlockLen \in Nat \ {0} /\ BytesIn(DigitBlockLen) = BlockLen
    BY Bases, LengthsMatch DEF DigitBlockLen
  <1>2. DecodedLen(DigitBlockLen) = BlockLen
    <2> DEFINE d == DigitBlockLen
    <2>1. d \in Nat \ {0}
      BY <1>1
    <2> HIDE DEF d
    <2>2. d \div d = 1 /\ d % d = 0
      <3>1. 1 * d + 0 = d /\ 0 \in 0 .. d - 1
        BY <2>1
      <3> QED
        BY <2>1, <3>1, DivUnique
    <2>3. 1 * BlockLen + 0 = BlockLen
      BY Bases
    <2>4. (d \div d) * BlockLen + BytesIn(d % d) = BlockLen
      BY <2>2, <2>3, NoBytesInNone
    <2> QED
      BY <2>4 DEF DecodedLen, d
  <1>3. ASSUME NEW n \in 1 .. BlockLen
        PROVE  /\ EncodedLen(n) = DigitsFor(n)
               /\ EncodedLen(n) \in 1 .. DigitBlockLen
               /\ DecodedLen(EncodedLen(n)) = n
               /\ IsValidEncodingLength(EncodedLen(n))
    <2>0. n \in Nat /\ n # 0 /\ BlockLen \in Nat \ {0}
      BY Bases
    <2>1. /\ DigitsFor(n) \in Nat \ {0} /\ BytesIn(DigitsFor(n)) = n
          /\ BytesIn(DigitsFor(n) - 1) < n
      BY <2>0, LengthsMatch
    <2>2. IsValidEncodingLength(DigitsFor(n))
      BY <2>0, <2>1 DEF IsValidEncodingLength
    <2>3. CASE n = BlockLen
      <3>1. EncodedLen(n) = DigitBlockLen
        <4>1. n \div n = 1 /\ n % n = 0
          <5>1. 1 * n + 0 = n /\ 0 \in 0 .. n - 1
            BY <2>0
          <5> QED
            BY <2>0, <5>1, DivUnique
        <4>2. 1 * DigitBlockLen + 0 = DigitBlockLen
          BY <1>1
        <4> QED
          BY <2>3, <4>1, <4>2, NoBytesInNone DEF EncodedLen
      <3>2. DigitsFor(n) = DigitBlockLen
        BY <2>3 DEF DigitBlockLen
      <3>3. DigitBlockLen \in 1 .. DigitBlockLen
        BY <1>1
      <3> QED
        BY <1>2, <2>2, <2>3, <3>1, <3>2, <3>3
    <2>4. CASE n < BlockLen
      <3>1. EncodedLen(n) = DigitsFor(n)
        <4>1. n \div BlockLen = 0 /\ n % BlockLen = n
          BY <2>0, <2>4
        <4>2. 0 * DigitBlockLen + DigitsFor(n) = DigitsFor(n)
          BY <1>1, <2>1
        <4> QED
          BY <4>1, <4>2 DEF EncodedLen
      <3>2. DigitsFor(n) < DigitBlockLen
        BY <2>0, <2>4, DigitsForMonotonic DEF DigitBlockLen
      <3>3. DecodedLen(DigitsFor(n)) = n
        <4> DEFINE k == DigitsFor(n)
        <4>1. k \in Nat /\ k < DigitBlockLen /\ BytesIn(k) = n
          BY <2>1, <3>2
        <4> HIDE DEF k
        <4>2. k \div DigitBlockLen = 0 /\ k % DigitBlockLen = k
          BY <1>1, <4>1
        <4>3. 0 * BlockLen + n = n
          BY <2>0
        <4>4. DecodedLen(k) = n
          BY <4>1, <4>2, <4>3 DEF DecodedLen
        <4> QED
          BY <4>4 DEF k
      <3>4. DigitsFor(n) \in 1 .. DigitBlockLen
        BY <1>1, <2>1, <3>2
      <3> QED
        BY <2>2, <3>1, <3>3, <3>4
    <2> QED
      BY <2>3, <2>4, Bases
  <1> QED
    BY <1>1, <1>2, <1>3

-----------------------------------------------------------------------------
(* Numbers and their digits.                                               *)

Digits(base) == 0 .. base - 1

\* The recursion that ValueOf stands for.
LEMMA ValueRecursion ==
    ASSUME NEW b \in Nat, NEW s \in Seq(Nat)
    PROVE  \E v \in [0 .. Len(s) -> Nat] :
              /\ ValueOf(s, b) = v[Len(s)] /\ v[0] = 0
              /\ \A i \in 0 .. Len(s) : i < Len(s) => v[i + 1] = v[i] * b + s[i + 1]
  <1> DEFINE Fcn(f) == f = [i \in 0 .. Len(s) |->
                              IF i = 0 THEN 0 ELSE f[i - 1] * b + s[i]]
             value == CHOOSE f : Fcn(f)
             step == [p \in Nat \X Nat |->
                        IF p[1] + 1 <= Len(s) THEN p[2] * b + s[p[1] + 1] ELSE 0]
  <1>0. Len(s) \in Nat /\ \A i \in 1 .. Len(s) : s[i] \in Nat
    BY LenProperties, ElementOfSeq
  <1>1. \A n \in Nat, x \in Nat :
           /\ step[<<n, x>>] = IF n + 1 <= Len(s) THEN x * b + s[n + 1] ELSE 0
           /\ step[<<n, x>>] \in Nat
    <2> SUFFICES ASSUME NEW n \in Nat, NEW x \in Nat
                 PROVE  /\ step[<<n, x>>] = IF n + 1 <= Len(s) THEN x * b + s[n + 1] ELSE 0
                        /\ step[<<n, x>>] \in Nat
      OBVIOUS
    <2>1. step[<<n, x>>] = IF n + 1 <= Len(s) THEN x * b + s[n + 1] ELSE 0
      OBVIOUS
    <2> HIDE DEF step
    <2>2. n + 1 <= Len(s) => x * b + s[n + 1] \in Nat
      <3>1. n + 1 <= Len(s) => s[n + 1] \in Nat
        BY <1>0
      <3>2. x * b \in Nat
        OBVIOUS
      <3> QED
        BY <3>1, <3>2
    <2> QED
      BY <2>1, <2>2
  <1> HIDE DEF step
  <1>2. PICK g : Follows(g, Nat, 0, step)
    <2>1. StepIn(step, Nat)
      BY <1>1, Zenon DEF StepIn
    <2> QED
      BY <2>1, Recursion
  <1>3. /\ g[0] = 0
        /\ \A k \in Nat : g[k] \in Nat /\ g[k + 1] = step[<<k, g[k]>>]
    BY <1>2 DEF Follows
  <1>4. ASSUME NEW k \in Nat, k + 1 <= Len(s)
        PROVE  g[k + 1] = g[k] * b + s[k + 1]
    <2>1. g[k + 1] = step[<<k, g[k]>>] /\ g[k] \in Nat
      BY <1>3
    <2>2. step[<<k, g[k]>>] = g[k] * b + s[k + 1]
      BY <1>1, <1>4, <2>1, Zenon
    <2> QED
      BY <2>1, <2>2, Zenon
  <1>5. \E f : Fcn(f)
    <2> DEFINE f == [i \in 0 .. Len(s) |-> g[i]]
    <2>1. f = [i \in 0 .. Len(s) |-> f[i]] /\ \A i \in 0 .. Len(s) : f[i] = g[i]
      OBVIOUS
    <2> HIDE DEF f
    <2>2. ASSUME NEW i \in 0 .. Len(s)
          PROVE  f[i] = IF i = 0 THEN 0 ELSE f[i - 1] * b + s[i]
      <3>1. CASE i = 0
        BY <1>3, <2>1, <3>1, Zenon
      <3>2. CASE i # 0
        <4>1. PICK k \in Nat : k + 1 = i /\ k = i - 1 /\ k + 1 <= Len(s) /\ k \in 0 .. Len(s)
          <5>1. i - 1 \in Nat /\ (i - 1) + 1 = i /\ i <= Len(s) /\ i - 1 \in 0 .. Len(s)
            BY <1>0, <3>2
          <5> QED
            BY <5>1
        <4>2. g[k + 1] = g[k] * b + s[k + 1]
          BY <1>4, <4>1
        <4>3. f[i] = g[i] /\ f[k] = g[k]
          BY <2>1, <4>1
        <4> QED
          BY <3>2, <4>1, <4>2, <4>3, Zenon
      <3> QED
        BY <3>1, <3>2
    <2>3. Fcn(f)
      BY <2>1, <2>2, Zenon
    <2> QED
      BY <2>3
  <1>6. Fcn(value)
    BY <1>5
  <1>7. ValueOf(s, b) = value[Len(s)]
    BY DEF ValueOf
  <1> HIDE DEF value
  <1>8. value[0] = 0
    BY <1>0, <1>6
  <1>9. ASSUME NEW i \in 0 .. Len(s), i < Len(s)
        PROVE  value[i + 1] = value[i] * b + s[i + 1]
    <2>1. i + 1 \in 0 .. Len(s) /\ i + 1 # 0 /\ (i + 1) - 1 = i
      BY <1>0, <1>9
    <2>2. value[i + 1] = IF i + 1 = 0 THEN 0 ELSE value[(i + 1) - 1] * b + s[i + 1]
      BY <1>6, <2>1, Zenon
    <2> QED
      BY <2>1, <2>2, Zenon
  <1>10. \A i \in 0 .. Len(s) : value[i] \in Nat
    <2> DEFINE T == {i \in 0 .. Len(s) : value[i] \in Nat}
    <2>1. 0 \in T
      BY <1>0, <1>8
    <2>2. ASSUME NEW i \in 0 .. Len(s), i < Len(s), i \in T
          PROVE  i + 1 \in T
      <3>1. i + 1 \in 0 .. Len(s) /\ i + 1 \in 1 .. Len(s)
        BY <1>0, <2>2
      <3>2. value[i] \in Nat /\ s[i + 1] \in Nat
        BY <1>0, <2>2, <3>1
      <3>3. value[i] * b + s[i + 1] \in Nat
        <4> DEFINE x == value[i]
                   y == s[i + 1]
        <4>1. x \in Nat /\ y \in Nat
          BY <3>2
        <4> HIDE DEF x, y
        <4>2. x * b + y \in Nat
          BY <4>1
        <4> QED
          BY <4>2 DEF x, y
      <3> QED
        BY <1>9, <2>2, <3>1, <3>3
    <2> HIDE DEF T
    <2>3. \A i \in 0 .. Len(s) : i \in T
      BY <1>0, <2>1, <2>2, UpTo
    <2> QED
      BY <2>3 DEF T
  <1>11. value \in [0 .. Len(s) -> Nat]
    <2>1. value = [i \in 0 .. Len(s) |-> value[i]]
      BY <1>6
    <2> QED
      BY <1>10, <2>1
  <1> QED
    BY <1>7, <1>8, <1>9, <1>11, Zenon

LEMMA ValueOfNone == ASSUME NEW b \in Nat PROVE ValueOf(<< >>, b) = 0
  <1>1. << >> \in Seq(Nat) /\ Len(<< >>) = 0
    OBVIOUS
  <1>2. PICK v \in [0 .. Len(<< >>) -> Nat] : ValueOf(<< >>, b) = v[Len(<< >>)] /\ v[0] = 0
    BY <1>1, ValueRecursion
  <1> QED
    BY <1>1, <1>2, Zenon

LEMMA ValueOfAppend ==
    ASSUME NEW b \in Nat, NEW s \in Seq(Nat), NEW d \in Nat
    PROVE  /\ ValueOf(s, b) \in Nat
           /\ ValueOf(Append(s, d), b) = ValueOf(s, b) * b + d
  <1> DEFINE t == Append(s, d)
  <1>1. /\ t \in Seq(Nat) /\ Len(t) = Len(s) + 1 /\ t[Len(s) + 1] = d
        /\ \A i \in 1 .. Len(s) : t[i] = s[i]
    OBVIOUS
  <1> HIDE DEF t
  <1>2. Len(s) \in Nat
    BY LenProperties
  <1>3. PICK v \in [0 .. Len(s) -> Nat] :
           /\ ValueOf(s, b) = v[Len(s)] /\ v[0] = 0
           /\ \A i \in 0 .. Len(s) : i < Len(s) => v[i + 1] = v[i] * b + s[i + 1]
    BY ValueRecursion
  <1>4. PICK w \in [0 .. Len(t) -> Nat] :
           /\ ValueOf(t, b) = w[Len(t)] /\ w[0] = 0
           /\ \A i \in 0 .. Len(t) : i < Len(t) => w[i + 1] = w[i] * b + t[i + 1]
    BY <1>1, ValueRecursion
  <1> DEFINE T == {i \in 0 .. Len(s) : v[i] = w[i]}
  <1>5. 0 \in T
    BY <1>2, <1>3, <1>4
  <1>6. ASSUME NEW i \in 0 .. Len(s), i < Len(s), i \in T
        PROVE  i + 1 \in T
    <2>1. /\ i + 1 \in 0 .. Len(s) /\ i + 1 \in 1 .. Len(s)
          /\ i \in 0 .. Len(t) /\ i < Len(t)
      BY <1>1, <1>2, <1>6
    <2>2. v[i + 1] = v[i] * b + s[i + 1] /\ w[i + 1] = w[i] * b + t[i + 1]
      BY <1>3, <1>4, <1>6, <2>1, Zenon
    <2>3. t[i + 1] = s[i + 1] /\ v[i] = w[i]
      BY <1>1, <1>6, <2>1
    <2>4. v[i + 1] = w[i + 1]
      BY <2>2, <2>3, Zenon
    <2> QED
      BY <2>1, <2>4
  <1> HIDE DEF T
  <1>7. Len(s) \in T
    <2>1. \A i \in 0 .. Len(s) : i \in T
      BY <1>2, <1>5, <1>6, UpTo
    <2> QED
      BY <1>2, <2>1
  <1>8. v[Len(s)] = w[Len(s)] /\ v[Len(s)] \in Nat
    BY <1>2, <1>3, <1>7 DEF T
  <1>9. w[Len(s) + 1] = w[Len(s)] * b + t[Len(s) + 1]
    <2>1. Len(s) \in 0 .. Len(t) /\ Len(s) < Len(t)
      BY <1>1, <1>2
    <2> QED
      BY <1>4, <2>1, Zenon
  <1>10. ValueOf(t, b) = ValueOf(s, b) * b + d
    BY <1>1, <1>3, <1>4, <1>8, <1>9, Zenon
  <1> QED
    BY <1>3, <1>8, <1>10 DEF t

\* n digits have a value below the n-th power of the base.
LEMMA ValueBound ==
    ASSUME NEW b \in Nat, b >= 2
    PROVE  \A s \in Seq(Digits(b)) : ValueOf(s, b) \in Nat /\ ValueOf(s, b) < Power(b, Len(s))
  <1> DEFINE T == {n \in Nat : \A s \in Seq(Digits(b)) :
                     Len(s) = n => ValueOf(s, b) \in Nat /\ ValueOf(s, b) < Power(b, n)}
  <1>0. Power(b, 0) = 1 /\ \A n \in Nat : Power(b, n) \in Nat /\ Power(b, n + 1) = b * Power(b, n)
    BY PowerStep
  <1>1. 0 \in T
    <2>1. ASSUME NEW s \in Seq(Digits(b)), Len(s) = 0
          PROVE  ValueOf(s, b) = 0
      <3>1. s = << >>
        BY <2>1, EmptySeq
      <3> QED
        BY <3>1, ValueOfNone
    <2>2. 0 < Power(b, 0) /\ 0 \in Nat
      BY <1>0
    <2> QED
      BY <2>1, <2>2, Zenon
  <1>2. ASSUME NEW n \in Nat, n \in T
        PROVE  n + 1 \in T
    <2>1. ASSUME NEW s \in Seq(Digits(b)), Len(s) = n + 1
          PROVE  ValueOf(s, b) \in Nat /\ ValueOf(s, b) < Power(b, n + 1)
      <3> DEFINE u == SubSeq(s, 1, n)
                 d == s[n + 1]
      <3>1. u \in Seq(Digits(b)) /\ Len(u) = n /\ d \in Digits(b) /\ s = Append(u, d)
        BY <2>1, Decompose
      <3> HIDE DEF u, d
      <3>2. ValueOf(u, b) \in Nat /\ ValueOf(u, b) < Power(b, n)
        BY <1>2, <3>1
      <3>3. u \in Seq(Nat) /\ d \in Nat /\ d < b
        BY <3>1 DEF Digits
      <3>4. ValueOf(s, b) = ValueOf(u, b) * b + d
        BY <3>1, <3>3, ValueOfAppend
      <3> DEFINE x == ValueOf(u, b)
                 p == Power(b, n)
      <3>5. x \in Nat /\ p \in Nat /\ x + 1 <= p /\ Power(b, n + 1) = b * p
        BY <1>0, <3>2
      <3> HIDE DEF x, p
      <3>6. (x + 1) * b <= p * b
        BY <3>5, MultMonotonic
      <3>7. (x + 1) * b = x * b + b /\ x * b \in Nat /\ p * b = b * p /\ p * b \in Nat
        BY <3>5
      <3>8. x * b + d \in Nat /\ x * b + d < b * p
        BY <3>3, <3>6, <3>7
      <3> QED
        BY <3>4, <3>5, <3>8 DEF x
    <2> QED
      BY <2>1
  <1> HIDE DEF T
  <1>3. \A n \in Nat : n \in T
    BY <1>1, <1>2, NatInduct
  <1> QED
    BY <1>3, LenProperties DEF T

LEMMA DivDiv ==
    ASSUME NEW x \in Nat, NEW a \in Nat \ {0}, NEW b \in Nat \ {0}
    PROVE  a * b \in Nat \ {0} /\ x \div (a * b) = (x \div a) \div b
  <1> DEFINE q == x \div a
             r == x % a
             p == q \div b
             t == q % b
  <1>1. q \in Nat /\ r \in 0 .. a - 1 /\ x = q * a + r
    BY DivProperties
  <1>2. p \in Nat /\ t \in 0 .. b - 1 /\ q = p * b + t
    BY <1>1, DivProperties
  <1> HIDE DEF q, r, p, t
  <1>3. x = p * (a * b) + (t * a + r)
    BY <1>1, <1>2
  <1>4. a * b \in Nat \ {0}
    OBVIOUS
  <1>5. t * a + r \in 0 .. a * b - 1
    <2>1. t \in Nat /\ t + 1 <= b
      BY <1>2
    <2>2. (t + 1) * a <= b * a
      BY <2>1, MultMonotonic
    <2>3. (t + 1) * a = t * a + a /\ b * a = a * b /\ t * a \in Nat
      BY <2>1
    <2> QED
      BY <1>1, <1>4, <2>2, <2>3
  <1> DEFINE c == a * b
             e == t * a + r
  <1> HIDE DEF c, e
  <1>6. (p * c + e) \div c = p
    BY <1>2, <1>4, <1>5, DivUnique DEF c, e
  <1> QED
    BY <1>3, <1>4, <1>6 DEF c, e, p, q

LEMMA DigitsOfType ==
    ASSUME NEW v \in Nat, NEW b \in Nat, b >= 2, NEW n \in Nat
    PROVE  /\ DigitsOf(v, b, n) \in Seq(Digits(b)) /\ Len(DigitsOf(v, b, n)) = n
           /\ \A i \in 1 .. n : DigitsOf(v, b, n)[i] = (v \div Power(b, n - i)) % b
  <1>1. ASSUME NEW i \in 1 .. n
        PROVE  (v \div Power(b, n - i)) % b \in Digits(b)
    <2> DEFINE p == Power(b, n - i)
    <2>1. p \in Nat /\ p > 0
      <3>1. n - i \in Nat
        OBVIOUS
      <3>2. p > n - i /\ p \in Nat
        BY <3>1, PowerGrows, PowerStep
      <3> QED
        BY <3>1, <3>2
    <2> HIDE DEF p
    <2>2. v \div p \in Nat
      BY <2>1, DivProperties
    <2>3. (v \div p) % b \in 0 .. b - 1
      BY <2>2, DivProperties
    <2> QED
      BY <2>3 DEF p, Digits
  <1>2. DigitsOf(v, b, n) \in [1 .. n -> Digits(b)]
    BY <1>1 DEF DigitsOf
  <1>3. \A i \in 1 .. n : DigitsOf(v, b, n)[i] = (v \div Power(b, n - i)) % b
    BY DEF DigitsOf
  <1> QED
    BY <1>2, <1>3, FunctionSeq

LEMMA DigitsOfAppend ==
    ASSUME NEW v \in Nat, NEW b \in Nat, b >= 2, NEW n \in Nat
    PROVE  DigitsOf(v, b, n + 1) = Append(DigitsOf(v \div b, b, n), v % b)
  <1> DEFINE s == DigitsOf(v, b, n + 1)
             u == DigitsOf(v \div b, b, n)
             t == Append(u, v % b)
  <1>0. v \div b \in Nat /\ v % b \in Digits(b)
    <2>1. b \in Nat \ {0}
      OBVIOUS
    <2> QED
      BY <2>1, DivProperties DEF Digits
  <1>1. /\ s \in Seq(Digits(b)) /\ Len(s) = n + 1
        /\ \A i \in 1 .. n + 1 : s[i] = (v \div Power(b, (n + 1) - i)) % b
    BY DigitsOfType
  <1>2. /\ u \in Seq(Digits(b)) /\ Len(u) = n
        /\ \A i \in 1 .. n : u[i] = ((v \div b) \div Power(b, n - i)) % b
    BY <1>0, DigitsOfType
  <1> HIDE DEF s, u
  <1>3. /\ t \in Seq(Digits(b)) /\ Len(t) = n + 1 /\ t[n + 1] = v % b
        /\ \A i \in 1 .. n : t[i] = u[i]
    <2> DEFINE d == v % b
    <2>1. d \in Digits(b)
      BY <1>0
    <2> HIDE DEF d
    <2>2. u \in Seq(Digits(b)) /\ Len(u) = n
      BY <1>2
    <2>3. /\ Append(u, d) \in Seq(Digits(b)) /\ Len(Append(u, d)) = n + 1
          /\ Append(u, d)[n + 1] = d /\ \A i \in 1 .. n : Append(u, d)[i] = u[i]
      BY <2>1, <2>2
    <2> QED
      BY <2>3 DEF d
  <1> HIDE DEF t
  <1>4. ASSUME NEW i \in 1 .. n + 1
        PROVE  s[i] = t[i]
    <2>1. CASE i = n + 1
      <3>1. Power(b, (n + 1) - i) = 1
        <4>1. (n + 1) - i = 0
          BY <2>1
        <4> QED
          BY <4>1, PowerStep
      <3>2. v \div 1 = v
        OBVIOUS
      <3>3. s[i] = (v \div Power(b, (n + 1) - i)) % b
        BY <1>1
      <3> QED
        BY <1>3, <2>1, <3>1, <3>2, <3>3
    <2>2. CASE i # n + 1
      <3>1. i \in 1 .. n /\ n - i \in Nat /\ (n + 1) - i = (n - i) + 1
        BY <2>2
      <3> DEFINE p == Power(b, n - i)
      <3>2. p \in Nat \ {0} /\ Power(b, (n + 1) - i) = b * p
        <4>1. p \in Nat /\ p > n - i /\ Power(b, (n - i) + 1) = b * p
          BY <3>1, PowerStep, PowerGrows
        <4> QED
          BY <3>1, <4>1
      <3> HIDE DEF p
      <3>3. v \div (b * p) = (v \div b) \div p
        BY <3>2, DivDiv
      <3>4. s[i] = (v \div Power(b, (n + 1) - i)) % b
        BY <1>1
      <3>5. t[i] = ((v \div b) \div p) % b
        BY <1>2, <1>3, <3>1 DEF p
      <3> QED
        BY <3>2, <3>3, <3>4, <3>5
    <2> QED
      BY <2>1, <2>2
  <1>5. s = t
    BY <1>1, <1>3, <1>4, SeqEqual
  <1> QED
    BY <1>5 DEF s, t, u

LEMMA ValueOfDigits ==
    ASSUME NEW b \in Nat, b >= 2
    PROVE  \A n \in Nat, v \in Nat : v < Power(b, n) => ValueOf(DigitsOf(v, b, n), b) = v
  <1> DEFINE T == {n \in Nat : \A v \in Nat :
                     v < Power(b, n) => ValueOf(DigitsOf(v, b, n), b) = v}
  <1>0. Power(b, 0) = 1 /\ \A n \in Nat : Power(b, n) \in Nat /\ Power(b, n + 1) = b * Power(b, n)
    BY PowerStep
  <1>1. 0 \in T
    <2>1. ASSUME NEW v \in Nat, v < Power(b, 0)
          PROVE  ValueOf(DigitsOf(v, b, 0), b) = v
      <3>1. v = 0
        BY <1>0, <2>1
      <3>2. DigitsOf(v, b, 0) = << >>
        BY DigitsOfType, EmptySeq
      <3> QED
        BY <3>1, <3>2, ValueOfNone
    <2> QED
      BY <2>1
  <1>2. ASSUME NEW n \in Nat, n \in T
        PROVE  n + 1 \in T
    <2>1. ASSUME NEW v \in Nat, v < Power(b, n + 1)
          PROVE  ValueOf(DigitsOf(v, b, n + 1), b) = v
      <3> DEFINE q == v \div b
                 r == v % b
                 p == Power(b, n)
                 u == DigitsOf(q, b, n)
      <3>1. q \in Nat /\ r \in 0 .. b - 1 /\ v = q * b + r
        <4>1. b \in Nat \ {0}
          OBVIOUS
        <4> QED
          BY <4>1, DivProperties
      <3>2. DigitsOf(v, b, n + 1) = Append(u, r)
        BY DigitsOfAppend
      <3>3. p \in Nat /\ Power(b, n + 1) = b * p
        BY <1>0
      <3> HIDE DEF q, r, p
      <3>4. q < p
        <4> SUFFICES ASSUME p <= q PROVE FALSE
          BY <3>1, <3>3
        <4>1. p * b <= q * b
          BY <3>1, <3>3, MultMonotonic
        <4>2. p * b = b * p /\ p * b \in Nat /\ q * b \in Nat
          BY <3>1, <3>3
        <4> QED
          BY <2>1, <3>1, <3>3, <4>1, <4>2
      <3>5. ValueOf(u, b) = q
        BY <1>2, <3>1, <3>4 DEF p
      <3>6. u \in Seq(Nat)
        <4>1. u \in Seq(Digits(b))
          BY <3>1, DigitsOfType
        <4> HIDE DEF u
        <4> QED
          BY <4>1 DEF Digits
      <3> HIDE DEF u
      <3>7. ValueOf(Append(u, r), b) = q * b + r
        BY <3>1, <3>5, <3>6, ValueOfAppend
      <3> QED
        BY <3>1, <3>2, <3>7
    <2> QED
      BY <2>1
  <1> HIDE DEF T
  <1>3. \A n \in Nat : n \in T
    BY <1>1, <1>2, NatInduct
  <1> QED
    BY <1>3 DEF T

LEMMA DigitsOfValue ==
    ASSUME NEW b \in Nat, b >= 2
    PROVE  \A s \in Seq(Digits(b)) : DigitsOf(ValueOf(s, b), b, Len(s)) = s
  <1> DEFINE T == {n \in Nat : \A s \in Seq(Digits(b)) :
                     Len(s) = n => DigitsOf(ValueOf(s, b), b, n) = s}
  <1>1. 0 \in T
    <2>1. ASSUME NEW s \in Seq(Digits(b)), Len(s) = 0
          PROVE  DigitsOf(ValueOf(s, b), b, 0) = s
      <3>1. ValueOf(s, b) \in Nat /\ s = << >>
        BY <2>1, ValueBound, EmptySeq
      <3> QED
        BY <3>1, DigitsOfType, EmptySeq
    <2> QED
      BY <2>1
  <1>2. ASSUME NEW n \in Nat, n \in T
        PROVE  n + 1 \in T
    <2>1. ASSUME NEW s \in Seq(Digits(b)), Len(s) = n + 1
          PROVE  DigitsOf(ValueOf(s, b), b, n + 1) = s
      <3> DEFINE u == SubSeq(s, 1, n)
                 d == s[n + 1]
                 x == ValueOf(u, b)
      <3>1. u \in Seq(Digits(b)) /\ Len(u) = n /\ d \in Digits(b) /\ s = Append(u, d)
        BY <2>1, Decompose
      <3> HIDE DEF u, d
      <3>2. x \in Nat /\ DigitsOf(x, b, n) = u
        BY <1>2, <3>1, ValueBound
      <3>3. u \in Seq(Nat) /\ d \in Nat /\ d \in 0 .. b - 1
        BY <3>1 DEF Digits
      <3>4. ValueOf(s, b) = x * b + d
        BY <3>1, <3>3, ValueOfAppend
      <3> HIDE DEF x
      <3>5. (x * b + d) \div b = x /\ (x * b + d) % b = d /\ x * b + d \in Nat
        <4>1. x * b \in Nat /\ b \in Nat \ {0}
          BY <3>2
        <4>2. (x * b + d) \div b = x /\ (x * b + d) % b = d
          BY <3>2, <3>3, <4>1, DivUnique, Zenon
        <4>3. x * b + d \in Nat
          BY <3>3, <4>1
        <4> QED
          BY <4>2, <4>3, Zenon
      <3> DEFINE v == x * b + d
      <3> HIDE DEF v
      <3>6. DigitsOf(v, b, n + 1) = Append(DigitsOf(v \div b, b, n), v % b)
        BY <3>5, DigitsOfAppend DEF v
      <3> QED
        BY <3>1, <3>2, <3>4, <3>5, <3>6 DEF v
    <2> QED
      BY <2>1
  <1> HIDE DEF T
  <1>3. \A n \in Nat : n \in T
    BY <1>1, <1>2, NatInduct
  <1> QED
    BY <1>3, LenProperties DEF T
-----------------------------------------------------------------------------
(* The blocks of the codec.                                                *)

Byte  == Digits(ByteBase)
Digit == Digits(Base)

LEMMA MinimalBytesProperties ==
    ASSUME NEW v \in Nat
    PROVE  \E m \in Nat :
              /\ MinimalBytes(v) = DigitsOf(v, ByteBase, m)
              /\ v < Power(ByteBase, m)
              /\ \A n \in Nat : v < Power(ByteBase, n) => m <= n
  <1> DEFINE Q(k) == Power(ByteBase, k)
             T == {k \in Nat : v < Q(k)}
             Is(k) == v < Q(k) /\ (k = 0 \/ v >= Q(k - 1))
             len == CHOOSE k \in 0 .. v : Is(k)
  <1>0. Q(0) = 1 /\ Q(v) > v /\ \A k \in Nat : Q(k) \in Nat
    BY Bases, PowerStep, PowerGrows
  <1>1. \A m \in Nat, n \in Nat : m <= n => Q(m) <= Q(n)
    BY Bases, PowerGrows
  <1>2. MinimalBytes(v) = DigitsOf(v, ByteBase, len)
    BY DEF MinimalBytes
  <1> HIDE DEF Q
  <1>3. v \in T
    BY <1>0
  <1>4. PICK x \in T : \A y \in T : x <= y
    BY <1>3, LeastNat
  <1>5. x \in 0 .. v /\ Is(x)
    <2>1. x \in 0 .. v /\ v < Q(x)
      BY <1>3, <1>4
    <2>2. x # 0 => x - 1 \in Nat /\ x - 1 \notin T
      BY <1>4
    <2>3. x # 0 => v >= Q(x - 1)
      BY <1>0, <2>2
    <2> QED
      BY <2>1, <2>3
  <1> HIDE DEF Is
  <1>6. len \in 0 .. v /\ Is(len)
    BY <1>5
  <1> HIDE DEF len
  <1>7. len \in Nat /\ v < Q(len)
    BY <1>6 DEF Is
  <1>8. ASSUME NEW n \in Nat, v < Q(n)
        PROVE  len <= n
    <2> SUFFICES ASSUME n < len PROVE FALSE
      BY <1>7
    <2>1. len # 0 /\ len - 1 \in Nat /\ n <= len - 1
      BY <1>7
    <2>2. Q(n) <= Q(len - 1)
      BY <1>1, <2>1
    <2>3. v >= Q(len - 1)
      BY <1>6, <2>1 DEF Is
    <2>4. Q(n) \in Nat /\ Q(len - 1) \in Nat
      BY <1>0, <2>1
    <2> QED
      BY <1>8, <2>2, <2>3, <2>4
  <1> QED
    BY <1>2, <1>7, <1>8 DEF Q

Zeros(k) == [i \in 1 .. k |-> 0]

\* Zeros in front of a number do not change it.
LEMMA LeadingZeros ==
    ASSUME NEW v \in Nat, NEW b \in Nat, b >= 2, NEW m \in Nat, v < Power(b, m),
           NEW n \in Nat, m <= n
    PROVE  Zeros(n - m) \o DigitsOf(v, b, m) = DigitsOf(v, b, n)
  <1> DEFINE z == Zeros(n - m)
             s == DigitsOf(v, b, m)
             t == DigitsOf(v, b, n)
  <1>1. /\ z \in Seq(Digits(b)) /\ Len(z) = n - m
        /\ \A i \in 1 .. n - m : z[i] = 0
    BY DEF Digits, Zeros
  <1>2. /\ s \in Seq(Digits(b)) /\ Len(s) = m
        /\ \A i \in 1 .. m : s[i] = (v \div Power(b, m - i)) % b
    BY DigitsOfType
  <1>3. /\ t \in Seq(Digits(b)) /\ Len(t) = n
        /\ \A i \in 1 .. n : t[i] = (v \div Power(b, n - i)) % b
    BY DigitsOfType
  <1> HIDE DEF z, s, t
  <1> DEFINE u == z \o s
  <1>4. u \in Seq(Digits(b)) /\ Len(u) = n
    <2>1. z \in Seq(Digits(b)) /\ Len(z) = n - m /\ s \in Seq(Digits(b)) /\ Len(s) = m
      BY <1>1, <1>2
    <2> QED
      BY <2>1
  <1>5. ASSUME NEW i \in 1 .. n
        PROVE  u[i] = IF i <= n - m THEN z[i] ELSE s[i - (n - m)]
    <2>1. z \in Seq(Digits(b)) /\ Len(z) = n - m /\ s \in Seq(Digits(b)) /\ Len(s) = m
      BY <1>1, <1>2
    <2>2. i \in 1 .. Len(z) + Len(s)
      BY <2>1
    <2>3. u[i] = IF i <= Len(z) THEN z[i] ELSE s[i - Len(z)]
      BY <2>1, <2>2, ConcatProperties
    <2> QED
      BY <2>1, <2>3
  <1> HIDE DEF u
  <1>6. ASSUME NEW i \in 1 .. n
        PROVE  u[i] = t[i]
    <2>1. CASE i <= n - m
      <3> DEFINE p == Power(b, n - i)
      <3>1. p \in Nat /\ v < p
        <4>1. n - i \in Nat /\ m <= n - i
          BY <2>1
        <4>2. Power(b, m) <= p /\ p \in Nat /\ Power(b, m) \in Nat
          BY <4>1, PowerGrows, PowerStep
        <4> QED
          BY <4>2
      <3>2. t[i] = (v \div p) % b
        BY <1>3
      <3> HIDE DEF p
      <3>3. v \div p = 0
        BY <3>1
      <3>4. 0 % b = 0
        OBVIOUS
      <3>5. u[i] = z[i] /\ z[i] = 0
        BY <1>1, <1>5, <2>1
      <3> QED
        BY <3>2, <3>3, <3>4, <3>5
    <2>2. CASE ~(i <= n - m)
      <3>1. i - (n - m) \in 1 .. m /\ m - (i - (n - m)) = n - i
        BY <2>2
      <3>2. s[i - (n - m)] = (v \div Power(b, n - i)) % b
        BY <1>2, <3>1
      <3>3. u[i] = s[i - (n - m)] /\ t[i] = (v \div Power(b, n - i)) % b
        BY <1>3, <1>5, <2>2
      <3> QED
        BY <3>2, <3>3
    <2> QED
      BY <2>1, <2>2
  <1>7. u = t
    BY <1>3, <1>4, <1>6, SeqEqual
  <1> QED
    BY <1>7 DEF u, z, s, t

\* Lengths are numbers.
LEMMA LengthTypes ==
    ASSUME NEW n \in Nat
    PROVE  EncodedLen(n) \in Nat /\ DecodedLen(n) \in Nat
  <1>1. n \div BlockLen \in Nat /\ n % BlockLen \in Nat
    BY Bases, DivProperties
  <1>2. n \div DigitBlockLen \in Nat /\ n % DigitBlockLen \in Nat
    <2>1. DigitBlockLen \in Nat \ {0}
      BY BlockLengths
    <2> QED
      BY <2>1, DivProperties
  <1>3. DigitsFor(n % BlockLen) \in Nat /\ BytesIn(n % DigitBlockLen) \in Nat
    BY <1>1, <1>2, DigitsForProperties, BytesInProperties
  <1>4. (n \div BlockLen) * DigitBlockLen \in Nat /\ (n \div DigitBlockLen) * BlockLen \in Nat
    BY <1>1, <1>2, Bases, BlockLengths
  <1> QED
    BY <1>3, <1>4 DEF EncodedLen, DecodedLen

LEMMA EncodeBlockType ==
    ASSUME NEW x \in Seq(Byte)
    PROVE  EncodeBlock(x) \in Seq(Digit) /\ Len(EncodeBlock(x)) = EncodedLen(Len(x))
  <1>1. ValueOf(x, ByteBase) \in Nat
    BY Bases, ValueBound DEF Byte
  <1>2. EncodedLen(Len(x)) \in Nat
    BY LenProperties, LengthTypes
  <1> QED
    BY <1>1, <1>2, Bases, DigitsOfType DEF EncodeBlock, Digit

LEMMA DecodeBlockType ==
    ASSUME NEW d \in Seq(Digit)
    PROVE  DecodeBlock(d) \in Seq(Byte) /\ Len(DecodeBlock(d)) = DecodedLen(Len(d))
  <1> DEFINE raw == MinimalBytes(ValueOf(d, Base))
             len == DecodedLen(Len(d))
  <1>1. ValueOf(d, Base) \in Nat
    BY Bases, ValueBound DEF Digit
  <1>2. raw \in Seq(Byte)
    <2>1. PICK m \in Nat : raw = DigitsOf(ValueOf(d, Base), ByteBase, m)
      BY <1>1, MinimalBytesProperties
    <2> QED
      BY <1>1, <2>1, Bases, DigitsOfType DEF Byte
  <1>3. len \in Nat
    BY LenProperties, LengthTypes
  <1>4. DecodeBlock(d) = IF Len(raw) < len
                         THEN [i \in 1 .. len - Len(raw) |-> 0] \o raw
                         ELSE SubSeq(raw, 1, len)
    BY DEF DecodeBlock
  <1> HIDE DEF raw, len
  <1>5. CASE Len(raw) < len
    <2> DEFINE n == len - Len(raw)
               z == [i \in 1 .. n |-> 0]
    <2>1. n \in Nat
      BY <1>2, <1>3, <1>5, LenProperties
    <2> HIDE DEF n
    <2>2. 0 \in Byte
      BY Bases DEF Byte, Digits
    <2>3. z \in Seq(Byte)
      BY <2>1, <2>2
    <2> HIDE DEF z
    <2>4. z \o raw \in Seq(Byte)
      BY <1>2, <2>3
    <2>5. Len(z) = n
      BY <2>1 DEF z
    <2>6. Len(z \o raw) = len
      BY <1>2, <1>3, <2>3, <2>5, LenProperties, ConcatProperties DEF n
    <2>7. DecodeBlock(d) = z \o raw
      BY <1>4, <1>5 DEF z, n
    <2> QED
      BY <2>4, <2>6, <2>7 DEF len
  <1>6. CASE ~(Len(raw) < len)
    <2>1. SubSeq(raw, 1, len) \in Seq(Byte)
      <3>1. \A i \in 1 .. len : raw[i] \in Byte
        BY <1>2, <1>3, <1>6, ElementOfSeq
      <3> QED
        BY <1>3, <3>1, SubSeqProperties
    <2>2. Len(SubSeq(raw, 1, len)) = len
      <3>1. \A i \in 1 .. len : raw[i] \in Byte
        BY <1>2, <1>3, <1>6, ElementOfSeq
      <3> QED
        BY <1>3, <3>1, SubSeqProperties
    <2>3. DecodeBlock(d) = SubSeq(raw, 1, len)
      BY <1>4, <1>6
    <2> QED
      BY <2>1, <2>2, <2>3 DEF len
  <1> QED
    BY <1>5, <1>6

\* A block is decoded to what it was encoded from.
LEMMA BlockRoundTrip ==
    ASSUME NEW x \in Seq(Byte), Len(x) \in 1 .. BlockLen
    PROVE  DecodeBlock(EncodeBlock(x)) = x
  <1> DEFINE n == Len(x)
             v == ValueOf(x, ByteBase)
             k == EncodedLen(n)
             d == DigitsOf(v, Base, k)
  <1>1. v \in Nat /\ v < Power(ByteBase, n) /\ DigitsOf(v, ByteBase, n) = x
    BY Bases, ValueBound, DigitsOfValue DEF Byte
  <1>2. n \in Nat /\ k \in Nat /\ k = DigitsFor(n) /\ DecodedLen(k) = n
    BY Bases, BlockLengths
  <1>3. Power(ByteBase, n) <= Power(Base, k) /\ Power(ByteBase, n) \in Nat
        /\ Power(Base, k) \in Nat
    BY <1>2, Bases, DigitsForProperties, PowerStep
  <1>4. EncodeBlock(x) = d
    BY DEF EncodeBlock
  <1> HIDE DEF v, k, n
  <1>5. v < Power(Base, k)
    BY <1>1, <1>3
  <1>6. ValueOf(d, Base) = v /\ Len(d) = k
    BY <1>1, <1>2, <1>5, Bases, ValueOfDigits, DigitsOfType
  <1>7. PICK m \in Nat : /\ MinimalBytes(v) = DigitsOf(v, ByteBase, m)
                         /\ v < Power(ByteBase, m)
                         /\ \A i \in Nat : v < Power(ByteBase, i) => m <= i
    BY <1>1, MinimalBytesProperties
  <1>8. m <= n
    BY <1>1, <1>2, <1>7
  <1> DEFINE raw == MinimalBytes(v)
  <1>9. raw \in Seq(Byte) /\ Len(raw) = m
    BY <1>1, <1>7, Bases, DigitsOfType DEF Byte
  <1>10. DecodeBlock(d) = IF Len(raw) < n
                          THEN [i \in 1 .. n - Len(raw) |-> 0] \o raw
                          ELSE SubSeq(raw, 1, n)
    BY <1>2, <1>6 DEF DecodeBlock
  <1>11. CASE m < n
    <2>1. Zeros(n - m) \o DigitsOf(v, ByteBase, m) = DigitsOf(v, ByteBase, n)
      <3>1. /\ v \in Nat /\ n \in Nat /\ ByteBase \in Nat /\ ByteBase >= 2
            /\ v < Power(ByteBase, m) /\ m <= n
        BY <1>1, <1>2, <1>7, <1>8, Bases
      <3> QED
        BY <3>1, LeadingZeros
    <2>2. DecodeBlock(d) = Zeros(n - m) \o raw
      BY <1>9, <1>10, <1>11 DEF Zeros
    <2> QED
      BY <1>1, <1>4, <1>7, <2>1, <2>2
  <1>12. CASE m = n
    <2>1. raw = x
      BY <1>1, <1>7, <1>12
    <2> HIDE DEF raw
    <2>2. SubSeq(raw, 1, n) = raw
      BY <1>9, <1>12, SubSeqAll
    <2>3. DecodeBlock(d) = SubSeq(raw, 1, n)
      BY <1>2, <1>9, <1>10, <1>12
    <2> QED
      BY <1>4, <2>1, <2>2, <2>3
  <1> QED
    BY <1>2, <1>8, <1>11, <1>12
-----------------------------------------------------------------------------
(* Streams of blocks.                                                      *)

LEMMA BlocksFull ==
    ASSUME NEW S, NEW s \in Seq(S), NEW n \in Nat \ {0}, Whole(s, n)
    PROVE  \A i \in 1 .. Len(BlocksOf(s, n)) : Len(BlocksOf(s, n)[i]) = n
  <1> PICK k \in Nat : Len(s) = k * n
    BY DEF Whole
  <1>1. (Len(s) + n - 1) \div n = k
    <2>1. Len(s) + n - 1 = k * n + (n - 1) /\ n - 1 \in 0 .. n - 1
      <3>1. k * n \in Nat
        OBVIOUS
      <3> QED
        BY <3>1
    <2> QED
      BY <2>1, DivUnique
  <1>2. /\ Len(BlocksOf(s, n)) = k
        /\ \A i \in 1 .. k : BlocksOf(s, n)[i] =
              SubSeq(s, (i - 1) * n + 1, IF i * n < Len(s) THEN i * n ELSE Len(s))
    BY <1>1, BlocksType
  <1>3. ASSUME NEW i \in 1 .. k
        PROVE  Len(BlocksOf(s, n)[i]) = n
    <2>1. PICK j \in Nat : i = j + 1 /\ i - 1 = j
      <3>1. i - 1 \in Nat /\ i = (i - 1) + 1
        OBVIOUS
      <3> QED
        BY <3>1
    <2> DEFINE p == j * n
               q == i * n
    <2>2. p \in Nat /\ q = p + n /\ q <= Len(s) /\ Len(s) \in Nat
      BY <2>1, MultMonotonic, LenProperties
    <2>3. BlocksOf(s, n)[i] = SubSeq(s, (i - 1) * n + 1, IF q < Len(s) THEN q ELSE Len(s))
      BY <1>2
    <2>4. BlocksOf(s, n)[i] = SubSeq(s, p + 1, IF q < Len(s) THEN q ELSE Len(s))
      BY <2>1, <2>3, Zenon
    <2> HIDE DEF p, q
    <2>5. (IF q < Len(s) THEN q ELSE Len(s)) = q
      BY <2>2
    <2>6. BlocksOf(s, n)[i] = SubSeq(s, p + 1, q)
      BY <2>4, <2>5, Zenon
    <2>7. Len(SubSeq(s, p + 1, q)) = n
      BY <2>2
    <2> QED
      BY <2>6, <2>7
  <1> QED
    BY <1>2, <1>3

LEMMA WholeNone == ASSUME NEW n \in Nat \ {0} PROVE Whole(<< >>, n)
  <1>1. Len(<< >>) = 0 * n
    OBVIOUS
  <1> QED
    BY <1>1 DEF Whole

LEMMA WholeOne == ASSUME NEW s, NEW n \in Nat \ {0}, Len(s) = n PROVE Whole(s, n)
  <1>1. Len(s) = 1 * n
    OBVIOUS
  <1> QED
    BY <1>1 DEF Whole

LEMMA WholeConcat ==
    ASSUME NEW S, NEW s \in Seq(S), NEW t \in Seq(S), NEW n \in Nat \ {0},
           Whole(s, n), Whole(t, n)
    PROVE  Whole(s \o t, n)
  <1>1. PICK k \in Nat : Len(s) = k * n
    BY DEF Whole
  <1>2. PICK l \in Nat : Len(t) = l * n
    BY DEF Whole
  <1>3. Len(s \o t) = Len(s) + Len(t)
    OBVIOUS
  <1>4. (k + l) * n = k * n + l * n /\ k + l \in Nat
    OBVIOUS
  <1> QED
    BY <1>1, <1>2, <1>3, <1>4, Zenon DEF Whole

BlockEncoder == [x \in Seq(Byte) |-> EncodeBlock(x)]

BlockDecoder == [d \in Seq(Digit) |->
                    IF IsValidEncodingLength(Len(d)) THEN DecodeBlock(d) ELSE << >>]

LEMMA CodersAreMaps ==
    IsMap(BlockEncoder, Seq(Byte), Seq(Digit)) /\ IsMap(BlockDecoder, Seq(Digit), Seq(Byte))
  <1>1. \A x \in Seq(Byte) : EncodeBlock(x) \in Seq(Digit)
    BY EncodeBlockType
  <1>2. \A d \in Seq(Digit) : DecodeBlock(d) \in Seq(Byte)
    BY DecodeBlockType
  <1>3. << >> \in Seq(Byte)
    OBVIOUS
  <1>4. IsMap(BlockEncoder, Seq(Byte), Seq(Digit))
    BY <1>1 DEF BlockEncoder, IsMap
  <1>5. IsMap(BlockDecoder, Seq(Digit), Seq(Byte))
    BY <1>2, <1>3 DEF BlockDecoder, IsMap
  <1> QED
    BY <1>4, <1>5

LEMMA EncodeBlockwise ==
    ASSUME NEW x \in Seq(Byte)
    PROVE  Encode(x) = Blockwise(BlockEncoder, x, BlockLen)
  <1> DEFINE blocks == BlocksOf(x, BlockLen)
  <1>1. blocks \in Seq(Seq(Byte))
    BY Bases, BlocksType
  <1>2. Encode(x) = FlattenSeq([i \in DOMAIN blocks |-> EncodeBlock(blocks[i])])
    BY DEF Encode
  <1> HIDE DEF blocks
  <1>3. ASSUME NEW i \in DOMAIN blocks
        PROVE  EncodeBlock(blocks[i]) = BlockEncoder[blocks[i]]
    <2>1. blocks[i] \in Seq(Byte)
      BY <1>1
    <2> QED
      BY <2>1, Zenon DEF BlockEncoder
  <1>4. [i \in DOMAIN blocks |-> EncodeBlock(blocks[i])] = Map(BlockEncoder, blocks)
    BY <1>3, Zenon DEF Map
  <1> QED
    BY <1>2, <1>4 DEF Blockwise, blocks

LEMMA DecodeBlockwise ==
    ASSUME NEW d \in Seq(Digit)
    PROVE  /\ Decode(d) = [bytes |-> Decode(d).bytes, ok |-> Decode(d).ok]
           /\ Decode(d).bytes = Blockwise(BlockDecoder, d, DigitBlockLen)
           /\ Decode(d).ok = \A i \in 1 .. Len(BlocksOf(d, DigitBlockLen)) :
                 IsValidEncodingLength(Len(BlocksOf(d, DigitBlockLen)[i]))
  <1> DEFINE blocks == BlocksOf(d, DigitBlockLen)
             Valid(i) == IsValidEncodingLength(Len(blocks[i]))
             pieces == [i \in DOMAIN blocks |->
                          IF Valid(i) THEN DecodeBlock(blocks[i]) ELSE << >>]
  <1>0. DigitBlockLen \in Nat \ {0}
    BY BlockLengths
  <1>1. blocks \in Seq(Seq(Digit))
    BY <1>0, BlocksType
  <1> DEFINE allValid == \A i \in DOMAIN blocks : Valid(i)
  <1>2. Decode(d) = [bytes |-> FlattenSeq(pieces), ok |-> allValid]
    BY DEF Decode
  <1>3. DOMAIN blocks = 1 .. Len(blocks)
    BY <1>1, LenProperties
  <1> HIDE DEF blocks
  <1>4. ASSUME NEW i \in DOMAIN blocks
        PROVE  pieces[i] = BlockDecoder[blocks[i]]
    <2>1. blocks[i] \in Seq(Digit)
      BY <1>1
    <2>2. BlockDecoder[blocks[i]] =
            IF IsValidEncodingLength(Len(blocks[i])) THEN DecodeBlock(blocks[i]) ELSE << >>
      BY <2>1, Zenon DEF BlockDecoder
    <2> QED
      BY <2>2, Zenon
  <1>5. pieces = Map(BlockDecoder, blocks)
    <2>1. pieces = [i \in DOMAIN blocks |-> pieces[i]]
      BY Zenon
    <2> HIDE DEF pieces
    <2> QED
      BY <1>4, <2>1, Zenon DEF Map
  <1>9. allValid = \A i \in 1 .. Len(blocks) : Valid(i)
    BY <1>3, Zenon
  <1> HIDE DEF pieces, allValid
  <1>6. Decode(d).bytes = FlattenSeq(pieces) /\ Decode(d).ok = allValid
    BY <1>2
  <1>7. Decode(d).ok = \A i \in 1 .. Len(blocks) : Valid(i)
    BY <1>6, <1>9, Zenon
  <1>8. Decode(d) = [bytes |-> Decode(d).bytes, ok |-> Decode(d).ok]
    BY <1>2, Zenon
  <1> QED
    BY <1>5, <1>6, <1>7, <1>8, Zenon DEF Blockwise, blocks

\* Encode and Decode return bytes and digits.
LEMMA CodecType ==
    /\ \A x \in Seq(Byte) : Encode(x) \in Seq(Digit)
    /\ \A d \in Seq(Digit) : Decode(d).bytes \in Seq(Byte) /\ Decode(d).ok \in BOOLEAN
  <1>1. ASSUME NEW x \in Seq(Byte)
        PROVE  Encode(x) \in Seq(Digit)
    BY Bases, CodersAreMaps, EncodeBlockwise, BlockwiseType
  <1>2. ASSUME NEW d \in Seq(Digit)
        PROVE  Decode(d).bytes \in Seq(Byte)
    <2>1. DigitBlockLen \in Nat \ {0}
      BY BlockLengths
    <2> QED
      BY <2>1, CodersAreMaps, DecodeBlockwise, BlockwiseType
  <1>3. ASSUME NEW d \in Seq(Digit)
        PROVE  Decode(d).ok \in BOOLEAN
    BY DEF Decode
  <1> QED
    BY <1>1, <1>2, <1>3

LEMMA EncodeConcat ==
    ASSUME NEW x \in Seq(Byte), NEW y \in Seq(Byte), Whole(x, BlockLen)
    PROVE  Encode(x \o y) = Encode(x) \o Encode(y)
  <1>1. x \o y \in Seq(Byte)
    OBVIOUS
  <1>2. Blockwise(BlockEncoder, x \o y, BlockLen)
          = Blockwise(BlockEncoder, x, BlockLen) \o Blockwise(BlockEncoder, y, BlockLen)
    BY Bases, CodersAreMaps, BlockwiseConcat
  <1> QED
    BY <1>1, <1>2, EncodeBlockwise

LEMMA EncodeShort ==
    /\ Encode(<< >>) = << >>
    /\ \A x \in Seq(Byte) : x # << >> /\ Len(x) <= BlockLen => Encode(x) = EncodeBlock(x)
  <1>1. Encode(<< >>) = << >>
    <2>1. << >> \in Seq(Byte)
      OBVIOUS
    <2> QED
      BY <2>1, Bases, EncodeBlockwise, BlockwiseNone
  <1>2. ASSUME NEW x \in Seq(Byte), x # << >>, Len(x) <= BlockLen
        PROVE  Encode(x) = EncodeBlock(x)
    <2>1. Blockwise(BlockEncoder, x, BlockLen) = BlockEncoder[x]
      BY <1>2, Bases, CodersAreMaps, BlockwiseOne
    <2>2. BlockEncoder[x] = EncodeBlock(x)
      BY Zenon DEF BlockEncoder
    <2> QED
      BY <2>1, <2>2, EncodeBlockwise
  <1> QED
    BY <1>1, <1>2

LEMMA DecodeConcat ==
    ASSUME NEW d \in Seq(Digit), NEW e \in Seq(Digit), Whole(d, DigitBlockLen)
    PROVE  /\ Decode(d \o e).bytes = Decode(d).bytes \o Decode(e).bytes
           /\ Decode(d).ok
           /\ Decode(d \o e).ok = Decode(e).ok
  <1>0. DigitBlockLen \in Nat \ {0} /\ IsValidEncodingLength(DigitBlockLen)
    BY BlockLengths DEF IsValidEncodingLength
  <1>1. d \o e \in Seq(Digit)
    OBVIOUS
  <1>2. Blockwise(BlockDecoder, d \o e, DigitBlockLen)
          = Blockwise(BlockDecoder, d, DigitBlockLen) \o Blockwise(BlockDecoder, e, DigitBlockLen)
    BY <1>0, CodersAreMaps, BlockwiseConcat
  <1>3. Decode(d \o e).bytes = Decode(d).bytes \o Decode(e).bytes
    BY <1>1, <1>2, DecodeBlockwise
  <1> DEFINE a == BlocksOf(d, DigitBlockLen)
             b == BlocksOf(e, DigitBlockLen)
             c == BlocksOf(d \o e, DigitBlockLen)
             Valid(block) == IsValidEncodingLength(Len(block))
  <1>4. a \in Seq(Seq(Digit)) /\ b \in Seq(Seq(Digit))
    BY <1>0, BlocksType
  <1>5. c = a \o b
    BY <1>0, BlocksConcat
  <1>6. \A i \in 1 .. Len(a) : Valid(a[i])
    BY <1>0, BlocksFull
  <1>7. /\ Decode(d).ok = \A i \in 1 .. Len(a) : Valid(a[i])
        /\ Decode(e).ok = \A i \in 1 .. Len(b) : Valid(b[i])
        /\ Decode(d \o e).ok = \A i \in 1 .. Len(c) : Valid(c[i])
    BY <1>1, DecodeBlockwise
  <1> HIDE DEF a, b, c, Valid
  <1>8. /\ Len(c) = Len(a) + Len(b) /\ Len(a) \in Nat /\ Len(b) \in Nat
        /\ \A i \in 1 .. Len(a) : c[i] = a[i]
        /\ \A i \in 1 .. Len(b) : c[Len(a) + i] = b[i]
    BY <1>4, <1>5
  <1>9. (\A i \in 1 .. Len(c) : Valid(c[i])) <=> (\A i \in 1 .. Len(b) : Valid(b[i]))
    <2>1. ASSUME \A i \in 1 .. Len(c) : Valid(c[i]), NEW i \in 1 .. Len(b)
          PROVE  Valid(b[i])
      <3>1. Len(a) + i \in 1 .. Len(c)
        BY <1>8
      <3> QED
        BY <1>8, <2>1, <3>1
    <2>2. ASSUME \A i \in 1 .. Len(b) : Valid(b[i]), NEW i \in 1 .. Len(c)
          PROVE  Valid(c[i])
      <3>1. CASE i \in 1 .. Len(a)
        BY <1>6, <1>8, <3>1
      <3>2. CASE i \notin 1 .. Len(a)
        <4>1. PICK j \in 1 .. Len(b) : i = Len(a) + j
          <5>1. i - Len(a) \in 1 .. Len(b) /\ i = Len(a) + (i - Len(a))
            BY <1>8, <3>2
          <5> QED
            BY <5>1
        <4> QED
          BY <1>8, <2>2, <4>1
      <3> QED
        BY <3>1, <3>2
    <2> QED
      BY <2>1, <2>2
  <1> QED
    BY <1>3, <1>6, <1>7, <1>9

LEMMA DecodeShort ==
    /\ Decode(<< >>) = [bytes |-> << >>, ok |-> TRUE]
    /\ \A d \in Seq(Digit) :
          d # << >> /\ Len(d) <= DigitBlockLen /\ IsValidEncodingLength(Len(d))
            => Decode(d) = [bytes |-> DecodeBlock(d), ok |-> TRUE]
  <1>0. DigitBlockLen \in Nat \ {0}
    BY BlockLengths
  <1>1. Decode(<< >>) = [bytes |-> << >>, ok |-> TRUE]
    <2>1. << >> \in Seq(Digit)
      OBVIOUS
    <2>2. Blockwise(BlockDecoder, << >>, DigitBlockLen) = << >>
      BY <1>0, BlockwiseNone
    <2>3. Decode(<< >>).ok
      BY <1>0, <2>1, WholeNone, DecodeConcat
    <2> QED
      BY <2>1, <2>2, <2>3, DecodeBlockwise
  <1>2. ASSUME NEW d \in Seq(Digit), d # << >>, Len(d) <= DigitBlockLen,
               IsValidEncodingLength(Len(d))
        PROVE  Decode(d) = [bytes |-> DecodeBlock(d), ok |-> TRUE]
    <2>1. Blockwise(BlockDecoder, d, DigitBlockLen) = BlockDecoder[d]
      BY <1>0, <1>2, CodersAreMaps, BlockwiseOne
    <2>2. BlockDecoder[d] = DecodeBlock(d)
      BY <1>2, Zenon DEF BlockDecoder
    <2>3. BlocksOf(d, DigitBlockLen) = <<d>>
      BY <1>0, <1>2, OneBlock
    <2>4. Decode(d).ok
      <3>1. \A i \in 1 .. Len(<<d>>) : IsValidEncodingLength(Len(<<d>>[i]))
        BY <1>2
      <3> QED
        BY <2>3, <3>1, DecodeBlockwise
    <2> QED
      BY <2>1, <2>2, <2>4, DecodeBlockwise
  <1> QED
    BY <1>1, <1>2

\* Decode gives some byte for every whole stretch of digits.
LEMMA DecodeSome ==
    ASSUME NEW d \in Seq(Digit), d # << >>, Decode(d).ok
    PROVE  Decode(d).bytes # << >>
  <1> DEFINE n == DigitBlockLen
  <1>1. n \in Nat \ {0} /\ DecodedLen(n) = BlockLen /\ BlockLen \in Nat \ {0}
    BY BlockLengths, Bases
  <1>2. Len(d) \in Nat \ {0}
    BY EmptySeq, LenProperties
  <1>3. ASSUME NEW e \in Seq(Digit), Len(e) \in 1 .. n, IsValidEncodingLength(Len(e))
        PROVE  DecodeBlock(e) # << >>
    <2>1. Len(DecodeBlock(e)) = DecodedLen(Len(e))
      BY DecodeBlockType
    <2>2. CASE Len(e) = n
      BY <1>1, <2>1, <2>2
    <2>3. CASE Len(e) # n
      <3>1. Len(e) \in Nat /\ Len(e) < n /\ Len(e) - 1 \in Nat /\ Len(e) - 1 <= Len(e)
        BY <1>1, <1>3, <2>3
      <3>2. BytesIn(Len(e)) # BytesIn(Len(e) - 1)
        BY <1>3, <2>3 DEF IsValidEncodingLength
      <3>3. /\ BytesIn(Len(e)) \in Nat /\ BytesIn(Len(e) - 1) \in Nat
            /\ BytesIn(Len(e) - 1) <= BytesIn(Len(e))
        BY <3>1, BytesInMonotonic, BytesInProperties
      <3>4. Len(e) \div n = 0 /\ Len(e) % n = Len(e)
        BY <1>1, <3>1, DivUnique
      <3>5. DecodedLen(Len(e)) = BytesIn(Len(e))
        BY <1>1, <3>3, <3>4 DEF DecodedLen
      <3> QED
        BY <2>1, <3>2, <3>3, <3>5
    <2> QED
      BY <2>2, <2>3
  <1>4. CASE Len(d) <= n
    <2>1. BlocksOf(d, n) = <<d>>
      BY <1>1, <1>4, OneBlock
    <2>2. IsValidEncodingLength(Len(d))
      <3>1. 1 \in 1 .. Len(BlocksOf(d, n)) /\ BlocksOf(d, n)[1] = d
        BY <2>1
      <3> QED
        BY <3>1, DecodeBlockwise
    <2>3. Decode(d).bytes = DecodeBlock(d)
      BY <1>4, <2>2, DecodeShort
    <2> QED
      BY <1>1, <1>2, <1>3, <1>4, <2>2, <2>3
  <1>5. CASE ~(Len(d) <= n)
    <2> DEFINE e == SubSeq(d, 1, n)
               g == SubSeq(d, n + 1, Len(d))
    <2>1. n \in 0 .. Len(d)
      BY <1>1, <1>2, <1>5
    <2>2. d = e \o g
      BY <2>1, SplitAt
    <2>3. e \in Seq(Digit) /\ Len(e) = n /\ g \in Seq(Digit)
      BY <1>1, <1>2, <2>1, SubSeqProperties
    <2> HIDE DEF e, g
    <2>4. Decode(d).bytes = Decode(e).bytes \o Decode(g).bytes
      <3>1. Whole(e, n)
        BY <1>1, <2>3, WholeOne
      <3>2. Decode(e \o g).bytes = Decode(e).bytes \o Decode(g).bytes
        BY <2>3, <3>1, DecodeConcat
      <3> QED
        BY <2>2, <3>2
    <2>5. IsValidEncodingLength(n) /\ e # << >> /\ Len(e) <= n
      BY <1>1, <2>3 DEF IsValidEncodingLength
    <2>6. Decode(e).bytes = DecodeBlock(e)
      BY <2>3, <2>5, DecodeShort
    <2>7. DecodeBlock(e) # << >>
      BY <1>1, <1>3, <2>3, <2>5
    <2>8. /\ Decode(e).bytes # << >> /\ Decode(e).bytes \in Seq(Byte)
          /\ Decode(g).bytes \in Seq(Byte)
      BY <2>3, <2>6, <2>7, CodecType
    <2> QED
      BY <2>4, <2>8, ConcatProperties, EmptySeq
  <1> QED
    BY <1>4, <1>5

\* What has been encoded is decoded to the same bytes, whatever their number:
\* the lengths of short blocks are chosen such that a decoder finds them.
THEOREM CodecRoundTrip ==
    \A x \in Seq(Byte) : Decode(Encode(x)) = [bytes |-> x, ok |-> TRUE]
  <1> DEFINE T == {x \in Seq(Byte) : Decode(Encode(x)) = [bytes |-> x, ok |-> TRUE]}
  <1>1. << >> \in T
    <2>1. << >> \in Seq(Byte)
      OBVIOUS
    <2> QED
      BY <2>1, EncodeShort, DecodeShort
  <1>2. ASSUME NEW x \in Seq(Byte), x # << >>, Len(x) <= BlockLen
        PROVE  Encode(x) = EncodeBlock(x) /\ x \in T
    <2> DEFINE d == EncodeBlock(x)
    <2>1. Len(x) \in 1 .. BlockLen
      BY <1>2, Bases, EmptySeq, LenProperties
    <2>2. /\ d \in Seq(Digit) /\ Len(d) = EncodedLen(Len(x))
          /\ EncodedLen(Len(x)) \in 1 .. DigitBlockLen
          /\ IsValidEncodingLength(EncodedLen(Len(x)))
      BY <2>1, EncodeBlockType, BlockLengths
    <2>3. DecodeBlock(d) = x
      BY <2>1, BlockRoundTrip
    <2>4. Encode(x) = d
      BY <1>2, EncodeShort
    <2> HIDE DEF d
    <2>5. d # << >> /\ Len(d) <= DigitBlockLen /\ IsValidEncodingLength(Len(d))
      <3>1. DigitBlockLen \in Nat
        BY BlockLengths
      <3> QED
        BY <2>2, <3>1
    <2>6. Decode(d) = [bytes |-> DecodeBlock(d), ok |-> TRUE]
      BY <2>2, <2>5, DecodeShort
    <2> QED
      BY <2>3, <2>4, <2>6 DEF d
  <1>3. ASSUME NEW x \in Seq(Byte), NEW y \in Seq(Byte), Len(x) = BlockLen, y \in T
        PROVE  x \o y \in T
    <2> DEFINE d == Encode(x)
               e == Encode(y)
    <2>1. x # << >> /\ Len(x) <= BlockLen
      BY <1>3, Bases
    <2>2. d = EncodeBlock(x) /\ x \in T
      BY <1>2, <2>1
    <2>3. d \in Seq(Digit) /\ e \in Seq(Digit)
      BY CodecType
    <2>4. Len(d) = DigitBlockLen
      <3>1. Len(d) = EncodedLen(BlockLen)
        BY <1>3, <2>2, EncodeBlockType
      <3>2. BlockLen \in 1 .. BlockLen
        BY Bases
      <3>3. EncodedLen(BlockLen) = DigitsFor(BlockLen)
        BY <3>2, BlockLengths
      <3> QED
        BY <3>1, <3>3 DEF DigitBlockLen
    <2>5. Encode(x \o y) = d \o e
      BY <1>3, Bases, WholeOne, EncodeConcat
    <2>6. Whole(d, DigitBlockLen)
      BY <2>4, BlockLengths, WholeOne
    <2>7. Decode(d) = [bytes |-> x, ok |-> TRUE] /\ Decode(e) = [bytes |-> y, ok |-> TRUE]
      BY <1>3, <2>2
    <2> HIDE DEF d, e
    <2>8. /\ Decode(d \o e).bytes = Decode(d).bytes \o Decode(e).bytes
          /\ Decode(d \o e).ok = Decode(e).ok
      BY <2>3, <2>6, DecodeConcat
    <2>9. Decode(d \o e) = [bytes |-> x \o y, ok |-> TRUE]
      <3>1. d \o e \in Seq(Digit)
        BY <2>3
      <3>2. Decode(d \o e) = [bytes |-> Decode(d \o e).bytes, ok |-> Decode(d \o e).ok]
        BY <3>1, DecodeBlockwise
      <3> QED
        BY <2>7, <2>8, <3>2
    <2>10. x \o y \in Seq(Byte)
      OBVIOUS
    <2> QED
      BY <2>5, <2>9, <2>10
  <1> HIDE DEF T
  <1>4. \A x \in Seq(Byte) : x \in T
    BY <1>1, <1>2, <1>3, Bases, BlockInduct
  <1> QED
    BY <1>4 DEF T
-----------------------------------------------------------------------------
(* Texts and their punctuation.                                            *)

NoPunct(s) == \A i \in DOMAIN s : s[i] # Punct

Mark(b) == IF b THEN <<Punct>> ELSE << >>

LEMMA MinIsLeast ==
    ASSUME NEW T, T \subseteq Nat, T # {}
    PROVE  Min(T) \in T /\ \A y \in T : Min(T) <= y
  BY LeastNat DEF Min

LEMMA PunctFirst ==
    ASSUME NEW s \in Seq(Char)
    PROVE  \/ PunctAt(s) = 0 /\ NoPunct(s)
           \/ /\ PunctAt(s) \in 1 .. Len(s) /\ s[PunctAt(s)] = Punct
              /\ \A i \in 1 .. PunctAt(s) - 1 : s[i] # Punct
  <1> DEFINE I == {i \in 1 .. Len(s) : s[i] = Punct}
  <1>1. PunctAt(s) = IF I # {} THEN Min(I) ELSE 0
    BY DEF PunctAt, SelectInSeq
  <1>2. CASE I = {}
    BY <1>1, <1>2, LenProperties DEF NoPunct
  <1>3. CASE I # {}
    <2>1. I \subseteq Nat
      OBVIOUS
    <2>2. Min(I) \in I /\ \A y \in I : Min(I) <= y
      BY <1>3, <2>1, MinIsLeast
    <2>3. PunctAt(s) = Min(I)
      BY <1>1, <1>3
    <2>4. PunctAt(s) \in 1 .. Len(s) /\ s[PunctAt(s)] = Punct
      BY <2>2, <2>3
    <2>5. ASSUME NEW i \in 1 .. PunctAt(s) - 1
          PROVE  s[i] # Punct
      <3>1. Len(s) \in Nat /\ i \in 1 .. Len(s) /\ ~(PunctAt(s) <= i)
        BY <2>4
      <3>2. i \notin I
        BY <3>1, <2>2, <2>3
      <3> QED
        BY <3>1, <3>2
    <2> QED
      BY <2>4, <2>5
  <1> QED
    BY <1>2, <1>3

LEMMA MarkType == ASSUME NEW b PROVE Mark(b) \in Seq(Char)
  <1>1. Punct \in Char
    BY BaseAssumption DEF Punct, Char
  <1>2. <<Punct>> \in Seq(Char) /\ << >> \in Seq(Char)
    BY <1>1
  <1> QED
    BY <1>2 DEF Mark

\* How concatenations are grouped does not matter.
Moves(a, b, c) == (a \o b) \o c = a \o (b \o c)

LEMMA Moving ==
    ASSUME NEW S, NEW a \in Seq(S), NEW b \in Seq(S), NEW c \in Seq(S)
    PROVE  Moves(a, b, c)
  BY ConcatAssociative DEF Moves

MovesTwice(a, b, c, d) == (a \o (b \o c)) \o d = a \o (b \o (c \o d))

LEMMA MovingTwice ==
    ASSUME NEW S, NEW a \in Seq(S), NEW b \in Seq(S), NEW c \in Seq(S), NEW d \in Seq(S)
    PROVE  MovesTwice(a, b, c, d)
  <1>1. b \o c \in Seq(S)
    BY ConcatProperties
  <1>2. Moves(a, b \o c, d)
    BY <1>1, Moving, Zenon
  <1>3. Moves(b, c, d)
    BY Moving, Zenon
  <1> QED
    BY <1>2, <1>3, Zenon DEF Moves, MovesTwice

LEMMA Regroup ==
    ASSUME NEW a \in Seq(Char), NEW b \in Seq(Char), NEW c \in Seq(Char),
           NEW s, s = a \o b
    PROVE  s \o c = a \o (b \o c)
  <1>1. (a \o b) \o c = a \o (b \o c)
    BY ConcatAssociative
  <1> QED
    BY <1>1

LEMMA RegroupTwice ==
    ASSUME NEW a \in Seq(Char), NEW b \in Seq(Char), NEW c \in Seq(Char),
           NEW d \in Seq(Char), NEW s, s = a \o (b \o c)
    PROVE  s \o d = a \o (b \o (c \o d))
  <1> DEFINE e == b \o c
  <1>1. e \in Seq(Char)
    BY ConcatProperties
  <1>2. e \o d = b \o (c \o d)
    BY ConcatAssociative
  <1>3. s = a \o e
    OBVIOUS
  <1> HIDE DEF e
  <1>4. s \o d = a \o (e \o d)
    BY <1>1, <1>3, Regroup
  <1> QED
    BY <1>2, <1>4

\* A text with a punctuation is cut at the first one.
LEMMA CutHere ==
    ASSUME NEW s \in Seq(Char)
    PROVE  /\ BeforePunct(s) \in Seq(Char) /\ AfterPunct(s) \in Seq(Char)
           /\ HasPunct(s) \in BOOLEAN
           /\ NoPunct(BeforePunct(s)) /\ Len(BeforePunct(s)) <= Len(s)
           /\ s = BeforePunct(s) \o (Mark(HasPunct(s)) \o AfterPunct(s))
  <1> DEFINE n == PunctAt(s)
  <1>1. CASE ~HasPunct(s)
    <2>1. BeforePunct(s) = s /\ AfterPunct(s) = << >> /\ Mark(HasPunct(s)) = << >>
      BY <1>1 DEF BeforePunct, AfterPunct, Mark
    <2>2. NoPunct(s)
      BY <1>1, PunctFirst DEF HasPunct
    <2>3. << >> \in Seq(Char) /\ << >> \o << >> = << >> /\ s \o << >> = s
      BY EmptySeq, ConcatEmptySeq
    <2>4. Len(s) \in Nat
      OBVIOUS
    <2> QED
      BY <2>1, <2>2, <2>3, <2>4 DEF HasPunct
  <1>2. CASE HasPunct(s)
    <2>1. /\ n \in 1 .. Len(s) /\ s[n] = Punct
          /\ \A i \in 1 .. n - 1 : s[i] # Punct
      BY <1>2, PunctFirst DEF HasPunct
    <2>2. /\ BeforePunct(s) = SubSeq(s, 1, n - 1)
          /\ AfterPunct(s) = SubSeq(s, n + 1, Len(s))
          /\ Mark(HasPunct(s)) = <<Punct>>
      BY <1>2 DEF BeforePunct, AfterPunct, Mark
    <2>3. Len(s) \in Nat /\ \A i \in 1 .. Len(s) : s[i] \in Char
      OBVIOUS
    <2>4. /\ SubSeq(s, 1, n - 1) \in Seq(Char) /\ Len(SubSeq(s, 1, n - 1)) = n - 1
          /\ \A i \in 1 .. n - 1 : SubSeq(s, 1, n - 1)[i] = s[i]
      BY <2>1, <2>3, SubSeqProperties
    <2>5. /\ SubSeq(s, n + 1, Len(s)) \in Seq(Char)
          /\ SubSeq(s, n, Len(s)) = <<s[n]>> \o SubSeq(s, n + 1, Len(s))
      <3>1. \A i \in n + 1 .. Len(s) : s[i] \in Char
        BY <2>1, <2>3
      <3>2. SubSeq(s, n + 1, Len(s)) \in Seq(Char)
        BY <2>1, <2>3, <3>1, SubSeqProperties
      <3>3. Len(s) \in n .. Len(s)
        BY <2>1, <2>3
      <3> QED
        BY <2>1, <3>2, <3>3, SubSeqRecursiveFirst
    <2>6. s = SubSeq(s, 1, n - 1) \o SubSeq(s, n, Len(s))
      <3>1. n - 1 \in 0 .. Len(s) /\ (n - 1) + 1 = n
        BY <2>1, <2>3
      <3> QED
        BY <3>1, SplitAt
    <2>7. NoPunct(BeforePunct(s))
      BY <2>1, <2>2, <2>4, LenProperties DEF NoPunct
    <2>8. Len(BeforePunct(s)) <= Len(s)
      BY <2>1, <2>2, <2>3, <2>4
    <2>9. s = BeforePunct(s) \o (Mark(HasPunct(s)) \o AfterPunct(s))
      BY <2>1, <2>2, <2>5, <2>6
    <2> QED
      BY <2>2, <2>4, <2>5, <2>7, <2>8, <2>9 DEF HasPunct
  <1> QED
    BY <1>1, <1>2

\* Where the first punctuation of a text is known, so are the two parts.
LEMMA CutThere ==
    ASSUME NEW h \in Seq(Char), NoPunct(h), NEW t \in Seq(Char)
    PROVE  /\ HasPunct(h \o (<<Punct>> \o t))
           /\ BeforePunct(h \o (<<Punct>> \o t)) = h
           /\ AfterPunct(h \o (<<Punct>> \o t)) = t
  <1> DEFINE s == h \o (<<Punct>> \o t)
             n == Len(h) + 1
  <1>1. Punct \in Char /\ <<Punct>> \in Seq(Char) /\ Len(<<Punct>>) = 1
    BY BaseAssumption DEF Punct, Char
  <1>2. /\ <<Punct>> \o t \in Seq(Char) /\ Len(<<Punct>> \o t) = 1 + Len(t)
        /\ \A i \in 1 .. 1 + Len(t) :
            (<<Punct>> \o t)[i] = IF i = 1 THEN Punct ELSE t[i - 1]
    BY <1>1, ConcatProperties
  <1>3. /\ s \in Seq(Char) /\ Len(s) = Len(h) + 1 + Len(t)
        /\ \A i \in 1 .. Len(h) : s[i] = h[i]
        /\ s[n] = Punct
        /\ \A i \in 1 .. Len(t) : s[n + i] = t[i]
    BY <1>2, ConcatProperties
  <1>4. /\ Len(h) \in Nat /\ Len(t) \in Nat /\ DOMAIN h = 1 .. Len(h)
        /\ \A i \in 1 .. Len(h) : s[i] # Punct
    BY <1>3, LenProperties DEF NoPunct
  <1>5. PunctAt(s) = n
    <2>0. n \in 1 .. Len(s) /\ DOMAIN s = 1 .. Len(s)
      BY <1>3, <1>4, LenProperties
    <2>1. ~NoPunct(s)
      BY <1>3, <2>0 DEF NoPunct
    <2>2. /\ PunctAt(s) \in 1 .. Len(s) /\ s[PunctAt(s)] = Punct
          /\ \A i \in 1 .. PunctAt(s) - 1 : s[i] # Punct
      BY <1>3, <2>1, PunctFirst
    <2>3. ~(PunctAt(s) <= Len(h))
      BY <1>4, <2>2
    <2>4. ~(n <= PunctAt(s) - 1)
      <3> SUFFICES ASSUME n <= PunctAt(s) - 1 PROVE FALSE
        OBVIOUS
      <3>1. n \in 1 .. PunctAt(s) - 1
        BY <1>4, <2>0, <2>2
      <3> QED
        BY <1>3, <2>2, <3>1
    <2> QED
      BY <1>3, <1>4, <2>2, <2>3, <2>4
  <1>6. HasPunct(s)
    BY <1>4, <1>5 DEF HasPunct
  <1>7. BeforePunct(s) = h
    <2>1. BeforePunct(s) = SubSeq(s, 1, Len(h))
      BY <1>4, <1>5, <1>6 DEF BeforePunct
    <2>2. /\ SubSeq(s, 1, Len(h)) \in Seq(Char) /\ Len(SubSeq(s, 1, Len(h))) = Len(h)
          /\ \A i \in 1 .. Len(h) : SubSeq(s, 1, Len(h))[i] = h[i]
      BY <1>3, <1>4, SubSeqProperties
    <2> QED
      BY <2>1, <2>2, SeqEqual
  <1>8. AfterPunct(s) = t
    <2>1. AfterPunct(s) = SubSeq(s, n + 1, Len(s))
      BY <1>5, <1>6 DEF AfterPunct
    <2>2. /\ SubSeq(s, n + 1, Len(s)) \in Seq(Char)
          /\ Len(SubSeq(s, n + 1, Len(s))) = Len(t)
          /\ \A i \in 1 .. Len(t) : SubSeq(s, n + 1, Len(s))[i] = s[n + i]
      BY <1>3, <1>4, SubSeqProperties
    <2> QED
      BY <1>3, <2>1, <2>2, SeqEqual
  <1> QED
    BY <1>6, <1>7, <1>8

-----------------------------------------------------------------------------
(* The digits of a text, and digits in words.                              *)

LEMMA Chars ==
    /\ Digit \subseteq Char /\ Skip \in Char /\ Punct \in Char
    /\ IsValidByte(Skip) /\ ~IsDigit(Skip) /\ Skip # Punct
    /\ ~IsValidByte(Punct) /\ ~IsDigit(Punct)
    /\ \A c \in Digit : IsDigit(c) /\ IsValidByte(c) /\ c # Punct
    /\ \A c \in Char : IsDigit(c) => c \in Digit
  BY Bases DEF Digit, Digits, Char, Skip, Punct, IsDigit, IsValidByte

DigitPicker == [c \in Char |-> IF IsDigit(c) THEN <<c>> ELSE << >>]

LEMMA DigitsInMap ==
    /\ IsMap(DigitPicker, Char, Seq(Digit))
    /\ \A s \in Seq(Char) : DigitsIn(s) = FlattenSeq(Map(DigitPicker, s))
  <1>1. ASSUME NEW c \in Char
        PROVE  DigitPicker[c] \in Seq(Digit)
    <2>1. CASE IsDigit(c)
      <3>1. c \in Digit
        BY <2>1, Chars
      <3> QED
        BY <2>1, <3>1 DEF DigitPicker
    <2>2. CASE ~IsDigit(c)
      BY <2>2 DEF DigitPicker
    <2> QED
      BY <2>1, <2>2
  <1>2. IsMap(DigitPicker, Char, Seq(Digit))
    BY <1>1 DEF IsMap, DigitPicker
  <1>3. ASSUME NEW s \in Seq(Char)
        PROVE  DigitsIn(s) = FlattenSeq(Map(DigitPicker, s))
    <2>1. ASSUME NEW i \in DOMAIN s
          PROVE  (IF IsDigit(s[i]) THEN <<s[i]>> ELSE << >>) = DigitPicker[s[i]]
      <3>1. s[i] \in Char
        OBVIOUS
      <3> QED
        BY <3>1, Zenon DEF DigitPicker
    <2>2. [i \in DOMAIN s |-> IF IsDigit(s[i]) THEN <<s[i]>> ELSE << >>]
            = Map(DigitPicker, s)
      BY <2>1, Zenon DEF Map
    <2> QED
      BY <2>2, Zenon DEF DigitsIn
  <1> QED
    BY <1>2, <1>3

LEMMA DigitsInType == ASSUME NEW s \in Seq(Char) PROVE DigitsIn(s) \in Seq(Digit)
  <1>1. Map(DigitPicker, s) \in Seq(Seq(Digit))
    BY DigitsInMap, MapType
  <1>2. FlattenSeq(Map(DigitPicker, s)) \in Seq(Digit)
    BY <1>1, FlattenType
  <1> QED
    BY <1>2, DigitsInMap

LEMMA DigitsInConcat ==
    ASSUME NEW s \in Seq(Char), NEW t \in Seq(Char)
    PROVE  DigitsIn(s \o t) = DigitsIn(s) \o DigitsIn(t)
  <1> DEFINE f == DigitPicker
  <1>1. IsMap(f, Char, Seq(Digit))
    BY DigitsInMap
  <1>2. s \o t \in Seq(Char)
    OBVIOUS
  <1> HIDE DEF f
  <1>3. Map(f, s \o t) = Map(f, s) \o Map(f, t)
    BY <1>1, MapConcat
  <1>4. Map(f, s) \in Seq(Seq(Digit)) /\ Map(f, t) \in Seq(Seq(Digit))
    BY <1>1, MapType
  <1>5. FlattenSeq(Map(f, s) \o Map(f, t)) = FlattenSeq(Map(f, s)) \o FlattenSeq(Map(f, t))
    BY <1>4, FlattenConcat
  <1> QED
    BY <1>2, <1>3, <1>5, DigitsInMap DEF f

LEMMA DigitsInOne ==
    /\ DigitsIn(<< >>) = << >>
    /\ \A c \in Char : DigitsIn(<<c>>) = IF IsDigit(c) THEN <<c>> ELSE << >>
  <1>1. DigitsIn(<< >>) = << >>
    <2>1. Map(DigitPicker, << >>) = << >> /\ << >> \in Seq(Char)
      BY DEF Map
    <2>2. FlattenSeq(<< >>) = << >>
      BY DEF FlattenSeq
    <2> QED
      BY <2>1, <2>2, DigitsInMap
  <1>2. ASSUME NEW c \in Char
        PROVE  DigitsIn(<<c>>) = IF IsDigit(c) THEN <<c>> ELSE << >>
    <2> DEFINE d == IF IsDigit(c) THEN <<c>> ELSE << >>
    <2>1. Map(DigitPicker, <<c>>) = <<DigitPicker[c]>> /\ <<c>> \in Seq(Char)
      BY DEF Map
    <2>2. DigitPicker[c] = d /\ DigitPicker[c] \in Seq(Digit)
      <3>1. DigitPicker[c] = d
        BY Zenon DEF DigitPicker
      <3>2. DigitPicker[c] \in Seq(Digit)
        BY DigitsInMap DEF IsMap
      <3> QED
        BY <3>1, <3>2
    <2> HIDE DEF d
    <2>3. d \in Seq(Digit) /\ << >> \in Seq(Seq(Digit))
      BY <2>2
    <2>4. FlattenSeq(Append(<< >>, d)) = FlattenSeq(<< >>) \o d
      BY <2>3, FlattenAppend
    <2>5. FlattenSeq(<< >>) = << >>
      BY DEF FlattenSeq
    <2>6. Append(<< >>, d) = <<d>> /\ << >> \o d = d
      BY <2>3
    <2> QED
      BY <2>1, <2>2, <2>4, <2>5, <2>6, DigitsInMap DEF d
  <1> QED
    BY <1>1, <1>2

LEMMA DigitsInDigits == \A s \in Seq(Digit) : DigitsIn(s) = s
  <1> DEFINE T == {s \in Seq(Digit) : DigitsIn(s) = s}
  <1>1. << >> \in T
    <2>1. << >> \in Seq(Digit)
      OBVIOUS
    <2> QED
      BY <2>1, DigitsInOne
  <1>2. ASSUME NEW s \in Seq(Digit), s # << >>, Len(s) <= 1
        PROVE  s \in T
    <2>1. PICK c \in Digit : s = <<c>>
      <3>1. Len(s) = 1
        <4>1. Len(s) \in Nat /\ Len(s) # 0
          BY <1>2, EmptySeq, LenProperties
        <4> QED
          BY <1>2, <4>1
      <3>2. s[1] \in Digit /\ s = <<s[1]>>
        BY <3>1, OneElement
      <3> DEFINE d == s[1]
      <3> HIDE DEF d
      <3>3. d \in Digit /\ s = <<d>>
        BY <3>2 DEF d
      <3> QED
        BY <3>3
    <2>2. DigitsIn(<<c>>) = <<c>>
      BY Chars, DigitsInOne
    <2> QED
      BY <2>1, <2>2
  <1>3. ASSUME NEW s \in Seq(Digit), NEW t \in Seq(Digit), Len(s) = 1, t \in T
        PROVE  s \o t \in T
    <2>1. DigitsIn(s) = s
      <3>1. s # << >> /\ Len(s) <= 1
        BY <1>3
      <3> QED
        BY <1>2, <3>1
    <2>2. s \in Seq(Char) /\ t \in Seq(Char)
      BY Chars
    <2>3. DigitsIn(s \o t) = s \o t
      BY <1>3, <2>1, <2>2, DigitsInConcat
    <2>4. s \o t \in Seq(Digit)
      OBVIOUS
    <2> QED
      BY <2>3, <2>4
  <1> HIDE DEF T
  <1>4. \A s \in Seq(Digit) : s \in T
    <2> DEFINE n == 1
    <2>1. n \in Nat \ {0} /\ n = 1
      OBVIOUS
    <2> HIDE DEF n
    <2>2. /\ \A s \in Seq(Digit) : s # << >> /\ Len(s) <= n => s \in T
          /\ \A s \in Seq(Digit), t \in Seq(Digit) : Len(s) = n /\ t \in T => s \o t \in T
      BY <1>2, <1>3, <2>1
    <2> QED
      BY <1>1, <2>1, <2>2, BlockInduct
  <1> QED
    BY <1>4 DEF T

LEMMA DigitsInLength ==
    \A s \in Seq(Char) : Len(DigitsIn(s)) \in Nat /\ Len(DigitsIn(s)) <= Len(s)
  <1> DEFINE T == { s \in Seq(Char) : Len(DigitsIn(s)) <= Len(s) }
  <1>1. << >> \in T
    BY DigitsInOne
  <1>2. ASSUME NEW s \in Seq(Char), s # << >>, Len(s) <= 1
        PROVE  s \in T
    <2>1. Len(s) = 1
      BY <1>2, EmptySeq
    <2>2. s[1] \in Char /\ s = <<s[1]>>
      BY <2>1, OneElement
    <2>3. DigitsIn(s) = <<s[1]>> \/ DigitsIn(s) = << >>
      BY <2>2, DigitsInOne
    <2>4. Len(<<s[1]>>) = 1 /\ Len(<< >>) = 0
      OBVIOUS
    <2> QED
      BY <2>1, <2>3, <2>4
  <1>3. ASSUME NEW s \in Seq(Char), NEW t \in Seq(Char), Len(s) = 1, t \in T
        PROVE  s \o t \in T
    <2>1. s \in T
      <3> HIDE DEF T
      <3>0. Len(<< >>) = 0
        OBVIOUS
      <3>1. s # << >>
        BY <1>3, <3>0
      <3>2. Len(s) <= 1
        BY <1>3
      <3> QED
        BY <1>2, <3>1, <3>2
    <2>2. /\ DigitsIn(s) \in Seq(Digit) /\ DigitsIn(t) \in Seq(Digit)
          /\ DigitsIn(s \o t) = DigitsIn(s) \o DigitsIn(t)
      BY DigitsInType, DigitsInConcat
    <2>3. /\ Len(DigitsIn(s) \o DigitsIn(t)) = Len(DigitsIn(s)) + Len(DigitsIn(t))
          /\ Len(s \o t) = Len(s) + Len(t) /\ s \o t \in Seq(Char)
          /\ Len(DigitsIn(s)) \in Nat /\ Len(DigitsIn(t)) \in Nat
      BY <2>2, ConcatProperties, LenProperties
    <2>4. Len(DigitsIn(s)) <= Len(s) /\ Len(DigitsIn(t)) <= Len(t)
      BY <1>3, <2>1
    <2>5. Len(s) \in Nat /\ Len(t) \in Nat
      BY LenProperties
    <2>6. Len(DigitsIn(s \o t)) <= Len(s \o t)
      BY <2>2, <2>3, <2>4, <2>5
    <2> QED
      BY <2>3, <2>6
  <1> HIDE DEF T
  <1>4. 1 \in Nat \ {0}
    OBVIOUS
  <1>5. \A s \in Seq(Char) : s \in T
    BY <1>1, <1>2, <1>3, <1>4, BlockInduct
  <1> QED
    BY <1>5, DigitsInType, LenProperties DEF T

LEMMA AllValidConcat ==
    ASSUME NEW s \in Seq(Char), NEW t \in Seq(Char)
    PROVE  AllValid(s \o t) <=> AllValid(s) /\ AllValid(t)
  <1>1. /\ Len(s) \in Nat /\ Len(t) \in Nat /\ Len(s \o t) = Len(s) + Len(t)
        /\ DOMAIN s = 1 .. Len(s) /\ DOMAIN t = 1 .. Len(t)
        /\ DOMAIN (s \o t) = 1 .. Len(s) + Len(t)
    BY LenProperties, ConcatProperties
  <1>2. /\ \A i \in 1 .. Len(s) : (s \o t)[i] = s[i]
        /\ \A i \in 1 .. Len(t) : (s \o t)[Len(s) + i] = t[i]
    OBVIOUS
  <1>3. \A i \in 1 .. Len(s) + Len(t) :
           i \in 1 .. Len(s) \/ \E j \in 1 .. Len(t) : i = Len(s) + j
    <2> SUFFICES ASSUME NEW i \in 1 .. Len(s) + Len(t), i \notin 1 .. Len(s)
                 PROVE  \E j \in 1 .. Len(t) : i = Len(s) + j
      OBVIOUS
    <2>1. i - Len(s) \in 1 .. Len(t) /\ i = Len(s) + (i - Len(s))
      BY <1>1
    <2> QED
      BY <2>1
  <1>4. /\ \A i \in 1 .. Len(s) : i \in 1 .. Len(s) + Len(t)
        /\ \A i \in 1 .. Len(t) : Len(s) + i \in 1 .. Len(s) + Len(t)
    BY <1>1
  <1>5. ASSUME AllValid(s), AllValid(t), NEW i \in DOMAIN (s \o t)
        PROVE  IsValidByte((s \o t)[i])
    <2>1. CASE i \in 1 .. Len(s)
      BY <1>1, <1>2, <1>5, <2>1, Zenon DEF AllValid
    <2>2. CASE i \notin 1 .. Len(s)
      <3>1. PICK j \in 1 .. Len(t) : i = Len(s) + j
        BY <1>1, <1>3, <2>2, Zenon
      <3> QED
        BY <1>1, <1>2, <1>5, <3>1, Zenon DEF AllValid
    <2> QED
      BY <2>1, <2>2
  <1>6. ASSUME AllValid(s \o t)
        PROVE  AllValid(s) /\ AllValid(t)
    <2>1. ASSUME NEW i \in 1 .. Len(s) PROVE IsValidByte(s[i])
      BY <1>1, <1>2, <1>4, <1>6, Zenon DEF AllValid
    <2>2. ASSUME NEW i \in 1 .. Len(t) PROVE IsValidByte(t[i])
      BY <1>1, <1>2, <1>4, <1>6, Zenon DEF AllValid
    <2> QED
      BY <1>1, <2>1, <2>2, Zenon DEF AllValid
  <1>7. AllValid(s) /\ AllValid(t) => AllValid(s \o t)
    BY <1>5, Zenon DEF AllValid
  <1> QED
    BY <1>6, <1>7

LEMMA NoPunctConcat ==
    ASSUME NEW s \in Seq(Char), NEW t \in Seq(Char), NoPunct(s), NoPunct(t)
    PROVE  s \o t \in Seq(Char) /\ NoPunct(s \o t)
  BY ConcatProperties, LenProperties DEF NoPunct

LEMMA ValidIsNoPunct == ASSUME NEW s, AllValid(s) PROVE NoPunct(s)
  BY Chars DEF AllValid, NoPunct

\* A text without a punctuation is one unfinished sentence.
LEMMA CutNowhere ==
    ASSUME NEW s \in Seq(Char), NoPunct(s)
    PROVE  ~HasPunct(s) /\ BeforePunct(s) = s /\ AfterPunct(s) = << >>
  <1>1. ~(PunctAt(s) \in 1 .. Len(s) /\ s[PunctAt(s)] = Punct)
    BY LenProperties DEF NoPunct
  <1>2. PunctAt(s) = 0
    BY <1>1, PunctFirst
  <1> QED
    BY <1>2 DEF HasPunct, BeforePunct, AfterPunct

\* Text without a punctuation in front of another text.
LEMMA CutLater ==
    ASSUME NEW a \in Seq(Char), NoPunct(a), NEW s \in Seq(Char)
    PROVE  /\ HasPunct(a \o s) <=> HasPunct(s)
           /\ BeforePunct(a \o s) = a \o BeforePunct(s)
           /\ AfterPunct(a \o s) = AfterPunct(s)
  <1> DEFINE b == BeforePunct(s)
             t == AfterPunct(s)
  <1>1. /\ b \in Seq(Char) /\ t \in Seq(Char) /\ NoPunct(b)
        /\ HasPunct(s) \in BOOLEAN /\ s = b \o (Mark(HasPunct(s)) \o t)
    BY CutHere
  <1>2. CASE HasPunct(s)
    <2>1. s = b \o (<<Punct>> \o t)
      BY <1>1, <1>2 DEF Mark
    <2>2. <<Punct>> \o t \in Seq(Char) /\ a \o b \in Seq(Char) /\ NoPunct(a \o b)
      BY <1>1, Chars, ConcatProperties, NoPunctConcat
    <2> HIDE DEF b, t
    <2>3. a \o s = (a \o b) \o (<<Punct>> \o t)
      <3> DEFINE u == <<Punct>> \o t
      <3>1. b \in Seq(Char) /\ u \in Seq(Char) /\ s = b \o u
        BY <1>1, <2>1, <2>2
      <3> HIDE DEF u
      <3>2. a \o (b \o u) = (a \o b) \o u
        BY <3>1, Regroup
      <3> QED
        BY <3>1, <3>2 DEF u
    <2>4. /\ HasPunct((a \o b) \o (<<Punct>> \o t))
          /\ BeforePunct((a \o b) \o (<<Punct>> \o t)) = a \o b
          /\ AfterPunct((a \o b) \o (<<Punct>> \o t)) = t
      BY <1>1, <2>2, CutThere
    <2> QED
      BY <1>2, <2>3, <2>4 DEF b, t
  <1>3. CASE ~HasPunct(s)
    <2>1. s = BeforePunct(s) /\ AfterPunct(s) = << >> /\ NoPunct(s)
      BY <1>1, <1>3 DEF BeforePunct, AfterPunct
    <2>2. a \o s \in Seq(Char) /\ NoPunct(a \o s)
      BY <2>1, NoPunctConcat
    <2>3. /\ ~HasPunct(a \o s) /\ BeforePunct(a \o s) = a \o s
          /\ AfterPunct(a \o s) = << >>
      BY <2>2, CutNowhere
    <2> QED
      BY <1>1, <1>3, <2>1, <2>3
  <1> QED
    BY <1>2, <1>3

\* The third sentence is ended only if the first two are.
LEMMA FramedThrough ==
    ASSUME NEW text \in Seq(Char), Framed(text)
    PROVE  HasPunct(text) /\ HasPunct(AfterPunct(text))
  <1>1. << >> \in Seq(Char) /\ NoPunct(<< >>)
    BY DEF NoPunct
  <1>2. ~HasPunct(<< >>) /\ AfterPunct(<< >>) = << >>
    BY <1>1, CutNowhere
  <1>3. \A s \in Seq(Char) : ~HasPunct(s) => AfterPunct(s) = << >>
    BY DEF AfterPunct
  <1>4. AfterPunct(text) \in Seq(Char)
    BY CutHere
  <1> QED
    BY <1>2, <1>3, <1>4 DEF Framed

\* A text of one sentence, of two, or of three, and some more.
OneSentence(h, s) == h \o (<<Punct>> \o s)
TwoSentences(h, b, s) == h \o (<<Punct>> \o (b \o (<<Punct>> \o s)))
ThreeSentences(h, b, f, s) ==
    h \o (<<Punct>> \o (b \o (<<Punct>> \o (f \o (<<Punct>> \o s)))))

\* Where the sentences of a text are known, so are its parts.
LEMMA BodyParts ==
    ASSUME NEW h \in Seq(Char), NoPunct(h), NEW b \in Seq(Char), NoPunct(b),
           NEW s \in Seq(Char)
    PROVE  /\ HeaderOf(OneSentence(h, b \o s)) = h
           /\ BodyOf(OneSentence(h, b \o s)) = b \o BeforePunct(s)
           /\ HasPunct(AfterPunct(OneSentence(h, b \o s))) <=> HasPunct(s)
           /\ AfterPunct(AfterPunct(OneSentence(h, b \o s))) = AfterPunct(s)
  <1>1. b \o s \in Seq(Char)
    BY ConcatProperties
  <1>2. /\ HeaderOf(OneSentence(h, b \o s)) = h
        /\ AfterPunct(OneSentence(h, b \o s)) = b \o s
    BY <1>1, CutThere DEF HeaderOf, OneSentence
  <1>3. /\ HasPunct(b \o s) <=> HasPunct(s)
        /\ BeforePunct(b \o s) = b \o BeforePunct(s)
        /\ AfterPunct(b \o s) = AfterPunct(s)
    BY CutLater
  <1> QED
    BY <1>2, <1>3 DEF BodyOf

LEMMA FooterParts ==
    ASSUME NEW h \in Seq(Char), NoPunct(h), NEW b \in Seq(Char), NoPunct(b),
           NEW s \in Seq(Char)
    PROVE  /\ HeaderOf(TwoSentences(h, b, s)) = h
           /\ BodyOf(TwoSentences(h, b, s)) = b
           /\ FooterOf(TwoSentences(h, b, s)) = BeforePunct(s)
           /\ Framed(TwoSentences(h, b, s)) = HasPunct(s)
  <1> DEFINE u == <<Punct>> \o s
             text == TwoSentences(h, b, s)
  <1>1. u \in Seq(Char) /\ b \o u \in Seq(Char)
    BY Chars, ConcatProperties
  <1>2. HeaderOf(text) = h /\ AfterPunct(text) = b \o u
    BY <1>1, CutThere DEF HeaderOf, TwoSentences
  <1>3. BeforePunct(b \o u) = b /\ AfterPunct(b \o u) = s
    BY <1>1, CutThere
  <1> HIDE DEF u, text
  <1>4. /\ HeaderOf(text) = h /\ BodyOf(text) = b
        /\ FooterOf(text) = BeforePunct(s) /\ Framed(text) = HasPunct(s)
    BY <1>2, <1>3 DEF BodyOf, FooterOf, Framed
  <1> QED
    BY <1>4 DEF text

LEMMA FramedParts ==
    ASSUME NEW h \in Seq(Char), NoPunct(h), NEW b \in Seq(Char), NoPunct(b),
           NEW f \in Seq(Char), NoPunct(f), NEW s \in Seq(Char)
    PROVE  /\ HeaderOf(ThreeSentences(h, b, f, s)) = h
           /\ BodyOf(ThreeSentences(h, b, f, s)) = b
           /\ FooterOf(ThreeSentences(h, b, f, s)) = f
           /\ Framed(ThreeSentences(h, b, f, s))
           /\ TrailerOf(ThreeSentences(h, b, f, s)) = s
  <1> DEFINE u == f \o (<<Punct>> \o s)
             v == b \o (<<Punct>> \o u)
             text == ThreeSentences(h, b, f, s)
  <1>1. u \in Seq(Char) /\ v \in Seq(Char)
    BY Chars, ConcatProperties
  <1>2. HasPunct(u) /\ BeforePunct(u) = f /\ AfterPunct(u) = s
    BY CutThere
  <1> HIDE DEF u
  <1>3. BeforePunct(v) = b /\ AfterPunct(v) = u
    BY <1>1, CutThere
  <1>4. text = h \o (<<Punct>> \o v)
    BY DEF ThreeSentences, u
  <1> HIDE DEF v, text
  <1>5. BeforePunct(text) = h /\ AfterPunct(text) = v
    BY <1>1, <1>4, CutThere
  <1>6. /\ HeaderOf(text) = h /\ BodyOf(text) = b /\ FooterOf(text) = f
        /\ Framed(text) /\ TrailerOf(text) = s
    BY <1>2, <1>3, <1>5 DEF HeaderOf, BodyOf, FooterOf, Framed, TrailerOf
  <1> QED
    BY <1>6 DEF text

LEMMA DigitsAreValid ==
    ASSUME NEW s \in Seq(Digit)
    PROVE  s \in Seq(Char) /\ AllValid(s)
  <1>1. \A i \in DOMAIN s : s[i] \in Digit
    OBVIOUS
  <1> QED
    BY <1>1, Chars DEF AllValid

WordSpacer == [w \in Seq(Digit) |-> IF Len(w) = BytesPerWord THEN Append(w, Skip) ELSE w]

LEMMA SpacerIsMap == IsMap(WordSpacer, Seq(Digit), Seq(Char))
  <1>1. ASSUME NEW w \in Seq(Digit)
        PROVE  w \in Seq(Char) /\ Append(w, Skip) \in Seq(Char)
    BY Chars
  <1> QED
    BY <1>1 DEF IsMap, WordSpacer

LEMMA SpacedBlockwise ==
    ASSUME NEW s \in Seq(Digit)
    PROVE  SpacedWords(s) = Blockwise(WordSpacer, s, BytesPerWord)
  <1> DEFINE words == BlocksOf(s, BytesPerWord)
             Spaced(i) == IF Len(words[i]) = BytesPerWord THEN Append(words[i], Skip)
                                                          ELSE words[i]
  <1>1. words \in Seq(Seq(Digit))
    BY BytesPerWordAssumption, BlocksType
  <1>2. SpacedWords(s) = FlattenSeq([i \in DOMAIN words |-> Spaced(i)])
    BY DEF SpacedWords
  <1> HIDE DEF words
  <1>3. ASSUME NEW i \in DOMAIN words
        PROVE  Spaced(i) = WordSpacer[words[i]]
    <2>1. words[i] \in Seq(Digit)
      BY <1>1
    <2> QED
      BY <2>1, Zenon DEF WordSpacer
  <1> HIDE DEF Spaced
  <1>4. [i \in DOMAIN words |-> Spaced(i)] = Map(WordSpacer, words)
    BY <1>3, Zenon DEF Map
  <1> QED
    BY <1>2, <1>4 DEF Blockwise, words

LEMMA SpacedShort ==
    /\ SpacedWords(<< >>) = << >>
    /\ \A s \in Seq(Digit) : s # << >> /\ Len(s) <= BytesPerWord
          => SpacedWords(s) = IF Len(s) = BytesPerWord THEN Append(s, Skip) ELSE s
  <1>1. SpacedWords(<< >>) = << >>
    <2>1. << >> \in Seq(Digit)
      OBVIOUS
    <2> QED
      BY <2>1, BytesPerWordAssumption, SpacedBlockwise, BlockwiseNone
  <1>2. ASSUME NEW s \in Seq(Digit), s # << >>, Len(s) <= BytesPerWord
        PROVE  SpacedWords(s) = IF Len(s) = BytesPerWord THEN Append(s, Skip) ELSE s
    <2>1. Blockwise(WordSpacer, s, BytesPerWord) = WordSpacer[s]
      BY <1>2, BytesPerWordAssumption, SpacerIsMap, BlockwiseOne
    <2>2. WordSpacer[s] = IF Len(s) = BytesPerWord THEN Append(s, Skip) ELSE s
      BY Zenon DEF WordSpacer
    <2> QED
      BY <2>1, <2>2, SpacedBlockwise, Zenon
  <1> QED
    BY <1>1, <1>2

LEMMA SpacedConcat ==
    ASSUME NEW s \in Seq(Digit), NEW t \in Seq(Digit), Whole(s, BytesPerWord)
    PROVE  SpacedWords(s \o t) = SpacedWords(s) \o SpacedWords(t)
  <1>1. s \o t \in Seq(Digit)
    OBVIOUS
  <1>2. Blockwise(WordSpacer, s \o t, BytesPerWord)
          = Blockwise(WordSpacer, s, BytesPerWord) \o Blockwise(WordSpacer, t, BytesPerWord)
    BY BytesPerWordAssumption, SpacerIsMap, BlockwiseConcat
  <1> QED
    BY <1>1, <1>2, SpacedBlockwise

\* The spaces between words change nothing: no foreign character and no
\* punctuation comes in, and the digits are still the same.
LEMMA WordsKeepDigits ==
    \A s \in Seq(Digit) : /\ SpacedWords(s) \in Seq(Char)
                          /\ AllValid(SpacedWords(s))
                          /\ DigitsIn(SpacedWords(s)) = s
  <1> DEFINE Good(s, w) == w \in Seq(Char) /\ AllValid(w) /\ DigitsIn(w) = s
             T == {s \in Seq(Digit) : Good(s, SpacedWords(s))}
  <1>1. << >> \in T
    <2>1. << >> \in Seq(Digit) /\ << >> \in Seq(Char)
      OBVIOUS
    <2>2. AllValid(<< >>)
      BY DEF AllValid
    <2> QED
      BY <2>1, <2>2, SpacedShort, DigitsInOne
  <1>2. ASSUME NEW s \in Seq(Digit), s # << >>, Len(s) <= BytesPerWord
        PROVE  s \in T
    <2>1. s \in Seq(Char) /\ AllValid(s) /\ DigitsIn(s) = s
      BY DigitsAreValid, DigitsInDigits
    <2>2. CASE Len(s) = BytesPerWord
      <3>1. SpacedWords(s) = Append(s, Skip)
        BY <1>2, <2>2, SpacedShort
      <3>2. Append(s, Skip) = s \o <<Skip>> /\ <<Skip>> \in Seq(Char) /\ s \o << >> = s
        BY <2>1, Chars
      <3>3. AllValid(<<Skip>>)
        BY Chars DEF AllValid
      <3>4. DigitsIn(<<Skip>>) = << >>
        BY Chars, DigitsInOne
      <3>5. s \o <<Skip>> \in Seq(Char) /\ AllValid(s \o <<Skip>>)
        <4>1. s \o <<Skip>> \in Seq(Char)
          BY <2>1, <3>2
        <4>2. AllValid(s \o <<Skip>>)
          BY <2>1, <3>2, <3>3, AllValidConcat
        <4> QED
          BY <4>1, <4>2
      <3>6. DigitsIn(s \o <<Skip>>) = s
        BY <2>1, <3>2, <3>4, DigitsInConcat
      <3> QED
        BY <3>1, <3>2, <3>5, <3>6
    <2>3. CASE Len(s) # BytesPerWord
      <3>1. SpacedWords(s) = s
        BY <1>2, <2>3, SpacedShort
      <3> QED
        BY <2>1, <3>1
    <2> QED
      BY <2>2, <2>3
  <1>3. ASSUME NEW s \in Seq(Digit), NEW t \in Seq(Digit), Len(s) = BytesPerWord, t \in T
        PROVE  s \o t \in T
    <2> DEFINE v == SpacedWords(s)
               w == SpacedWords(t)
    <2>1. SpacedWords(s \o t) = v \o w
      BY <1>3, BytesPerWordAssumption, WholeOne, SpacedConcat
    <2>2. s # << >> /\ Len(s) <= BytesPerWord
      BY <1>3, BytesPerWordAssumption
    <2>3. Good(s, v) /\ Good(t, w)
      BY <1>2, <1>3, <2>2
    <2> HIDE DEF v, w
    <2>4. v \o w \in Seq(Char) /\ AllValid(v \o w) /\ DigitsIn(v \o w) = s \o t
      <3>1. v \o w \in Seq(Char)
        BY <2>3
      <3>2. AllValid(v \o w)
        BY <2>3, AllValidConcat
      <3>3. DigitsIn(v \o w) = s \o t
        BY <2>3, DigitsInConcat
      <3> QED
        BY <3>1, <3>2, <3>3
    <2>5. s \o t \in Seq(Digit)
      OBVIOUS
    <2> QED
      BY <2>1, <2>4, <2>5
  <1> HIDE DEF T
  <1>4. \A s \in Seq(Digit) : s \in T
    BY <1>1, <1>2, <1>3, BytesPerWordAssumption, BlockInduct
  <1> QED
    BY <1>4 DEF T

-----------------------------------------------------------------------------
(* Beginnings of sequences and of texts.                                   *)

LEMMA PrefixSplits ==
    ASSUME NEW S, NEW s \in Seq(S), NEW t \in Seq(S), IsPrefix(s, t)
    PROVE  \E u \in Seq(S) : t = s \o u
  <1>1. Len(s) \in Nat /\ Len(t) \in Nat /\ Len(s) <= Len(t)
    BY LenProperties DEF IsPrefix
  <1>2. SubSeq(s, 1, Len(s)) = s /\ SubSeq(t, 1, Len(s)) = s
    BY SubSeqFull DEF IsPrefix
  <1>3. SubSeq(t, 1, Len(s)) \o SubSeq(t, Len(s) + 1, Len(t)) = t
    <2>1. Len(s) \in 0 .. Len(t)
      BY <1>1
    <2> QED
      BY <2>1, SplitAt
  <1>4. SubSeq(t, Len(s) + 1, Len(t)) \in Seq(S)
    BY <1>1, SubSeqProperties
  <1> QED
    BY <1>2, <1>3, <1>4

LEMMA PrefixOfMore ==
    ASSUME NEW S, NEW s \in Seq(S), NEW t \in Seq(S), NEW u \in Seq(S), IsPrefix(s, t)
    PROVE  IsPrefix(s, t \o u)
  <1>1. PICK v \in Seq(S) : t = s \o v
    BY PrefixSplits
  <1>2. (s \o v) \o u = s \o (v \o u) /\ v \o u \in Seq(S)
    OBVIOUS
  <1>3. IsPrefix(s, s \o (v \o u))
    BY <1>2, PrefixOfConcat
  <1> QED
    BY <1>1, <1>2, <1>3

LEMMA PrefixInBoth ==
    ASSUME NEW S, NEW a \in Seq(S), NEW s \in Seq(S), NEW t \in Seq(S), IsPrefix(s, t)
    PROVE  IsPrefix(a \o s, a \o t)
  <1>1. PICK v \in Seq(S) : t = s \o v
    BY PrefixSplits
  <1>2. (a \o s) \o v = a \o (s \o v) /\ a \o s \in Seq(S)
    OBVIOUS
  <1>3. IsPrefix(a \o s, (a \o s) \o v)
    BY <1>2, PrefixOfConcat
  <1> QED
    BY <1>1, <1>2, <1>3

\* More text behind three sentences does not change them.
LEMMA FramedStays ==
    ASSUME NEW s \in Seq(Char), NEW u \in Seq(Char), Framed(s)
    PROVE  Framed(s \o u) /\ BodyOf(s \o u) = BodyOf(s)
  <1> DEFINE h == BeforePunct(s)
             s2 == AfterPunct(s)
             b == BeforePunct(s2)
             s3 == AfterPunct(s2)
             f == BeforePunct(s3)
             t == AfterPunct(s3)
  <1>1. h \in Seq(Char) /\ NoPunct(h) /\ s2 \in Seq(Char) /\ s = h \o (<<Punct>> \o s2)
    BY CutHere, FramedThrough DEF Mark
  <1> HIDE DEF h, s2
  <1>2. b \in Seq(Char) /\ NoPunct(b) /\ s3 \in Seq(Char) /\ s2 = b \o (<<Punct>> \o s3)
    BY <1>1, CutHere, FramedThrough DEF Mark, s2
  <1> HIDE DEF b, s3
  <1>3. f \in Seq(Char) /\ NoPunct(f) /\ t \in Seq(Char) /\ s3 = f \o (<<Punct>> \o t)
    BY <1>2, CutHere DEF Mark, Framed, s3, s2
  <1> HIDE DEF f, t
  <1>4. <<Punct>> \in Seq(Char) /\ t \o u \in Seq(Char)
    BY <1>3, Chars
  <1> DEFINE v3 == f \o (<<Punct>> \o (t \o u))
             v2 == b \o (<<Punct>> \o v3)
  <1>5. s3 \o u = v3
    <2>1. f \in Seq(Char) /\ t \in Seq(Char) /\ <<Punct>> \in Seq(Char)
      BY <1>3, <1>4
    <2>2. MovesTwice(f, <<Punct>>, t, u)
      BY <2>1, MovingTwice, Zenon
    <2> QED
      BY <1>3, <2>2, Zenon DEF MovesTwice
  <1>6. s2 \o u = v2
    <2>1. b \in Seq(Char) /\ s3 \in Seq(Char) /\ <<Punct>> \in Seq(Char)
      BY <1>2, <1>4
    <2>2. MovesTwice(b, <<Punct>>, s3, u)
      BY <2>1, MovingTwice, Zenon
    <2> QED
      BY <1>2, <1>5, <2>2, Zenon DEF MovesTwice
  <1>7. s \o u = h \o (<<Punct>> \o v2)
    <2>1. h \in Seq(Char) /\ s2 \in Seq(Char) /\ <<Punct>> \in Seq(Char)
      BY <1>1, <1>4
    <2>2. MovesTwice(h, <<Punct>>, s2, u)
      BY <2>1, MovingTwice, Zenon
    <2> QED
      BY <1>1, <1>6, <2>2, Zenon DEF MovesTwice
  <1>8. s \o u = ThreeSentences(h, b, f, t \o u) /\ s = ThreeSentences(h, b, f, t)
    BY <1>1, <1>2, <1>3, <1>7 DEF ThreeSentences
  <1> HIDE DEF v3, v2
  <1>9. /\ Framed(ThreeSentences(h, b, f, t \o u))
        /\ BodyOf(ThreeSentences(h, b, f, t \o u)) = b
    <2> DEFINE w == t \o u
    <2>1. w \in Seq(Char) /\ NoPunct(h) /\ NoPunct(b) /\ NoPunct(f)
      BY <1>1, <1>2, <1>3, <1>4
    <2>2. h \in Seq(Char) /\ b \in Seq(Char) /\ f \in Seq(Char)
      BY <1>1, <1>2, <1>3
    <2> HIDE DEF w
    <2>3. Framed(ThreeSentences(h, b, f, w)) /\ BodyOf(ThreeSentences(h, b, f, w)) = b
      BY <2>1, <2>2, FramedParts
    <2> QED
      BY <2>3 DEF w
  <1>10. BodyOf(s) = b
    BY DEF BodyOf, b, s2
  <1> QED
    BY <1>8, <1>9, <1>10

-----------------------------------------------------------------------------
(* What ArmorSeal makes.                                                   *)

Sign == <<Punct, Skip>>

LEMMA SignProperties ==
    /\ Sign \in Seq(Char) /\ <<Punct>> \in Seq(Char) /\ <<Skip>> \in Seq(Char)
    /\ Sign = <<Punct>> \o <<Skip>>
    /\ AllValid(<<Skip>>) /\ DigitsIn(<<Skip>>) = << >>
  <1>1. AllValid(<<Skip>>)
    BY Chars DEF AllValid
  <1>2. DigitsIn(<<Skip>>) = << >>
    BY Chars, DigitsInOne
  <1> QED
    BY <1>1, <1>2, Chars DEF Sign

LEMMA SignThere ==
    ASSUME NEW a \in Seq(Char), NEW b \in Seq(Char)
    PROVE  (a \o Sign) \o b = a \o (<<Punct>> \o (<<Skip>> \o b))
  <1>1. <<Punct>> \in Seq(Char) /\ <<Skip>> \in Seq(Char) /\ Sign = <<Punct>> \o <<Skip>>
    BY SignProperties
  <1> DEFINE p == <<Punct>>
             k == <<Skip>>
  <1>2. p \in Seq(Char) /\ k \in Seq(Char) /\ Sign = p \o k
    BY <1>1
  <1> HIDE DEF p, k
  <1>3. (a \o (p \o k)) \o b = a \o (p \o (k \o b))
    <2>1. p \in Seq(Char) /\ k \in Seq(Char)
      BY <1>2
    <2>2. MovesTwice(a, p, k, b)
      BY <2>1, MovingTwice, Zenon
    <2> QED
      BY <2>2, Zenon DEF MovesTwice
  <1> QED
    BY <1>2, <1>3 DEF p, k

\* What newArmorEncoderStream and the encoder have written of a body.
Begun(words) == (Header \o Sign) \o words

LEMMA BegunType ==
    ASSUME NEW w \in Seq(Char)
    PROVE  Begun(w) \in Seq(Char) /\ Begun(w) = OneSentence(Header, <<Skip>> \o w)
  <1>1. Header \in Seq(Char) /\ Sign \in Seq(Char)
    BY FrameAssumption, SignProperties
  <1>2. Begun(w) \in Seq(Char)
    BY <1>1 DEF Begun
  <1>3. Begun(w) = OneSentence(Header, <<Skip>> \o w)
    BY <1>1, SignThere DEF Begun, OneSentence
  <1> QED
    BY <1>2, <1>3

\* What Close adds to it.
Ending(words) == words \o Sign \o Footer \o Sign

LEMMA EndingType ==
    ASSUME NEW w \in Seq(Char)
    PROVE  /\ Ending(w) \in Seq(Char)
           /\ Ending(w) = w \o (<<Punct>> \o ((<<Skip>> \o Footer) \o Sign))
  <1>1. Footer \in Seq(Char) /\ Sign \in Seq(Char)
    BY FrameAssumption, SignProperties
  <1>2. Ending(w) \in Seq(Char)
    BY <1>1 DEF Ending
  <1> DEFINE p == <<Punct>>
             k == <<Skip>> \o Footer
  <1>3. p \in Seq(Char) /\ k \in Seq(Char)
    BY <1>1, SignProperties
  <1>4. (w \o Sign) \o Footer = w \o (p \o k)
    BY <1>1, SignThere
  <1> HIDE DEF p, k
  <1>5. (w \o (p \o k)) \o Sign = w \o (p \o (k \o Sign))
    <2>1. Sign \in Seq(Char)
      BY <1>1
    <2>2. MovesTwice(w, p, k, Sign)
      BY <1>3, <2>1, MovingTwice, Zenon
    <2> QED
      BY <2>2, Zenon DEF MovesTwice
  <1> QED
    BY <1>2, <1>4, <1>5 DEF Ending, p, k

LEMMA SealIs ==
    ASSUME NEW x \in Seq(Byte)
    PROVE  ArmorSeal(x) = Begun(Ending(SpacedWords(Encode(x))))
  <1> DEFINE w == SpacedWords(Encode(x))
  <1>1. Header \in Seq(Char) /\ Footer \in Seq(Char) /\ Sign \in Seq(Char)
    BY FrameAssumption, SignProperties
  <1>2. w \in Seq(Char)
    BY CodecType, WordsKeepDigits
  <1>3. ArmorSeal(x) = Header \o Sign \o w \o Sign \o Footer \o Sign
    BY DEF ArmorSeal, Sign
  <1> HIDE DEF w
  <1> DEFINE h == Header \o Sign
  <1>4. ArmorSeal(x) = (((h \o w) \o Sign) \o Footer) \o Sign
    BY <1>3
  <1>6. h \in Seq(Char)
    BY <1>1
  <1> HIDE DEF h
  <1>5. (((h \o w) \o Sign) \o Footer) \o Sign = h \o (((w \o Sign) \o Footer) \o Sign)
    <2>1. h \in Seq(Char) /\ w \o Sign \in Seq(Char) /\ (w \o Sign) \o Footer \in Seq(Char)
      BY <1>1, <1>2, <1>6
    <2>2. Moves(h, w, Sign)
      BY <1>1, <1>2, <2>1, Moving, Zenon
    <2>3. Moves(h, w \o Sign, Footer)
      BY <1>1, <2>1, Moving, Zenon
    <2>4. Moves(h, (w \o Sign) \o Footer, Sign)
      BY <1>1, <2>1, Moving, Zenon
    <2> QED
      BY <2>2, <2>3, <2>4, Zenon DEF Moves
  <1> QED
    BY <1>4, <1>5 DEF Begun, Ending, w, h

\* A text that is only begun has no footer.
LEMMA BegunNotFramed ==
    ASSUME NEW s \in Seq(Char), NEW w \in Seq(Char), AllValid(w),
           IsPrefix(s, Begun(w))
    PROVE  ~Framed(s)
  <1> SUFFICES ASSUME Framed(s) PROVE FALSE
    OBVIOUS
  <1>1. Begun(w) \in Seq(Char) /\ Begun(w) = OneSentence(Header, <<Skip>> \o w)
    BY BegunType
  <1>2. PICK u \in Seq(Char) : Begun(w) = s \o u
    BY <1>1, PrefixSplits
  <1>3. Framed(Begun(w))
    BY <1>2, FramedStays
  <1>4. HasPunct(AfterPunct(Begun(w)))
    BY <1>1, <1>3, FramedThrough
  <1>5. NoPunct(Header) /\ NoPunct(<<Skip>>) /\ NoPunct(w)
    BY FrameAssumption, SignProperties, ValidIsNoPunct
  <1>6. HasPunct(AfterPunct(OneSentence(Header, <<Skip>> \o w))) <=> HasPunct(w)
    BY <1>5, FrameAssumption, SignProperties, BodyParts
  <1>7. ~HasPunct(w)
    BY <1>5, CutNowhere
  <1> QED
    BY <1>1, <1>4, <1>6, <1>7

\* What the armor is put on comes out of it again: the text has the right
\* frames, and its body holds the bytes.
THEOREM ArmorRoundTrip ==
    \A x \in Seq(Byte) :
        /\ GoodMessage(ArmorSeal(x))
        /\ Decode(DigitsIn(BodyOf(ArmorSeal(x)))).bytes = x
  <1> SUFFICES ASSUME NEW x \in Seq(Byte)
               PROVE  /\ GoodMessage(ArmorSeal(x))
                      /\ Decode(DigitsIn(BodyOf(ArmorSeal(x)))).bytes = x
    OBVIOUS
  <1> DEFINE d == Encode(x)
             w == SpacedWords(d)
             b == <<Skip>> \o w
             f == <<Skip>> \o Footer
             text == ArmorSeal(x)
  <1>1. /\ d \in Seq(Digit) /\ w \in Seq(Char) /\ AllValid(w) /\ DigitsIn(w) = d
        /\ Decode(d) = [bytes |-> x, ok |-> TRUE]
    BY CodecType, WordsKeepDigits, CodecRoundTrip
  <1> HIDE DEF w, d
  <1>2. /\ b \in Seq(Char) /\ f \in Seq(Char) /\ AllValid(b) /\ AllValid(f)
        /\ DigitsIn(b) = d /\ DigitsIn(f) = DigitsIn(Footer)
    <2>1. b \in Seq(Char) /\ f \in Seq(Char)
      BY <1>1, FrameAssumption, SignProperties
    <2>2. AllValid(b) /\ AllValid(f)
      BY <1>1, FrameAssumption, SignProperties, AllValidConcat
    <2>3. /\ DigitsIn(b) = DigitsIn(<<Skip>>) \o DigitsIn(w)
          /\ DigitsIn(f) = DigitsIn(<<Skip>>) \o DigitsIn(Footer)
      BY <1>1, FrameAssumption, SignProperties, DigitsInConcat
    <2>4. << >> \o d = d /\ << >> \o DigitsIn(Footer) = DigitsIn(Footer)
      BY <1>1, FrameAssumption, DigitsInType
    <2> QED
      BY <1>1, <2>1, <2>2, <2>3, <2>4, SignProperties
  <1>3. text = ThreeSentences(Header, b, f, <<Skip>>)
    <2>1. text = Begun(Ending(w)) /\ Ending(w) \in Seq(Char)
      BY <1>1, SealIs, EndingType DEF w, d
    <2>2. Begun(Ending(w)) = Header \o (<<Punct>> \o (<<Skip>> \o Ending(w)))
      BY <2>1, BegunType DEF OneSentence
    <2> DEFINE p == <<Punct>>
               k == <<Skip>>
               g == p \o (f \o Sign)
    <2>3. Ending(w) = w \o g
      BY <1>1, EndingType
    <2>4. f \o Sign = f \o (p \o k) /\ g \in Seq(Char) /\ k \in Seq(Char)
      BY <1>2, SignProperties
    <2> HIDE DEF g
    <2>5. k \o (w \o g) = (k \o w) \o g
      BY <1>1, <2>4
    <2> HIDE DEF f
    <2> QED
      BY <2>1, <2>2, <2>3, <2>4, <2>5 DEF ThreeSentences, g
  <1> HIDE DEF b, f, text
  <1>4. NoPunct(Header) /\ NoPunct(b) /\ NoPunct(f)
    BY <1>2, FrameAssumption, ValidIsNoPunct
  <1>5. /\ HeaderOf(text) = Header /\ BodyOf(text) = b /\ FooterOf(text) = f
        /\ Framed(text)
    <2>1. /\ Header \in Seq(Char) /\ b \in Seq(Char) /\ f \in Seq(Char)
          /\ <<Skip>> \in Seq(Char)
      BY <1>2, FrameAssumption, SignProperties
    <2> DEFINE k == <<Skip>>
    <2>2. k \in Seq(Char)
      BY <2>1
    <2> HIDE DEF k
    <2>3. /\ HeaderOf(ThreeSentences(Header, b, f, k)) = Header
          /\ BodyOf(ThreeSentences(Header, b, f, k)) = b
          /\ FooterOf(ThreeSentences(Header, b, f, k)) = f
          /\ Framed(ThreeSentences(Header, b, f, k))
      BY <1>4, <2>1, <2>2, FramedParts
    <2> QED
      BY <1>3, <2>3 DEF k
  <1>6. HeaderOK(Header) /\ FooterOK(f)
    BY <1>2, FrameAssumption DEF HeaderOK, FooterOK
  <1>7. GoodMessage(text) /\ Decode(DigitsIn(BodyOf(text))).bytes = x
    BY <1>1, <1>2, <1>5, <1>6 DEF GoodMessage
  <1> QED
    BY <1>7 DEF text
=============================================================================
