--------------------------- MODULE InductionFacts ---------------------------
(***************************************************************************)
(* The provers have no scheme of induction, but the theorem that Nat is    *)
(* well founded gives induction over a set (NatInduct), and with it the    *)
(* existence of functions defined by recursion (Recursion).  FlattenSeq,   *)
(* by which the models filter and join sequences, is one of these.         *)
(***************************************************************************)
EXTENDS SequencesExt, SequenceTheorems, NaturalsInduction, WellFoundedInduction,
        TLAPS

-----------------------------------------------------------------------------
(* Induction and recursion.                                                *)

LEMMA LeastNat ==
    ASSUME NEW T, T \subseteq Nat, T # {}
    PROVE  \E x \in T : \A y \in T : x <= y
  <1>1. PICK x \in T : \A y \in T : ~ (<<y, x>> \in OpToRel(<, Nat))
    BY WFMin, NatLessThanWellFounded, Zenon
  <1>2. \A y \in T : ~(y < x)
    BY <1>1 DEF OpToRel
  <1> QED
    BY <1>2

\* Induction: a set with 0 and the successors of its members has all numbers.
LEMMA NatInduct ==
    ASSUME NEW T, 0 \in T, \A n \in Nat : n \in T => n + 1 \in T
    PROVE  \A n \in Nat : n \in T
  <1> DEFINE Others == Nat \ T
  <1>1. SUFFICES ASSUME Others # {} PROVE FALSE
    OBVIOUS
  <1>2. PICK x \in Others : \A y \in Others : x <= y
    BY <1>1, LeastNat
  <1>3. x - 1 \in Nat /\ x - 1 \notin Others
    BY <1>2
  <1> QED
    BY <1>3

\* Induction up to a number.
LEMMA UpTo ==
    ASSUME NEW N \in Nat, NEW T, 0 \in T,
           \A n \in 0 .. N : n < N /\ n \in T => n + 1 \in T
    PROVE  \A n \in 0 .. N : n \in T
  <1> DEFINE U == {n \in Nat : n <= N => n \in T}
  <1>1. 0 \in U
    OBVIOUS
  <1>2. \A n \in Nat : n \in U => n + 1 \in U
    OBVIOUS
  <1> HIDE DEF U
  <1>3. \A n \in Nat : n \in U
    BY <1>1, <1>2, NatInduct
  <1> QED
    BY <1>3 DEF U

StepIn(step, V) == \A n \in Nat, v \in V : step[<<n, v>>] \in V

Follows(f, V, base, step) ==
    /\ f \in [Nat -> V] /\ f[0] = base
    /\ \A n \in Nat : f[n + 1] = step[<<n, f[n]>>]

\* A function on the numbers can be defined by recursion.
LEMMA Recursion ==
    ASSUME NEW V, NEW base \in V, NEW step, StepIn(step, V)
    PROVE  \E f : Follows(f, V, base, step)
  <1> USE DEF StepIn
  <1> DEFINE Good(g, N) == /\ g \in [0 .. N -> V] /\ g[0] = base
                           /\ \A i \in 0 .. N : i < N => g[i + 1] = step[<<i, g[i]>>]
  <1>1. ASSUME NEW M \in Nat, NEW N \in Nat, M <= N, NEW g, NEW h,
               Good(g, M), Good(h, N)
        PROVE  \A i \in 0 .. M : g[i] = h[i]
    <2> DEFINE T == {i \in 0 .. M : g[i] = h[i]}
    <2>1. 0 \in T
      BY <1>1
    <2>2. ASSUME NEW i \in 0 .. M, i < M, i \in T
          PROVE  i + 1 \in T
      <3>1. i \in 0 .. N /\ i < N /\ i + 1 \in 0 .. M
        BY <1>1, <2>2
      <3>2. g[i + 1] = step[<<i, g[i]>>] /\ h[i + 1] = step[<<i, h[i]>>]
        BY <1>1, <2>2, <3>1
      <3> QED
        BY <2>2, <3>1, <3>2
    <2> HIDE DEF T
    <2>3. \A i \in 0 .. M : i \in T
      BY <2>1, <2>2, UpTo
    <2> QED
      BY <2>3 DEF T
  <1>2. \A N \in Nat : \E g : Good(g, N)
    <2> DEFINE T == {N \in Nat : \E g : Good(g, N)}
    <2>1. 0 \in T
      <3>1. Good([i \in 0 .. 0 |-> base], 0)
        OBVIOUS
      <3> QED
        BY <3>1
    <2>2. ASSUME NEW N \in Nat, N \in T
          PROVE  N + 1 \in T
      <3>1. PICK g : Good(g, N)
        BY <2>2
      <3> DEFINE h == [i \in 0 .. N + 1 |-> IF i <= N THEN g[i] ELSE step[<<N, g[N]>>]]
      <3>2. h \in [0 .. N + 1 -> V]
        BY <3>1
      <3>3. h[0] = base
        BY <3>1
      <3>4. ASSUME NEW i \in 0 .. N + 1, i < N + 1
            PROVE  h[i + 1] = step[<<i, h[i]>>]
        <4>1. h[i] = g[i]
          BY <3>4
        <4>2. CASE i < N
          BY <3>1, <4>1, <4>2
        <4>3. CASE i = N
          BY <4>1, <4>3
        <4> QED
          BY <3>4, <4>2, <4>3
      <3> HIDE DEF h
      <3>5. Good(h, N + 1)
        BY <3>2, <3>3, <3>4
      <3> QED
        BY <3>5
    <2> HIDE DEF T
    <2>3. \A N \in Nat : N \in T
      BY <2>1, <2>2, NatInduct
    <2> QED
      BY <2>3 DEF T
  <1> DEFINE G(N) == CHOOSE g : Good(g, N)
             f == [n \in Nat |-> G(n)[n]]
  <1> HIDE DEF Good
  <1>3. \A N \in Nat : Good(G(N), N)
    BY <1>2, Zenon
  <1> HIDE DEF G
  <1>4. \A n \in Nat : f[n] \in V
    BY <1>3 DEF Good
  <1>5. f[0] = base
    BY <1>3 DEF Good
  <1>6. ASSUME NEW n \in Nat
        PROVE  f[n + 1] = step[<<n, f[n]>>]
    <2>1. Good(G(n), n) /\ Good(G(n + 1), n + 1)
      BY <1>3
    <2>2. G(n)[n] = G(n + 1)[n]
      BY <1>1, <2>1
    <2>3. G(n + 1)[n + 1] = step[<<n, G(n + 1)[n]>>]
      BY <2>1 DEF Good
    <2> QED
      BY <2>2, <2>3
  <1>7. f \in [Nat -> V]
    BY <1>4
  <1>8. Follows(f, V, base, step)
    BY <1>5, <1>6, <1>7 DEF Follows
  <1> QED
    BY <1>8

-----------------------------------------------------------------------------
(* Sequences of sequences.                                                 *)

LEMMA FunctionSeq ==
    ASSUME NEW S, NEW n \in Nat, NEW f \in [1 .. n -> S]
    PROVE  f \in Seq(S) /\ Len(f) = n
  OBVIOUS

LEMMA PrefixOfConcat ==
    ASSUME NEW S, NEW s \in Seq(S), NEW t \in Seq(S)
    PROVE  IsPrefix(s, s \o t)
  <1>1. /\ Len(s \o t) = Len(s) + Len(t) /\ Len(s) \in Nat /\ Len(t) \in Nat
        /\ DOMAIN s = 1 .. Len(s) /\ DOMAIN (s \o t) = 1 .. Len(s \o t)
    BY ConcatProperties, LenProperties
  <1>2. \A i \in 1 .. Len(s) : (s \o t)[i] = s[i]
    BY ConcatProperties
  <1> QED
    BY <1>1, <1>2 DEF IsPrefix

LEMMA OneElement ==
    ASSUME NEW S, NEW s \in Seq(S), Len(s) = 1
    PROVE  s[1] \in S /\ s = <<s[1]>>
  <1>1. s[1] \in S
    BY ElementOfSeq
  <1>2. <<s[1]>> \in Seq(S) /\ Len(<<s[1]>>) = 1 /\ <<s[1]>>[1] = s[1]
    BY <1>1
  <1>3. \A i \in 1 .. Len(s) : s[i] = <<s[1]>>[i]
    BY <1>2
  <1> QED
    BY <1>1, <1>2, <1>3, SeqEqual

LEMMA SplitAt ==
    ASSUME NEW S, NEW s \in Seq(S), NEW k \in 0 .. Len(s)
    PROVE  SubSeq(s, 1, k) \o SubSeq(s, k + 1, Len(s)) = s
  <1>1. /\ Len(s) \in Nat /\ 1 \in 1 .. Len(s) + 1
        /\ k \in 1 - 1 .. Len(s) /\ Len(s) \in k .. Len(s)
    OBVIOUS
  <1>2. SubSeq(s, 1, k) \o SubSeq(s, k + 1, Len(s)) = SubSeq(s, 1, Len(s))
    BY <1>1, ConcatAdjacentSubSeq
  <1> QED
    BY <1>2, SubSeqFull

\* How a sequence ends.
LEMMA Decompose ==
    ASSUME NEW S, NEW s \in Seq(S), NEW n \in Nat, Len(s) = n + 1
    PROVE  /\ SubSeq(s, 1, n) \in Seq(S) /\ Len(SubSeq(s, 1, n)) = n
           /\ s[n + 1] \in S /\ s = Append(SubSeq(s, 1, n), s[n + 1])
           /\ \A i \in 1 .. n : SubSeq(s, 1, n)[i] = s[i]
  <1>1. \A i \in 1 .. n + 1 : s[i] \in S
    BY ElementOfSeq
  <1>2. /\ SubSeq(s, 1, n) \in Seq(S) /\ Len(SubSeq(s, 1, n)) = n
        /\ \A i \in 1 .. n : SubSeq(s, 1, n)[i] = s[i]
    BY <1>1, SubSeqProperties
  <1> DEFINE u == SubSeq(s, 1, n)
             t == Append(u, s[n + 1])
  <1>3. /\ t \in Seq(S) /\ Len(t) = n + 1
        /\ \A i \in 1 .. n : t[i] = s[i]
        /\ t[n + 1] = s[n + 1]
    <2> HIDE DEF u
    <2>1. u \in Seq(S) /\ Len(u) = n /\ \A i \in 1 .. n : u[i] = s[i]
      BY <1>2 DEF u
    <2> QED
      BY <1>1, <2>1, AppendProperties
  <1> HIDE DEF t
  <1>4. \A i \in 1 .. Len(s) : s[i] = t[i]
    BY <1>3
  <1>5. s = t
    BY <1>3, <1>4, SeqEqual
  <1> QED
    BY <1>1, <1>2, <1>5 DEF t

\* What FlattenSeq computes.
LEMMA FlattenRecursion ==
    ASSUME NEW S, NEW s \in Seq(Seq(S)), s # << >>
    PROVE  \E f \in [1 .. Len(s) -> Seq(S)] :
              /\ FlattenSeq(s) = f[Len(s)] /\ f[1] = s[1]
              /\ \A i \in 1 .. Len(s) : i < Len(s) => f[i + 1] = f[i] \o s[i + 1]
  <1> DEFINE Fcn(f) == f = [i \in 1 .. Len(s) |->
                              IF i = 1 THEN s[i] ELSE f[i - 1] \o s[i]]
             flatten == CHOOSE f : Fcn(f)
             step == [p \in Nat \X Seq(S) |->
                        IF p[1] + 2 <= Len(s) THEN p[2] \o s[p[1] + 2] ELSE p[2]]
  <1>0. Len(s) \in Nat \ {0} /\ \A i \in 1 .. Len(s) : s[i] \in Seq(S)
    BY EmptySeq, ElementOfSeq
  <1>1. \E f : Fcn(f)
    <2>1. ASSUME NEW n \in Nat, NEW v \in Seq(S)
          PROVE  /\ step[<<n, v>>] = IF n + 2 <= Len(s) THEN v \o s[n + 2] ELSE v
                 /\ step[<<n, v>>] \in Seq(S)
      <3>1. n + 2 <= Len(s) => s[n + 2] \in Seq(S)
        BY <1>0
      <3>2. step[<<n, v>>] = IF n + 2 <= Len(s) THEN v \o s[n + 2] ELSE v
        OBVIOUS
      <3> HIDE DEF step
      <3>3. n + 2 <= Len(s) => v \o s[n + 2] \in Seq(S)
        BY <3>1, ConcatProperties
      <3> QED
        BY <3>2, <3>3
    <2> HIDE DEF step
    <2>2. PICK g : Follows(g, Seq(S), s[1], step)
      <3>1. s[1] \in Seq(S)
        BY <1>0
      <3>2. StepIn(step, Seq(S))
        BY <2>1, Zenon DEF StepIn
      <3> QED
        BY <3>1, <3>2, Recursion
    <2>3. /\ g[0] = s[1]
          /\ \A k \in Nat : g[k] \in Seq(S) /\ g[k + 1] = step[<<k, g[k]>>]
      BY <2>2 DEF Follows
    <2> DEFINE f == [i \in 1 .. Len(s) |-> g[i - 1]]
    <2>4. f[1] = g[0]
      BY <1>0
    <2>5. ASSUME NEW k \in Nat, k + 2 <= Len(s)
          PROVE  f[k + 2] = f[k + 1] \o s[k + 2]
      <3>1. f[k + 2] = g[k + 1] /\ f[k + 1] = g[k]
        BY <1>0, <2>5
      <3>2. g[k + 1] = step[<<k, g[k]>>] /\ g[k] \in Seq(S)
        BY <2>3
      <3>3. step[<<k, g[k]>>] = g[k] \o s[k + 2]
        BY <2>1, <2>5, <3>2, Zenon
      <3> QED
        BY <3>1, <3>2, <3>3, Zenon
    <2>6. f = [i \in 1 .. Len(s) |-> f[i]]
      OBVIOUS
    <2> HIDE DEF f
    <2>7. ASSUME NEW i \in 1 .. Len(s)
          PROVE  f[i] = IF i = 1 THEN s[i] ELSE f[i - 1] \o s[i]
      <3>1. CASE i = 1
        BY <2>3, <2>4, <3>1, Zenon
      <3>2. CASE i # 1
        <4>1. PICK k \in Nat : k + 2 = i /\ k + 1 = i - 1 /\ k + 2 <= Len(s)
          <5>1. i - 2 \in Nat
            BY <1>0, <3>2
          <5> QED
            BY <1>0, <5>1
        <4>2. f[k + 2] = f[k + 1] \o s[k + 2]
          BY <2>5, <4>1
        <4> QED
          BY <3>2, <4>1, <4>2, Zenon
      <3> QED
        BY <3>1, <3>2
    <2>8. Fcn(f)
      BY <2>6, <2>7, Zenon
    <2> QED
      BY <2>8
  <1>2. Fcn(flatten)
    BY <1>1
  <1>3. FlattenSeq(s) = flatten[Len(s)]
    BY <1>0 DEF FlattenSeq
  <1> HIDE DEF flatten
  <1>4. flatten[1] = s[1]
    BY <1>0, <1>2
  <1>7. ASSUME NEW i \in 1 .. Len(s), i < Len(s)
        PROVE  flatten[i + 1] = flatten[i] \o s[i + 1]
    <2>1. i + 1 \in 1 .. Len(s) /\ i + 1 # 1 /\ (i + 1) - 1 = i
      BY <1>0, <1>7
    <2>2. flatten[i + 1] = IF i + 1 = 1 THEN s[i + 1]
                           ELSE flatten[(i + 1) - 1] \o s[i + 1]
      BY <1>2, <2>1, Zenon
    <2> QED
      BY <2>1, <2>2, Zenon
  <1>5. \A i \in 1 .. Len(s) : flatten[i] \in Seq(S)
    <2> DEFINE T == {n \in Nat : n + 1 <= Len(s) => flatten[n + 1] \in Seq(S)}
    <2>1. 0 \in T
      BY <1>0, <1>4
    <2>2. ASSUME NEW n \in Nat, n \in T
          PROVE  n + 1 \in T
      <3>1. SUFFICES ASSUME n + 2 <= Len(s)
                     PROVE  flatten[n + 2] \in Seq(S)
        OBVIOUS
      <3>2. n + 1 \in 1 .. Len(s) /\ n + 1 < Len(s) /\ (n + 1) + 1 = n + 2
            /\ n + 2 \in 1 .. Len(s)
        BY <1>0, <3>1
      <3>3. flatten[n + 1] \in Seq(S) /\ s[n + 2] \in Seq(S)
            /\ flatten[n + 2] = flatten[n + 1] \o s[n + 2]
        <4>1. flatten[(n + 1) + 1] = flatten[n + 1] \o s[(n + 1) + 1]
          BY <1>7, <3>2, Zenon
        <4>2. flatten[n + 1] \in Seq(S) /\ s[n + 2] \in Seq(S)
          BY <1>0, <2>2, <3>2
        <4> QED
          BY <3>2, <4>1, <4>2, Zenon
      <3> QED
        BY <3>3, ConcatProperties
    <2> HIDE DEF T
    <2>3. \A n \in Nat : n \in T
      BY <2>1, <2>2, NatInduct
    <2>4. ASSUME NEW i \in 1 .. Len(s)
          PROVE  flatten[i] \in Seq(S)
      <3>1. i - 1 \in Nat /\ (i - 1) + 1 = i /\ i <= Len(s)
        BY <1>0
      <3>2. (i - 1) + 1 <= Len(s) => flatten[(i - 1) + 1] \in Seq(S)
        BY <2>3, <3>1 DEF T
      <3> QED
        BY <3>1, <3>2
    <2> QED
      BY <2>4
  <1>6. flatten \in [1 .. Len(s) -> Seq(S)]
    BY <1>2, <1>5
  <1> QED
    BY <1>3, <1>4, <1>6, <1>7, Zenon

LEMMA FlattenType ==
    ASSUME NEW S, NEW s \in Seq(Seq(S))
    PROVE  FlattenSeq(s) \in Seq(S) /\ (s = << >> => FlattenSeq(s) = << >>)
  <1>1. CASE s = << >>
    BY <1>1, EmptySeq DEF FlattenSeq
  <1>2. CASE s # << >>
    <2>1. Len(s) \in 1 .. Len(s)
      BY <1>2, EmptySeq
    <2>2. \E f \in [1 .. Len(s) -> Seq(S)] : FlattenSeq(s) = f[Len(s)]
      BY <1>2, FlattenRecursion
    <2> QED
      BY <1>2, <2>1, <2>2
  <1> QED
    BY <1>1, <1>2

LEMMA FlattenAppend ==
    ASSUME NEW S, NEW s \in Seq(Seq(S)), NEW e \in Seq(S)
    PROVE  FlattenSeq(Append(s, e)) = FlattenSeq(s) \o e
  <1> DEFINE t == Append(s, e)
  <1>1. /\ t \in Seq(Seq(S)) /\ t # << >> /\ Len(t) = Len(s) + 1
        /\ \A i \in 1 .. Len(s) : t[i] = s[i]
        /\ t[Len(s) + 1] = e
    BY AppendProperties
  <1>2. Len(s) \in Nat
    BY LenProperties
  <1> HIDE DEF t
  <1>3. PICK g \in [1 .. Len(t) -> Seq(S)] :
           /\ FlattenSeq(t) = g[Len(t)] /\ g[1] = t[1]
           /\ \A i \in 1 .. Len(t) : i < Len(t) => g[i + 1] = g[i] \o t[i + 1]
    BY <1>1, FlattenRecursion
  <1>4. CASE s = << >>
    <2>1. Len(s) = 0
      BY <1>4, EmptySeq
    <2>2. FlattenSeq(t) = e
      BY <1>1, <1>3, <2>1
    <2>3. << >> \o e = e
      BY ConcatEmptySeq
    <2> QED
      BY <1>4, <2>2, <2>3, FlattenType DEF t
  <1>5. CASE s # << >>
    <2>0. Len(s) \in Nat \ {0}
      BY <1>5, EmptySeq
    <2>1. PICK f \in [1 .. Len(s) -> Seq(S)] :
             /\ FlattenSeq(s) = f[Len(s)] /\ f[1] = s[1]
             /\ \A i \in 1 .. Len(s) : i < Len(s) => f[i + 1] = f[i] \o s[i + 1]
      BY <1>5, FlattenRecursion
    <2> DEFINE T == {n \in Nat : n + 1 <= Len(s) => f[n + 1] = g[n + 1]}
    <2>2. 0 \in T
      BY <2>0, <1>1, <1>3, <2>1
    <2>3. ASSUME NEW n \in Nat, n \in T
          PROVE  n + 1 \in T
      <3>1. SUFFICES ASSUME n + 2 <= Len(s)
                     PROVE  f[n + 2] = g[n + 2]
        OBVIOUS
      <3>2. /\ n + 1 \in 1 .. Len(s) /\ n + 1 < Len(s) /\ (n + 1) + 1 = n + 2
            /\ n + 1 \in 1 .. Len(t) /\ n + 1 < Len(t)
            /\ n + 2 \in 1 .. Len(s)
        BY <1>1, <1>2, <3>1
      <3>3. f[n + 1] = g[n + 1]
        BY <2>3, <3>2
      <3>4. f[(n + 1) + 1] = f[n + 1] \o s[(n + 1) + 1]
        BY <2>1, <3>2, Zenon
      <3>5. g[(n + 1) + 1] = g[n + 1] \o t[(n + 1) + 1]
        BY <1>3, <3>2, Zenon
      <3>6. t[n + 2] = s[n + 2]
        BY <1>1, <3>2
      <3> QED
        BY <3>2, <3>3, <3>4, <3>5, <3>6, Zenon
    <2> HIDE DEF T
    <2>4. \A n \in Nat : n \in T
      BY <2>2, <2>3, NatInduct
    <2>5. f[Len(s)] = g[Len(s)]
      <3>1. Len(s) - 1 \in Nat /\ (Len(s) - 1) + 1 = Len(s)
        BY <2>0
      <3>2. (Len(s) - 1) + 1 <= Len(s) => f[(Len(s) - 1) + 1] = g[(Len(s) - 1) + 1]
        BY <2>4, <3>1 DEF T
      <3> QED
        BY <2>0, <3>1, <3>2
    <2>6. Len(s) \in 1 .. Len(t) /\ Len(s) < Len(t) /\ Len(t) = Len(s) + 1
      BY <1>1, <2>0
    <2>7. g[Len(s) + 1] = g[Len(s)] \o t[Len(s) + 1]
      BY <1>3, <2>6, Zenon
    <2> QED
      BY <1>1, <1>3, <2>1, <2>5, <2>6, <2>7, Zenon DEF t
  <1> QED
    BY <1>4, <1>5

LEMMA ConcatAppend ==
    ASSUME NEW S, NEW s \in Seq(S), NEW t \in Seq(S), NEW e \in S
    PROVE  s \o Append(t, e) = Append(s \o t, e)
  <1>1. <<e>> \in Seq(S) /\ s \o t \in Seq(S)
    BY ConcatProperties
  <1>2. Append(t, e) = t \o <<e>> /\ Append(s \o t, e) = (s \o t) \o <<e>>
    BY <1>1, AppendIsConcat
  <1>3. (s \o t) \o <<e>> = s \o (t \o <<e>>)
    BY <1>1, ConcatAssociative
  <1> QED
    BY <1>2, <1>3, Zenon

LEMMA FlattenConcat ==
    ASSUME NEW S, NEW s \in Seq(Seq(S))
    PROVE  \A t \in Seq(Seq(S)) : FlattenSeq(s \o t) = FlattenSeq(s) \o FlattenSeq(t)
  <1> DEFINE T == {n \in Nat : \A t \in Seq(Seq(S)) :
                     Len(t) = n => FlattenSeq(s \o t) = FlattenSeq(s) \o FlattenSeq(t)}
  <1>0. FlattenSeq(s) \in Seq(S)
    BY FlattenType
  <1>1. 0 \in T
    <2>1. ASSUME NEW t \in Seq(Seq(S)), Len(t) = 0
          PROVE  FlattenSeq(s \o t) = FlattenSeq(s) \o FlattenSeq(t)
      <3>1. t = << >>
        BY <2>1, EmptySeq
      <3>2. s \o t = s /\ FlattenSeq(t) = << >>
        BY <3>1, ConcatEmptySeq, FlattenType
      <3>3. FlattenSeq(s) \o << >> = FlattenSeq(s)
        BY <1>0, ConcatEmptySeq
      <3> QED
        BY <3>2, <3>3, Zenon
    <2> QED
      BY <2>1
  <1>2. ASSUME NEW n \in Nat, n \in T
        PROVE  n + 1 \in T
    <2>1. ASSUME NEW t \in Seq(Seq(S)), Len(t) = n + 1
          PROVE  FlattenSeq(s \o t) = FlattenSeq(s) \o FlattenSeq(t)
      <3> DEFINE u == SubSeq(t, 1, n)
                 e == t[n + 1]
      <3>1. u \in Seq(Seq(S)) /\ Len(u) = n /\ e \in Seq(S) /\ t = Append(u, e)
        BY <2>1, Decompose
      <3> HIDE DEF u, e
      <3>2. FlattenSeq(s \o u) = FlattenSeq(s) \o FlattenSeq(u)
        BY <1>2, <3>1, Zenon
      <3>3. s \o t = Append(s \o u, e) /\ s \o u \in Seq(Seq(S))
        <4>1. s \o t = Append(s \o u, e)
          BY <3>1, ConcatAppend
        <4>2. s \o u \in Seq(Seq(S))
          BY <3>1, ConcatProperties
        <4> QED
          BY <4>1, <4>2
      <3>4. FlattenSeq(s \o t) = FlattenSeq(s \o u) \o e
        BY <3>1, <3>3, FlattenAppend
      <3>5. FlattenSeq(t) = FlattenSeq(u) \o e /\ FlattenSeq(u) \in Seq(S)
        BY <3>1, FlattenAppend, FlattenType
      <3>6. (FlattenSeq(s) \o FlattenSeq(u)) \o e = FlattenSeq(s) \o (FlattenSeq(u) \o e)
        <4> DEFINE a == FlattenSeq(s)
                   b == FlattenSeq(u)
        <4>1. a \in Seq(S) /\ b \in Seq(S)
          BY <1>0, <3>5
        <4> HIDE DEF a, b
        <4>2. (a \o b) \o e = a \o (b \o e)
          BY <3>1, <4>1, ConcatAssociative, SMTT(30)
        <4> QED
          BY <4>2 DEF a, b
      <3> QED
        BY <3>2, <3>4, <3>5, <3>6
    <2>2. n + 1 \in Nat
      OBVIOUS
    <2> QED
      BY <2>1, <2>2, Zenon
  <1> HIDE DEF T
  <1>3. \A n \in Nat : n \in T
    BY <1>1, <1>2, NatInduct
  <1> QED
    BY <1>3, LenProperties DEF T

-----------------------------------------------------------------------------
(* Products and division.                                                  *)

LEMMA MultMonotonic ==
    ASSUME NEW a \in Nat, NEW b \in Nat, NEW c \in Nat, NEW d \in Nat,
           a <= b, c <= d
    PROVE  a * c <= b * d
  <1>1. a * c <= b * c
    OBVIOUS
  <1>2. b * c <= b * d
    OBVIOUS
  <1> QED
    BY <1>1, <1>2

LEMMA DivProperties ==
    ASSUME NEW n \in Nat \ {0}, NEW x \in Nat
    PROVE  x \div n \in Nat /\ x % n \in 0 .. n - 1 /\ x = (x \div n) * n + (x % n)
  OBVIOUS

LEMMA DivUnique ==
    ASSUME NEW n \in Nat \ {0}, NEW q \in Nat, NEW r \in 0 .. n - 1
    PROVE  (q * n + r) \div n = q /\ (q * n + r) % n = r
  OBVIOUS

LEMMA DivShift ==
    ASSUME NEW n \in Nat \ {0}, NEW k \in Nat, NEW x \in Nat
    PROVE  (k * n + x) \div n = k + (x \div n) /\ (k * n + x) % n = x % n
  <1> DEFINE q == x \div n
             r == x % n
  <1>1. q \in Nat /\ r \in 0 .. n - 1 /\ x = q * n + r
    BY DivProperties
  <1> HIDE DEF q, r
  <1>2. k * n + x = (k + q) * n + r /\ k + q \in Nat
    BY <1>1
  <1>3. (k * n + x) \div n = k + q /\ (k * n + x) % n = r
    BY <1>1, <1>2, DivUnique
  <1> QED
    BY <1>3 DEF q, r
=============================================================================
