------------------------- MODULE MessageKeys_proofs -------------------------
(***************************************************************************)
(* Proofs about MessageKeys and the shuffle, for any keys, rings and       *)
(* number of receivers.                                                    *)
(***************************************************************************)
EXTENDS MessageKeys, InductionFacts, FiniteSetTheorems, FunctionTheorems

-----------------------------------------------------------------------------
(* The shuffle.                                                            *)

\* The order p of places, which takes each of them once.
IsOrder(p, n) == /\ p \in [1 .. n -> 1 .. n]
                 /\ \A i, j \in 1 .. n : p[i] = p[j] => i = j
                 /\ \A i \in 1 .. n : \E j \in 1 .. n : p[j] = i

Ordered(s, p) == [i \in 1 .. Len(s) |-> s[p[i]]]

\* A place that a word draws for place i.
LEMMA HighBound ==
    ASSUME NEW v \in Words, NEW n \in Nat \ {0}
    PROVE  High(v, n) \in 0 .. n - 1
  <1>1. WordSize \in Nat \ {0} /\ v \in Nat /\ v <= WordSize - 1
    BY WordSizeAssumption DEF Words
  <1> DEFINE h == (v * n) \div WordSize
  <1>2. h \in Nat /\ h * WordSize <= v * n
    <2> DEFINE x == v * n
    <2>1. x \in Nat
      BY <1>1
    <2> HIDE DEF x
    <2>2. x \div WordSize \in Nat /\ x % WordSize \in 0 .. WordSize - 1
          /\ x = (x \div WordSize) * WordSize + (x % WordSize)
      BY <1>1, <2>1, DivProperties
    <2>3. x \div WordSize \in Nat /\ (x \div WordSize) * WordSize <= x
      BY <1>1, <2>1, <2>2
    <2> QED
      BY <2>3 DEF x
  <1>3. v * n < n * WordSize
    <2>1. v * n <= (WordSize - 1) * n
      BY <1>1
    <2> QED
      BY <1>1, <2>1
  <1>4. h < n
    <2> HIDE DEF h
    <2>1. SUFFICES ASSUME h >= n PROVE FALSE
      BY <1>2
    <2>2. h * WordSize >= n * WordSize
      BY <1>1, <1>2, <2>1
    <2> QED
      BY <1>1, <1>2, <1>3, <2>2
  <1> QED
    BY <1>2, <1>4 DEF High

\* An exchange in a list in some order is one in the order.
LEMMA SwapOrdered ==
    ASSUME NEW S, NEW s \in Seq(S), NEW p, IsOrder(p, Len(s)),
           NEW i \in 1 .. Len(s), NEW j \in 1 .. Len(s)
    PROVE  /\ IsOrder(Swap(p, i, j), Len(s))
           /\ Swap(Ordered(s, p), i, j) = Ordered(s, Swap(p, i, j))
  <1> DEFINE n == Len(s)
             q == Swap(p, i, j)
  <1>1. n \in Nat
    OBVIOUS
  <1>2. q \in [1 .. n -> 1 .. n]
        /\ \A k \in 1 .. n : q[k] = IF k = j THEN p[i] ELSE IF k = i THEN p[j] ELSE p[k]
    BY DEF IsOrder, Swap
  <1> HIDE DEF q
  <1>3. IsOrder(q, n)
    <2>1. \A k, l \in 1 .. n : q[k] = q[l] => k = l
      BY <1>2 DEF IsOrder
    <2>2. ASSUME NEW k \in 1 .. n
          PROVE  \E l \in 1 .. n : q[l] = k
      <3>1. PICK l \in 1 .. n : p[l] = k
        BY DEF IsOrder
      <3>2. CASE l = i
        BY <1>2, <3>1, <3>2
      <3>3. CASE l = j
        BY <1>2, <3>1, <3>3
      <3>4. CASE l # i /\ l # j
        BY <1>2, <3>1, <3>4
      <3> QED
        BY <3>2, <3>3, <3>4
    <2> QED
      BY <1>2, <2>1, <2>2 DEF IsOrder
  <1>4. Swap(Ordered(s, p), i, j) = Ordered(s, q)
    BY <1>1, <1>2 DEF Ordered, Swap, IsOrder
  <1> QED
    BY <1>3, <1>4 DEF q

\* The list after the places from i on have been done.
IsDownTo(f, s, draws) ==
    f = [i \in 2 .. Len(s) + 2 |->
            IF i > Len(s) THEN s ELSE Swap(f[i + 1], i, High(draws[i], i) + 1)]

DownTo(s, draws) == CHOOSE f : IsDownTo(f, s, draws)

LEMMA DownToExists ==
    ASSUME NEW S, NEW s \in Seq(S), NEW d \in Draws(Len(s))
    PROVE  IsDownTo(DownTo(s, d), s, d)
  <1> DEFINE n == Len(s)
             Step(k, v) == LET i == n + 1 - k
                           IN  IF i \in 2 .. n THEN Swap(v, i, High(d[i], i) + 1) ELSE v
             step == [x \in Nat \X [1 .. Len(s) -> S] |-> Step(x[1], x[2])]
  <1>1. n \in Nat
    OBVIOUS
  <1> DEFINE V == [1 .. n -> S]
  <1>2. ASSUME NEW k \in Nat, NEW v \in V
        PROVE  Step(k, v) \in V
    <2> DEFINE i == n + 1 - k
    <2>1. CASE i \in 2 .. n
      <3>1. d[i] \in Words /\ i \in Nat \ {0} /\ i \in 1 .. n
        BY <1>1, <2>1 DEF Draws
      <3> DEFINE h == High(d[i], i)
      <3>2. h \in 0 .. i - 1
        BY <3>1, HighBound
      <3> HIDE DEF h
      <3>3. h + 1 \in 1 .. n
        BY <1>1, <2>1, <3>2
      <3> HIDE DEF i
      <3>4. Swap(v, i, h + 1) \in V
        BY <3>1, <3>3 DEF Swap
      <3> QED
        BY <2>1, <3>4 DEF i, h
    <2>2. CASE i \notin 2 .. n
      BY <2>2
    <2> QED
      BY <2>1, <2>2
  <1>3. \A k \in Nat, v \in V : step[<<k, v>>] = Step(k, v)
    OBVIOUS
  <1> HIDE DEF V
  <1>4. s \in V
    BY DEF V
  <1>5. PICK g : Follows(g, V, s, step)
    <2> HIDE DEF Step, step
    <2>1. StepIn(step, V)
      BY <1>2, <1>3 DEF StepIn
    <2> QED
      BY <1>4, <2>1, Recursion
  <1> DEFINE f == [i \in 2 .. n + 2 |-> g[(n + 2) - i]]
  <1>6. ASSUME NEW i \in 2 .. n + 2
        PROVE  f[i] = IF i > n THEN s ELSE Swap(f[i + 1], i, High(d[i], i) + 1)
    <2>1. CASE i = n + 2
      <3>1. f[i] = g[0]
        BY <1>1, <2>1
      <3> QED
        BY <1>1, <1>5, <2>1, <3>1 DEF Follows
    <2>2. CASE i # n + 2
      <3> DEFINE k == (n + 2) - (i + 1)
      <3>1. k \in Nat /\ (n + 2) - i = k + 1 /\ n + 1 - k = i
        BY <1>1, <2>2
      <3>2. f[i] = g[k + 1] /\ f[i + 1] = g[k]
        BY <1>1, <2>2, <3>1
      <3>3. g[k] \in V /\ g[k + 1] = step[<<k, g[k]>>]
        BY <1>5, <3>1 DEF Follows
      <3> HIDE DEF k, f, step
      <3>4. f[i] = Step(k, f[i + 1])
        BY <1>3, <3>1, <3>2, <3>3
      <3>5. CASE i <= n
        BY <1>1, <3>1, <3>4, <3>5
      <3>6. CASE i = n + 1
        <4>1. f[i] = f[i + 1]
          BY <1>1, <3>1, <3>4, <3>6
        <4>2. k = 0
          BY <1>1, <3>1, <3>6
        <4>3. g[0] = s
          BY <1>5 DEF Follows
        <4> QED
          BY <1>1, <3>2, <3>6, <4>1, <4>2, <4>3
      <3> QED
        BY <1>1, <2>2, <3>5, <3>6
    <2> QED
      BY <2>1, <2>2
  <1>7. IsDownTo(f, s, d)
    <2>1. f = [i \in 2 .. n + 2 |-> f[i]]
      OBVIOUS
    <2> HIDE DEF f
    <2> QED
      BY <1>6, <2>1 DEF IsDownTo
  <1> HIDE DEF f
  <1> QED
    BY <1>7 DEF DownTo

\* A shuffle is the last of the exchanges.
LEMMA ShuffleIsDownTo ==
    ASSUME NEW S, NEW s \in Seq(S), NEW d \in Draws(Len(s))
    PROVE  CsprngShuffle(s, d) = DownTo(s, d)[2]
  BY DEF CsprngShuffle, DownTo, IsDownTo

\* No exchange loses or doubles an element.
LEMMA DownToOrders ==
    ASSUME NEW S, NEW s \in Seq(S), NEW d \in Draws(Len(s)), NEW m \in 2 .. Len(s) + 2
    PROVE  \E p : IsOrder(p, Len(s)) /\ DownTo(s, d)[m] = Ordered(s, p)
  <1> DEFINE n == Len(s)
             f == DownTo(s, d)
             T == {k \in 0 .. n : \E p : IsOrder(p, n) /\ f[n + 2 - k] = Ordered(s, p)}
  <1>1. n \in Nat
    OBVIOUS
  <1>2. /\ f = [i \in 2 .. n + 2 |-> f[i]]
        /\ \A i \in 2 .. n + 2 :
              f[i] = IF i > n THEN s ELSE Swap(f[i + 1], i, High(d[i], i) + 1)
    <2>1. IsDownTo(f, s, d)
      BY DownToExists
    <2> HIDE DEF f
    <2> QED
      BY <2>1 DEF IsDownTo
  <1> HIDE DEF f
  <1>3. 0 \in T
    <2> DEFINE p == [i \in 1 .. n |-> i]
    <2>1. IsOrder(p, n)
      BY <1>1 DEF IsOrder
    <2>2. Ordered(s, p) = s
      BY <1>1 DEF Ordered
    <2>3. f[n + 2 - 0] = s
      BY <1>1, <1>2
    <2> HIDE DEF p
    <2> QED
      BY <1>1, <2>1, <2>2, <2>3
  <1>4. ASSUME NEW k \in 0 .. n, k < n, k \in T
        PROVE  k + 1 \in T
    <2> DEFINE i == n + 2 - (k + 1)
    <2>1. i \in 2 .. n + 2 /\ i + 1 = n + 2 - k /\ k + 1 \in 0 .. n
      BY <1>1, <1>4
    <2>2. PICK p : IsOrder(p, n) /\ f[i + 1] = Ordered(s, p)
      BY <1>4, <2>1
    <2> HIDE DEF i
    <2>3. CASE i > n
      <3>1. f[i] = s
        BY <1>2, <2>1, <2>3
      <3>2. PICK q : IsOrder(q, n) /\ f[n + 2 - 0] = Ordered(s, q)
        BY <1>3
      <3>3. f[n + 2 - 0] = s
        BY <1>1, <1>2
      <3>4. IsOrder(q, n) /\ f[i] = Ordered(s, q)
        BY <3>1, <3>2, <3>3, Zenon
      <3> QED
        BY <2>1, <3>4 DEF i
    <2>4. CASE i <= n
      <3>1. d[i] \in Words /\ i \in Nat \ {0} /\ i \in 1 .. n
        BY <1>1, <2>1, <2>4 DEF Draws
      <3> DEFINE j == High(d[i], i) + 1
      <3>2. j \in 1 .. n
        <4>1. High(d[i], i) \in 0 .. i - 1
          BY <3>1, HighBound
        <4> QED
          BY <1>1, <3>1, <4>1
      <3>3. f[i] = Swap(Ordered(s, p), i, j)
        <4>1. f[i] = IF i > n THEN s ELSE Swap(f[i + 1], i, High(d[i], i) + 1)
          BY <1>2, <2>1
        <4>2. ~(i > n)
          BY <1>1, <2>1, <2>4
        <4> HIDE DEF n
        <4> QED
          BY <2>2, <4>1, <4>2, Zenon
      <3> HIDE DEF j
      <3>4. IsOrder(Swap(p, i, j), n) /\ f[i] = Ordered(s, Swap(p, i, j))
        BY <2>2, <3>1, <3>2, <3>3, SwapOrdered
      <3> QED
        BY <2>1, <3>4 DEF i
    <2> QED
      BY <1>1, <2>1, <2>3, <2>4
  <1> HIDE DEF T
  <1>5. \A k \in 0 .. n : k \in T
    BY <1>1, <1>3, <1>4, UpTo
  <1>6. n + 2 - m \in T /\ n + 2 - (n + 2 - m) = m
    BY <1>1, <1>5
  <1>7. PICK p : IsOrder(p, n) /\ f[n + 2 - (n + 2 - m)] = Ordered(s, p)
    BY <1>6 DEF T
  <1> QED
    BY <1>6, <1>7 DEF f

\* csprngShuffle gives the elements of the list, each of them once.
THEOREM ShuffleOrders ==
    ASSUME NEW S, NEW s \in Seq(S), NEW d \in Draws(Len(s))
    PROVE  \E p : IsOrder(p, Len(s)) /\ CsprngShuffle(s, d) = Ordered(s, p)
  <1>1. 2 \in 2 .. Len(s) + 2
    OBVIOUS
  <1> QED
    BY <1>1, DownToOrders, ShuffleIsDownTo

LEMMA FiniteFunctions ==
    ASSUME NEW S, IsFiniteSet(S), NEW T, IsFiniteSet(T), NEW D, D \subseteq [S -> T]
    PROVE  IsFiniteSet(D)
  <1> DEFINE graph == [d \in D |-> {<<i, d[i]>> : i \in S}]
             G == SUBSET (S \X T)
  <1>1. IsFiniteSet(G)
    <2>1. IsFiniteSet(S \X T)
      BY FS_Product
    <2> QED
      BY <2>1, FS_SUBSET
  <1>2. ASSUME NEW d \in D
        PROVE  graph[d] = {<<i, d[i]>> : i \in S} /\ graph[d] \in G
    BY <1>2
  <1>3. ASSUME NEW d \in D, NEW e \in D, graph[d] = graph[e]
        PROVE  d = e
    <2>1. ASSUME NEW i \in S
          PROVE  d[i] = e[i]
      <3>1. <<i, d[i]>> \in graph[e]
        BY <1>2, <1>3
      <3>2. PICK j \in S : <<i, d[i]>> = <<j, e[j]>>
        BY <1>2, <3>1
      <3> QED
        BY <3>2
    <2> QED
      BY <2>1
  <1> HIDE DEF G
  <1>4. graph \in [D -> G]
    BY <1>2
  <1> HIDE DEF graph
  <1>5. graph \in Injection(D, G)
    BY <1>3, <1>4, Fun_IsInj
  <1> QED
    BY <1>1, <1>5, FS_Injection

\* The words that csprngUint32n takes for one number are an interval, as long for
\* every number.
LEMMA AcceptedWords ==
    ASSUME NEW n \in 1 .. WordSize, NEW x \in 0 .. n - 1
    PROVE  \E a \in Nat : \A v \in Nat :
                v \in Words /\ ~Rejected(v, n) /\ High(v, n) = x
                    <=> a <= v /\ v < a + (WordSize \div n)
  <1> DEFINE W == WordSize
             Q == W \div n
             T == W % n
  <1>1. W \in Nat \ {0} /\ n \in Nat \ {0} /\ x \in Nat /\ n <= W
    BY WordSizeAssumption
  <1>2. Q \in Nat /\ T \in 0 .. n - 1 /\ W = Q * n + T
    BY <1>1, DivProperties
  <1> HIDE DEF Q, T
  <1>3. Thresh(n) = T
    <2>1. Q # 0
      BY <1>1, <1>2
    <2>2. W - n = (Q - 1) * n + T /\ Q - 1 \in Nat
      BY <1>1, <1>2, <2>1
    <2> QED
      BY <1>1, <1>2, <2>2, DivUnique DEF Thresh
  <1>4. ASSUME NEW v \in Nat
        PROVE  v \in Words /\ ~Rejected(v, n) /\ High(v, n) = x
                    <=> x * W + T <= v * n /\ v * n < x * W + W
    <2> DEFINE y == v * n
               h == y \div W
               l == y % W
    <2>1. y \in Nat /\ High(v, n) = h /\ Low(v, n) = l
      BY <1>1 DEF High, Low
    <2>2. h \in Nat /\ l \in 0 .. W - 1 /\ y = h * W + l
      <3> HIDE DEF y
      <3> QED
        BY <1>1, <2>1, DivProperties
    <2>3. Rejected(v, n) <=> l < T
      BY <1>1, <1>2, <1>3, <2>1, <2>2 DEF Rejected
    <2> HIDE DEF h, l
    <2>4. ASSUME v \in Words, ~Rejected(v, n), High(v, n) = x
          PROVE  x * W + T <= y /\ y < x * W + W
      <3>1. h = x /\ l >= T
        BY <1>2, <2>1, <2>2, <2>3, <2>4
      <3> HIDE DEF y
      <3> QED
        BY <1>1, <1>2, <2>1, <2>2, <3>1
    <2>5. ASSUME x * W + T <= y, y < x * W + W
          PROVE  v \in Words /\ ~Rejected(v, n) /\ High(v, n) = x
      <3>1. \E r \in 0 .. W - 1 : y = x * W + r /\ r >= T
        <4> HIDE DEF y
        <4>1. x * W \in Nat
          BY <1>1
        <4>2. y - x * W \in 0 .. W - 1 /\ y - x * W >= T
          BY <1>1, <1>2, <2>1, <2>5, <4>1
        <4> QED
          BY <2>1, <4>1, <4>2
      <3>2. PICK r \in 0 .. W - 1 : y = x * W + r /\ r >= T
        BY <3>1
      <3>3. h = x /\ l = r
        <4>1. (x * W + r) \div W = x /\ (x * W + r) % W = r
          BY <1>1, DivUnique
        <4> HIDE DEF y
        <4> QED
          BY <3>2, <4>1 DEF h, l
      <3>4. v < W
        <4>1. SUFFICES ASSUME W <= v PROVE FALSE
          BY <1>1
        <4>2. W * n <= v * n
          BY <1>1, <4>1, MultMonotonic
        <4>3. (x + 1) * W <= n * W
          BY <1>1, MultMonotonic
        <4> QED
          BY <1>1, <2>5, <4>2, <4>3
      <3> QED
        BY <1>1, <1>2, <2>1, <2>3, <3>2, <3>3, <3>4 DEF Words
    <2> QED
      BY <2>4, <2>5
  <1> DEFINE c == x * W + T
             A == {v \in Nat : c <= v * n}
  <1>5. c \in Nat /\ x * W + W = c + Q * n
    BY <1>1, <1>2
  <1> HIDE DEF c
  <1>6. PICK a \in A : \A v \in A : a <= v
    <2>1. c \in A
      BY <1>1, <1>5
    <2> HIDE DEF A
    <2>2. A \subseteq Nat /\ A # {}
      BY <2>1 DEF A
    <2> QED
      BY <2>2, LeastNat
  <1>7. a \in Nat /\ c <= a * n
    BY <1>6
  <1>8. \A v \in Nat : c <= v * n <=> a <= v
    <2>1. ASSUME NEW v \in Nat, a <= v
          PROVE  c <= v * n
      <3>1. a * n <= v * n
        BY <1>1, <1>7, <2>1, MultMonotonic
      <3> QED
        BY <1>1, <1>5, <1>7, <3>1
    <2> QED
      BY <1>6, <2>1
  <1> HIDE DEF A
  <1>9. ASSUME NEW v \in Nat
        PROVE  v * n < c + Q * n <=> v < a + Q
    <2>1. CASE v < Q
      <3>1. v * n <= Q * n
        BY <1>1, <1>2, <2>1, MultMonotonic
      <3>2. v + 1 <= Q
        BY <1>2, <2>1
      <3>3. (v + 1) * n <= Q * n
        BY <1>1, <1>2, <3>2, MultMonotonic
      <3>4. v * n < Q * n
        BY <1>1, <1>2, <3>3
      <3> QED
        BY <1>1, <1>2, <1>5, <1>7, <2>1, <3>4
    <2>2. CASE Q <= v
      <3> DEFINE u == v - Q
      <3>1. u \in Nat /\ v = u + Q /\ v * n = u * n + Q * n
        BY <1>1, <1>2, <2>2
      <3> HIDE DEF u
      <3>2. c <= u * n <=> a <= u
        BY <1>8, <3>1
      <3>3. u * n \in Nat /\ Q * n \in Nat
        BY <1>1, <1>2, <3>1
      <3>4. ~(c <= u * n) <=> v * n < c + Q * n
        BY <1>5, <3>1, <3>3
      <3>5. ~(a <= u) <=> v < a + Q
        BY <1>2, <1>7, <3>1
      <3> QED
        BY <3>2, <3>4, <3>5
    <2> QED
      BY <1>2, <2>1, <2>2
  <1>10. ASSUME NEW v \in Nat
         PROVE  v \in Words /\ ~Rejected(v, n) /\ High(v, n) = x
                    <=> a <= v /\ v < a + Q
    <2>1. v \in Words /\ ~Rejected(v, n) /\ High(v, n) = x
                <=> c <= v * n /\ v * n < c + Q * n
      BY <1>4, <1>5 DEF c
    <2> QED
      BY <1>8, <1>9, <2>1
  <1> QED
    BY <1>7, <1>10 DEF Q

\* A turn of the loop of csprngShuffle.
LEMMA DownToStep ==
    ASSUME NEW S, NEW s \in Seq(S), NEW d \in Draws(Len(s)), NEW i \in 2 .. Len(s)
    PROVE  /\ DownTo(s, d)[i] = Swap(DownTo(s, d)[i + 1], i, High(d[i], i) + 1)
           /\ High(d[i], i) + 1 \in 1 .. i
  <1> DEFINE n == Len(s)
             f == DownTo(s, d)
  <1>1. n \in Nat /\ i \in 2 .. n + 2 /\ i \in Nat \ {0} /\ ~(i > n)
    OBVIOUS
  <1>2. IsDownTo(f, s, d)
    BY DownToExists
  <1> HIDE DEF f
  <1>3. f[i] = IF i > n THEN s ELSE Swap(f[i + 1], i, High(d[i], i) + 1)
    BY <1>1, <1>2 DEF IsDownTo
  <1>4. High(d[i], i) \in 0 .. i - 1
    <2>1. d[i] \in Words
      BY DEF Draws
    <2> QED
      BY <1>1, <2>1, HighBound
  <1>5. High(d[i], i) + 1 \in 1 .. i
    BY <1>1, <1>4
  <1> QED
    BY <1>1, <1>3, <1>5 DEF f

LEMMA DownToTop ==
    ASSUME NEW S, NEW s \in Seq(S), NEW d \in Draws(Len(s)), Len(s) >= 1
    PROVE  DownTo(s, d)[Len(s) + 1] = s
  <1> DEFINE n == Len(s)
             f == DownTo(s, d)
  <1>1. n \in Nat /\ n + 1 \in 2 .. n + 2
    OBVIOUS
  <1>2. IsDownTo(f, s, d)
    BY DownToExists
  <1> HIDE DEF f
  <1>3. f[n + 1] = s
    BY <1>1, <1>2 DEF IsDownTo
  <1> QED
    BY <1>3 DEF f

\* The list above a place depends on the words drawn for these places only.
LEMMA SameAbove ==
    ASSUME NEW S, NEW s \in Seq(S), Len(s) >= 1, NEW d \in Draws(Len(s)),
           NEW e \in Draws(Len(s)), NEW i \in 2 .. Len(s) + 1,
           \A k \in i .. Len(s) : High(d[k], k) = High(e[k], k)
    PROVE  DownTo(s, d)[i] = DownTo(s, e)[i]
  <1> DEFINE n == Len(s)
             f == DownTo(s, d)
             g == DownTo(s, e)
             T == {k \in 0 .. n + 1 - i : f[n + 1 - k] = g[n + 1 - k]}
  <1>1. n \in Nat /\ i \in Nat /\ n + 1 - i \in Nat
    OBVIOUS
  <1>2. 0 \in T
    <2>1. f[n + 1] = g[n + 1]
      BY DownToTop
    <2> HIDE DEF f, g
    <2> QED
      BY <1>1, <2>1
  <1>3. ASSUME NEW k \in 0 .. n + 1 - i, k < n + 1 - i, k \in T
        PROVE  k + 1 \in T
    <2> DEFINE j == n + 1 - (k + 1)
    <2>1. j \in 2 .. n /\ j \in i .. n /\ j + 1 = n + 1 - k /\ k + 1 \in 0 .. n + 1 - i
      BY <1>1, <1>3
    <2> HIDE DEF j
    <2>2. /\ f[j] = Swap(f[j + 1], j, High(d[j], j) + 1)
          /\ g[j] = Swap(g[j + 1], j, High(e[j], j) + 1)
      BY <2>1, DownToStep
    <2> HIDE DEF f, g
    <2>3. f[j + 1] = g[j + 1]
      BY <1>3, <2>1
    <2>4. High(d[j], j) = High(e[j], j)
      BY <2>1
    <2>5. f[j] = g[j]
      BY <2>2, <2>3, <2>4
    <2> QED
      BY <2>1, <2>5 DEF j
  <1> HIDE DEF T
  <1>4. \A k \in 0 .. n + 1 - i : k \in T
    BY <1>1, <1>2, <1>3, UpTo
  <1>5. n + 1 - i \in T
    BY <1>1, <1>4
  <1>6. f[n + 1 - (n + 1 - i)] = g[n + 1 - (n + 1 - i)]
    BY <1>5 DEF T
  <1>7. n + 1 - (n + 1 - i) = i
    BY <1>1
  <1> QED
    BY <1>6, <1>7

\* Two orders that agree above the first place are the same.
LEMMA OrderFromSecond ==
    ASSUME NEW n \in Nat \ {0}, NEW p, NEW q, IsOrder(p, n), IsOrder(q, n),
           \A m \in 2 .. n : p[m] = q[m]
    PROVE  p = q
  <1>1. p \in [1 .. n -> 1 .. n] /\ q \in [1 .. n -> 1 .. n]
    BY DEF IsOrder
  <1>2. p[1] = q[1]
    <2>1. p[1] \in 1 .. n
      BY <1>1
    <2>2. PICK j \in 1 .. n : q[j] = p[1]
      BY <2>1 DEF IsOrder
    <2>3. CASE j = 1
      BY <2>2, <2>3
    <2>4. CASE j # 1
      <3>1. j \in 2 .. n
        BY <2>4
      <3>2. p[j] = p[1] /\ 1 \in 1 .. n
        BY <2>2, <3>1
      <3>3. j = 1
        BY <3>2 DEF IsOrder
      <3> QED
        BY <2>4, <3>3
    <2> QED
      BY <2>3, <2>4
  <1>3. \A m \in 1 .. n : p[m] = q[m]
    <2>1. \A m \in 1 .. n : m = 1 \/ m \in 2 .. n
      OBVIOUS
    <2> QED
      BY <1>2, <2>1
  <1> QED
    BY <1>1, <1>3

\* There is a word for every number.
LEMMA SomeWord ==
    ASSUME NEW n \in 1 .. WordSize, NEW x \in 0 .. n - 1
    PROVE  \E v \in Words : ~Rejected(v, n) /\ High(v, n) = x
  <1>1. PICK a \in Nat : \A v \in Nat :
                v \in Words /\ ~Rejected(v, n) /\ High(v, n) = x
                    <=> a <= v /\ v < a + (WordSize \div n)
    BY AcceptedWords
  <1>2. WordSize \div n \in Nat \ {0}
    <2>1. WordSize \in Nat /\ n \in Nat \ {0} /\ n <= WordSize
      BY WordSizeAssumption
    <2> DEFINE Q == WordSize \div n
               T == WordSize % n
    <2>2. Q \in Nat /\ T \in 0 .. n - 1 /\ WordSize = Q * n + T
      BY <2>1, DivProperties
    <2> HIDE DEF Q, T
    <2>3. Q # 0
      BY <2>1, <2>2
    <2> QED
      BY <2>2, <2>3 DEF Q
  <1>3. a <= a /\ a < a + (WordSize \div n)
    <2> DEFINE Q == WordSize \div n
    <2>1. Q \in Nat \ {0}
      BY <1>2
    <2> HIDE DEF Q
    <2>2. a <= a /\ a < a + Q
      BY <2>1
    <2> QED
      BY <2>2 DEF Q
  <1>4. a \in Words /\ ~Rejected(a, n) /\ High(a, n) = x
    BY <1>1, <1>3
  <1> QED
    BY <1>4

\* Every order can be the outcome.
LEMMA EveryOrderReached ==
    ASSUME NEW S, NEW s \in Seq(S), Len(s) >= 1, Len(s) <= WordSize,
           NEW p, IsOrder(p, Len(s)), NEW d0 \in Draws(Len(s))
    PROVE  \E d \in Draws(Len(s)) : CsprngShuffle(s, d) = Ordered(s, p)
  <1> DEFINE n == Len(s)
             K(d, q, i) == /\ IsOrder(q, n) /\ DownTo(s, d)[i] = Ordered(s, q)
                           /\ \A m \in i .. n : q[m] = p[m]
             T == {k \in 0 .. n - 1 : \E d \in Draws(n) : \E q : K(d, q, n + 1 - k)}
  <1>1. n \in Nat \ {0} /\ WordSize \in Nat /\ n - 1 \in Nat
    BY WordSizeAssumption
  <1>2. 0 \in T
    <2> DEFINE q == [i \in 1 .. n |-> i]
    <2>1. IsOrder(q, n)
      BY <1>1 DEF IsOrder
    <2>2. Ordered(s, q) = s
      BY <1>1 DEF Ordered
    <2>3. DownTo(s, d0)[n + 1] = s
      BY DownToTop
    <2>4. \A m \in n + 1 .. n : q[m] = p[m]
      BY <1>1
    <2> HIDE DEF q
    <2>5. K(d0, q, n + 1)
      BY <2>1, <2>2, <2>3, <2>4
    <2> HIDE DEF K
    <2>6. n + 1 - 0 = n + 1
      BY <1>1
    <2>7. \E d \in Draws(n) : \E r : K(d, r, n + 1 - 0)
      BY <2>5, <2>6
    <2> QED
      BY <1>1, <2>7
  <1>3. ASSUME NEW k \in 0 .. n - 1, k < n - 1, k \in T
        PROVE  k + 1 \in T
    <2> DEFINE i == n - k
    <2>1. i \in 2 .. n /\ i + 1 = n + 1 - k /\ i = n + 1 - (k + 1) /\ k + 1 \in 0 .. n - 1
      BY <1>1, <1>3
    <2> HIDE DEF i
    <2>2. PICK d \in Draws(n) : \E q : K(d, q, i + 1)
      BY <1>3, <2>1
    <2>2a. PICK q : K(d, q, i + 1)
      BY <2>2
    <2>3. p[i] \in 1 .. n
      <3>1. i \in 1 .. n
        BY <1>1, <2>1
      <3>2. p \in [1 .. n -> 1 .. n]
        BY DEF IsOrder
      <3> QED
        BY <3>1, <3>2
    <2>4. PICK j \in 1 .. n : q[j] = p[i]
      BY <2>2a, <2>3 DEF IsOrder
    <2>5. j \in 1 .. i
      <3>1. SUFFICES ASSUME j \in i + 1 .. n PROVE FALSE
        BY <1>1, <2>1
      <3>2. p[j] = p[i] /\ i \in 1 .. n
        BY <1>1, <2>1, <2>2a, <2>4, <3>1
      <3>3. i = j
        BY <3>2 DEF IsOrder
      <3> QED
        BY <2>1, <3>1, <3>3
    <2>6. PICK v \in Words : ~Rejected(v, i) /\ High(v, i) = j - 1
      <3>1. i \in 1 .. WordSize /\ j - 1 \in 0 .. i - 1
        BY <1>1, <2>1, <2>5
      <3> QED
        BY <3>1, SomeWord
    <2> DEFINE e == [d EXCEPT ![i] = v]
    <2>7. /\ e \in Draws(n) /\ e[i] = v
          /\ \A m \in i + 1 .. n : e[m] = d[m]
      <3>1. d \in [2 .. n -> Words] /\ \A m \in 2 .. n : ~Rejected(d[m], m)
        BY DEF Draws
      <3>2. e \in [2 .. n -> Words] /\ e[i] = v /\ \A m \in 2 .. n : m # i => e[m] = d[m]
        BY <2>1, <3>1
      <3> HIDE DEF e
      <3>3. \A m \in 2 .. n : ~Rejected(e[m], m)
        BY <2>6, <3>1, <3>2
      <3>4. \A m \in i + 1 .. n : m \in 2 .. n /\ m # i
        BY <1>1, <2>1
      <3> QED
        BY <3>2, <3>3, <3>4 DEF Draws
    <2> HIDE DEF e
    <2>8. DownTo(s, e)[i + 1] = Ordered(s, q)
      <3>1. i + 1 \in 2 .. n + 1
        BY <1>1, <2>1
      <3>2. \A m \in i + 1 .. n : High(d[m], m) = High(e[m], m)
        BY <2>7
      <3>3. DownTo(s, d)[i + 1] = DownTo(s, e)[i + 1]
        BY <2>7, <3>1, <3>2, SameAbove
      <3> QED
        BY <2>2a, <3>3
    <2> DEFINE r == Swap(q, i, j)
    <2>9. IsOrder(r, n) /\ DownTo(s, e)[i] = Ordered(s, r)
      <3>1. DownTo(s, e)[i] = Swap(Ordered(s, q), i, High(e[i], i) + 1)
        BY <2>1, <2>7, <2>8, DownToStep
      <3>2. High(e[i], i) + 1 = j
        BY <2>5, <2>6, <2>7
      <3>3. i \in 1 .. n
        BY <1>1, <2>1
      <3> QED
        BY <2>2a, <3>1, <3>2, <3>3, SwapOrdered
    <2>10. \A m \in i .. n : r[m] = p[m]
      <3>1. i \in 1 .. n
        BY <1>1, <2>1
      <3>2. r[i] = q[j] /\ \A m \in 1 .. n : m # i /\ m # j => r[m] = q[m]
        <4>1. q \in [1 .. n -> 1 .. n]
          BY <2>2a DEF IsOrder
        <4> DEFINE D == 1 .. n
        <4>2. q \in [D -> D] /\ i \in D /\ j \in D
          BY <3>1, <4>1
        <4> HIDE DEF D
        <4>3. Swap(q, i, j)[i] = q[j]
              /\ \A m \in D : m # i /\ m # j => Swap(q, i, j)[m] = q[m]
          BY <4>2 DEF Swap
        <4> QED
          BY <4>3 DEF D
      <3>3. \A m \in i .. n : m = i \/ (m \in i + 1 .. n /\ m \in 1 .. n /\ m # i /\ m # j)
        BY <1>1, <2>1, <2>5
      <3> HIDE DEF r
      <3> QED
        BY <2>2a, <2>4, <3>2, <3>3
    <2>11. K(e, r, i)
      BY <2>9, <2>10
    <2> HIDE DEF K, r
    <2>12. \E d1 \in Draws(n) : \E q1 : K(d1, q1, n + 1 - (k + 1))
      BY <2>1, <2>7, <2>11
    <2> QED
      BY <2>1, <2>12
  <1> HIDE DEF T
  <1>4. \A k \in 0 .. n - 1 : k \in T
    BY <1>1, <1>2, <1>3, UpTo
  <1>5. n - 1 \in T /\ n + 1 - (n - 1) = 2
    BY <1>1, <1>4
  <1>6. PICK d \in Draws(n) : \E q : K(d, q, 2)
    <2> HIDE DEF K
    <2> QED
      BY <1>5 DEF T
  <1>6a. PICK q : K(d, q, 2)
    <2> HIDE DEF K
    <2> QED
      BY <1>6
  <1>7. q = p
    BY <1>1, <1>6a, OrderFromSecond
  <1> QED
    BY <1>6a, <1>7, ShuffleIsDownTo

Distinct(s) == \A i, j \in 1 .. Len(s) : s[i] = s[j] => i = j

\* What the places from i on have is not changed by the turns that follow.
LEMMA PlacesDone ==
    ASSUME NEW S, NEW s \in Seq(S), Len(s) >= 1, NEW d \in Draws(Len(s)),
           NEW i \in 2 .. Len(s) + 1, NEW m \in i .. Len(s)
    PROVE  DownTo(s, d)[2][m] = DownTo(s, d)[i][m]
  <1> DEFINE n == Len(s)
             f == DownTo(s, d)
             T == {k \in 0 .. i - 2 : f[2 + k][m] = f[2][m]}
  <1>1. n \in Nat /\ i \in Nat /\ m \in Nat /\ i - 2 \in Nat /\ m \in 1 .. n
    OBVIOUS
  <1>2. 0 \in T
    BY <1>1
  <1>3. ASSUME NEW k \in 0 .. i - 2, k < i - 2, k \in T
        PROVE  k + 1 \in T
    <2> DEFINE j == 2 + k
    <2>1. j \in 2 .. n /\ j + 1 = 2 + (k + 1) /\ k + 1 \in 0 .. i - 2 /\ m # j /\ m > j
          /\ j \in 1 .. n /\ j + 1 \in 2 .. n + 2
      BY <1>1, <1>3
    <2>2. f[j][m] = f[2][m]
      BY <1>3
    <2> HIDE DEF j
    <2> DEFINE h == High(d[j], j) + 1
    <2>3. f[j] = Swap(f[j + 1], j, h) /\ h \in 1 .. j
      BY <2>1, DownToStep
    <2>4. f[j + 1] \in [1 .. n -> S]
      <3>1. PICK q : IsOrder(q, n) /\ f[j + 1] = Ordered(s, q)
        BY <2>1, DownToOrders
      <3>2. q \in [1 .. n -> 1 .. n]
        BY <3>1 DEF IsOrder
      <3>3. f[j + 1] = [l \in 1 .. n |-> s[q[l]]]
        BY <3>1 DEF Ordered
      <3>4. \A l \in 1 .. n : s[q[l]] \in S
        BY <1>1, <3>2
      <3> HIDE DEF f
      <3> QED
        BY <3>3, <3>4
    <2> HIDE DEF h, f
    <2>5. m # h /\ h \in 1 .. n
      BY <1>1, <2>1, <2>3
    <2> DEFINE D == 1 .. n
    <2>6. f[j + 1] \in [D -> S] /\ j \in D /\ h \in D /\ m \in D
      BY <1>1, <2>1, <2>4, <2>5
    <2> HIDE DEF D
    <2>7. Swap(f[j + 1], j, h)[m] = f[j + 1][m]
      BY <2>1, <2>5, <2>6 DEF Swap
    <2>8. f[j + 1][m] = f[2][m]
      BY <2>2, <2>3, <2>7
    <2> QED
      BY <2>1, <2>8
  <1> HIDE DEF T
  <1>4. \A k \in 0 .. i - 2 : k \in T
    BY <1>1, <1>2, <1>3, UpTo
  <1>5. i - 2 \in T /\ 2 + (i - 2) = i
    BY <1>1, <1>4
  <1>6. f[2 + (i - 2)][m] = f[2][m]
    BY <1>5 DEF T
  <1> QED
    BY <1>5, <1>6

\* The outcome tells the numbers that were drawn.
LEMMA OneWayToAnOrder ==
    ASSUME NEW S, NEW s \in Seq(S), Len(s) >= 1, Distinct(s),
           NEW d \in Draws(Len(s)), NEW e \in Draws(Len(s))
    PROVE  CsprngShuffle(s, d) = CsprngShuffle(s, e)
                <=> \A k \in 2 .. Len(s) : High(d[k], k) = High(e[k], k)
  <1> DEFINE n == Len(s)
             f == DownTo(s, d)
             g == DownTo(s, e)
             Same(k) == High(d[k], k) = High(e[k], k)
  <1>1. n \in Nat \ {0} /\ n - 1 \in Nat /\ 2 \in 2 .. n + 1
    OBVIOUS
  <1>2. CsprngShuffle(s, d) = f[2] /\ CsprngShuffle(s, e) = g[2]
    BY ShuffleIsDownTo
  <1>3. ASSUME \A k \in 2 .. n : Same(k)
        PROVE  f[2] = g[2]
    BY <1>1, <1>3, SameAbove
  <1>4. ASSUME f[2] = g[2]
        PROVE  \A k \in 2 .. n : Same(k)
    <2> DEFINE T == {k \in 0 .. n - 1 : \A l \in n + 1 - k .. n : Same(l)}
    <2>1. 0 \in T
      BY <1>1
    <2>2. ASSUME NEW k \in 0 .. n - 1, k < n - 1, k \in T
          PROVE  k + 1 \in T
      <3> DEFINE i == n - k
      <3>1. /\ i \in 2 .. n /\ i + 1 = n + 1 - k /\ i = n + 1 - (k + 1)
            /\ k + 1 \in 0 .. n - 1 /\ i + 1 \in 2 .. n + 1 /\ i \in 2 .. n + 1
            /\ i \in i .. n /\ i \in 1 .. n /\ i + 1 \in 2 .. n + 2
        BY <1>1, <2>2
      <3>2. \A l \in i + 1 .. n : Same(l)
        BY <2>2, <3>1
      <3> HIDE DEF i
      <3>3. f[i + 1] = g[i + 1]
        BY <1>1, <3>1, <3>2, SameAbove
      <3>4. f[2][i] = f[i][i] /\ g[2][i] = g[i][i]
        BY <1>1, <3>1, PlacesDone
      <3> DEFINE a == High(d[i], i) + 1
                 b == High(e[i], i) + 1
      <3>5. /\ f[i] = Swap(f[i + 1], i, a) /\ a \in 1 .. i
            /\ g[i] = Swap(g[i + 1], i, b) /\ b \in 1 .. i
        BY <3>1, DownToStep
      <3>6. PICK q : IsOrder(q, n) /\ f[i + 1] = Ordered(s, q)
        BY <3>1, DownToOrders
      <3> HIDE DEF f, g
      <3>7. q \in [1 .. n -> 1 .. n] /\ Ordered(s, q) \in [1 .. n -> S]
        <4>1. q \in [1 .. n -> 1 .. n]
          BY <3>6 DEF IsOrder
        <4>2. \A l \in 1 .. n : s[q[l]] \in S
          BY <1>1, <4>1
        <4> QED
          BY <4>1, <4>2 DEF Ordered
      <3> DEFINE D == 1 .. n
      <3>8. a \in D /\ b \in D /\ i \in D
        <4> HIDE DEF a, b
        <4> QED
          BY <1>1, <3>1, <3>5
      <3>9. f[i][i] = Ordered(s, q)[a] /\ g[i][i] = Ordered(s, q)[b]
        <4> HIDE DEF a, b
        <4>1. Ordered(s, q) \in [D -> S]
          BY <3>7
        <4> HIDE DEF D
        <4> QED
          BY <3>3, <3>5, <3>6, <3>8, <4>1 DEF Swap
      <3>10. s[q[a]] = s[q[b]]
        <4> HIDE DEF a, b
        <4>1. Ordered(s, q)[a] = s[q[a]] /\ Ordered(s, q)[b] = s[q[b]]
          BY <3>8 DEF Ordered
        <4> QED
          BY <1>4, <3>4, <3>9, <4>1
      <3>11. a = b
        <4> HIDE DEF a, b
        <4>1. q[a] \in 1 .. n /\ q[b] \in 1 .. n
          BY <3>7, <3>8
        <4>2. q[a] = q[b]
          BY <3>10, <4>1 DEF Distinct
        <4> QED
          BY <3>6, <3>8, <4>2 DEF IsOrder
      <3>12. Same(i)
        <4>1. High(d[i], i) \in 0 .. i - 1 /\ High(e[i], i) \in 0 .. i - 1
          <5>1. d[i] \in Words /\ e[i] \in Words /\ i \in Nat \ {0}
            BY <1>1, <3>1 DEF Draws
          <5> QED
            BY <5>1, HighBound
        <4> QED
          BY <3>11, <4>1
      <3> HIDE DEF Same
      <3>13. \A l \in i .. n : l = i \/ l \in i + 1 .. n
        BY <1>1, <3>1
      <3>14. \A l \in n + 1 - (k + 1) .. n : Same(l)
        BY <3>1, <3>2, <3>12, <3>13
      <3> QED
        BY <3>1, <3>14
    <2> HIDE DEF T
    <2>3. \A k \in 0 .. n - 1 : k \in T
      BY <1>1, <2>1, <2>2, UpTo
    <2>4. n - 1 \in T /\ n + 1 - (n - 1) = 2
      BY <1>1, <2>3
    <2> HIDE DEF Same
    <2> QED
      BY <2>4 DEF T
  <1> QED
    BY <1>2, <1>3, <1>4

\* What is drawn for a number is an interval above the base of every place.
WordBox(n, base) ==
    { d \in [2 .. n -> Nat] : \A k \in 2 .. n :
        base[k] <= d[k] /\ d[k] < base[k] + (WordSize \div k) }

LEMMA ClassBox ==
    ASSUME NEW n \in 1 .. WordSize, NEW d0 \in Draws(n)
    PROVE  \E base \in [2 .. n -> Nat] :
                { d \in Draws(n) : \A k \in 2 .. n : High(d[k], k) = High(d0[k], k) }
                    = WordBox(n, base)
  <1> DEFINE D == 2 .. n
             C == { d \in Draws(n) : \A k \in D : High(d[k], k) = High(d0[k], k) }
             At(k, a) == \A v \in Nat :
                v \in Words /\ ~Rejected(v, k) /\ High(v, k) = High(d0[k], k)
                    <=> a <= v /\ v < a + (WordSize \div k)
             base == [k \in D |-> CHOOSE a \in Nat : At(k, a)]
  <1>1. WordSize \in Nat \ {0} /\ n \in Nat
    BY WordSizeAssumption
  <1>2. ASSUME NEW k \in D
        PROVE  base[k] \in Nat /\ At(k, base[k])
    <2>1. k \in 1 .. WordSize /\ k \in Nat \ {0}
      BY <1>1
    <2>2. d0[k] \in Words
      BY DEF Draws
    <2>3. High(d0[k], k) \in 0 .. k - 1
      BY <2>1, <2>2, HighBound
    <2>4. \E a \in Nat : At(k, a)
      BY <2>1, <2>3, AcceptedWords
    <2>5. base[k] = CHOOSE a \in Nat : At(k, a)
      BY <1>2
    <2> HIDE DEF At, base
    <2> QED
      BY <2>4, <2>5
  <1>3. base \in [D -> Nat]
    <2> HIDE DEF At
    <2> QED
      BY <1>2
  <1> HIDE DEF base
  <1>4. Words \subseteq Nat
    BY <1>1 DEF Words
  <1>5. ASSUME NEW d \in C
        PROVE  d \in WordBox(n, base)
    <2>1. d \in [D -> Words] /\ \A k \in D : ~Rejected(d[k], k)
      BY DEF Draws
    <2>2. d \in [D -> Nat]
      BY <1>4, <2>1
    <2>3. ASSUME NEW k \in D
          PROVE  base[k] <= d[k] /\ d[k] < base[k] + (WordSize \div k)
      <3>1. d[k] \in Words /\ d[k] \in Nat /\ ~Rejected(d[k], k)
            /\ High(d[k], k) = High(d0[k], k)
        BY <2>1, <2>2
      <3>2. At(k, base[k])
        BY <1>2
      <3> QED
        BY <3>1, <3>2
    <2> QED
      BY <2>2, <2>3 DEF WordBox
  <1>6. ASSUME NEW d \in WordBox(n, base)
        PROVE  d \in C
    <2>1. d \in [D -> Nat]
          /\ \A k \in D : base[k] <= d[k] /\ d[k] < base[k] + (WordSize \div k)
      BY DEF WordBox
    <2>2. ASSUME NEW k \in D
          PROVE  d[k] \in Words /\ ~Rejected(d[k], k) /\ High(d[k], k) = High(d0[k], k)
      <3>1. d[k] \in Nat /\ base[k] <= d[k] /\ d[k] < base[k] + (WordSize \div k)
        BY <2>1
      <3>2. At(k, base[k])
        BY <1>2
      <3> QED
        BY <3>1, <3>2
    <2>3. d \in [D -> Words]
      BY <2>1, <2>2
    <2> QED
      BY <2>2, <2>3 DEF Draws
  <1> QED
    BY <1>3, <1>5, <1>6

\* The number of ways does not depend on the base.
LEMMA BoxSize ==
    ASSUME NEW n \in 1 .. WordSize, NEW a \in [2 .. n -> Nat], NEW b \in [2 .. n -> Nat],
           IsFiniteSet(WordBox(n, a))
    PROVE  Cardinality(WordBox(n, a)) = Cardinality(WordBox(n, b))
  <1> DEFINE D == 2 .. n
             L == [k \in D |-> WordSize \div k]
             A == WordBox(n, a)
             B == WordBox(n, b)
             Moved(d, from, to) == [k \in D |-> d[k] - from[k] + to[k]]
  <1>1. WordSize \in Nat \ {0} /\ n \in Nat
    BY WordSizeAssumption
  <1>2. L \in [D -> Nat]
    <2>1. ASSUME NEW k \in D
          PROVE  WordSize \div k \in Nat
      <3>1. k \in Nat \ {0}
        BY <1>1
      <3> QED
        BY <1>1, <3>1, DivProperties
    <2> QED
      BY <2>1
  <1>3. ASSUME NEW c \in [D -> Nat]
        PROVE  WordBox(n, c) = {d \in [D -> Nat] : \A k \in D :
                                c[k] <= d[k] /\ d[k] < c[k] + L[k]}
    BY DEF WordBox
  <1> HIDE DEF L, D
  <1>4. ASSUME NEW c \in [D -> Nat], NEW e \in [D -> Nat], NEW d \in WordBox(n, c)
        PROVE  /\ Moved(d, c, e) \in WordBox(n, e)
               /\ Moved(Moved(d, c, e), e, c) = d
               /\ \A k \in D : Moved(d, c, e)[k] = d[k] - c[k] + e[k]
    <2>1. d \in [D -> Nat] /\ \A k \in D : c[k] <= d[k] /\ d[k] < c[k] + L[k]
      BY <1>3
    <2>2. ASSUME NEW k \in D
          PROVE  /\ d[k] - c[k] + e[k] \in Nat
                 /\ e[k] <= d[k] - c[k] + e[k] /\ d[k] - c[k] + e[k] < e[k] + L[k]
                 /\ (d[k] - c[k] + e[k]) - e[k] + c[k] = d[k]
      <3>1. d[k] \in Nat /\ c[k] \in Nat /\ e[k] \in Nat /\ L[k] \in Nat
        BY <1>2, <2>1
      <3>2. c[k] <= d[k] /\ d[k] < c[k] + L[k]
        BY <2>1
      <3> QED
        BY <3>1, <3>2
    <2> DEFINE m == Moved(d, c, e)
    <2>3. m \in [D -> Nat] /\ \A k \in D : m[k] = d[k] - c[k] + e[k]
      BY <2>2
    <2> HIDE DEF m
    <2>4. m \in WordBox(n, e)
      <3>1. ASSUME NEW k \in D
            PROVE  e[k] <= m[k] /\ m[k] < e[k] + L[k]
        BY <2>2, <2>3
      <3>2. WordBox(n, e) = {x \in [D -> Nat] : \A k \in D :
                                e[k] <= x[k] /\ x[k] < e[k] + L[k]}
        BY <1>3
      <3> QED
        BY <2>3, <3>1, <3>2
    <2>5. Moved(m, e, c) = d
      BY <2>1, <2>2, <2>3
    <2> QED
      BY <2>3, <2>4, <2>5 DEF m
  <1>5. a \in [D -> Nat] /\ b \in [D -> Nat]
    BY DEF D
  <1> HIDE DEF Moved
  <1> DEFINE f == [d \in A |-> Moved(d, a, b)]
  <1>6. f \in [A -> B]
    BY <1>4, <1>5
  <1>7. ASSUME NEW d \in A, NEW e \in A, f[d] = f[e]
        PROVE  d = e
    <2>1. Moved(d, a, b) = Moved(e, a, b)
      BY <1>7
    <2>2. Moved(Moved(d, a, b), b, a) = d /\ Moved(Moved(e, a, b), b, a) = e
      BY <1>4, <1>5
    <2> QED
      BY <2>1, <2>2
  <1>8. ASSUME NEW e \in B
        PROVE  \E d \in A : f[d] = e
    <2>1. Moved(e, b, a) \in A /\ Moved(Moved(e, b, a), a, b) = e
      BY <1>4, <1>5
    <2> QED
      BY <2>1
  <1> HIDE DEF f, A, B
  <1>9. f \in Bijection(A, B)
    BY <1>6, <1>7, <1>8, Fun_IsBij
  <1>10. ExistsBijection(A, B)
    BY <1>9 DEF ExistsBijection
  <1>11. IsFiniteSet(A)
    BY DEF A
  <1>12. Cardinality(B) = Cardinality(A)
    BY <1>10, <1>11, FS_Bijection
  <1> QED
    BY <1>12 DEF A, B

LEMMA DrawsFinite ==
    ASSUME NEW n \in Nat, NEW C, C \subseteq Draws(n)
    PROVE  IsFiniteSet(C)
  <1>1. IsFiniteSet(Words)
    <2> DEFINE m == WordSize - 1
    <2>1. m \in Int /\ 0 \in Int
      BY WordSizeAssumption
    <2> HIDE DEF m
    <2>2. IsFiniteSet(0 .. m)
      BY <2>1, FS_Interval
    <2> QED
      BY <2>2 DEF Words, m
  <1>2. IsFiniteSet(2 .. n)
    <2>1. 2 \in Int /\ n \in Int
      OBVIOUS
    <2> QED
      BY <2>1, FS_Interval
  <1>3. C \subseteq [2 .. n -> Words]
    BY DEF Draws
  <1> QED
    BY <1>1, <1>2, <1>3, FiniteFunctions

LEMMA SomeDraw ==
    ASSUME NEW n \in 1 .. WordSize
    PROVE  \E d : d \in Draws(n)
  <1> DEFINE D == 2 .. n
             d == [k \in D |-> CHOOSE v \in Words : ~Rejected(v, k)]
  <1>1. ASSUME NEW k \in D
        PROVE  d[k] \in Words /\ ~Rejected(d[k], k)
    <2>1. k \in 1 .. WordSize /\ 0 \in 0 .. k - 1
      BY WordSizeAssumption
    <2>2. \E v \in Words : ~Rejected(v, k)
      BY <2>1, SomeWord
    <2> QED
      BY <2>2
  <1>2. d \in [D -> Words]
    BY <1>1
  <1> HIDE DEF d
  <1>3. d \in Draws(n)
    BY <1>1, <1>2 DEF Draws
  <1> QED
    BY <1>3

\* The words that shuffle the list s to the order p.
WaysTo(s, p) == { d \in Draws(Len(s)) : CsprngShuffle(s, d) = Ordered(s, p) }

\* Every order of distinct elements has as many ways as every other.
THEOREM OrdersAsOften ==
    ASSUME NEW S, NEW s \in Seq(S), Len(s) \in 1 .. WordSize, Distinct(s),
           NEW p, IsOrder(p, Len(s)), NEW q, IsOrder(q, Len(s))
    PROVE  Cardinality(WaysTo(s, p)) = Cardinality(WaysTo(s, q))
  <1> DEFINE n == Len(s)
             Class(e) == { d \in Draws(n) : \A k \in 2 .. n : High(d[k], k) = High(e[k], k) }
  <1>1. n \in 1 .. WordSize /\ n \in Nat /\ n >= 1 /\ n <= WordSize
    BY WordSizeAssumption
  <1>2. ASSUME NEW r, IsOrder(r, n)
        PROVE  \E e \in Draws(n) : WaysTo(s, r) = Class(e)
    <2>1. PICK d0 : d0 \in Draws(n)
      BY <1>1, SomeDraw
    <2>2. PICK e \in Draws(n) : CsprngShuffle(s, e) = Ordered(s, r)
      BY <1>1, <1>2, <2>1, EveryOrderReached
    <2>3. ASSUME NEW d \in Draws(n)
          PROVE  CsprngShuffle(s, d) = Ordered(s, r)
                    <=> \A k \in 2 .. n : High(d[k], k) = High(e[k], k)
      BY <1>1, <2>2, OneWayToAnOrder
    <2>4. WaysTo(s, r) = Class(e)
      BY <2>3 DEF WaysTo
    <2> QED
      BY <2>4
  <1>3. PICK e1 \in Draws(n) : WaysTo(s, p) = Class(e1)
    BY <1>2
  <1>4. PICK e2 \in Draws(n) : WaysTo(s, q) = Class(e2)
    BY <1>2
  <1>5. PICK a \in [2 .. n -> Nat] : Class(e1) = WordBox(n, a)
    BY <1>1, ClassBox
  <1>6. PICK b \in [2 .. n -> Nat] : Class(e2) = WordBox(n, b)
    BY <1>1, ClassBox
  <1>7. IsFiniteSet(WordBox(n, a))
    <2>1. Class(e1) \subseteq Draws(n)
      OBVIOUS
    <2> HIDE DEF Class
    <2> QED
      BY <1>1, <1>5, <2>1, DrawsFinite
  <1>8. Cardinality(WordBox(n, a)) = Cardinality(WordBox(n, b))
    BY <1>1, <1>7, BoxSize
  <1> QED
    BY <1>3, <1>4, <1>5, <1>6, <1>8

-----------------------------------------------------------------------------
(* The inductive invariant.                                                *)

SenderOK ==
    /\ mode = "encryption" => major \in 1 .. 3
    /\ mode = "signcryption" => major = 2 /\ hides = {}

Unread == untried = {} /\ found = NotFound /\ mki = NoInfo

\* The header that was written, and what it may have been made on the way.
Sent ==
    IF pc \in {"start", "refused"}
    THEN receivers = << >> /\ asked = {} /\ Unread
    ELSE /\ major \in {1, 2} /\ CheckReceivers(receivers)
         /\ asked = Range(receivers) /\ sent = MakeHeader(receivers)
         /\ header \in {sent} \union AlteredHeaders(sent)

RingOK == IF pc \in {"start", "refused", "sent"} THEN ring = EmptyRing
          ELSE ring \in Rings(mode)

\* A key opens the box of receiver number j.
OpensBoxOf(key, j) ==
    IF receivers[j] \in Keys THEN key = receivers[j]
    ELSE key = NoKey /\ \E id \in Identifiers : ring.resolves[id] = receivers[j].key

\* The box that was opened is one of a receiver, its own if nothing was altered.
FoundOK ==
    /\ found # NotFound =>
        /\ found.opened = TRUE /\ found.position \in DOMAIN header.receivers
        /\ \E j \in DOMAIN receivers : /\ OpensBoxOf(found.key, j)
                                       /\ header = sent => j = found.position
    /\ pc \in {"sender", "packet", "accepted"} => found # NotFound
    /\ pc \notin {"sender", "packet", "accepted", "failed"} => found = NotFound

\* MessageKeyInfo has its fields; the receiver is called anonymous if its place
\* in the header is, the sender if its box has the key that says so.
InfoOK ==
    /\ mki = [senderKey |-> mki.senderKey, senderIsAnon |-> mki.senderIsAnon,
              receiverKey |-> mki.receiverKey, receiverIsAnon |-> mki.receiverIsAnon,
              named |-> mki.named, numAnon |-> mki.numAnon]
    /\ pc \in {"sent", "lookup"} => Unread
    /\ pc \in {"hidden", "sender"} => mki.senderIsAnon = FALSE
    /\ pc = "hidden" => mki.receiverIsAnon = TRUE
    /\ pc \in {"sender", "packet", "accepted"} =>
            mki.receiverIsAnon = (mode = "encryption" /\ found.position \in Anonymous)
    /\ pc \in {"packet", "accepted"} =>
        /\ mki.senderKey = BoxedSender
        /\ mki.senderIsAnon =
                (BoxedSender = IF mode = "encryption" THEN header.ephemeral ELSE NoKey)

\* tryHiddenReceivers has no key of a hidden receiver behind it.
TriedInVain ==
    pc = "hidden" =>
        /\ mode = "encryption" /\ Matches = {} /\ untried \subseteq AllSecretKeys
        /\ header = sent =>
                \A i \in Anonymous : receivers[i] \notin AllSecretKeys \ untried

Accepted == pc = "accepted" => PacketAuthentic

IInv == /\ TypeOK /\ SenderOK /\ Sent /\ RingOK /\ FoundOK /\ InfoOK
        /\ TriedInVain /\ Accepted /\ ReceiverGetsThrough

-----------------------------------------------------------------------------
(* Headers.                                                                *)

LEMMA PairSets ==
    ASSUME NEW a, NEW b, NEW c, {a, b} = {a, c}
    PROVE  b = c
  OBVIOUS

LEMMA EphemeralPairs ==
    ASSUME NEW a, NEW b, NEW e, {e, a} = {Ephemeral, b}, a # Ephemeral, b # Ephemeral
    PROVE  e = Ephemeral /\ a = b
  OBVIOUS

\* The header that was written, receiver by receiver.
LEMMA SentHeader ==
    ASSUME TypeOK, sent = MakeHeader(receivers)
    PROVE  /\ sent.major = major /\ sent.type = mode /\ sent.ephemeral = Ephemeral
           /\ sent.senderBox = Seal(PayloadKey, NonceForSenderKeySecretBox, SenderKey)
           /\ Len(receivers) \in Nat /\ DOMAIN receivers = 1 .. Len(receivers)
           /\ sent.receivers = [i \in 1 .. Len(receivers) |-> sent.receivers[i]]
           /\ sent = [major |-> sent.major, type |-> sent.type,
                      ephemeral |-> sent.ephemeral, senderBox |-> sent.senderBox,
                      receivers |-> sent.receivers]
           /\ \A i \in 1 .. Len(receivers) :
                sent.receivers[i] =
                    [kid |-> ReceiverKID(receivers[i], i),
                     box |-> Seal(KeyFor(receivers[i]),
                                  NonceForPayloadKeyBox(major, i), PayloadKey)]
  <1>1. receivers \in Seq(Receivers(mode))
    BY DEF TypeOK
  <1>2. Len(receivers) \in Nat /\ DOMAIN receivers = 1 .. Len(receivers)
    BY <1>1
  <1> QED
    BY <1>2 DEF MakeHeader

\* A set of receivers of which the name may be changed.
TakesAnyName(S) == \A r \in S, k \in Keys \union Identifiers \union {NoKID} :
                        [r EXCEPT !.kid = k] \in S

\* What the list of receivers read may be.
LEMMA AlteredList ==
    ASSUME NEW S, NEW rs \in Seq(S), NEW K, K = Keys \union Identifiers \union {NoKID},
           \A r \in S, k \in K : [r EXCEPT !.kid = k] \in S,
           NEW q \in AlteredReceivers(rs)
    PROVE  q \in Seq(S) /\ Len(q) <= Len(rs)
  <1> DEFINE n == Len(rs)
  <1>1. n \in Nat /\ DOMAIN rs = 1 .. n /\ \A i \in 1 .. n : rs[i] \in S
    OBVIOUS
  <1>2. CASE q \in { [rs EXCEPT ![i] = rs[j], ![j] = rs[i]] : i, j \in DOMAIN rs }
    <2>1. PICK i, j \in 1 .. n : q = [rs EXCEPT ![i] = rs[j], ![j] = rs[i]]
      BY <1>1, <1>2
    <2>2. q \in [1 .. n -> S]
      BY <1>1, <2>1
    <2> QED
      BY <1>1, <2>2
  <1>3. CASE q \in { RemoveAt(rs, i) : i \in DOMAIN rs }
    <2>1. PICK i \in 1 .. n : q = SubSeq(rs, 1, i - 1) \o SubSeq(rs, i + 1, n)
      BY <1>1, <1>3 DEF RemoveAt
    <2>2. /\ SubSeq(rs, 1, i - 1) \in Seq(S) /\ Len(SubSeq(rs, 1, i - 1)) = i - 1
          /\ SubSeq(rs, i + 1, n) \in Seq(S) /\ Len(SubSeq(rs, i + 1, n)) = n - i
      BY <1>1
    <2> QED
      BY <1>1, <2>1, <2>2
  <1>4. ASSUME NEW i \in DOMAIN rs, NEW k \in K, q = [rs EXCEPT ![i].kid = k]
        PROVE  q \in Seq(S) /\ Len(q) <= Len(rs)
    <2>1. [rs[i] EXCEPT !.kid = k] \in S
      BY <1>1
    <2>2. q = [rs EXCEPT ![i] = [rs[i] EXCEPT !.kid = k]]
      BY <1>4
    <2>3. q \in [1 .. n -> S]
      BY <1>1, <2>1, <2>2
    <2> QED
      BY <1>1, <2>3
  <1>5. \/ q \in { [rs EXCEPT ![i] = rs[j], ![j] = rs[i]] : i, j \in DOMAIN rs }
        \/ q \in { RemoveAt(rs, i) : i \in DOMAIN rs }
        \/ \E i \in DOMAIN rs, k \in K : q = [rs EXCEPT ![i].kid = k]
    BY DEF AlteredReceivers
  <1>6. CASE \E i \in DOMAIN rs, k \in K : q = [rs EXCEPT ![i].kid = k]
    BY <1>4, <1>6
  <1> QED
    BY <1>2, <1>3, <1>5, <1>6

IsAltered(g, v, t, e, b, rs) ==
    g \in AlteredHeaders([major |-> v, type |-> t, ephemeral |-> e,
                          senderBox |-> b, receivers |-> rs])

\* What the header read may be, of a header with receivers of a kind.
LEMMA AlteredHeader ==
    ASSUME NEW S, TakesAnyName(S), NEW v0, NEW t0, NEW e0, NEW k0, NEW n0, NEW m0,
           NEW rs \in Seq(S), NEW g, IsAltered(g, v0, t0, e0, Seal(k0, n0, m0), rs)
    PROVE  /\ g.receivers \in Seq(S) /\ Len(g.receivers) <= Len(rs)
           /\ g.ephemeral \in Keys \union {e0}
           /\ g.senderBox.msg = m0
  <1> USE DEF IsAltered
  <1> DEFINE h == [major |-> v0, type |-> t0, ephemeral |-> e0,
                   senderBox |-> Seal(k0, n0, m0), receivers |-> rs]
  <1>1. Len(rs) \in Nat
    OBVIOUS
  <1>2. CASE g \in { [h EXCEPT !.receivers = q] : q \in AlteredReceivers(rs) }
    <2>1. PICK q \in AlteredReceivers(rs) : g = [h EXCEPT !.receivers = q]
      BY <1>2, Zenon
    <2>2. g.receivers = q /\ g.ephemeral = e0 /\ g.senderBox.msg = m0
      BY <2>1 DEF Seal
    <2>3. q \in Seq(S) /\ Len(q) <= Len(rs)
      BY AlteredList DEF TakesAnyName
    <2> QED
      BY <2>2, <2>3
  <1>3. CASE \/ g \in { [h EXCEPT !.major = v] : v \in 1 .. 3 }
             \/ g \in { [h EXCEPT !.type = "other"] }
    <2>1. g.receivers = rs /\ g.ephemeral = e0 /\ g.senderBox.msg = m0
      BY <1>3 DEF Seal
    <2> QED
      BY <1>1, <2>1
  <1>4. CASE g \in { [h EXCEPT !.ephemeral = k] : k \in Keys }
    <2>1. g.receivers = rs /\ g.ephemeral \in Keys /\ g.senderBox.msg = m0
      BY <1>4 DEF Seal
    <2> QED
      BY <1>1, <2>1
  <1>5. CASE g \in { [h EXCEPT !.senderBox.nonce = <<"damaged", 0>>] }
    <2>1. g = [h EXCEPT !.senderBox = [h.senderBox EXCEPT !.nonce = <<"damaged", 0>>]]
      BY <1>5
    <2>2. g.receivers = rs /\ g.ephemeral = e0 /\ g.senderBox.msg = m0
      BY <2>1 DEF Seal
    <2> QED
      BY <1>1, <2>2
  <1>6. h.receivers = rs
    OBVIOUS
  <1> QED
    BY <1>2, <1>3, <1>4, <1>5, <1>6 DEF AlteredHeaders

\* Every box of the header read is one that was sealed for a receiver, in its
\* place if nothing was altered.
LEMMA HeaderRead ==
    ASSUME TypeOK, Sent, pc \notin {"start", "refused"}
    PROVE  /\ Len(header.receivers) \in Nat /\ Len(header.receivers) <= Len(receivers)
           /\ DOMAIN header.receivers = 1 .. Len(header.receivers)
           /\ \A i \in DOMAIN header.receivers : \E j \in DOMAIN receivers :
                /\ Entry(i).box = Seal(KeyFor(receivers[j]),
                                       NonceForPayloadKeyBox(major, j), PayloadKey)
                /\ header = sent => j = i
           /\ header.ephemeral \in Keys \union {Ephemeral}
           /\ header.senderBox.msg = SenderKey
  <1> DEFINE n == Len(receivers)
             Box(j) == Seal(KeyFor(receivers[j]), NonceForPayloadKeyBox(major, j),
                            PayloadKey)
             B == { Box(j) : j \in 1 .. n }
             K == { sent.receivers[i].kid : i \in 1 .. n }
                    \union (Keys \union Identifiers \union {NoKID})
             S == [kid : K, box : B]
             rs == sent.receivers
  <1>1. sent = MakeHeader(receivers) /\ header \in {sent} \union AlteredHeaders(sent)
    BY DEF Sent
  <1>2. /\ sent.ephemeral = Ephemeral
        /\ sent.senderBox = Seal(PayloadKey, NonceForSenderKeySecretBox, SenderKey)
        /\ n \in Nat /\ DOMAIN receivers = 1 .. n /\ rs = [i \in 1 .. n |-> rs[i]]
        /\ sent = [major |-> sent.major, type |-> sent.type,
                   ephemeral |-> sent.ephemeral, senderBox |-> sent.senderBox,
                   receivers |-> rs]
        /\ \A i \in 1 .. n : rs[i] = [kid |-> ReceiverKID(receivers[i], i), box |-> Box(i)]
    BY <1>1, SentHeader
  <1> HIDE DEF Box
  <1>3. ASSUME NEW i \in 1 .. n
        PROVE  rs[i] \in S /\ rs[i].box = Box(i)
    <2>1. rs[i] = [kid |-> ReceiverKID(receivers[i], i), box |-> Box(i)]
      BY <1>2
    <2>2. rs[i].kid \in K /\ Box(i) \in B
      OBVIOUS
    <2> HIDE DEF K, B, rs
    <2> QED
      BY <2>1, <2>2
  <1> HIDE DEF S
  <1>4. rs \in Seq(S) /\ Len(rs) = n
    <2>1. rs = [i \in 1 .. n |-> rs[i]]
      BY <1>2
    <2> HIDE DEF rs
    <2>2. rs \in [1 .. n -> S]
      BY <1>3, <2>1
    <2> QED
      BY <1>2, <2>2
  <1>5. CASE header = sent
    <2>1. header.senderBox.msg = SenderKey
      BY <1>2, <1>5 DEF Seal
    <2>2. \A i \in 1 .. n : Entry(i).box = Box(i)
      BY <1>3, <1>5 DEF Entry
    <2> QED
      BY <1>2, <1>4, <1>5, <2>1, <2>2 DEF Box
  <1>6. CASE header # sent
    <2>1. /\ header.receivers \in Seq(S) /\ Len(header.receivers) <= n
          /\ header.ephemeral \in Keys \union {Ephemeral}
          /\ header.senderBox.msg = SenderKey
      <3> HIDE DEF K, B, S
      <3>1. PICK v0, t0 : sent = [major |-> v0, type |-> t0, ephemeral |-> Ephemeral,
                senderBox |-> Seal(PayloadKey, NonceForSenderKeySecretBox, SenderKey),
                receivers |-> rs]
        BY <1>2
      <3>2. IsAltered(header, v0, t0, Ephemeral,
                      Seal(PayloadKey, NonceForSenderKeySecretBox, SenderKey), rs)
        BY <1>1, <1>6, <3>1 DEF IsAltered
      <3>3. TakesAnyName(S)
        <4>1. \A k \in Keys \union Identifiers \union {NoKID} : k \in K
          BY DEF K
        <4> QED
          BY <4>1 DEF S, TakesAnyName
      <3> HIDE DEF rs
      <3>4. /\ header.receivers \in Seq(S) /\ Len(header.receivers) <= Len(rs)
            /\ header.ephemeral \in Keys \union {Ephemeral}
            /\ header.senderBox.msg = SenderKey
        BY <1>4, <3>2, <3>3, AlteredHeader
      <3> QED
        BY <1>4, <3>4
    <2>2. Len(header.receivers) \in Nat
          /\ DOMAIN header.receivers = 1 .. Len(header.receivers)
      BY <2>1
    <2>3. ASSUME NEW i \in DOMAIN header.receivers
          PROVE  \E j \in 1 .. n : Entry(i).box = Box(j)
      <3>1. header.receivers[i] \in S
        BY <2>1
      <3> QED
        BY <3>1 DEF S, Entry
    <2> QED
      BY <1>2, <1>6, <2>1, <2>2, <2>3 DEF Box
  <1> QED
    BY <1>5, <1>6

\* The places in a set, as FlattenSeq lists them.
Places(V, n) == FlattenSeq([i \in 1 .. n |-> IF i \in V THEN <<i>> ELSE << >>])

\* A list of all the members of V up to n.
Lists(s, V, n) == /\ s \in Seq(V) /\ Len(s) <= n
                  /\ \A i \in V : i <= n => \E k \in DOMAIN s : s[k] = i

LEMMA PlacesOf ==
    ASSUME NEW N \in Nat, NEW V, V \subseteq 1 .. N
    PROVE  Lists(Places(V, N), V, N)
  <1> DEFINE Pieces(n) == [i \in 1 .. n |-> IF i \in V THEN <<i>> ELSE << >>]
             Good(n) == Lists(Places(V, n), V, n)
             T == {n \in 0 .. N : Good(n)}
  <1>1. \A n \in Nat : Pieces(n) \in Seq(Seq(V))
    OBVIOUS
  <1>2. 0 \in T
    <2>1. Pieces(0) = << >>
      OBVIOUS
    <2>2. Places(V, 0) = << >>
      BY <1>1, <2>1, FlattenType DEF Places
    <2>3. Len(<< >>) = 0 /\ << >> \in Seq(V) /\ \A i \in V : ~(i <= 0)
      OBVIOUS
    <2>4. Lists(<< >>, V, 0)
      BY <2>3 DEF Lists
    <2>5. Good(0)
      BY <2>2, <2>4, Zenon
    <2> QED
      BY <2>5
  <1>3. ASSUME NEW n \in 0 .. N, n < N, n \in T
        PROVE  n + 1 \in T
    <2> DEFINE e == IF n + 1 \in V THEN <<n + 1>> ELSE << >>
               s == Places(V, n)
    <2>1. Pieces(n + 1) = Append(Pieces(n), e) /\ e \in Seq(V)
      OBVIOUS
    <2>2. Places(V, n + 1) = s \o e
      <3>1. FlattenSeq(Append(Pieces(n), e)) = FlattenSeq(Pieces(n)) \o e
        <4>1. Pieces(n) \in Seq(Seq(V))
          BY <1>1
        <4> HIDE DEF Pieces, e
        <4> QED
          BY <2>1, <4>1, FlattenAppend
      <3>2. Places(V, n + 1) = FlattenSeq(Pieces(n + 1)) /\ s = FlattenSeq(Pieces(n))
        BY DEF Places
      <3> HIDE DEF Pieces, e, s
      <3> QED
        BY <2>1, <3>1, <3>2
    <2>3. /\ s \in Seq(V) /\ Len(s) <= n
          /\ \A i \in V : i <= n => \E k \in DOMAIN s : s[k] = i
      BY <1>3 DEF Lists
    <2>4. Len(s \o e) = Len(s) + Len(e) /\ Len(e) <= 1
          /\ \A k \in DOMAIN s : k \in DOMAIN (s \o e) /\ (s \o e)[k] = s[k]
      <3> HIDE DEF s
      <3> QED
        BY <2>1, <2>3
    <2>8. s \o e \in Seq(V)
      <3> HIDE DEF s
      <3> QED
        BY <2>1, <2>3
    <2>5. ASSUME NEW i \in V, i <= n + 1
          PROVE  \E k \in DOMAIN (s \o e) : (s \o e)[k] = i
      <3>1. CASE i <= n
        BY <2>3, <2>4, <3>1
      <3>2. CASE i = n + 1
        <4>1. Len(s) \in Nat /\ e = <<i>>
          BY <2>3, <3>2
        <4> HIDE DEF s, e
        <4>2. Len(s) + 1 \in DOMAIN (s \o e) /\ (s \o e)[Len(s) + 1] = i
          BY <2>1, <2>3, <4>1
        <4> QED
          BY <4>2
      <3>3. i <= n \/ i = n + 1
        <4>1. i \in Nat
          OBVIOUS
        <4> QED
          BY <2>5, <4>1
      <3> QED
        BY <3>1, <3>2, <3>3, Zenon
    <2> HIDE DEF s, e
    <2>6. Lists(s \o e, V, n + 1)
      <3>1. Len(s \o e) <= n + 1
        <4>1. Len(s) \in Nat /\ Len(e) \in Nat
          BY <2>1, <2>3
        <4> QED
          BY <2>3, <2>4, <4>1
      <3> DEFINE t == s \o e
      <3>2. t \in Seq(V) /\ Len(t) <= n + 1
        BY <2>8, <3>1, Zenon
      <3>3. \A i \in V : i <= n + 1 => \E k \in DOMAIN t : t[k] = i
        BY <2>5
      <3> HIDE DEF t
      <3>4. Lists(t, V, n + 1)
        BY <3>2, <3>3 DEF Lists
      <3> QED
        BY <3>4 DEF t
    <2>7. Good(n + 1)
      BY <2>2, <2>6, Zenon
    <2> QED
      BY <1>3, <2>7
  <1> HIDE DEF T, Good
  <1>4. \A n \in 0 .. N : n \in T
    BY <1>2, <1>3, UpTo
  <1>5. Good(N)
    BY <1>4 DEF T
  <1> USE DEF Good
  <1> QED
    BY <1>5

-----------------------------------------------------------------------------
(* Boxes.                                                                  *)

\* The receivers, and what each is in its mode.
LEMMA ReceiverTypes ==
    ASSUME TypeOK
    PROVE  /\ Len(receivers) \in Nat /\ DOMAIN receivers = 1 .. Len(receivers)
           /\ \A j \in DOMAIN receivers :
                /\ receivers[j] \in Keys \/ receivers[j] \in SymmetricReceivers
                /\ mode = "encryption" => receivers[j] \in Keys
  <1>1. receivers \in Seq(Receivers(mode))
    BY DEF TypeOK
  <1>2. /\ Len(receivers) \in Nat /\ DOMAIN receivers = 1 .. Len(receivers)
        /\ \A j \in DOMAIN receivers : receivers[j] \in Receivers(mode)
    BY <1>1
  <1> QED
    BY <1>2 DEF Receivers

\* A secret key that opens a box is the one of its receiver.
LEMMA BoxKeyOpens ==
    ASSUME TypeOK, Sent, pc \notin {"start", "refused"},
           NEW i \in DOMAIN header.receivers, NEW sk \in Keys, NEW n, NEW key,
           Opens(Entry(i).box, key, n),
           \/ mode = "encryption" /\ key = SharedKey(header.ephemeral, sk)
           \/ /\ mode = "signcryption"
              /\ key = DerivedEphemeralKeyFromBoxKeys(header.ephemeral, sk)
    PROVE  /\ header.ephemeral = Ephemeral
           /\ \E j \in DOMAIN receivers : OpensBoxOf(sk, j) /\ (header = sent => j = i)
  <1>1. PICK j \in DOMAIN receivers :
            /\ Entry(i).box = Seal(KeyFor(receivers[j]),
                                   NonceForPayloadKeyBox(major, j), PayloadKey)
            /\ header = sent => j = i
    BY HeaderRead
  <1>2. key = KeyFor(receivers[j])
    BY <1>1 DEF Opens, Seal
  <1>3. Ephemeral \notin Keys /\ sk # Ephemeral
    BY KeysAssumption
  <1>4. receivers[j] \in Keys \/ receivers[j] \in SymmetricReceivers
    BY ReceiverTypes
  <1>5. /\ receivers[j] \in Keys
        /\ key.from = {Ephemeral, receivers[j]}
    <2>1. CASE mode = "encryption"
      <3>1. receivers[j] \in Keys
        BY <2>1, ReceiverTypes
      <3> QED
        BY <1>2, <2>1, <3>1 DEF KeyFor, SharedKey
    <2>2. CASE mode # "encryption"
      <3>1. key.ctx = "derived"
        BY <2>2 DEF DerivedEphemeralKeyFromBoxKeys
      <3>2. receivers[j] \in Keys
        BY <1>2, <2>2, <3>1 DEF KeyFor, DerivedSymmetricKey
      <3>3. key.from = {receivers[j], Ephemeral}
        BY <1>2, <2>2, <3>2 DEF KeyFor, DerivedEphemeralKeyFromBoxKeys
      <3> QED
        BY <3>2, <3>3
    <2> QED
      BY <2>1, <2>2
  <1>6. key.from = {header.ephemeral, sk}
    BY DEF SharedKey, DerivedEphemeralKeyFromBoxKeys
  <1>7. header.ephemeral = Ephemeral /\ sk = receivers[j]
    BY <1>3, <1>5, <1>6, EphemeralPairs
  <1> QED
    BY <1>1, <1>5, <1>7 DEF OpensBoxOf

\* A symmetric key that opens a box is the one of its receiver.
LEMMA SymmetricKeyOpens ==
    ASSUME TypeOK, Sent, pc \notin {"start", "refused"}, mode = "signcryption",
           NEW i \in DOMAIN header.receivers, NEW id \in Identifiers, NEW n,
           Opens(Entry(i).box, DerivedSymmetricKey(header.ephemeral, ring.resolves[id]), n)
    PROVE  \E j \in DOMAIN receivers : OpensBoxOf(NoKey, j) /\ (header = sent => j = i)
  <1>1. PICK j \in DOMAIN receivers :
            /\ Entry(i).box = Seal(KeyFor(receivers[j]),
                                   NonceForPayloadKeyBox(major, j), PayloadKey)
            /\ header = sent => j = i
    BY HeaderRead
  <1>2. DerivedSymmetricKey(header.ephemeral, ring.resolves[id]) = KeyFor(receivers[j])
    BY <1>1 DEF Opens, Seal
  <1>3. receivers[j] \notin Keys
    BY <1>2 DEF KeyFor, DerivedSymmetricKey, DerivedEphemeralKeyFromBoxKeys
  <1>4. ring.resolves[id] = receivers[j].key
    BY <1>2, <1>3 DEF KeyFor, DerivedSymmetricKey
  <1> QED
    BY <1>1, <1>3, <1>4 DEF OpensBoxOf

\* Without an alteration every receiver's key opens its own box.
LEMMA OwnBox ==
    ASSUME TypeOK, Sent, pc \notin {"start", "refused"}, header = sent,
           NEW i \in DOMAIN header.receivers
    PROVE  /\ i \in DOMAIN receivers /\ header.ephemeral = Ephemeral
           /\ header.senderBox = Seal(PayloadKey, NonceForSenderKeySecretBox, SenderKey)
           /\ Entry(i).kid = ReceiverKID(receivers[i], i)
           /\ Opens(Entry(i).box, KeyFor(receivers[i]), PayloadNonce(i))
  <1>1. sent = MakeHeader(receivers)
    BY DEF Sent
  <1>2. /\ header.major = major /\ header.ephemeral = Ephemeral
        /\ header.senderBox = Seal(PayloadKey, NonceForSenderKeySecretBox, SenderKey)
        /\ DOMAIN header.receivers = 1 .. Len(receivers)
        /\ Entry(i) = [kid |-> ReceiverKID(receivers[i], i),
                       box |-> Seal(KeyFor(receivers[i]),
                                    NonceForPayloadKeyBox(major, i), PayloadKey)]
    BY <1>1, SentHeader DEF Entry
  <1>3. DOMAIN receivers = 1 .. Len(receivers)
    BY ReceiverTypes
  <1> QED
    BY <1>2, <1>3 DEF Opens, Seal, PayloadNonce

\* The visible receivers, as tryVisibleReceivers lists them.
LEMMA VisibleReceivers ==
    ASSUME TypeOK, Sent, pc \notin {"start", "refused"}
    PROVE  /\ Len(VisibleKIDs) \in Nat /\ Len(VisibleKIDs) <= Len(receivers)
           /\ DOMAIN VisibleKIDs = DOMAIN VisiblePlaces
           /\ \A n \in DOMAIN VisibleKIDs :
                /\ Original(n) \in DOMAIN header.receivers /\ Original(n) \in Visible
                /\ VisibleKIDs[n] = Entry(Original(n)).kid
           /\ \A i \in Visible : \E n \in DOMAIN VisibleKIDs : Original(n) = i
  <1> DEFINE m == Len(header.receivers)
  <1>1. m \in Nat /\ m <= Len(receivers) /\ DOMAIN header.receivers = 1 .. m
        /\ Len(receivers) \in Nat
    BY HeaderRead, ReceiverTypes
  <1>2. Visible \subseteq 1 .. m
    BY <1>1 DEF Visible
  <1>3. VisiblePlaces = Places(Visible, m)
    BY <1>1 DEF VisiblePlaces, Places
  <1> HIDE DEF m
  <1>4. Lists(VisiblePlaces, Visible, m)
    BY <1>1, <1>2, <1>3, PlacesOf
  <1>5. /\ VisiblePlaces \in Seq(Visible) /\ Len(VisiblePlaces) <= m
        /\ \A i \in Visible : \E n \in DOMAIN VisiblePlaces : VisiblePlaces[n] = i
    BY <1>1, <1>2, <1>4 DEF Lists
  <1>6. /\ Len(VisiblePlaces) \in Nat /\ DOMAIN VisiblePlaces = 1 .. Len(VisiblePlaces)
        /\ \A n \in DOMAIN VisiblePlaces : VisiblePlaces[n] \in Visible
    BY <1>5
  <1>7. Len(VisibleKIDs) = Len(VisiblePlaces) /\ DOMAIN VisibleKIDs = DOMAIN VisiblePlaces
    BY <1>6 DEF VisibleKIDs
  <1>8. Len(VisibleKIDs) \in Nat /\ Len(VisibleKIDs) <= Len(receivers)
    BY <1>1, <1>5, <1>6, <1>7
  <1>9. ASSUME NEW n \in DOMAIN VisiblePlaces
        PROVE  /\ Original(n) \in DOMAIN header.receivers /\ Original(n) \in Visible
               /\ VisibleKIDs[n] = Entry(Original(n)).kid
    BY <1>1, <1>2, <1>6, <1>9 DEF VisibleKIDs, Original
  <1>10. \A i \in Visible : \E n \in DOMAIN VisiblePlaces : Original(n) = i
    BY <1>5 DEF Original
  <1> QED
    BY <1>7, <1>8, <1>9, <1>10, Zenon

-----------------------------------------------------------------------------
(* The inductive invariant is preserved.                                   *)

LEMMA InitIInv == Init => IInv
  <1> SUFFICES ASSUME Init PROVE IInv
    OBVIOUS
  <1> USE DEF Init
  <1>1. TypeOK
    <2>1. receivers \in Seq(Receivers(mode)) /\ Len(receivers) = 0
      OBVIOUS
    <2>2. MaxReceiverCount \in Nat
      BY KeysAssumption
    <2>3. mki.numAnon = 0 /\ Len(mki.named) = 0
      BY DEF NoInfo
    <2> QED
      BY <2>1, <2>2, <2>3 DEF TypeOK, NotFound, EmptyRing
  <1>2. SenderOK /\ Sent /\ RingOK
    BY DEF SenderOK, Sent, Unread, RingOK
  <1>3. FoundOK /\ InfoOK
    BY DEF FoundOK, InfoOK, NoInfo
  <1>4. TriedInVain /\ Accepted /\ ReceiverGetsThrough
    BY DEF TriedInVain, Accepted, ReceiverGetsThrough
  <1> QED
    BY <1>1, <1>2, <1>3, <1>4 DEF IInv

\* What a step of processHeader leaves alone.
Fixed == <<mode, major, sender, hides, asked, receivers, sent, header, ring>>

LEMMA FixedSame ==
    ASSUME UNCHANGED Fixed
    PROVE  /\ SenderOK' = SenderOK /\ SenderKey' = SenderKey
           /\ Matches' = Matches /\ Visible' = Visible /\ Anonymous' = Anonymous
           /\ AllSecretKeys' = AllSecretKeys /\ BoxedSender' = BoxedSender
           /\ ResolverRight' = ResolverRight
           /\ VisibleKIDs' = VisibleKIDs /\ VisiblePlaces' = VisiblePlaces
           /\ \A i : Entry(i)' = Entry(i) /\ PayloadNonce(i)' = PayloadNonce(i)
           /\ \A r : KeyFor(r)' = KeyFor(r) /\ CanFind(r)' = CanFind(r)
           /\ \A key, j : OpensBoxOf(key, j)' = OpensBoxOf(key, j)
  BY DEF Fixed, SenderOK, SenderKey, Matches, Visible, Anonymous, AllSecretKeys,
     BoxedSender, ResolverRight, Entry, PayloadNonce, KeyFor, CanFind, OpensBoxOf,
     VisibleKIDs, VisiblePlaces

LEMMA FixedOK ==
    ASSUME IInv, UNCHANGED Fixed, pc \notin {"start", "refused", "sent"},
           pc' \notin {"start", "refused", "sent"}
    PROVE  SenderOK' /\ Sent' /\ RingOK'
  <1>1. SenderOK'
    BY FixedSame DEF IInv
  <1>2. MakeHeader(receivers)' = MakeHeader(receivers)
    BY DEF Fixed, MakeHeader, ReceiverKID, KeyFor, SenderKey
  <1>3. Sent'
    BY <1>2 DEF IInv, Sent, Fixed, CheckReceivers
  <1>4. RingOK'
    BY DEF IInv, RingOK, Fixed
  <1> QED
    BY <1>1, <1>3, <1>4

\* The types of what processHeader sets.
LEMMA ReadingTypes ==
    ASSUME IInv, UNCHANGED Fixed, untried' \subseteq ring.secret,
           found'.key \in Keys \union {NoKey}, found'.position \in 0 .. Len(receivers),
           mki'.numAnon \in 0 .. Len(receivers), Len(mki'.named) <= Len(receivers),
           pc' \in {"lookup", "hidden", "sender", "packet", "accepted", "failed"}
    PROVE  TypeOK'
  BY DEF IInv, TypeOK, Fixed

LEMMA RingTypes ==
    ASSUME IInv, pc \notin {"start", "refused", "sent"}
    PROVE  /\ ring.secret \subseteq Keys /\ AllSecretKeys \subseteq Keys
           /\ AllSecretKeys \subseteq ring.secret
           /\ ring.iterable \in BOOLEAN
           /\ mode = "encryption" \/ mode = "signcryption"
           /\ mode = "signcryption" => hides = {}
           /\ \A id \in Identifiers : ring.resolves[id] \in SymmetricKeys \union {NoKey}
  <1>1. ring \in Rings(mode)
    BY DEF IInv, RingOK
  <1>2. mode = "encryption" \/ mode = "signcryption"
    BY DEF IInv, TypeOK
  <1>3. ring.secret \subseteq Keys /\ ring.iterable \in BOOLEAN
    BY <1>1 DEF Rings
  <1>4. \A id \in Identifiers : ring.resolves[id] \in SymmetricKeys \union {NoKey}
    BY <1>1, <1>2 DEF Rings, NoneResolved
  <1> QED
    BY <1>2, <1>3, <1>4 DEF AllSecretKeys, IInv, SenderOK

\* A box that opens is found.
LEMMA BoxFound ==
    ASSUME IInv, UNCHANGED Fixed, pc \notin {"start", "refused", "sent"},
           NEW i \in DOMAIN header.receivers, NEW k \in Keys \union {NoKey},
           found' = [key |-> k, position |-> i, opened |-> TRUE], pc' = "sender",
           \E j \in DOMAIN receivers : OpensBoxOf(k, j) /\ (header = sent => j = i)
    PROVE  /\ FoundOK' /\ found'.key = k /\ found'.position = i
           /\ i \in 0 .. Len(receivers)
  <1>1. found'.opened = TRUE /\ found'.key = k /\ found'.position = i
    OBVIOUS
  <1>2. \E j \in DOMAIN receivers : /\ OpensBoxOf(found.key, j)'
                                    /\ header = sent => j = found'.position
    BY <1>1 DEF OpensBoxOf, Fixed
  <1>3. found' # NotFound
    BY <1>1 DEF NotFound
  <1>4. FoundOK'
    BY <1>1, <1>2, <1>3 DEF FoundOK, Fixed
  <1>5. i \in 0 .. Len(receivers)
    BY HeaderRead, ReceiverTypes DEF IInv
  <1> QED
    BY <1>1, <1>4, <1>5

LEMMA StepTryVisible == IInv /\ TryVisibleReceivers => IInv'
  <1> SUFFICES ASSUME IInv, TryVisibleReceivers PROVE IInv'
    OBVIOUS
  <1>1. /\ TypeOK /\ Sent /\ Unread /\ pc = "lookup" /\ mode = "encryption"
    BY DEF IInv, TryVisibleReceivers, InfoOK
  <1>2. PICK n \in Matches :
            OpenEntry(Original(n), SharedKey(header.ephemeral, VisibleKIDs[n]),
                      VisibleKIDs[n])
    BY DEF TryVisibleReceivers
  <1> DEFINE i == Original(n)
             k == VisibleKIDs[n]
  <1>3. /\ UNCHANGED Fixed /\ pc' \in {"sender", "failed"} /\ untried' = untried
        /\ mki' = [mki EXCEPT !.named = VisibleKIDs]
    BY <1>2 DEF OpenEntry, Reading, Fixed, TryVisibleReceivers
  <1>4. /\ n \in DOMAIN VisibleKIDs /\ i \in DOMAIN header.receivers /\ i \in Visible
        /\ k = Entry(i).kid /\ Len(VisibleKIDs) \in Nat
        /\ Len(VisibleKIDs) <= Len(receivers)
    BY <1>1, VisibleReceivers DEF Matches
  <1>5. k \in ring.secret /\ k \in Keys
    BY <1>1, RingTypes DEF Matches
  <1>6. /\ mki'.named = VisibleKIDs /\ mki'.numAnon = 0 /\ mki'.receiverIsAnon = FALSE
        /\ mki'.senderIsAnon = FALSE
        /\ mki' = [senderKey |-> mki'.senderKey, senderIsAnon |-> mki'.senderIsAnon,
                   receiverKey |-> mki'.receiverKey,
                   receiverIsAnon |-> mki'.receiverIsAnon,
                   named |-> mki'.named, numAnon |-> mki'.numAnon]
    BY <1>1, <1>3 DEF Unread, NoInfo
  <1>7. SenderOK' /\ Sent' /\ RingOK'
    BY <1>1, <1>3, FixedOK
  <1>8. untried' \subseteq ring.secret /\ Len(receivers) \in Nat
    BY <1>1, <1>3, ReceiverTypes DEF Unread
  <1>9. Anonymous' = Anonymous /\ i \notin Anonymous
    BY <1>3, <1>4, FixedSame DEF Anonymous
  <1>10. CASE Opens(Entry(i).box, SharedKey(header.ephemeral, k), PayloadNonce(i))
    <2>1. found' = [key |-> k, position |-> i, opened |-> TRUE] /\ pc' = "sender"
      BY <1>2, <1>10 DEF OpenEntry, Reading
    <2>2. \E j \in DOMAIN receivers : OpensBoxOf(k, j) /\ (header = sent => j = i)
      BY <1>1, <1>4, <1>5, <1>10, BoxKeyOpens
    <2>3. /\ FoundOK' /\ found'.key = k /\ found'.position = i
          /\ i \in 0 .. Len(receivers)
      BY <1>1, <1>3, <1>4, <1>5, <2>1, <2>2, BoxFound
    <2>4. TypeOK'
      BY <1>3, <1>4, <1>5, <1>6, <1>8, <2>1, <2>3, ReadingTypes
    <2>5. InfoOK'
      BY <1>3, <1>6, <1>9, <2>1 DEF InfoOK, Fixed
    <2>6. TriedInVain' /\ Accepted' /\ ReceiverGetsThrough'
      BY <2>1 DEF TriedInVain, Accepted, ReceiverGetsThrough
    <2> QED
      BY <1>7, <2>3, <2>4, <2>5, <2>6 DEF IInv
  <1>11. CASE ~Opens(Entry(i).box, SharedKey(header.ephemeral, k), PayloadNonce(i))
    <2>1. found' = found /\ pc' = "failed"
      BY <1>2, <1>11 DEF OpenEntry, Reading
    <2>2. header # sent
      <3>1. SUFFICES ASSUME header = sent PROVE FALSE
        OBVIOUS
      <3>2. /\ i \in DOMAIN receivers /\ header.ephemeral = Ephemeral
            /\ Entry(i).kid = ReceiverKID(receivers[i], i)
            /\ Opens(Entry(i).box, KeyFor(receivers[i]), PayloadNonce(i))
        BY <1>1, <1>4, <3>1, OwnBox
      <3>3. receivers[i] = k
        BY <1>1, <1>4, <1>5, <3>2, KeysAssumption DEF ReceiverKID
      <3>4. KeyFor(receivers[i]) = SharedKey(header.ephemeral, k)
        BY <1>1, <3>2, <3>3 DEF KeyFor
      <3> QED
        BY <1>11, <3>2, <3>4
    <2>3. found' = NotFound /\ found'.key = NoKey /\ found'.position = 0
      BY <1>1, <2>1 DEF Unread, NotFound
    <2>4. TypeOK'
      BY <1>3, <1>4, <1>6, <1>8, <2>1, <2>3, ReadingTypes
    <2>5. FoundOK'
      BY <2>1, <2>3 DEF FoundOK
    <2>6. InfoOK'
      BY <1>6, <2>1 DEF InfoOK
    <2>7. TriedInVain' /\ Accepted'
      BY <2>1 DEF TriedInVain, Accepted
    <2>8. ReceiverGetsThrough'
      BY <1>3, <2>2 DEF ReceiverGetsThrough, Fixed
    <2> QED
      BY <1>7, <2>4, <2>5, <2>6, <2>7, <2>8 DEF IInv
  <1> QED
    BY <1>10, <1>11

\* The number of hidden receivers.
LEMMA AnonymousCount ==
    ASSUME TypeOK, Sent, pc \notin {"start", "refused"}
    PROVE  Cardinality(Anonymous) \in 0 .. Len(receivers)
  <1>1. /\ Len(header.receivers) \in Nat /\ Len(header.receivers) <= Len(receivers)
        /\ DOMAIN header.receivers = 1 .. Len(header.receivers)
        /\ Len(receivers) \in Nat
    BY HeaderRead, ReceiverTypes
  <1>2. Anonymous \subseteq 1 .. Len(receivers)
    BY <1>1 DEF Anonymous
  <1>3. /\ IsFiniteSet(1 .. Len(receivers))
        /\ Cardinality(1 .. Len(receivers)) = Len(receivers)
    <2> DEFINE n == Len(receivers)
    <2>1. n \in Nat
      BY <1>1
    <2> HIDE DEF n
    <2>2. /\ IsFiniteSet(1 .. n)
          /\ Cardinality(1 .. n) = IF 1 > n THEN 0 ELSE n - 1 + 1
      BY <2>1, FS_Interval
    <2>3. Cardinality(1 .. n) = n
      BY <2>1, <2>2
    <2> QED
      BY <2>2, <2>3 DEF n
  <1>4. IsFiniteSet(Anonymous) /\ Cardinality(Anonymous) <= Cardinality(1 .. Len(receivers))
    BY <1>2, <1>3, FS_Subset
  <1> QED
    BY <1>1, <1>3, <1>4, FS_CardinalityType

LEMMA StepNoVisible == IInv /\ NoVisibleReceiver => IInv'
  <1> SUFFICES ASSUME IInv, NoVisibleReceiver PROVE IInv'
    OBVIOUS
  <1>1. /\ TypeOK /\ Sent /\ Unread /\ pc = "lookup" /\ mode = "encryption"
        /\ Matches = {}
    BY DEF IInv, NoVisibleReceiver, InfoOK
  <1>2. /\ UNCHANGED Fixed /\ pc' = "hidden" /\ found' = NotFound
        /\ untried' = AllSecretKeys
        /\ mki' = [mki EXCEPT !.named = VisibleKIDs, !.receiverIsAnon = TRUE,
                              !.numAnon = Cardinality(Anonymous)]
    BY <1>1 DEF NoVisibleReceiver, Reading, Fixed, Unread
  <1>3. Cardinality(Anonymous) \in 0 .. Len(receivers) /\ Len(VisibleKIDs) <= Len(receivers)
    BY <1>1, AnonymousCount, VisibleReceivers
  <1>4. /\ mki'.named = VisibleKIDs /\ mki'.numAnon = Cardinality(Anonymous)
        /\ mki'.receiverIsAnon = TRUE /\ mki'.senderIsAnon = FALSE
        /\ mki' = [senderKey |-> mki'.senderKey, senderIsAnon |-> mki'.senderIsAnon,
                   receiverKey |-> mki'.receiverKey,
                   receiverIsAnon |-> mki'.receiverIsAnon,
                   named |-> mki'.named, numAnon |-> mki'.numAnon]
    BY <1>1, <1>2 DEF Unread, NoInfo
  <1>5. SenderOK' /\ Sent' /\ RingOK'
    BY <1>1, <1>2, FixedOK
  <1>6. TypeOK'
    <2>1. untried' \subseteq ring.secret /\ Len(receivers) \in Nat
      BY <1>1, <1>2, RingTypes, ReceiverTypes
    <2>2. found'.key = NoKey /\ found'.position = 0
      BY <1>2 DEF NotFound
    <2> QED
      BY <1>2, <1>3, <1>4, <2>1, <2>2, ReadingTypes
  <1>7. FoundOK' /\ InfoOK' /\ Accepted' /\ ReceiverGetsThrough'
    BY <1>2, <1>4 DEF FoundOK, InfoOK, Accepted, ReceiverGetsThrough
  <1>8. TriedInVain'
    BY <1>1, <1>2, FixedSame DEF TriedInVain, Fixed
  <1> QED
    BY <1>5, <1>6, <1>7, <1>8 DEF IInv

\* The receivers are those the caller has named.
LEMMA AskedPlace ==
    ASSUME Sent, pc \notin {"start", "refused"}, NEW r \in asked
    PROVE  \E i \in DOMAIN receivers : receivers[i] = r
  BY DEF Sent, Range

\* A key that is in none of the places that an unaltered header has for it is
\* not one that could be found.
LEMMA HiddenMissed ==
    ASSUME IInv, pc = "hidden", untried = {}, header = sent, NEW r \in asked
    PROVE  ~CanFind(r)
  <1>1. /\ TypeOK /\ Sent /\ mode = "encryption" /\ Matches = {}
        /\ \A i \in Anonymous : receivers[i] \notin AllSecretKeys \ untried
    BY DEF IInv, TriedInVain
  <1>2. PICK i \in DOMAIN receivers : receivers[i] = r
    BY <1>1, AskedPlace
  <1>3. r \in Keys
    BY <1>1, <1>2, ReceiverTypes
  <1>4. i \in DOMAIN header.receivers
    BY <1>1, SentHeader, ReceiverTypes DEF Sent
  <1>5. Entry(i).kid = IF r \in hides THEN NoKID ELSE r
    BY <1>1, <1>2, <1>4, OwnBox DEF ReceiverKID
  <1>6. CASE r \in hides
    <2>1. i \in Anonymous
      BY <1>4, <1>5, <1>6 DEF Anonymous, Visible
    <2>2. r \notin AllSecretKeys
      BY <1>1, <1>2, <2>1
    <2> QED
      BY <1>3, <1>6, <2>2 DEF CanFind, AllSecretKeys
  <1>7. CASE r \notin hides
    <2>1. i \in Visible
      BY <1>3, <1>4, <1>5, <1>7, KeysAssumption DEF Visible
    <2>2. PICK n \in DOMAIN VisibleKIDs : Original(n) = i
      BY <1>1, <2>1, VisibleReceivers
    <2>3. VisibleKIDs[n] = r
      BY <1>1, <1>5, <1>7, <2>2, VisibleReceivers
    <2>4. r \notin ring.secret
      BY <1>1, <2>3 DEF Matches
    <2> QED
      BY <1>3, <2>4 DEF CanFind
  <1> QED
    BY <1>6, <1>7

\* A shared key is the same for both its ends.
LEMMA SharedKeySymmetric ==
    ASSUME NEW a, NEW b
    PROVE  SharedKey(a, b) = SharedKey(b, a)
  <1>1. {a, b} = {b, a}
    OBVIOUS
  <1> QED
    BY <1>1, Zenon DEF SharedKey

LEMMA StepTryHidden == IInv /\ TryHiddenReceivers => IInv'
  <1> SUFFICES ASSUME IInv, TryHiddenReceivers PROVE IInv'
    OBVIOUS
  <1>1. /\ TypeOK /\ Sent /\ InfoOK /\ pc = "hidden" /\ mode = "encryption"
        /\ found = NotFound /\ Matches = {}
        /\ untried \subseteq AllSecretKeys
    BY DEF IInv, TryHiddenReceivers, TriedInVain, FoundOK
  <1>2. /\ mki' = mki /\ mki.senderIsAnon = FALSE /\ mki.receiverIsAnon = TRUE
        /\ UNCHANGED Fixed /\ pc' \in {"hidden", "sender", "failed"}
        /\ untried' \subseteq untried
    BY <1>1 DEF TryHiddenReceivers, Reading, Fixed, InfoOK
  <1>3. SenderOK' /\ Sent' /\ RingOK'
    BY <1>1, <1>2, FixedOK
  <1>4. /\ untried' \subseteq ring.secret /\ AllSecretKeys \subseteq Keys
        /\ mki'.numAnon \in 0 .. Len(receivers) /\ Len(mki'.named) <= Len(receivers)
        /\ Len(receivers) \in Nat
    BY <1>1, <1>2, RingTypes, ReceiverTypes DEF TypeOK
  <1>5. found.key = NoKey /\ found.position = 0
    BY <1>1 DEF NotFound
  <1>6. CASE untried = {} /\ pc' = "failed" /\ UNCHANGED <<untried, found>>
    <2>1. TypeOK'
      BY <1>2, <1>4, <1>5, <1>6, ReadingTypes
    <2>2. FoundOK' /\ InfoOK' /\ TriedInVain' /\ Accepted'
      BY <1>1, <1>2, <1>6 DEF FoundOK, InfoOK, TriedInVain, Accepted
    <2>3. ReceiverGetsThrough'
      <3>1. header = sent => \A r \in asked : ~CanFind(r)
        BY <1>1, <1>6, HiddenMissed
      <3>2. \A r : CanFind(r)' = CanFind(r)
        BY <1>2, FixedSame
      <3> QED
        BY <1>2, <3>1, <3>2 DEF ReceiverGetsThrough, Fixed
    <2> QED
      BY <1>3, <2>1, <2>2, <2>3 DEF IInv
  <1>7. ASSUME NEW sk \in untried,
               untried' = untried \ {sk}
        PROVE  LET opening == { i \in Anonymous :
                        Opens(Entry(i).box, SharedKey(sk, header.ephemeral),
                              PayloadNonce(i)) }
               IN  /\ opening = {} /\ pc' = "hidden" /\ found' = found => IInv'
                   /\ opening # {} /\ pc' = "sender"
                        /\ found' = [key |-> sk, opened |-> TRUE,
                                     position |-> CHOOSE i \in opening :
                                                    \A j \in opening : i <= j]
                      => IInv'
    <2> DEFINE opening == { i \in Anonymous :
                    Opens(Entry(i).box, SharedKey(sk, header.ephemeral), PayloadNonce(i)) }
               least == CHOOSE i \in opening : \A j \in opening : i <= j
    <2>1. sk \in Keys /\ sk \in AllSecretKeys
      BY <1>1, <1>4
    <2>2. ASSUME opening = {}, pc' = "hidden", found' = found
          PROVE  IInv'
      <3>1. TypeOK'
        BY <1>2, <1>4, <1>5, <2>2, ReadingTypes
      <3>2. FoundOK' /\ InfoOK' /\ Accepted' /\ ReceiverGetsThrough'
        BY <1>1, <1>2, <2>2 DEF FoundOK, InfoOK, Accepted, ReceiverGetsThrough
      <3>3. ASSUME header = sent, NEW i \in Anonymous
            PROVE  receivers[i] \notin AllSecretKeys \ untried'
        <4>1. receivers[i] \notin AllSecretKeys \ untried
          BY <1>1, <3>3 DEF IInv, TriedInVain
        <4>2. receivers[i] # sk
          <5>1. SUFFICES ASSUME receivers[i] = sk PROVE FALSE
            OBVIOUS
          <5>2. i \in DOMAIN header.receivers
            BY DEF Anonymous
          <5>3. /\ Opens(Entry(i).box, KeyFor(sk), PayloadNonce(i))
                /\ header.ephemeral = Ephemeral
            BY <1>1, <3>3, <5>1, <5>2, OwnBox
          <5>4. KeyFor(sk) = SharedKey(sk, header.ephemeral)
            BY <1>1, <5>3, SharedKeySymmetric DEF KeyFor
          <5>5. i \in opening
            BY <5>3, <5>4
          <5> QED
            BY <2>2, <5>5
        <4> QED
          BY <1>7, <4>1, <4>2
      <3>4. TriedInVain'
        <4>1. untried' \subseteq AllSecretKeys
          BY <1>1, <1>2
        <4>2. /\ AllSecretKeys' = AllSecretKeys /\ Matches' = Matches
              /\ Anonymous' = Anonymous /\ mode' = mode /\ header' = header
              /\ sent' = sent /\ receivers' = receivers
          BY <1>2, FixedSame DEF Fixed
        <4> QED
          BY <1>1, <3>3, <4>1, <4>2 DEF TriedInVain
      <3> QED
        BY <1>3, <3>1, <3>2, <3>4 DEF IInv
    <2>3. ASSUME opening # {}, pc' = "sender",
                 found' = [key |-> sk, opened |-> TRUE, position |-> least]
          PROVE  IInv'
      <3>1. least \in opening
        <4>1. opening \subseteq Nat
          BY <1>1, HeaderRead DEF Anonymous
        <4> HIDE DEF opening
        <4>2. \E i \in opening : \A j \in opening : i <= j
          BY <2>3, <4>1, LeastNat
        <4> QED
          BY <4>2
      <3> HIDE DEF least
      <3>2. /\ least \in Anonymous /\ least \in DOMAIN header.receivers
            /\ Opens(Entry(least).box, SharedKey(sk, header.ephemeral), PayloadNonce(least))
        BY <3>1 DEF Anonymous
      <3>3. Opens(Entry(least).box, SharedKey(header.ephemeral, sk), PayloadNonce(least))
        BY <3>2, SharedKeySymmetric
      <3>4. \E j \in DOMAIN receivers : OpensBoxOf(sk, j) /\ (header = sent => j = least)
        BY <1>1, <2>1, <3>2, <3>3, BoxKeyOpens
      <3>5. /\ FoundOK' /\ found'.key = sk /\ found'.position = least
            /\ least \in 0 .. Len(receivers)
        BY <1>1, <1>2, <2>1, <2>3, <3>2, <3>4, BoxFound
      <3>6. TypeOK'
        BY <1>2, <1>4, <2>1, <2>3, <3>5, ReadingTypes
      <3>7. InfoOK'
        <4>1. Anonymous' = Anonymous /\ mode' = mode
          BY <1>2, FixedSame DEF Fixed
        <4> QED
          BY <1>1, <1>2, <2>3, <3>2, <3>5, <4>1 DEF InfoOK
      <3>8. TriedInVain' /\ Accepted' /\ ReceiverGetsThrough'
        BY <2>3 DEF TriedInVain, Accepted, ReceiverGetsThrough
      <3> QED
        BY <1>3, <3>5, <3>6, <3>7, <3>8 DEF IInv
    <2> QED
      BY <2>2, <2>3
  <1> QED
    BY <1>1, <1>6, <1>7 DEF TryHiddenReceivers, Reading

LEMMA LeastOf ==
    ASSUME NEW S, S \subseteq Nat, S # {}
    PROVE  Least(S) \in S
  <1>1. \E i \in S : \A j \in S : i <= j
    BY LeastNat
  <1> QED
    BY <1>1 DEF Least

\* In signcryption mode a lookup ends with a key or fails.
LEMMA LookupFails ==
    ASSUME IInv, pc = "lookup", UNCHANGED Fixed, UNCHANGED <<untried, mki, found>>,
           pc' = "failed",
           header = sent /\ ResolverRight => \A r \in asked : ~CanFind(r)
    PROVE  IInv'
  <1>1. /\ TypeOK /\ Sent /\ Unread
    BY DEF IInv, InfoOK
  <1>2. SenderOK' /\ Sent' /\ RingOK'
    BY FixedOK
  <1>3. /\ untried' = {} /\ found' = NotFound /\ mki' = NoInfo
        /\ found'.key = NoKey /\ found'.position = 0
        /\ mki'.numAnon = 0 /\ Len(mki'.named) = 0 /\ Len(receivers) \in Nat
    BY <1>1, ReceiverTypes DEF Unread, NoInfo, NotFound
  <1>4. TypeOK'
    BY <1>3, ReadingTypes
  <1>5. FoundOK' /\ InfoOK' /\ TriedInVain' /\ Accepted'
    BY <1>3 DEF FoundOK, InfoOK, NoInfo, TriedInVain, Accepted
  <1>6. ReceiverGetsThrough'
    <2>1. /\ \A r : CanFind(r)' = CanFind(r)
          /\ ResolverRight' = ResolverRight
      BY FixedSame
    <2> QED
      BY <2>1 DEF ReceiverGetsThrough, Fixed
  <1> QED
    BY <1>2, <1>4, <1>5, <1>6 DEF IInv

LEMMA LookupFinds ==
    ASSUME IInv, pc = "lookup", mode = "signcryption", UNCHANGED Fixed,
           UNCHANGED <<untried, mki>>,
           NEW i \in DOMAIN header.receivers, NEW k \in Keys \union {NoKey},
           found' = [key |-> k, position |-> i, opened |-> TRUE], pc' = "sender",
           \E j \in DOMAIN receivers : OpensBoxOf(k, j) /\ (header = sent => j = i)
    PROVE  IInv'
  <1>1. /\ TypeOK /\ Sent /\ Unread
    BY DEF IInv, InfoOK
  <1>2. SenderOK' /\ Sent' /\ RingOK'
    BY FixedOK
  <1>3. /\ untried' = {} /\ mki' = NoInfo
        /\ mki'.numAnon = 0 /\ Len(mki'.named) = 0 /\ Len(receivers) \in Nat
    BY <1>1, ReceiverTypes DEF Unread, NoInfo
  <1>4. FoundOK' /\ found'.key = k /\ found'.position = i /\ i \in 0 .. Len(receivers)
    BY BoxFound
  <1>5. TypeOK'
    BY <1>3, <1>4, ReadingTypes
  <1>6. InfoOK'
    <2>1. (mode = "encryption" /\ found.position \in Anonymous)' = FALSE
      BY DEF Fixed
    <2>2. mki'.receiverIsAnon = FALSE /\ mki'.senderIsAnon = FALSE
      BY <1>3 DEF NoInfo
    <2>3. mki' = [senderKey |-> mki'.senderKey, senderIsAnon |-> mki'.senderIsAnon,
                  receiverKey |-> mki'.receiverKey,
                  receiverIsAnon |-> mki'.receiverIsAnon,
                  named |-> mki'.named, numAnon |-> mki'.numAnon]
      BY <1>3 DEF NoInfo
    <2> QED
      BY <2>1, <2>2, <2>3 DEF InfoOK
  <1>7. TriedInVain' /\ Accepted' /\ ReceiverGetsThrough'
    BY DEF TriedInVain, Accepted, ReceiverGetsThrough
  <1> QED
    BY <1>2, <1>4, <1>5, <1>6, <1>7 DEF IInv

\* The name of a box receiver is not one that a caller gives.
LEMMA DerivedName ==
    ASSUME NEW k \in Keys, NEW i \in 1 .. Len(receivers), TypeOK
    PROVE  KeyIdentifierFromDerivedKey(
                DerivedEphemeralKeyFromBoxKeys(k, Ephemeral), i) \notin Identifiers
  <1>1. i \in 1 .. MaxReceiverCount
    BY ReceiverTypes, KeysAssumption DEF TypeOK
  <1> QED
    BY <1>1, KeysAssumption

LEMMA DerivedSymmetric ==
    ASSUME NEW a, NEW b
    PROVE  DerivedEphemeralKeyFromBoxKeys(a, b) = DerivedEphemeralKeyFromBoxKeys(b, a)
  <1>1. {a, b} = {b, a}
    OBVIOUS
  <1> QED
    BY <1>1, Zenon DEF DerivedEphemeralKeyFromBoxKeys

LEMMA StepTryBox == IInv /\ TryBoxSecretKeys => IInv'
  <1> SUFFICES ASSUME IInv, TryBoxSecretKeys PROVE IInv'
    OBVIOUS
  <1> DEFINE i  == Least(Identified)
             sk == CHOOSE k \in AllSecretKeys :
                        Entry(i).kid = KeyIdentifierFromDerivedKey(
                            DerivedEphemeralKeyFromBoxKeys(header.ephemeral, k), i)
             key == DerivedEphemeralKeyFromBoxKeys(header.ephemeral, sk)
  <1>1. /\ TypeOK /\ Sent /\ pc = "lookup" /\ mode = "signcryption" /\ Identified # {}
        /\ UNCHANGED <<untried, mki>>
        /\ OpenEntry(i, key, sk)
    BY DEF IInv, TryBoxSecretKeys
  <1>2. i \in Identified
    <2>1. Identified \subseteq Nat
      BY <1>1, HeaderRead DEF Identified
    <2> QED
      BY <1>1, <2>1, LeastOf
  <1> HIDE DEF i
  <1>3. /\ i \in DOMAIN header.receivers /\ sk \in AllSecretKeys
        /\ Entry(i).kid = KeyIdentifierFromDerivedKey(key, i)
    BY <1>2 DEF Identified
  <1> HIDE DEF sk
  <1>4. sk \in Keys
    BY <1>1, <1>3, RingTypes
  <1>5. CASE Opens(Entry(i).box, key, PayloadNonce(i))
    <2>1. /\ found' = [key |-> sk, position |-> i, opened |-> TRUE] /\ pc' = "sender"
          /\ UNCHANGED Fixed
      BY <1>1, <1>5 DEF OpenEntry, Reading, Fixed
    <2>2. \E j \in DOMAIN receivers : OpensBoxOf(sk, j) /\ (header = sent => j = i)
      BY <1>1, <1>3, <1>4, <1>5, BoxKeyOpens
    <2> QED
      BY <1>1, <1>3, <1>4, <2>1, <2>2, LookupFinds
  <1>6. CASE ~Opens(Entry(i).box, key, PayloadNonce(i))
    <2>1. found' = found /\ pc' = "failed" /\ UNCHANGED Fixed
      BY <1>1, <1>6 DEF OpenEntry, Reading, Fixed
    <2>2. header # sent
      <3>1. SUFFICES ASSUME header = sent PROVE FALSE
        OBVIOUS
      <3>2. /\ i \in DOMAIN receivers /\ header.ephemeral = Ephemeral
            /\ Entry(i).kid = ReceiverKID(receivers[i], i)
            /\ Opens(Entry(i).box, KeyFor(receivers[i]), PayloadNonce(i))
        BY <1>1, <1>3, <3>1, OwnBox
      <3>3. key = DerivedEphemeralKeyFromBoxKeys(sk, Ephemeral)
        BY <3>2, DerivedSymmetric
      <3>4. Entry(i).kid \notin Identifiers
        BY <1>1, <1>3, <1>4, <3>2, <3>3, DerivedName, ReceiverTypes
      <3>5. receivers[i] \in Keys
        <4>1. receivers[i] \notin Keys => Entry(i).kid = receivers[i].id
          BY <1>1, <3>2 DEF ReceiverKID
        <4> QED
          BY <1>1, <3>2, <3>4, <4>1, ReceiverTypes DEF SymmetricReceivers
      <3>6. Entry(i).kid = KeyIdentifierFromDerivedKey(
                DerivedEphemeralKeyFromBoxKeys(receivers[i], Ephemeral), i)
        BY <1>1, <3>2, <3>5 DEF ReceiverKID
      <3>7. key = DerivedEphemeralKeyFromBoxKeys(receivers[i], Ephemeral)
        BY <1>3, <3>6 DEF KeyIdentifierFromDerivedKey
      <3>8. key = KeyFor(receivers[i])
        BY <1>1, <3>5, <3>7 DEF KeyFor
      <3> QED
        BY <1>6, <3>2, <3>8
    <2> QED
      BY <1>1, <2>1, <2>2, LookupFails
  <1> QED
    BY <1>5, <1>6

LEMMA StepTrySymmetric == IInv /\ TrySharedSymmetricKeys => IInv'
  <1> SUFFICES ASSUME IInv, TrySharedSymmetricKeys PROVE IInv'
    OBVIOUS
  <1>1. /\ TypeOK /\ Sent /\ pc = "lookup" /\ mode = "signcryption" /\ Identified = {}
        /\ UNCHANGED <<untried, mki>>
    BY DEF IInv, TrySharedSymmetricKeys
  <1>2. CASE Resolved = {}
    <2>1. found' = found /\ pc' = "failed" /\ UNCHANGED Fixed
      BY <1>2 DEF TrySharedSymmetricKeys, Reading, Fixed
    <2>2. ASSUME header = sent, NEW r \in asked, CanFind(r)
          PROVE  FALSE
      <3>1. PICK i \in DOMAIN receivers : receivers[i] = r
        BY <1>1, AskedPlace
      <3>2. i \in DOMAIN header.receivers
        BY <1>1, <2>2, SentHeader, ReceiverTypes DEF Sent
      <3>3. Entry(i).kid = ReceiverKID(r, i) /\ header.ephemeral = Ephemeral
        BY <1>1, <2>2, <3>1, <3>2, OwnBox
      <3>4. CASE r \in Keys
        <4>1. r \in AllSecretKeys
          BY <1>1, <2>2, <3>4 DEF CanFind, AllSecretKeys
        <4>2. Entry(i).kid = KeyIdentifierFromDerivedKey(
                    DerivedEphemeralKeyFromBoxKeys(header.ephemeral, r), i)
          BY <1>1, <3>3, <3>4, DerivedSymmetric DEF ReceiverKID
        <4>3. i \in Identified
          BY <3>2, <4>1, <4>2 DEF Identified
        <4> QED
          BY <1>1, <4>3
      <3>5. CASE r \notin Keys
        <4>1. r.key \in SymmetricKeys /\ r.id \in Identifiers
          BY <1>1, <3>1, <3>5, ReceiverTypes DEF SymmetricReceivers
        <4>2. Entry(i).kid = r.id
          BY <1>1, <3>3, <3>5 DEF ReceiverKID
        <4>3. ring.resolves[r.id] # NoKey
          BY <2>2, <3>5, <4>1, KeysAssumption DEF CanFind
        <4>4. i \in Resolved
          BY <3>2, <4>1, <4>2, <4>3 DEF Resolved
        <4> QED
          BY <1>2, <4>4
      <3> QED
        BY <3>4, <3>5
    <2> QED
      BY <1>1, <2>1, <2>2, LookupFails
  <1>3. CASE Resolved # {}
    <2> DEFINE i  == Least(Resolved)
               id == Entry(i).kid
               key == DerivedSymmetricKey(header.ephemeral, ring.resolves[id])
    <2>1. OpenEntry(i, key, NoKey)
      BY <1>3 DEF TrySharedSymmetricKeys
    <2>2. i \in Resolved
      <3>1. Resolved \subseteq Nat
        BY <1>1, HeaderRead DEF Resolved
      <3> QED
        BY <1>3, <3>1, LeastOf
    <2> HIDE DEF i
    <2>3. /\ i \in DOMAIN header.receivers /\ id \in Identifiers
          /\ ring.resolves[id] # NoKey
      BY <2>2 DEF Resolved
    <2>4. CASE Opens(Entry(i).box, key, PayloadNonce(i))
      <3>1. /\ found' = [key |-> NoKey, position |-> i, opened |-> TRUE]
            /\ pc' = "sender" /\ UNCHANGED Fixed
        BY <2>1, <2>4 DEF OpenEntry, Reading, Fixed
      <3>2. \E j \in DOMAIN receivers : OpensBoxOf(NoKey, j) /\ (header = sent => j = i)
        BY <1>1, <2>3, <2>4, SymmetricKeyOpens
      <3> QED
        BY <1>1, <2>3, <3>1, <3>2, LookupFinds
    <2>5. CASE ~Opens(Entry(i).box, key, PayloadNonce(i))
      <3>1. found' = found /\ pc' = "failed" /\ UNCHANGED Fixed
        BY <2>1, <2>5 DEF OpenEntry, Reading, Fixed
      <3>2. ASSUME header = sent, ResolverRight
            PROVE  FALSE
        <4>1. /\ i \in DOMAIN receivers /\ header.ephemeral = Ephemeral
              /\ id = ReceiverKID(receivers[i], i)
              /\ Opens(Entry(i).box, KeyFor(receivers[i]), PayloadNonce(i))
          BY <1>1, <2>3, <3>2, OwnBox
        <4>2. receivers[i] \notin Keys
          <5>1. receivers[i] \in Keys => id = KeyIdentifierFromDerivedKey(
                    DerivedEphemeralKeyFromBoxKeys(receivers[i], Ephemeral), i)
            BY <1>1, <4>1 DEF ReceiverKID
          <5> QED
            BY <1>1, <2>3, <4>1, <5>1, DerivedName, ReceiverTypes
        <4>3. id = receivers[i].id
          BY <1>1, <4>1, <4>2 DEF ReceiverKID
        <4>4. receivers[i] \in asked \ Keys
          BY <1>1, <4>1, <4>2 DEF Sent, Range
        <4>5. ring.resolves[id] = receivers[i].key
          BY <2>3, <3>2, <4>3, <4>4 DEF ResolverRight
        <4>6. key = KeyFor(receivers[i])
          BY <1>1, <4>1, <4>2, <4>5 DEF KeyFor
        <4> QED
          BY <2>5, <4>1, <4>6
      <3> QED
        BY <1>1, <3>1, <3>2, LookupFails
    <2> QED
      BY <2>4, <2>5
  <1> QED
    BY <1>2, <1>3

\* What was found stays found.
LEMMA FoundKept ==
    ASSUME FoundOK, found # NotFound, UNCHANGED Fixed, UNCHANGED found,
           pc' \in {"sender", "packet", "accepted", "failed"}
    PROVE  FoundOK'
  <1>1. PICK j \in DOMAIN receivers :
            OpensBoxOf(found.key, j) /\ (header = sent => j = found.position)
    BY DEF FoundOK
  <1>2. /\ OpensBoxOf(found.key, j)' /\ j \in DOMAIN receivers'
        /\ header' = sent' => j = found'.position
    BY <1>1 DEF OpensBoxOf, Fixed
  <1>3. found'.opened = TRUE /\ found'.position \in DOMAIN header'.receivers
    BY DEF FoundOK, Fixed
  <1>4. found' # NotFound
    OBVIOUS
  <1> QED
    BY <1>2, <1>3, <1>4 DEF FoundOK

\* What is read of the sender after a key was found.
LEMMA StepReadSender == IInv /\ ReadSender => IInv'
  <1> SUFFICES ASSUME IInv, ReadSender PROVE IInv'
    OBVIOUS
  <1> DEFINE anon == IF mode = "encryption" THEN header.ephemeral ELSE NoKey
  <1>1. /\ TypeOK /\ Sent /\ FoundOK /\ InfoOK /\ pc = "sender" /\ found # NotFound
    BY DEF IInv, ReadSender, FoundOK
  <1>2. UNCHANGED Fixed /\ UNCHANGED <<untried, found>> /\ pc' \in {"packet", "failed"}
    BY DEF ReadSender, Reading, Fixed
  <1>3. SenderOK' /\ Sent' /\ RingOK'
    BY <1>1, <1>2, FixedOK
  <1>4. /\ untried' \subseteq ring.secret /\ found'.key \in Keys \union {NoKey}
        /\ found'.position \in 0 .. Len(receivers)
    BY <1>1, <1>2 DEF TypeOK
  <1>5. /\ mki = [senderKey |-> mki.senderKey, senderIsAnon |-> mki.senderIsAnon,
                  receiverKey |-> mki.receiverKey,
                  receiverIsAnon |-> mki.receiverIsAnon,
                  named |-> mki.named, numAnon |-> mki.numAnon]
        /\ mki.senderIsAnon = FALSE
        /\ mki.receiverIsAnon = (mode = "encryption" /\ found.position \in Anonymous)
    BY <1>1 DEF InfoOK
  <1>6. FoundOK'
    <2>1. pc' \in {"sender", "packet", "accepted", "failed"}
      BY <1>2
    <2> QED
      BY <1>1, <1>2, <2>1, FoundKept
  <1>7. /\ (mode = "encryption" /\ found.position \in Anonymous)'
              = (mode = "encryption" /\ found.position \in Anonymous)
        /\ BoxedSender' = BoxedSender
        /\ (IF mode = "encryption" THEN header.ephemeral ELSE NoKey)' = anon
    <2>1. Anonymous' = Anonymous /\ mode' = mode /\ found' = found /\ header' = header
          /\ BoxedSender' = BoxedSender
      BY <1>2, FixedSame DEF Fixed
    <2> QED
      BY <2>1
  <1>8. TriedInVain' /\ Accepted'
    BY <1>2 DEF TriedInVain, Accepted
  <1>9. ASSUME NEW b \in BOOLEAN, NEW k,
               mki' = [mki EXCEPT !.receiverKey = found.key, !.senderIsAnon = b,
                                  !.senderKey = k],
               pc' = "packet" => k = BoxedSender /\ b = (BoxedSender = anon),
               ReceiverGetsThrough'
        PROVE  IInv'
    <2>1. /\ mki'.senderIsAnon = b /\ mki'.senderKey = k
          /\ mki'.receiverIsAnon = mki.receiverIsAnon
          /\ mki'.named = mki.named /\ mki'.numAnon = mki.numAnon
          /\ mki' = [senderKey |-> mki'.senderKey, senderIsAnon |-> mki'.senderIsAnon,
                     receiverKey |-> mki'.receiverKey,
                     receiverIsAnon |-> mki'.receiverIsAnon,
                     named |-> mki'.named, numAnon |-> mki'.numAnon]
      BY <1>5, <1>9
    <2>2. TypeOK'
      <3>1. mki'.numAnon \in 0 .. Len(receivers) /\ Len(mki'.named) <= Len(receivers)
        BY <1>1, <2>1 DEF TypeOK
      <3> QED
        BY <1>2, <1>4, <3>1, ReadingTypes
    <2>3. InfoOK'
      <3>1. mki'.receiverIsAnon = (mode = "encryption" /\ found.position \in Anonymous)'
        BY <1>5, <1>7, <2>1
      <3>2. pc' = "packet" =>
                /\ mki'.senderKey = BoxedSender'
                /\ mki'.senderIsAnon = (BoxedSender' =
                        (IF mode = "encryption" THEN header.ephemeral ELSE NoKey)')
        BY <1>7, <1>9, <2>1
      <3> QED
        BY <1>2, <2>1, <3>1, <3>2 DEF InfoOK
    <2> QED
      BY <1>3, <1>6, <1>8, <1>9, <2>2, <2>3 DEF IInv
  <1>10. ASSUME pc' = "failed",
                header # sent \/ ~(sender = NoKey \/ sender \in ring.public)
         PROVE  ReceiverGetsThrough'
    BY <1>2, <1>10 DEF ReceiverGetsThrough, Fixed
  <1>11. ASSUME header = sent
         PROVE  /\ Opens(header.senderBox, PayloadKey, NonceForSenderKeySecretBox)
                /\ BoxedSender = SenderKey /\ header.ephemeral = Ephemeral
    <2>1. sent = MakeHeader(receivers)
      BY <1>1 DEF Sent
    <2> QED
      BY <1>1, <1>11, <2>1, SentHeader DEF Opens, Seal, BoxedSender
  <1>12. CASE ~Opens(header.senderBox, PayloadKey, NonceForSenderKeySecretBox)
    <2>1. pc' = "failed" /\ mki' = [mki EXCEPT !.receiverKey = found.key]
      BY <1>12 DEF ReadSender, Reading
    <2>2. mki' = [mki EXCEPT !.receiverKey = found.key, !.senderIsAnon = FALSE,
                             !.senderKey = mki.senderKey]
      BY <1>5, <2>1
    <2>3. ReceiverGetsThrough'
      BY <1>10, <1>11, <1>12, <2>1
    <2> QED
      BY <1>9, <2>1, <2>2, <2>3
  <1>13. CASE /\ Opens(header.senderBox, PayloadKey, NonceForSenderKeySecretBox)
              /\ BoxedSender = anon
    <2>1. /\ pc' = "packet"
          /\ mki' = [mki EXCEPT !.receiverKey = found.key, !.senderIsAnon = TRUE,
                                !.senderKey = BoxedSender]
      BY <1>13 DEF ReadSender, Reading
    <2>2. ReceiverGetsThrough'
      BY <2>1 DEF ReceiverGetsThrough
    <2> QED
      BY <1>9, <1>13, <2>1, <2>2
  <1>14. CASE /\ Opens(header.senderBox, PayloadKey, NonceForSenderKeySecretBox)
              /\ BoxedSender # anon /\ BoxedSender \in ring.public
    <2>1. /\ pc' = "packet"
          /\ mki' = [mki EXCEPT !.receiverKey = found.key, !.senderKey = BoxedSender]
      BY <1>14 DEF ReadSender, Reading
    <2>2. mki' = [mki EXCEPT !.receiverKey = found.key, !.senderIsAnon = FALSE,
                             !.senderKey = BoxedSender]
      BY <1>5, <2>1
    <2>3. ReceiverGetsThrough'
      BY <2>1 DEF ReceiverGetsThrough
    <2> QED
      BY <1>9, <1>14, <2>1, <2>2, <2>3
  <1>15. CASE /\ Opens(header.senderBox, PayloadKey, NonceForSenderKeySecretBox)
              /\ BoxedSender # anon /\ BoxedSender \notin ring.public
    <2>1. pc' = "failed" /\ mki' = [mki EXCEPT !.receiverKey = found.key]
      BY <1>15 DEF ReadSender, Reading
    <2>2. mki' = [mki EXCEPT !.receiverKey = found.key, !.senderIsAnon = FALSE,
                             !.senderKey = mki.senderKey]
      BY <1>5, <2>1
    <2>3. ReceiverGetsThrough'
      BY <1>10, <1>11, <1>15, <2>1 DEF SenderKey
    <2> QED
      BY <1>9, <2>1, <2>2, <2>3
  <1> QED
    BY <1>12, <1>13, <1>14, <1>15

\* The packet of a message that arrives as it was sent is authentic.
LEMMA OwnPacket ==
    ASSUME IInv, pc = "packet", header = sent
    PROVE  PacketAuthentic
  <1>1. /\ TypeOK /\ Sent /\ FoundOK /\ InfoOK /\ found # NotFound
        /\ mki.senderKey = BoxedSender
        /\ mki.senderIsAnon =
                (BoxedSender = IF mode = "encryption" THEN header.ephemeral ELSE NoKey)
    BY DEF IInv, FoundOK, InfoOK
  <1>2. /\ sent = MakeHeader(receivers) /\ header.major = major
        /\ header.ephemeral = Ephemeral /\ BoxedSender = SenderKey
    <2>1. sent = MakeHeader(receivers)
      BY <1>1 DEF Sent
    <2> QED
      BY <1>1, <2>1, SentHeader DEF Seal, BoxedSender
  <1>3. CASE mode = "encryption"
    <2>1. /\ found.position \in DOMAIN receivers
          /\ OpensBoxOf(found.key, found.position)
      BY <1>1 DEF FoundOK
    <2>2. found.key = receivers[found.position]
      BY <1>1, <1>3, <2>1, ReceiverTypes DEF OpensBoxOf
    <2> QED
      BY <1>1, <1>2, <1>3, <2>1, <2>2 DEF PacketAuthentic, MACKeysSender, MACKeyReceiver
  <1>4. CASE mode # "encryption"
    BY <1>1, <1>2, <1>4 DEF PacketAuthentic, SenderKey
  <1> QED
    BY <1>3, <1>4

LEMMA StepReadPacket == IInv /\ ReadPacket => IInv'
  <1> SUFFICES ASSUME IInv, ReadPacket PROVE IInv'
    OBVIOUS
  <1>1. /\ TypeOK /\ Sent /\ FoundOK /\ InfoOK /\ pc = "packet" /\ found # NotFound
    BY DEF IInv, ReadPacket, FoundOK
  <1>2. /\ UNCHANGED Fixed /\ UNCHANGED <<untried, found, mki>>
        /\ pc' = IF PacketAuthentic THEN "accepted" ELSE "failed"
    BY DEF ReadPacket, Reading, Fixed
  <1>3. SenderOK' /\ Sent' /\ RingOK'
    BY <1>1, <1>2, FixedOK
  <1>4. TypeOK'
    <2>1. /\ untried' \subseteq ring.secret /\ found'.key \in Keys \union {NoKey}
          /\ found'.position \in 0 .. Len(receivers)
          /\ mki'.numAnon \in 0 .. Len(receivers) /\ Len(mki'.named) <= Len(receivers)
      BY <1>1, <1>2 DEF TypeOK
    <2> QED
      BY <1>2, <2>1, ReadingTypes
  <1>5. FoundOK'
    <2>1. pc' \in {"sender", "packet", "accepted", "failed"}
      BY <1>2
    <2> QED
      BY <1>1, <1>2, <2>1, FoundKept
  <1>6. InfoOK'
    <2>1. /\ mki = [senderKey |-> mki.senderKey, senderIsAnon |-> mki.senderIsAnon,
                    receiverKey |-> mki.receiverKey,
                    receiverIsAnon |-> mki.receiverIsAnon,
                    named |-> mki.named, numAnon |-> mki.numAnon]
          /\ mki.receiverIsAnon = (mode = "encryption" /\ found.position \in Anonymous)
          /\ mki.senderKey = BoxedSender
          /\ mki.senderIsAnon =
                (BoxedSender = IF mode = "encryption" THEN header.ephemeral ELSE NoKey)
      BY <1>1 DEF InfoOK
    <2>2. /\ (mode = "encryption" /\ found.position \in Anonymous)'
                = (mode = "encryption" /\ found.position \in Anonymous)
          /\ BoxedSender' = BoxedSender
          /\ (IF mode = "encryption" THEN header.ephemeral ELSE NoKey)'
                = (IF mode = "encryption" THEN header.ephemeral ELSE NoKey)
      <3>1. Anonymous' = Anonymous /\ mode' = mode /\ found' = found /\ header' = header
            /\ BoxedSender' = BoxedSender
        BY <1>2, FixedSame DEF Fixed
      <3> QED
        BY <3>1
    <2>3. mki' = mki /\ pc' \in {"accepted", "failed"}
      BY <1>2
    <2>4. /\ mki'.receiverIsAnon = (mode = "encryption" /\ found.position \in Anonymous)'
          /\ mki'.senderKey = BoxedSender'
          /\ mki'.senderIsAnon = (BoxedSender' =
                        (IF mode = "encryption" THEN header.ephemeral ELSE NoKey)')
      BY <2>1, <2>2, <2>3
    <2>5. mki' = [senderKey |-> mki'.senderKey, senderIsAnon |-> mki'.senderIsAnon,
                  receiverKey |-> mki'.receiverKey,
                  receiverIsAnon |-> mki'.receiverIsAnon,
                  named |-> mki'.named, numAnon |-> mki'.numAnon]
      BY <2>1, <2>3
    <2> QED
      BY <2>3, <2>4, <2>5 DEF InfoOK
  <1>7. TriedInVain'
    BY <1>2 DEF TriedInVain
  <1>8. Accepted'
    <2>1. PacketAuthentic' = PacketAuthentic
      BY <1>2 DEF Fixed, PacketAuthentic, MACKeysSender, MACKeyReceiver, SenderKey
    <2> QED
      BY <1>2, <2>1 DEF Accepted
  <1>9. ReceiverGetsThrough'
    <2>1. header = sent => PacketAuthentic
      BY <1>1, OwnPacket
    <2> QED
      BY <1>2, <2>1 DEF ReceiverGetsThrough, Fixed
  <1> QED
    BY <1>3, <1>4, <1>5, <1>6, <1>7, <1>8, <1>9 DEF IInv

\* Before a header is read nothing has been found.
LEMMA NothingFound ==
    ASSUME TypeOK, Unread', TypeOK', pc' \in {"start", "refused", "sent", "lookup"}
    PROVE  FoundOK' /\ InfoOK' /\ TriedInVain' /\ Accepted' /\ ReceiverGetsThrough'
  <1>1. found' = NotFound /\ mki' = NoInfo
    BY DEF Unread, NotFound, NoInfo
  <1> QED
    BY <1>1 DEF FoundOK, InfoOK, NoInfo, Unread, TriedInVain, Accepted,
                ReceiverGetsThrough

\* The version of the validator, or the type of the message.
LEMMA StepReadHeader == IInv /\ (\E r \in Rings(mode) : ReadHeader(r)) => IInv'
  <1> SUFFICES ASSUME IInv, NEW r \in Rings(mode), ReadHeader(r)
               PROVE  IInv'
    OBVIOUS
  <1>1. /\ TypeOK /\ Sent /\ SenderOK /\ Unread /\ pc = "sent"
    BY DEF IInv, ReadHeader, InfoOK
  <1>2. /\ ring' = r /\ pc' \in {"lookup", "failed"}
        /\ UNCHANGED <<mode, major, sender, hides, asked, receivers, sent, header>>
        /\ UNCHANGED <<untried, found, mki>>
        /\ pc' = "failed" => header.type # mode \/ header.major \notin r.majors
    BY DEF ReadHeader
  <1>3. SenderOK' /\ RingOK'
    BY <1>1, <1>2 DEF SenderOK, RingOK
  <1>4. Sent'
    <2>1. MakeHeader(receivers)' = MakeHeader(receivers)
      BY <1>2 DEF MakeHeader, ReceiverKID, KeyFor, SenderKey
    <2> QED
      BY <1>1, <1>2, <2>1 DEF Sent, CheckReceivers
  <1>5. TypeOK'
    <2>1. untried' = {}
      BY <1>1, <1>2 DEF Unread
    <2> QED
      BY <1>1, <1>2, <2>1 DEF TypeOK
  <1>6. Unread'
    BY <1>1, <1>2 DEF Unread, NotFound, NoInfo
  <1>7. CASE pc' = "lookup"
    BY <1>1, <1>3, <1>4, <1>5, <1>6, <1>7, NothingFound DEF IInv
  <1>8. CASE pc' = "failed"
    <2>1. found' = NotFound /\ mki' = NoInfo
      BY <1>6 DEF Unread, NotFound, NoInfo
    <2>2. FoundOK' /\ InfoOK' /\ TriedInVain' /\ Accepted'
      BY <1>8, <2>1 DEF FoundOK, InfoOK, NoInfo, TriedInVain, Accepted
    <2>3. header = sent => header.type = mode /\ header.major = major
      <3>1. sent = MakeHeader(receivers)
        BY <1>1 DEF Sent
      <3> QED
        BY <1>1, <3>1, SentHeader
    <2>4. ReceiverGetsThrough'
      BY <1>2, <1>8, <2>3 DEF ReceiverGetsThrough
    <2> QED
      BY <1>3, <1>4, <1>5, <2>2, <2>4 DEF IInv
  <1> QED
    BY <1>2, <1>7, <1>8

LEMMA StepAlterHeader == IInv /\ AlterHeader => IInv'
  <1> SUFFICES ASSUME IInv, AlterHeader PROVE IInv'
    OBVIOUS
  <1>1. /\ TypeOK /\ Sent /\ SenderOK /\ RingOK /\ Unread /\ pc = "sent" /\ pc' = "sent"
        /\ header' \in AlteredHeaders(sent)
        /\ UNCHANGED <<mode, major, sender, hides, asked, receivers, sent, ring,
                       untried, found, mki>>
    BY DEF IInv, AlterHeader, InfoOK
  <1>2. SenderOK' /\ RingOK'
    BY <1>1 DEF SenderOK, RingOK
  <1>3. Sent'
    <2>1. /\ MakeHeader(receivers)' = MakeHeader(receivers)
          /\ AlteredHeaders(sent)' = AlteredHeaders(sent)
      BY <1>1 DEF MakeHeader, ReceiverKID, KeyFor, SenderKey
    <2> QED
      BY <1>1, <2>1 DEF Sent, CheckReceivers
  <1>4. TypeOK' /\ Unread'
    BY <1>1 DEF TypeOK, Unread, NotFound, NoInfo
  <1> QED
    BY <1>1, <1>2, <1>3, <1>4, NothingFound DEF IInv

\* An order of a list that passes checkReceivers passes it.
LEMMA OrderedReceivers ==
    ASSUME NEW R, NEW rs \in Seq(R), CheckReceivers(rs), NEW p, IsOrder(p, Len(rs)),
           NEW t, t = Ordered(rs, p)
    PROVE  t \in Seq(R) /\ Len(t) = Len(rs) /\ Range(t) = Range(rs) /\ CheckReceivers(t)
  <1> DEFINE n == Len(rs)
  <1>1. /\ n \in Nat /\ DOMAIN rs = 1 .. n /\ \A i \in 1 .. n : rs[i] \in R
        /\ n \in 1 .. MaxReceiverCount
    BY DEF CheckReceivers
  <1> HIDE DEF n
  <1>2. /\ t = [i \in 1 .. n |-> rs[p[i]]]
        /\ \A i \in 1 .. n : p[i] \in 1 .. n
        /\ \A i, j \in 1 .. n : p[i] = p[j] => i = j
        /\ \A i \in 1 .. n : \E j \in 1 .. n : p[j] = i
    BY DEF Ordered, IsOrder, n
  <1>3. t \in [1 .. n -> R] /\ \A i \in 1 .. n : t[i] = rs[p[i]]
    <2>1. \A i \in 1 .. n : rs[p[i]] \in R
      BY <1>1, <1>2
    <2>2. t = [i \in 1 .. n |-> rs[p[i]]]
      BY <1>2
    <2> QED
      BY <2>1, <2>2
  <1>4. t \in Seq(R) /\ Len(t) = n /\ DOMAIN t = 1 .. n
    BY <1>1, <1>3
  <1>5. Range(t) = Range(rs)
    <2>1. \A i \in 1 .. n : \E j \in 1 .. n : t[i] = rs[j]
      BY <1>2, <1>3
    <2>2. \A j \in 1 .. n : \E i \in 1 .. n : t[i] = rs[j]
      BY <1>2, <1>3
    <2>3. Range(t) = {t[i] : i \in 1 .. n} /\ Range(rs) = {rs[j] : j \in 1 .. n}
      BY <1>1, <1>4 DEF Range
    <2>4. ASSUME NEW x
          PROVE  x \in Range(t) <=> x \in Range(rs)
      <3>1. /\ x \in Range(t) <=> \E i \in 1 .. n : x = t[i]
            /\ x \in Range(rs) <=> \E j \in 1 .. n : x = rs[j]
        BY <2>3
      <3> HIDE DEF n
      <3> QED
        BY <2>1, <2>2, <3>1
    <2> QED
      BY <2>4
  <1>6. CheckReceivers(t)
    <2>1. ASSUME NEW i \in 1 .. n, NEW j \in 1 .. n, Kid(t[i]) = Kid(t[j])
          PROVE  i = j
      <3>1. Kid(rs[p[i]]) = Kid(rs[p[j]])
        BY <1>3, <2>1
      <3>2. p[i] = p[j]
        <4>1. p[i] \in 1 .. n /\ p[j] \in 1 .. n
          BY <1>2
        <4>2. \A k, l \in 1 .. n : Kid(rs[k]) = Kid(rs[l]) => k = l
          BY <1>1 DEF CheckReceivers
        <4> QED
          BY <3>1, <4>1, <4>2
      <3> QED
        BY <1>2, <3>2
    <2> QED
      BY <1>1, <1>4, <2>1 DEF CheckReceivers
  <1> QED
    BY <1>4, <1>5, <1>6 DEF n

LEMMA StepNewStream ==
    ASSUME IInv, NEW n \in 0 .. MaxReceiverCount + 1,
           NEW m \in IF mode = "encryption" THEN {0} ELSE 0 .. MaxReceiverCount + 1 - n,
           NEW boxKeys \in [1 .. n -> Keys],
           NEW symmetricKeys \in [1 .. m -> SymmetricReceivers],
           NewStream(boxKeys, symmetricKeys)
    PROVE  IInv'
  <1> DEFINE rs == boxKeys \o symmetricKeys
             R  == Receivers(mode)
  <1>1. /\ TypeOK /\ SenderOK /\ Sent /\ RingOK /\ pc = "start"
        /\ receivers = << >> /\ asked = {} /\ Unread /\ ring = EmptyRing
        /\ UNCHANGED <<mode, major, sender, hides, ring, untried, found, mki>>
    BY DEF IInv, NewStream, Sent, RingOK
  <1>2. Unread'
    BY <1>1 DEF Unread, NotFound, NoInfo
  <1>3. SenderOK'
    BY <1>1 DEF SenderOK
  <1>4. rs \in Seq(R)
    <2>1. MaxReceiverCount \in Nat
      BY KeysAssumption
    <2>2. n \in Nat /\ m \in Nat
      BY <2>1
    <2>3. boxKeys \in Seq(R)
      BY <2>2 DEF Receivers
    <2>4. symmetricKeys \in Seq(R)
      <3>1. CASE mode = "encryption"
        <4>1. symmetricKeys \in [1 .. 0 -> R]
          BY <3>1
        <4> QED
          BY <4>1
      <3>2. CASE mode # "encryption"
        <4>1. symmetricKeys \in [1 .. m -> R]
          BY <3>2 DEF Receivers
        <4> QED
          BY <2>2, <4>1
      <3> QED
        BY <3>1, <3>2
    <2> HIDE DEF R
    <2> QED
      BY <2>3, <2>4
  <1>5. CASE pc' = "refused" /\ UNCHANGED <<asked, receivers, sent, header>>
    <2>1. TypeOK'
      BY <1>1, <1>5 DEF TypeOK
    <2>2. Sent' /\ RingOK'
      BY <1>1, <1>2, <1>5 DEF Sent, RingOK
    <2> QED
      BY <1>1, <1>2, <1>3, <1>5, <2>1, <2>2, NothingFound DEF IInv
  <1>6. CASE /\ major \in {1, 2} /\ CheckReceivers(rs)
             /\ \E d \in Draws(Len(rs)) : receivers' = CsprngShuffle(rs, d)
             /\ asked' = Range(rs)
             /\ sent' = MakeHeader(receivers') /\ header' = sent'
             /\ pc' = "sent"
    <2> HIDE DEF rs
    <2>1. PICK d \in Draws(Len(rs)) : receivers' = CsprngShuffle(rs, d)
      BY <1>6
    <2>2. PICK p : IsOrder(p, Len(rs)) /\ receivers' = Ordered(rs, p)
      BY <1>4, <2>1, ShuffleOrders
    <2>3. /\ receivers' \in Seq(R) /\ Len(receivers') = Len(rs)
          /\ Range(receivers') = Range(rs) /\ CheckReceivers(receivers')
      BY <1>4, <1>6, <2>2, OrderedReceivers
    <2>4. Range(rs) \subseteq R
      <3> HIDE DEF R
      <3> QED
        BY <1>4 DEF Range
    <2>5. R' = R /\ Len(receivers') \in 1 .. MaxReceiverCount
      BY <1>1, <2>3 DEF Receivers, CheckReceivers
    <2>6. TypeOK'
      <3>1. /\ receivers' \in Seq(Receivers(mode'))
            /\ asked' \subseteq Receivers(mode')
        BY <1>6, <2>3, <2>4, <2>5
      <3>2. /\ untried' = {} /\ found' = NotFound /\ mki' = NoInfo
            /\ found'.key = NoKey /\ found'.position = 0
            /\ mki'.numAnon = 0 /\ Len(mki'.named) = 0
        BY <1>2 DEF Unread, NotFound, NoInfo
      <3>3. Len(receivers') \in Nat /\ Len(receivers') <= MaxReceiverCount
        BY <2>5, KeysAssumption
      <3>4. /\ mode' \in {"encryption", "signcryption"} /\ major' \in 1 .. 3
            /\ sender' \in Keys \union {NoKey} /\ hides' \subseteq Keys
        BY <1>1 DEF TypeOK
      <3> QED
        BY <1>6, <3>1, <3>2, <3>3, <3>4 DEF TypeOK
    <2>7. Sent'
      <3>1. MakeHeader(receivers') = MakeHeader(receivers)'
        BY <1>1 DEF MakeHeader, ReceiverKID, KeyFor, SenderKey
      <3>2. CheckReceivers(receivers)' /\ major' \in {1, 2}
        BY <1>1, <1>6, <2>3 DEF CheckReceivers
      <3> QED
        BY <1>6, <2>3, <3>1, <3>2 DEF Sent
    <2>8. RingOK'
      BY <1>1, <1>6 DEF RingOK
    <2> QED
      BY <1>1, <1>2, <1>3, <1>6, <2>6, <2>7, <2>8, NothingFound DEF IInv
  <1> QED
    BY <1>5, <1>6 DEF NewStream

LEMMA StepIInv == IInv /\ [Next]_vars => IInv'
  <1> SUFFICES ASSUME IInv, [Next]_vars PROVE IInv'
    OBVIOUS
  <1>1. CASE UNCHANGED vars
    <2>1. /\ MakeHeader(receivers)' = MakeHeader(receivers)
          /\ PacketAuthentic' = PacketAuthentic
      BY <1>1 DEF vars, MakeHeader, ReceiverKID, KeyFor, SenderKey, PacketAuthentic,
                  MACKeysSender, MACKeyReceiver
    <2>2. UNCHANGED Fixed /\ UNCHANGED <<untried, found, mki, pc>>
      BY <1>1 DEF vars, Fixed
    <2>3. TypeOK' /\ RingOK'
      BY <2>2 DEF IInv, TypeOK, RingOK, Fixed
    <2>4. SenderOK' /\ Sent'
      BY <2>1, <2>2, FixedSame DEF IInv, Sent, Unread, CheckReceivers, Fixed
    <2>5. FoundOK'
      <3>1. CASE found = NotFound
        BY <2>2, <3>1 DEF IInv, FoundOK
      <3>2. CASE found # NotFound
        BY <2>2, <3>2, FoundKept DEF IInv, FoundOK
      <3> QED
        BY <3>1, <3>2
    <2>6. InfoOK' /\ TriedInVain' /\ Accepted' /\ ReceiverGetsThrough'
      BY <1>1 DEF vars, IInv, InfoOK, Unread, BoxedSender, Anonymous, Visible, Entry,
                  TriedInVain, Matches, VisibleKIDs, VisiblePlaces, AllSecretKeys,
                  Accepted, PacketAuthentic, MACKeysSender, MACKeyReceiver, SenderKey,
                  ReceiverGetsThrough, ResolverRight, CanFind
    <2> QED
      BY <2>3, <2>4, <2>5, <2>6 DEF IInv
  <1>2. CASE \E n \in 0 .. MaxReceiverCount + 1 :
                \E m \in IF mode = "encryption" THEN {0} ELSE 0 .. MaxReceiverCount + 1 - n :
                    \E boxKeys \in [1 .. n -> Keys] :
                        \E symmetricKeys \in [1 .. m -> SymmetricReceivers] :
                            NewStream(boxKeys, symmetricKeys)
    BY <1>2, StepNewStream
  <1>3. CASE AlterHeader
    BY <1>3, StepAlterHeader
  <1>4. CASE \E r \in Rings(mode) : ReadHeader(r)
    BY <1>4, StepReadHeader
  <1>5. CASE TryVisibleReceivers
    BY <1>5, StepTryVisible
  <1>6. CASE NoVisibleReceiver
    BY <1>6, StepNoVisible
  <1>7. CASE TryHiddenReceivers
    BY <1>7, StepTryHidden
  <1>8. CASE TryBoxSecretKeys
    BY <1>8, StepTryBox
  <1>9. CASE TrySharedSymmetricKeys
    BY <1>9, StepTrySymmetric
  <1>10. CASE ReadSender
    BY <1>10, StepReadSender
  <1>11. CASE ReadPacket
    BY <1>11, StepReadPacket
  <1> QED
    BY <1>1, <1>2, <1>3, <1>4, <1>5, <1>6, <1>7, <1>8, <1>9, <1>10, <1>11 DEF Next

\* In every state of the program the header read is the one written or one
\* alteration of it, and what was found and told comes from it.
THEOREM Invariance == Spec => []IInv
  <1> QED
    BY InitIInv, StepIInv, PTL DEF Spec

-----------------------------------------------------------------------------
(* The properties.                                                         *)

\* The state has its types: the places found and the counts told are within
\* the list of receivers, and the keys to try are keys of the ring.
THEOREM TypeCorrect == Spec => []TypeOK
  <1>1. IInv => TypeOK
    BY DEF IInv
  <1> QED
    BY <1>1, Invariance, PTL

\* Every receiver who can find its key in a header that arrives as it was sent
\* gets through to the payload (processHeader and what it tries in turn).
THEOREM EveryReceiverGetsThrough == Spec => []ReceiverGetsThrough
  <1>1. IInv => ReceiverGetsThrough
    BY DEF IInv
  <1> QED
    BY <1>1, Invariance, PTL

\* However the header is altered, only the key of a receiver opens it.
THEOREM OnlyReceiversOpen == Spec => []OnlyReceivers
  <1>1. ASSUME IInv, found.opened
        PROVE  \E r \in asked : IF r \in Keys THEN found.key = r
                   ELSE found.key = NoKey /\ \E id \in Identifiers : ring.resolves[id] = r.key
    <2>1. TypeOK /\ Sent /\ FoundOK
      BY <1>1 DEF IInv
    <2>2. found # NotFound
      BY <1>1 DEF NotFound
    <2>3. pc \notin {"start", "refused"}
      BY <2>1, <2>2 DEF FoundOK
    <2>4. PICK j \in DOMAIN receivers : OpensBoxOf(found.key, j)
      BY <2>1, <2>2 DEF FoundOK
    <2>5. receivers[j] \in asked
      BY <2>1, <2>3 DEF Sent, Range
    <2> QED
      BY <2>4, <2>5 DEF OpensBoxOf
  <1>2. IInv => OnlyReceivers
    BY <1>1 DEF OnlyReceivers
  <1> QED
    BY <1>2, Invariance, PTL

\* The sender of the header is anonymous if its box says so.
LEMMA AnonymousSender ==
    ASSUME TypeOK
    PROVE  (SenderKey = IF mode = "encryption" THEN Ephemeral ELSE NoKey)
                <=> sender = NoKey
  BY KeysAssumption DEF TypeOK, SenderKey

\* A packet is accepted only under the header that was sent, and then
\* MessageKeyInfo tells who the two ends are.
THEOREM InfoIsAlwaysTrue == Spec => []InfoIsTrue
  <1>1. ASSUME IInv, pc = "accepted"
        PROVE  /\ header = sent
               /\ mki.senderIsAnon <=> sender = NoKey
               /\ mki.senderKey = SenderKey
               /\ found.key # NoKey => receivers[found.position] = found.key
               /\ mki.receiverIsAnon <=> mode = "encryption" /\ found.key \in hides
    <2>1. /\ TypeOK /\ Sent /\ FoundOK /\ found # NotFound /\ PacketAuthentic
          /\ mki.senderKey = BoxedSender
          /\ mki.senderIsAnon =
                (BoxedSender = IF mode = "encryption" THEN header.ephemeral ELSE NoKey)
          /\ mki.receiverIsAnon = (mode = "encryption" /\ found.position \in Anonymous)
      BY <1>1 DEF IInv, FoundOK, Accepted, InfoOK
    <2>2. header = sent
      BY <2>1 DEF PacketAuthentic
    <2>3. header.ephemeral = Ephemeral /\ BoxedSender = SenderKey
      <3>1. sent = MakeHeader(receivers)
        BY <1>1, <2>1 DEF Sent
      <3> QED
        BY <2>1, <2>2, <3>1, SentHeader DEF Seal, BoxedSender
    <2>4. mki.senderIsAnon <=> sender = NoKey
      BY <2>1, <2>3, AnonymousSender
    <2> DEFINE i == found.position
    <2>5. /\ i \in DOMAIN header.receivers /\ i \in DOMAIN receivers
          /\ OpensBoxOf(found.key, i)
      BY <2>1, <2>2 DEF FoundOK
    <2>6. found.key # NoKey => receivers[i] = found.key
      BY <2>5 DEF OpensBoxOf
    <2>7. mki.receiverIsAnon <=> mode = "encryption" /\ found.key \in hides
      <3>1. CASE mode # "encryption"
        BY <2>1, <3>1
      <3>2. CASE mode = "encryption"
        <4>1. receivers[i] \in Keys /\ found.key = receivers[i]
          BY <2>1, <2>5, <3>2, ReceiverTypes DEF OpensBoxOf
        <4>2. Entry(i).kid = ReceiverKID(receivers[i], i)
          BY <1>1, <2>1, <2>2, <2>5, OwnBox
        <4>3. Entry(i).kid = IF found.key \in hides THEN NoKID ELSE found.key
          BY <3>2, <4>1, <4>2 DEF ReceiverKID
        <4>4. i \in Anonymous <=> found.key \in hides
          BY <2>5, <4>1, <4>3, KeysAssumption DEF Anonymous, Visible
        <4> QED
          BY <2>1, <3>2, <4>4
      <3> QED
        BY <3>1, <3>2
    <2> QED
      BY <2>1, <2>2, <2>3, <2>4, <2>6, <2>7
  <1>2. IInv => InfoIsTrue
    BY <1>1 DEF InfoIsTrue
  <1> QED
    BY <1>2, Invariance, PTL

\* Different receivers of an encrypted message have different keys with anyone.
LEMMA SharedKeyOnce ==
    ASSUME Sent, TypeOK, pc = "sent", mode = "encryption",
           NEW i \in DOMAIN receivers, NEW j \in DOMAIN receivers, NEW k,
           SharedKey(k, receivers[i]) = SharedKey(k, receivers[j])
    PROVE  i = j
  <1>1. {k, receivers[i]} = {k, receivers[j]}
    BY DEF SharedKey
  <1>2. receivers[i] = receivers[j]
    BY <1>1, PairSets
  <1> QED
    BY <1>2 DEF Sent, CheckReceivers

\* What is used for the receiver number i: the box of the payload key and, in
\* encryption mode, what its authenticators are made with.
MACNonce(i) == IF major = 1 THEN <<"mac", sent, FALSE, 0>> ELSE <<"mac", sent, FALSE, i>>

IsUse(u, i) ==
    \/ u = <<i, 0, Seal(KeyFor(receivers[i]), NonceForPayloadKeyBox(major, i), PayloadKey)>>
    \/ /\ mode = "encryption"
       /\ u = <<i, 1, ComputeMACKeySingle(SenderKey, receivers[i], MACNonce(i))>>
    \/ /\ mode = "encryption" /\ major = 2
       /\ u = <<i, 2, ComputeMACKeySingle(Ephemeral, receivers[i],
                                         <<"mac", sent, TRUE, i>>)>>

LEMMA UsesOf ==
    ASSUME Sent, TypeOK, pc = "sent", NEW u \in Uses
    PROVE  \E i \in DOMAIN receivers : IsUse(u, i)
  <1>1. /\ major \in {1, 2} /\ sent = MakeHeader(receivers)
    BY DEF Sent
  <1>2. ASSUME NEW i \in DOMAIN receivers
        PROVE  sent.receivers[i].box =
                Seal(KeyFor(receivers[i]), NonceForPayloadKeyBox(major, i), PayloadKey)
    <2>1. i \in 1 .. Len(receivers)
      BY ReceiverTypes
    <2>2. sent.receivers[i] =
            [kid |-> ReceiverKID(receivers[i], i),
             box |-> Seal(KeyFor(receivers[i]), NonceForPayloadKeyBox(major, i),
                          PayloadKey)]
      BY <1>1, <2>1, SentHeader
    <2> QED
      BY <2>2
  <1>3. CASE u \in { <<i, 0, sent.receivers[i].box>> : i \in DOMAIN receivers }
    <2>1. PICK i \in DOMAIN receivers : u = <<i, 0, sent.receivers[i].box>>
      BY <1>3
    <2>2. IsUse(u, i)
      BY <1>2, <2>1 DEF IsUse
    <2> QED
      BY <2>2
  <1>4. CASE u \in { <<i, j, MACKeysSender[i][j]>> : i \in DOMAIN receivers,
                        j \in IF mode = "encryption" THEN 1 .. major ELSE {} }
    <2>1. PICK i \in DOMAIN receivers,
               j \in IF mode = "encryption" THEN 1 .. major ELSE {} :
                    u = <<i, j, MACKeysSender[i][j]>>
      BY <1>4
    <2>2. mode = "encryption" /\ j \in 1 .. major
      BY <2>1
    <2>3. MACKeysSender[i] =
            ComputeMACKey(major, i, SenderKey, Ephemeral, receivers[i], sent)
      BY DEF MACKeysSender
    <2>4. ASSUME j = 1
          PROVE  MACKeysSender[i][1] =
                    ComputeMACKeySingle(SenderKey, receivers[i], MACNonce(i))
      BY <1>1, <2>3 DEF ComputeMACKey, MACNonce, NonceForMACKeyBoxV1, NonceForMACKeyBoxV2
    <2>5. ASSUME major = 2
          PROVE  MACKeysSender[i][2] = ComputeMACKeySingle(Ephemeral, receivers[i],
                                                           <<"mac", sent, TRUE, i>>)
      BY <2>3, <2>5 DEF ComputeMACKey, NonceForMACKeyBoxV2
    <2>6. j = 1 \/ (j = 2 /\ major = 2)
      BY <1>1, <2>2
    <2>7. IsUse(u, i)
      BY <2>1, <2>2, <2>4, <2>5, <2>6 DEF IsUse
    <2> QED
      BY <2>7
  <1>5. \/ u \in { <<i, 0, sent.receivers[i].box>> : i \in DOMAIN receivers }
        \/ u \in { <<i, j, MACKeysSender[i][j]>> : i \in DOMAIN receivers,
                        j \in IF mode = "encryption" THEN 1 .. major ELSE {} }
    BY DEF Uses
  <1> QED
    BY <1>3, <1>4, <1>5

\* A nonce belongs to a payload box or to an authenticator, never to both.
LEMMA NonceKinds ==
    ASSUME NEW i, NEW n, n = NonceForPayloadKeyBox(major, i)
    PROVE  n[1] # "mac"
  BY DEF NonceForPayloadKeyBox

\* Two uses of the same key and nonce are one.
LEMMA UsedOnce ==
    ASSUME Sent, TypeOK, SenderOK, pc = "sent", NEW i \in DOMAIN receivers,
           NEW j \in DOMAIN receivers, NEW u, NEW v, IsUse(u, i), IsUse(v, j),
           u[3].key = v[3].key, u[3].nonce = v[3].nonce
    PROVE  u = v
  <1> DEFINE box(k) == Seal(KeyFor(receivers[k]), NonceForPayloadKeyBox(major, k),
                            PayloadKey)
             mac(k) == ComputeMACKeySingle(SenderKey, receivers[k], MACNonce(k))
             eph(k) == ComputeMACKeySingle(Ephemeral, receivers[k], <<"mac", sent, TRUE, k>>)
  <1>1. \A k : /\ box(k).key = KeyFor(receivers[k])
               /\ box(k).nonce = NonceForPayloadKeyBox(major, k)
               /\ mac(k).key = SharedKey(SenderKey, receivers[k])
               /\ mac(k).nonce = MACNonce(k)
               /\ eph(k).key = SharedKey(Ephemeral, receivers[k])
               /\ eph(k).nonce = <<"mac", sent, TRUE, k>>
    BY DEF Seal, ComputeMACKeySingle
  <1>2. \A k : box(k).nonce[1] # "mac" /\ mac(k).nonce[1] = "mac" /\ eph(k).nonce[1] = "mac"
    <2>1. \A k : MACNonce(k)[1] = "mac" /\ <<"mac", sent, TRUE, k>>[1] = "mac"
      BY DEF MACNonce
    <2>2. \A k : NonceForPayloadKeyBox(major, k)[1] # "mac"
      BY NonceKinds
    <2> QED
      BY <1>1, <2>1, <2>2
  <1>3. \A k : mac(k).nonce[3] = FALSE /\ eph(k).nonce[3] = TRUE
    <2>1. \A k : MACNonce(k)[3] = FALSE /\ <<"mac", sent, TRUE, k>>[3] = TRUE
      BY DEF MACNonce
    <2> QED
      BY <1>1, <2>1
  <1>4. /\ u \in {<<i, 0, box(i)>>, <<i, 1, mac(i)>>, <<i, 2, eph(i)>>}
        /\ u = <<i, 0, box(i)>> \/ mode = "encryption"
        /\ v \in {<<j, 0, box(j)>>, <<j, 1, mac(j)>>, <<j, 2, eph(j)>>}
        /\ v = <<j, 0, box(j)>> \/ mode = "encryption"
    BY DEF IsUse
  <1> HIDE DEF box, mac, eph
  <1>5. ASSUME u = <<i, 0, box(i)>>, v = <<j, 0, box(j)>>
        PROVE  i = j
    <2>1. /\ KeyFor(receivers[i]) = KeyFor(receivers[j])
          /\ NonceForPayloadKeyBox(major, i) = NonceForPayloadKeyBox(major, j)
      BY <1>1, <1>5
    <2>2. CASE mode = "encryption"
      BY <2>1, <2>2, SharedKeyOnce DEF KeyFor
    <2>3. CASE mode # "encryption"
      <3>1. major = 2
        BY <2>3 DEF TypeOK, SenderOK
      <3> QED
        BY <2>1, <3>1 DEF NonceForPayloadKeyBox
    <2> QED
      BY <2>2, <2>3
  <1>6. ASSUME u = <<i, 1, mac(i)>>, v = <<j, 1, mac(j)>>, mode = "encryption"
        PROVE  i = j
    <2>1. SharedKey(SenderKey, receivers[i]) = SharedKey(SenderKey, receivers[j])
      BY <1>1, <1>6
    <2> QED
      BY <1>6, <2>1, SharedKeyOnce
  <1>7. ASSUME u = <<i, 2, eph(i)>>, v = <<j, 2, eph(j)>>
        PROVE  i = j
    <2>1. <<"mac", sent, TRUE, i>> = <<"mac", sent, TRUE, j>>
      BY <1>1, <1>7
    <2> QED
      BY <2>1
  <1>8. /\ u = <<i, 0, box(i)>> <=> v = <<j, 0, box(j)>>
        /\ u = <<i, 1, mac(i)>> <=> v = <<j, 1, mac(j)>>
        /\ u = <<i, 2, eph(i)>> <=> v = <<j, 2, eph(j)>>
    <2>1. \A k, x : <<k, 0, x>>[3] = x /\ <<k, 1, x>>[3] = x /\ <<k, 2, x>>[3] = x
      OBVIOUS
    <2> QED
      BY <1>2, <1>3, <1>4, <2>1
  <1> QED
    BY <1>4, <1>5, <1>6, <1>7, <1>8

\* Every key and nonce is used once, the boxes of the payload key and those
\* that make the MAC keys taken together (encryptStream.init, computeMACKeys).
THEOREM NoNonceUsedTwice == Spec => []NonceUsedOnce
  <1>1. ASSUME IInv, pc = "sent", NEW u \in Uses, NEW v \in Uses,
               u[3].key = v[3].key, u[3].nonce = v[3].nonce
        PROVE  u = v
    <2>1. TypeOK /\ Sent /\ SenderOK
      BY <1>1 DEF IInv
    <2>2. PICK i \in DOMAIN receivers : IsUse(u, i)
      BY <1>1, <2>1, UsesOf
    <2>3. PICK j \in DOMAIN receivers : IsUse(v, j)
      BY <1>1, <2>1, UsesOf
    <2> QED
      BY <1>1, <2>1, <2>2, <2>3, UsedOnce
  <1>2. IInv => NonceUsedOnce
    BY <1>1 DEF NonceUsedOnce
  <1> QED
    BY <1>2, Invariance, PTL

\* EveryOrderEquallyOften: no word is drawn twice as often as another, and each
\* turn of csprngShuffle puts one element in its place for good.
THEOREM OrdersEquallyOften == Spec => []EveryOrderEquallyOften
  <1>1. ASSUME IInv
        PROVE  EveryOrderEquallyOften
    <2>1. SUFFICES ASSUME pc = "sent"
                   PROVE  \A p, q \in Bijection(DOMAIN receivers, DOMAIN receivers) :
                            Cardinality({ d \in Draws(Len(receivers)) :
                                CsprngShuffle(receivers, d)
                                    = [i \in DOMAIN receivers |-> receivers[p[i]]] })
                          = Cardinality({ d \in Draws(Len(receivers)) :
                                CsprngShuffle(receivers, d)
                                    = [i \in DOMAIN receivers |-> receivers[q[i]]] })
      BY DEF EveryOrderEquallyOften
    <2> DEFINE n == Len(receivers)
               R == Receivers(mode)
    <2>2. receivers \in Seq(R) /\ CheckReceivers(receivers)
      BY <1>1, <2>1 DEF IInv, TypeOK, Sent
    <2>3. DOMAIN receivers = 1 .. n
      BY <2>2
    <2>4. n \in 1 .. WordSize
      <3>1. n \in 1 .. MaxReceiverCount
        BY <2>2 DEF CheckReceivers
      <3> QED
        BY <3>1, KeysAssumption, WordSizeAssumption
    <2>5. Distinct(receivers)
      BY <2>2, <2>3 DEF CheckReceivers, Distinct
    <2>6. ASSUME NEW p \in Bijection(1 .. n, 1 .. n)
          PROVE  IsOrder(p, n)
      <3> DEFINE D == 1 .. n
      <3>1. p \in [D -> D] /\ (\A i, j \in D : p[i] = p[j] => i = j)
            /\ (\A i \in D : \E j \in D : p[j] = i)
        <4> HIDE DEF D
        <4>1. p \in Bijection(D, D)
          BY <2>6 DEF D
        <4> QED
          BY <4>1, Fun_BijectionProperties
      <3> QED
        BY <3>1 DEF IsOrder
    <2>7. TAKE p, q \in Bijection(DOMAIN receivers, DOMAIN receivers)
    <2>8. IsOrder(p, n) /\ IsOrder(q, n)
      BY <2>3, <2>6, <2>7
    <2>9. Cardinality(WaysTo(receivers, p)) = Cardinality(WaysTo(receivers, q))
      BY <2>2, <2>4, <2>5, <2>8, OrdersAsOften
    <2> QED
      BY <2>3, <2>9 DEF WaysTo, Ordered
  <1> QED
    BY <1>1, Invariance, PTL
=============================================================================
