--------------------------- MODULE Classify_proofs ----------------------------
(***************************************************************************)
(* Proofs about Classify: types, that an answer about the beginning of a   *)
(* stream is not taken back when more of it is seen, that a decoder finds  *)
(* the frame that the classification has found, and that no message of     *)
(* ours is denied, however its words are spaced.                           *)
(*                                                                         *)
(* The words of a text are followed as the text grows by a piece: one      *)
(* piece more leaves them as they are, makes the last one longer or begins *)
(* one.  So a text whose words do not begin a frame never becomes one that *)
(* is a frame, and the digits behind a frame only get more.                *)
(***************************************************************************)
EXTENDS Classify, InductionFacts, FiniteSetTheorems

Text == Seq(Piece)

-----------------------------------------------------------------------------
(* Sequences.                                                              *)

LEMMA AppendFacts ==
    ASSUME NEW S, NEW s \in Seq(S), NEW e \in S
    PROVE  /\ Append(s, e) \in Seq(S) /\ Len(Append(s, e)) = Len(s) + 1
           /\ Append(s, e)[Len(s) + 1] = e /\ Len(s) \in Nat
           /\ \A i \in 1 .. Len(s) : Append(s, e)[i] = s[i]
  BY AppendProperties, LenProperties

LEMMA SeqInduct ==
    ASSUME NEW S, NEW T, << >> \in T,
           \A s \in Seq(S), e \in S : s \in T => Append(s, e) \in T
    PROVE  \A s \in Seq(S) : s \in T
  <1> DEFINE U == {n \in Nat : \A s \in Seq(S) : Len(s) = n => s \in T}
  <1>1. 0 \in U
    BY EmptySeq
  <1>2. ASSUME NEW n \in Nat, n \in U
        PROVE  n + 1 \in U
    <2>1. ASSUME NEW s \in Seq(S), Len(s) = n + 1
          PROVE  s \in T
      <3>1. /\ SubSeq(s, 1, n) \in Seq(S) /\ Len(SubSeq(s, 1, n)) = n
            /\ s[n + 1] \in S /\ s = Append(SubSeq(s, 1, n), s[n + 1])
        BY <2>1, Decompose
      <3>2. SubSeq(s, 1, n) \in T
        BY <1>2, <3>1
      <3> QED
        BY <3>1, <3>2
    <2> QED
      BY <2>1
  <1> HIDE DEF U
  <1>3. \A n \in Nat : n \in U
    BY <1>1, <1>2, NatInduct
  <1> QED
    BY <1>3, LenProperties DEF U

LEMMA SubSeqStart ==
    ASSUME NEW S, NEW s \in Seq(S), NEW n \in 0 .. Len(s)
    PROVE  /\ SubSeq(s, 1, n) \in Seq(S) /\ Len(SubSeq(s, 1, n)) = n
           /\ \A i \in 1 .. n : SubSeq(s, 1, n)[i] = s[i]
  <1>1. n \in Nat /\ n \in 1 - 1 .. Len(s) /\ 1 \in 1 .. Len(s) + 1 /\ Len(s) \in Nat
    BY LenProperties
  <1> QED
    BY <1>1, SubSeqProperties

LEMMA SubSeqNext ==
    ASSUME NEW S, NEW s \in Seq(S), NEW n \in Nat, n < Len(s)
    PROVE  /\ SubSeq(s, 1, n + 1) = Append(SubSeq(s, 1, n), s[n + 1])
           /\ SubSeq(s, 1, n) \in Seq(S) /\ Len(SubSeq(s, 1, n)) = n /\ s[n + 1] \in S
  <1>1. Len(s) \in Nat /\ n \in 0 .. Len(s) /\ n + 1 \in 0 .. Len(s)
    BY LenProperties
  <1> DEFINE t == SubSeq(s, 1, n + 1)
             r == SubSeq(s, 1, n)
  <1>2. t \in Seq(S) /\ Len(t) = n + 1 /\ \A i \in 1 .. n + 1 : t[i] = s[i]
    BY <1>1, SubSeqStart
  <1>3. r \in Seq(S) /\ Len(r) = n /\ \A i \in 1 .. n : r[i] = s[i]
    BY <1>1, SubSeqStart
  <1> HIDE DEF t, r
  <1>4. s[n + 1] \in S
    BY <1>1, ElementOfSeq
  <1>5. /\ Append(r, s[n + 1]) \in Seq(S) /\ Len(Append(r, s[n + 1])) = n + 1
        /\ Append(r, s[n + 1])[n + 1] = s[n + 1]
        /\ \A i \in 1 .. n : Append(r, s[n + 1])[i] = r[i]
    BY <1>3, <1>4, AppendFacts
  <1>6. \A i \in 1 .. n + 1 : t[i] = Append(r, s[n + 1])[i]
    <2>1. \A i \in 1 .. n + 1 : i = n + 1 \/ i \in 1 .. n
      OBVIOUS
    <2> QED
      BY <1>2, <1>3, <1>5, <2>1
  <1>7. t = Append(r, s[n + 1])
    BY <1>2, <1>5, <1>6, SeqEqual
  <1> QED
    BY <1>3, <1>4, <1>7 DEF t, r

-----------------------------------------------------------------------------
(* Words.                                                                  *)

LastOf(s) == IF s = << >> THEN Space ELSE s[Len(s)]

Words == Seq(Seq(Piece))

LEMMA AddPieceType ==
    ASSUME NEW words \in Words, NEW before, NEW piece \in Piece
    PROVE  AddPiece(words, before, piece) \in Words
  <1>1. <<piece>> \in Seq(Piece)
    OBVIOUS
  <1>2. Append(words, <<piece>>) \in Words
    BY <1>1, AppendProperties DEF Words
  <1>3. [words EXCEPT ![Len(words)] = Append(@, piece)] \in Words
    <2> DEFINE n == Len(words)
               w == [words EXCEPT ![n] = Append(@, piece)]
               P == Seq(Piece)
    <2>1. n \in Nat /\ words \in [1 .. n -> P]
      BY LenProperties DEF Words
    <2>2. ASSUME NEW i \in 1 .. n
          PROVE  w[i] \in P
      <3>1. words[i] \in P
        BY <2>1
      <3>2. Append(words[i], piece) \in P
        BY <3>1, AppendProperties
      <3> HIDE DEF P
      <3> QED
        BY <2>1, <3>1, <3>2
    <2> HIDE DEF P
    <2>3. w \in [1 .. n -> P]
      BY <2>1, <2>2
    <2> QED
      BY <2>1, <2>3, FunctionSeq DEF Words, P
  <1> QED
    BY <1>2, <1>3 DEF AddPiece

PieceBefore(text, n) == IF n = 1 THEN Space ELSE text[n - 1]

IsWordsUpTo(f, text) ==
    f = [n \in 0 .. Len(text) |->
            IF n = 0 THEN << >>
            ELSE AddPiece(f[n - 1], IF n = 1 THEN Space ELSE text[n - 1], text[n])]

WordsUpTo(text) == CHOOSE f : IsWordsUpTo(f, text)

LEMMA WordsExist ==
    ASSUME NEW text \in Text
    PROVE  /\ WordsUpTo(text) \in [0 .. Len(text) -> Words]
           /\ WordsUpTo(text)[0] = << >>
           /\ \A n \in 1 .. Len(text) :
                WordsUpTo(text)[n] =
                    AddPiece(WordsUpTo(text)[n - 1], PieceBefore(text, n), text[n])
           /\ WordsOf(text) = WordsUpTo(text)[Len(text)]
  <1> DEFINE L == Len(text)
             step == [a \in Nat \X Words |->
                        IF a[1] < L
                        THEN AddPiece(a[2], PieceBefore(text, a[1] + 1), text[a[1] + 1])
                        ELSE a[2]]
  <1>1. L \in Nat /\ \A i \in 1 .. L : text[i] \in Piece
    BY LenProperties, ElementOfSeq DEF Text
  <1>2. << >> \in Words
    BY DEF Words
  <1>3. StepIn(step, Words)
    <2>1. ASSUME NEW n \in Nat, NEW v \in Words
          PROVE  step[<<n, v>>] \in Words
      <3>1. step[<<n, v>>] = IF n < L THEN AddPiece(v, PieceBefore(text, n + 1), text[n + 1])
                             ELSE v
        OBVIOUS
      <3>2. CASE n < L
        <4>1. n + 1 \in 1 .. L
          BY <1>1, <3>2
        <4>2. text[n + 1] \in Piece
          BY <1>1, <4>1
        <4> HIDE DEF step
        <4> QED
          BY <3>1, <3>2, <4>2, AddPieceType
      <3>3. CASE ~(n < L)
        <4> HIDE DEF step
        <4> QED
          BY <3>1, <3>3
      <3> QED
        BY <3>2, <3>3
    <2> QED
      BY <2>1 DEF StepIn
  <1>4. PICK g : Follows(g, Words, << >>, step)
    <2> HIDE DEF step
    <2> QED
      BY <1>2, <1>3, Recursion
  <1>5. /\ g \in [Nat -> Words] /\ g[0] = << >>
        /\ \A n \in Nat : n < L =>
                g[n + 1] = AddPiece(g[n], PieceBefore(text, n + 1), text[n + 1])
    <2>1. g \in [Nat -> Words] /\ g[0] = << >> /\ \A n \in Nat : g[n + 1] = step[<<n, g[n]>>]
      BY <1>4 DEF Follows
    <2>2. ASSUME NEW n \in Nat, n < L
          PROVE  g[n + 1] = AddPiece(g[n], PieceBefore(text, n + 1), text[n + 1])
      <3>1. <<n, g[n]>> \in Nat \X Words
        BY <2>1
      <3>2. step[<<n, g[n]>>] = AddPiece(g[n], PieceBefore(text, n + 1), text[n + 1])
        BY <2>2, <3>1
      <3> QED
        BY <2>1, <3>2
    <2> QED
      BY <2>1, <2>2
  <1> HIDE DEF step
  <1> DEFINE h == [n \in 0 .. L |-> g[n]]
  <1>6. IsWordsUpTo(h, text)
    <2>1. ASSUME NEW n \in 0 .. L
          PROVE  h[n] = IF n = 0 THEN << >>
                        ELSE AddPiece(h[n - 1], IF n = 1 THEN Space ELSE text[n - 1], text[n])
      <3>1. CASE n = 0
        BY <1>5, <3>1
      <3>2. CASE n # 0
        <4> DEFINE k == n - 1
        <4>1. k \in Nat /\ k < L /\ n = k + 1 /\ k \in 0 .. L
          BY <1>1, <3>2
        <4> HIDE DEF k
        <4>2. g[k + 1] = AddPiece(g[k], PieceBefore(text, k + 1), text[k + 1])
          BY <1>5, <4>1
        <4>3. h[n] = g[n] /\ h[k] = g[k]
          BY <4>1
        <4> HIDE DEF h
        <4>4. h[n] = AddPiece(h[k], PieceBefore(text, n), text[n])
          BY <4>1, <4>2, <4>3
        <4> QED
          BY <3>2, <4>4 DEF PieceBefore, k
      <3> QED
        BY <3>1, <3>2
    <2>2. h = [n \in 0 .. L |-> h[n]]
      OBVIOUS
    <2> HIDE DEF h
    <2>3. [n \in 0 .. L |-> h[n]] = [n \in 0 .. L |->
            IF n = 0 THEN << >>
            ELSE AddPiece(h[n - 1], IF n = 1 THEN Space ELSE text[n - 1], text[n])]
      BY <2>1
    <2> QED
      BY <2>2, <2>3 DEF IsWordsUpTo
  <1> DEFINE f == WordsUpTo(text)
  <1>7. IsWordsUpTo(f, text)
    BY <1>6, Zenon DEF WordsUpTo
  <1>8. ASSUME NEW F, IsWordsUpTo(F, text)
        PROVE  /\ F \in [0 .. L -> Words] /\ F[0] = << >>
               /\ \A n \in 1 .. L : F[n] = AddPiece(F[n - 1], PieceBefore(text, n), text[n])
    <2>1. F = [n \in 0 .. L |->
            IF n = 0 THEN << >>
            ELSE AddPiece(F[n - 1], IF n = 1 THEN Space ELSE text[n - 1], text[n])]
      BY <1>8 DEF IsWordsUpTo
    <2>2. \A n \in 0 .. L : F[n] = IF n = 0 THEN << >>
            ELSE AddPiece(F[n - 1], IF n = 1 THEN Space ELSE text[n - 1], text[n])
      BY <2>1
    <2>3. F[0] = << >> /\ 0 \in 0 .. L
      BY <1>1, <2>2
    <2>4. ASSUME NEW n \in 1 .. L
          PROVE  F[n] = AddPiece(F[n - 1], PieceBefore(text, n), text[n])
      <3>1. n \in 0 .. L /\ n # 0
        BY <1>1
      <3> QED
        BY <2>2, <3>1 DEF PieceBefore
    <2> DEFINE T == {n \in 0 .. L : F[n] \in Words}
    <2>5. 0 \in T
      BY <1>2, <2>3
    <2>6. ASSUME NEW n \in 0 .. L, n < L, n \in T
          PROVE  n + 1 \in T
      <3>1. n + 1 \in 1 .. L /\ n + 1 \in 0 .. L /\ (n + 1) - 1 = n
        BY <1>1, <2>6
      <3>2. F[n + 1] = AddPiece(F[n], PieceBefore(text, n + 1), text[n + 1])
        BY <2>4, <3>1
      <3>3. text[n + 1] \in Piece /\ F[n] \in Words
        BY <1>1, <2>6, <3>1
      <3>4. F[n + 1] \in Words
        BY <3>2, <3>3, AddPieceType
      <3> QED
        BY <3>1, <3>4
    <2> HIDE DEF T
    <2>7. \A n \in 0 .. L : n \in T
      BY <1>1, <2>5, <2>6, UpTo
    <2>8. \A n \in 0 .. L : F[n] \in Words
      BY <2>7 DEF T
    <2>9. F \in [0 .. L -> Words]
      BY <2>1, <2>8
    <2> QED
      BY <2>3, <2>4, <2>9
  <1>9. WordsOf(text) = f[L]
    BY DEF WordsOf, WordsUpTo, IsWordsUpTo
  <1> QED
    BY <1>7, <1>8, <1>9

LEMMA WordsType ==
    ASSUME NEW text \in Text
    PROVE  WordsOf(text) \in Words
  <1>1. Len(text) \in 0 .. Len(text)
    BY LenProperties DEF Text
  <1> QED
    BY <1>1, WordsExist

LEMMA WordsOfNone == WordsOf(<< >>) = << >>
  <1>1. << >> \in Text /\ Len(<< >>) = 0
    BY DEF Text
  <1> QED
    BY <1>1, WordsExist

\* A further piece makes the last word longer, begins a word, or does neither.
LEMMA WordsOfMore ==
    ASSUME NEW text \in Text, NEW p \in Piece
    PROVE  WordsOf(Append(text, p)) = AddPiece(WordsOf(text), LastOf(text), p)
  <1> DEFINE L == Len(text)
             t == Append(text, p)
             f == WordsUpTo(text)
             g == WordsUpTo(t)
  <1>1. /\ t \in Text /\ Len(t) = L + 1 /\ t[L + 1] = p /\ L \in Nat
        /\ \A i \in 1 .. L : t[i] = text[i]
    BY AppendFacts DEF Text
  <1>2. /\ f[0] = << >> /\ WordsOf(text) = f[L]
        /\ \A n \in 1 .. L : f[n] = AddPiece(f[n - 1], PieceBefore(text, n), text[n])
    BY WordsExist
  <1>3. /\ g[0] = << >> /\ WordsOf(t) = g[L + 1]
        /\ \A n \in 1 .. L + 1 : g[n] = AddPiece(g[n - 1], PieceBefore(t, n), t[n])
    <2> HIDE DEF t
    <2> QED
      BY <1>1, WordsExist
  <1> HIDE DEF t, f, g
  <1> DEFINE T == {n \in 0 .. L : f[n] = g[n]}
  <1>4. 0 \in T
    BY <1>1, <1>2, <1>3
  <1>5. ASSUME NEW n \in 0 .. L, n < L, n \in T
        PROVE  n + 1 \in T
    <2>1. n + 1 \in 1 .. L /\ n + 1 \in 1 .. L + 1 /\ (n + 1) - 1 = n /\ n + 1 \in 0 .. L
      BY <1>1, <1>5
    <2>2. t[n + 1] = text[n + 1]
      BY <1>1, <2>1
    <2>3. PieceBefore(text, n + 1) = PieceBefore(t, n + 1)
      <3>1. CASE n = 0
        BY <3>1 DEF PieceBefore
      <3>2. CASE n # 0
        <4>1. n \in 1 .. L /\ n + 1 # 1
          BY <1>1, <3>2
        <4>2. t[n] = text[n]
          BY <1>1, <4>1
        <4> QED
          BY <2>1, <4>1, <4>2 DEF PieceBefore
      <3> QED
        BY <3>1, <3>2
    <2>4. f[n + 1] = AddPiece(f[n], PieceBefore(text, n + 1), text[n + 1])
      BY <1>2, <2>1
    <2>5. g[n + 1] = AddPiece(g[n], PieceBefore(t, n + 1), t[n + 1])
      BY <1>3, <2>1
    <2>6. f[n] = g[n]
      BY <1>5
    <2> QED
      BY <2>1, <2>2, <2>3, <2>4, <2>5, <2>6
  <1> HIDE DEF T
  <1>6. \A n \in 0 .. L : n \in T
    BY <1>1, <1>4, <1>5, UpTo
  <1>7. f[L] = g[L]
    BY <1>1, <1>6 DEF T
  <1>8. g[L + 1] = AddPiece(g[L], PieceBefore(t, L + 1), t[L + 1])
    <2>1. L + 1 \in 1 .. L + 1 /\ (L + 1) - 1 = L
      BY <1>1
    <2> QED
      BY <1>3, <2>1
  <1>9. PieceBefore(t, L + 1) = LastOf(text)
    <2>1. CASE text = << >>
      BY <1>1, <2>1 DEF PieceBefore, LastOf
    <2>2. CASE text # << >>
      <3>1. L \in 1 .. L /\ L + 1 # 1 /\ (L + 1) - 1 = L
        BY <1>1, <2>2, EmptySeq DEF Text
      <3> QED
        BY <1>1, <2>2, <3>1 DEF PieceBefore, LastOf
    <2> QED
      BY <2>1, <2>2
  <1> QED
    BY <1>1, <1>2, <1>3, <1>7, <1>8, <1>9 DEF t

\* The words of text and of more of it, behind which a piece has been added.
LEMMA WordsGrow ==
    ASSUME NEW text \in Text, NEW p \in Piece
    PROVE  \/ p = Space /\ WordsOf(Append(text, p)) = WordsOf(text)
           \/ /\ p # Space /\ LastOf(text) = Space
              /\ WordsOf(Append(text, p)) = Append(WordsOf(text), <<p>>)
           \/ /\ p # Space /\ LastOf(text) # Space
              /\ WordsOf(Append(text, p)) =
                    [WordsOf(text) EXCEPT ![Len(WordsOf(text))] = Append(@, p)]
  BY WordsOfMore, Zenon DEF AddPiece

LEMMA LastOfMore ==
    ASSUME NEW text \in Text, NEW p \in Piece
    PROVE  LastOf(Append(text, p)) = p
  <1>1. /\ Append(text, p) \in Text /\ Len(Append(text, p)) = Len(text) + 1
        /\ Append(text, p)[Len(text) + 1] = p /\ Len(text) \in Nat
    BY AppendFacts DEF Text
  <1>2. Append(text, p) # << >>
    BY <1>1, EmptySeq
  <1> QED
    BY <1>1, <1>2 DEF LastOf

\* A text that does not end in space has words, none of them empty.
LEMMA WordsNotEmpty ==
    ASSUME NEW text \in Text
    PROVE  /\ LastOf(text) # Space => WordsOf(text) # << >>
           /\ \A i \in 1 .. Len(WordsOf(text)) : WordsOf(text)[i] # << >>
  <1> DEFINE Fine(s) == /\ LastOf(s) # Space => WordsOf(s) # << >>
                        /\ \A i \in 1 .. Len(WordsOf(s)) : WordsOf(s)[i] # << >>
             T == {s \in Text : Fine(s)}
  <1>1. << >> \in T
    <2>1. << >> \in Text
      BY DEF Text
    <2>2. Fine(<< >>)
      BY WordsOfNone DEF LastOf
    <2> HIDE DEF Fine
    <2> QED
      BY <2>1, <2>2
  <1>2. ASSUME NEW s \in Text, NEW p \in Piece, s \in T
        PROVE  Append(s, p) \in T
    <2> DEFINE w == WordsOf(s)
               v == WordsOf(Append(s, p))
               n == Len(w)
    <2>1. Append(s, p) \in Text /\ LastOf(Append(s, p)) = p
      BY AppendFacts, LastOfMore DEF Text
    <2>2. w \in Words /\ v \in Words /\ n \in Nat /\ DOMAIN w = 1 .. n
      BY <2>1, WordsType, LenProperties DEF Words
    <2>3. \A i \in 1 .. n : w[i] # << >> /\ w[i] \in Seq(Piece)
      <3>1. Fine(s)
        BY <1>2
      <3>2. \A i \in 1 .. n : w[i] \in Seq(Piece)
        BY <2>2, ElementOfSeq DEF Words
      <3> QED
        BY <3>1, <3>2
    <2>4. LastOf(s) # Space => w # << >>
      BY <1>2
    <2>5. \/ p = Space /\ v = w
          \/ p # Space /\ v = Append(w, <<p>>)
          \/ p # Space /\ LastOf(s) # Space /\ v = [w EXCEPT ![n] = Append(@, p)]
      BY WordsGrow
    <2> HIDE DEF w, v, T
    <2>6. /\ p # Space => v # << >>
          /\ \A i \in 1 .. Len(v) : v[i] # << >>
      <3>1. CASE p = Space /\ v = w
        BY <2>3, <3>1
      <3>2. CASE p # Space /\ v = Append(w, <<p>>)
        <4>1. <<p>> \in Seq(Piece) /\ <<p>> # << >>
          OBVIOUS
        <4>2. /\ Len(v) = n + 1 /\ v[n + 1] = <<p>> /\ \A i \in 1 .. n : v[i] = w[i]
          BY <2>2, <3>2, <4>1, AppendFacts DEF Words
        <4>3. \A i \in 1 .. n + 1 : i = n + 1 \/ i \in 1 .. n
          BY <2>2
        <4>4. v # << >>
          BY <2>2, <4>2, EmptySeq DEF Words
        <4> QED
          BY <2>3, <4>1, <4>2, <4>3, <4>4
      <3>3. CASE p # Space /\ LastOf(s) # Space /\ v = [w EXCEPT ![n] = Append(@, p)]
        <4>1. n >= 1
          BY <2>2, <2>4, <3>3, EmptySeq DEF Words
        <4>2. DOMAIN v = 1 .. n
          BY <2>2, <3>3
        <4>3. Len(v) = n
          BY <2>2, <4>2, LenProperties DEF Words
        <4>4. v # << >>
          BY <2>2, <4>1, <4>3, EmptySeq DEF Words
        <4>5. ASSUME NEW i \in 1 .. n
              PROVE  v[i] # << >>
          <5>1. CASE i = n
            <6>1. v[n] = Append(w[n], p) /\ w[n] \in Seq(Piece)
              BY <2>2, <2>3, <3>3, <5>1
            <6>2. Len(Append(w[n], p)) = Len(w[n]) + 1 /\ Len(w[n]) \in Nat
              BY <6>1, AppendFacts
            <6> QED
              BY <5>1, <6>1, <6>2
          <5>2. CASE i # n
            <6>1. v[i] = w[i]
              BY <2>2, <3>3, <5>2
            <6> QED
              BY <2>3, <6>1
          <5> QED
            BY <5>1, <5>2
        <4> QED
          BY <4>3, <4>4, <4>5
      <3> QED
        BY <2>5, <3>1, <3>2, <3>3
    <2>7. Fine(Append(s, p))
      BY <2>1, <2>6 DEF v
    <2> HIDE DEF Fine
    <2> QED
      BY <2>1, <2>7 DEF T
  <1> HIDE DEF T
  <1>3. \A s \in Text : s \in T
    BY <1>1, <1>2, SeqInduct DEF Text
  <1> QED
    BY <1>3 DEF T

LEMMA PrefixIs ==
    ASSUME NEW S, NEW s \in Seq(S), NEW t \in Seq(S)
    PROVE  IsPrefix(s, t) <=> Len(s) <= Len(t) /\ \A i \in 1 .. Len(s) : s[i] = t[i]
  <1>1. Len(s) \in Nat /\ Len(t) \in Nat
    BY LenProperties
  <1>2. CASE Len(s) <= Len(t)
    <2> DEFINE a == SubSeq(s, 1, Len(s))
               b == SubSeq(t, 1, Len(s))
    <2>1. a \in Seq(S) /\ Len(a) = Len(s) /\ \A i \in 1 .. Len(s) : a[i] = s[i]
      BY <1>1, SubSeqStart
    <2>2. b \in Seq(S) /\ Len(b) = Len(s) /\ \A i \in 1 .. Len(s) : b[i] = t[i]
      BY <1>1, <1>2, SubSeqStart
    <2>3. IsPrefix(s, t) <=> a = b
      BY <1>2 DEF IsPrefix
    <2> HIDE DEF a, b
    <2>4. a = b <=> \A i \in 1 .. Len(s) : a[i] = b[i]
      BY <2>1, <2>2, SeqEqual
    <2> QED
      BY <1>2, <2>1, <2>2, <2>3, <2>4
  <1>3. CASE ~(Len(s) <= Len(t))
    BY <1>3 DEF IsPrefix
  <1> QED
    BY <1>2, <1>3

LEMMA PrefixBack ==
    ASSUME NEW S, NEW s \in Seq(S), NEW e \in S, NEW t \in Seq(S),
           IsPrefix(Append(s, e), t)
    PROVE  IsPrefix(s, t)
  <1> DEFINE a == Append(s, e)
  <1>1. a \in Seq(S) /\ Len(a) = Len(s) + 1 /\ Len(s) \in Nat /\ \A i \in 1 .. Len(s) : a[i] = s[i]
    BY AppendFacts
  <1>2. Len(t) \in Nat
    BY LenProperties
  <1> HIDE DEF a
  <1>3. Len(a) <= Len(t) /\ \A i \in 1 .. Len(a) : a[i] = t[i]
    BY <1>1, PrefixIs DEF a
  <1>4. Len(s) <= Len(t) /\ \A i \in 1 .. Len(s) : s[i] = t[i]
    BY <1>1, <1>2, <1>3
  <1> QED
    BY <1>4, PrefixIs

LEMMA PrefixSelf ==
    ASSUME NEW S, NEW s \in Seq(S)
    PROVE  IsPrefix(s, s)
  BY PrefixIs, LenProperties

LEMMA BeginsIs ==
    ASSUME NEW words \in Words, NEW frame \in Words
    PROVE  Begins(words, frame) <=>
            \/ words = << >>
            \/ /\ Len(words) <= Len(frame)
               /\ \A i \in 1 .. Len(words) - 1 : words[i] = frame[i]
               /\ IsPrefix(words[Len(words)], frame[Len(words)])
  <1> DEFINE n == Len(words)
  <1>1. n \in Nat /\ Len(frame) \in Nat
    BY LenProperties DEF Words
  <1>2. CASE words = << >>
    BY <1>2 DEF Begins
  <1>3. CASE words # << >> /\ n <= Len(frame)
    <2>1. n >= 1
      BY <1>1, <1>3, EmptySeq DEF Words
    <2> DEFINE a == SubSeq(words, 1, n - 1)
               b == SubSeq(frame, 1, n - 1)
    <2>2. n - 1 \in 0 .. n /\ n - 1 \in 0 .. Len(frame)
      BY <1>1, <1>3, <2>1
    <2>3. a \in Words /\ Len(a) = n - 1 /\ \A i \in 1 .. n - 1 : a[i] = words[i]
      BY <2>2, SubSeqStart DEF Words
    <2>4. b \in Words /\ Len(b) = n - 1 /\ \A i \in 1 .. n - 1 : b[i] = frame[i]
      BY <2>2, SubSeqStart DEF Words
    <2>5. Front(words) = a /\ Last(words) = words[n]
      BY DEF Front, Last
    <2> HIDE DEF a, b
    <2>6. a = b <=> \A i \in 1 .. n - 1 : a[i] = b[i]
      BY <2>3, <2>4, SeqEqual DEF Words
    <2>7. Begins(words, frame) <=> a = b /\ IsPrefix(words[n], frame[n])
      BY <1>3, <2>5 DEF Begins, b
    <2> QED
      BY <1>3, <2>3, <2>4, <2>6, <2>7
  <1>4. CASE words # << >> /\ ~(n <= Len(frame))
    BY <1>4 DEF Begins
  <1> QED
    BY <1>2, <1>3, <1>4

\* The words of a frame, with and without a brand.
LEMMA TypeWords ==
    ASSUME NEW type \in MessageTypes
    PROVE  /\ StringForType(type) \in Words /\ Len(StringForType(type)) = 2
           /\ StringForType(type)[1] \in Seq(Piece) /\ StringForType(type)[2] \in Seq(Piece)
           /\ StringForType(type) = <<StringForType(type)[1], StringForType(type)[2]>>
  <1>1. StringForType(type) \in { <<<<"ENCR", "YPTED">>, <<"MESS", "AGE">>>>,
                                  <<<<"SIGN", "ED">>, <<"MESS", "AGE">>>>,
                                  <<<<"DETA", "CHED">>, <<"SIGN", "ATURE">>>> }
    BY DEF StringForType, MessageTypes
  <1>2. \A p \in {"ENCR", "YPTED", "MESS", "AGE", "SIGN", "ED", "DETA", "CHED", "ATURE"} :
            p \in Piece
    BY DEF Piece
  <1>3. \A p, q \in Piece : <<p, q>> \in Seq(Piece)
    OBVIOUS
  <1>4. \A v, w \in Seq(Piece) : /\ <<v, w>> \in Words /\ Len(<<v, w>>) = 2
                                 /\ <<v, w>>[1] = v /\ <<v, w>>[2] = w
    BY DEF Words
  <1>5. \E v, w \in Seq(Piece) : StringForType(type) = <<v, w>>
    BY <1>1, <1>2, <1>3
  <1> QED
    BY <1>4, <1>5

LEMMA FixedWords == BeginWord \in Seq(Piece) /\ FormatWord \in Seq(Piece)
  BY DEF BeginWord, FormatWord, Piece

LEMMA JoinOne ==
    ASSUME NEW S, NEW s \in Seq(S), NEW e \in S
    PROVE  s \o <<e>> = Append(s, e)
  OBVIOUS

LEMMA JoinTwo ==
    ASSUME NEW S, NEW s \in Seq(S), NEW d \in S, NEW e \in S
    PROVE  s \o <<d, e>> = Append(Append(s, d), e)
  OBVIOUS

LEMMA AppendAt ==
    ASSUME NEW S, NEW s \in Seq(S), NEW e \in S, NEW n \in Nat, Len(s) = n
    PROVE  /\ Append(s, e) \in Seq(S) /\ Len(Append(s, e)) = n + 1
           /\ Append(s, e)[n + 1] = e
           /\ \A i \in 1 .. n : Append(s, e)[i] = s[i]
  BY AppendFacts

Appended(t, s, e) == t = Append(s, e)

LEMMA AppendedIs ==
    ASSUME NEW s \in Words, NEW e \in Text, NEW t, Appended(t, s, e)
    PROVE  /\ t \in Words /\ Len(t) = Len(s) + 1 /\ t[Len(s) + 1] = e
           /\ \A i \in 1 .. Len(s) : t[i] = s[i]
  BY AppendFacts DEF Appended, Words, Text

LEMMA FrameIs ==
    ASSUME NEW type \in MessageTypes
    PROVE  /\ MakeFrame(type, << >>) \in Words /\ Len(MakeFrame(type, << >>)) = 4
           /\ MakeFrame(type, << >>)[1] = BeginWord
           /\ MakeFrame(type, << >>)[2] = FormatWord
           /\ MakeFrame(type, << >>)[3] = StringForType(type)[1]
           /\ MakeFrame(type, << >>)[4] = StringForType(type)[2]
  <1> DEFINE a == StringForType(type)[1]
             b == StringForType(type)[2]
             t1 == <<BeginWord>>
             t2 == Append(t1, FormatWord)
             t3 == Append(t2, a)
             t4 == Append(t3, b)
  <1>1. a \in Text /\ b \in Text /\ StringForType(type) = <<a, b>>
    BY TypeWords DEF Text
  <1>2. BeginWord \in Text /\ FormatWord \in Text
    BY FixedWords DEF Text
  <1>3. MakeFrame(type, << >>) = t1 \o << >> \o <<FormatWord>> \o <<a, b>>
    BY <1>1 DEF MakeFrame
  <1> HIDE DEF a, b
  <1>4. t1 \in Words /\ Len(t1) = 1 /\ t1[1] = BeginWord
    BY <1>2 DEF Words, Text
  <1> HIDE DEF t1
  <1>5. t2 \in Words /\ Len(t2) = 2 /\ t2[1] = BeginWord /\ t2[2] = FormatWord
    <2>1. Appended(t2, t1, FormatWord)
      BY DEF Appended
    <2> HIDE DEF t2
    <2>2. t1 \in Words /\ FormatWord \in Text
      BY <1>2, <1>4
    <2>3. /\ t2 \in Words /\ Len(t2) = Len(t1) + 1 /\ t2[Len(t1) + 1] = FormatWord
          /\ \A i \in 1 .. Len(t1) : t2[i] = t1[i]
      BY <2>1, <2>2, AppendedIs
    <2> QED
      BY <1>2, <1>4, <2>3
  <1>6. t1 \o << >> = t1 /\ t1 \o <<FormatWord>> = t2
    BY <1>2, <1>4, JoinOne DEF Words, Text
  <1> HIDE DEF t2
  <1>7. t2 \o <<a, b>> = t4
    BY <1>1, <1>5, JoinTwo DEF Words, Text
  <1>8. t3 \in Words /\ Len(t3) = 3 /\ t3[1] = BeginWord /\ t3[2] = FormatWord /\ t3[3] = a
    <2>1. Appended(t3, t2, a)
      BY DEF Appended
    <2> HIDE DEF t3
    <2>2. t2 \in Words /\ a \in Text
      BY <1>1, <1>5
    <2>3. /\ t3 \in Words /\ Len(t3) = Len(t2) + 1 /\ t3[Len(t2) + 1] = a
          /\ \A i \in 1 .. Len(t2) : t3[i] = t2[i]
      BY <2>1, <2>2, AppendedIs
    <2> QED
      BY <1>1, <1>5, <2>3
  <1> HIDE DEF t3
  <1>9. /\ t4 \in Words /\ Len(t4) = 4 /\ t4[1] = BeginWord /\ t4[2] = FormatWord
        /\ t4[3] = a /\ t4[4] = b
    <2>1. Appended(t4, t3, b)
      BY DEF Appended
    <2> HIDE DEF t4
    <2>2. t3 \in Words /\ b \in Text
      BY <1>1, <1>8
    <2>3. /\ t4 \in Words /\ Len(t4) = Len(t3) + 1 /\ t4[Len(t3) + 1] = b
          /\ \A i \in 1 .. Len(t3) : t4[i] = t3[i]
      BY <2>1, <2>2, AppendedIs
    <2> QED
      BY <1>1, <1>8, <2>3
  <1> HIDE DEF t4
  <1>10. MakeFrame(type, << >>) = t4
    BY <1>3, <1>6, <1>7
  <1> QED
    BY <1>9, <1>10 DEF a, b

LEMMA BrandedFrameIs ==
    ASSUME NEW type \in MessageTypes, NEW brand \in Seq(Piece), brand # << >>
    PROVE  /\ MakeFrame(type, brand) \in Words /\ Len(MakeFrame(type, brand)) = 5
           /\ MakeFrame(type, brand)[1] = BeginWord
           /\ MakeFrame(type, brand)[2] = brand
           /\ MakeFrame(type, brand)[3] = FormatWord
           /\ MakeFrame(type, brand)[4] = StringForType(type)[1]
           /\ MakeFrame(type, brand)[5] = StringForType(type)[2]
  <1> DEFINE a == StringForType(type)[1]
             b == StringForType(type)[2]
             t1 == <<BeginWord>>
             t2 == Append(t1, brand)
             t3 == Append(t2, FormatWord)
             t4 == Append(t3, a)
             t5 == Append(t4, b)
  <1>1. a \in Text /\ b \in Text /\ StringForType(type) = <<a, b>>
    BY TypeWords DEF Text
  <1>2. BeginWord \in Text /\ FormatWord \in Text /\ brand \in Text
    BY FixedWords DEF Text
  <1>3. MakeFrame(type, brand) = t1 \o <<brand>> \o <<FormatWord>> \o <<a, b>>
    BY <1>1 DEF MakeFrame
  <1> HIDE DEF a, b
  <1>4. t1 \in Words /\ Len(t1) = 1 /\ t1[1] = BeginWord
    BY <1>2 DEF Words, Text
  <1> HIDE DEF t1
  <1>5. t2 \in Words /\ Len(t2) = 2 /\ t2[1] = BeginWord /\ t2[2] = brand
    <2>1. Appended(t2, t1, brand)
      BY DEF Appended
    <2> HIDE DEF t2
    <2>2. t1 \in Words /\ brand \in Text
      BY <1>2, <1>4
    <2>3. /\ t2 \in Words /\ Len(t2) = Len(t1) + 1 /\ t2[Len(t1) + 1] = brand
          /\ \A i \in 1 .. Len(t1) : t2[i] = t1[i]
      BY <2>1, <2>2, AppendedIs
    <2> QED
      BY <1>2, <1>4, <2>3
  <1>6. t1 \o <<brand>> = t2
    BY <1>2, <1>4, JoinOne DEF Words, Text
  <1> HIDE DEF t2
  <1>7. t2 \o <<FormatWord>> = t3
    BY <1>2, <1>5, JoinOne DEF Words, Text
  <1>8. t3 \in Words /\ Len(t3) = 3 /\ t3[1] = BeginWord /\ t3[2] = brand /\ t3[3] = FormatWord
    <2>1. Appended(t3, t2, FormatWord)
      BY DEF Appended
    <2> HIDE DEF t3
    <2>2. t2 \in Words /\ FormatWord \in Text
      BY <1>2, <1>5
    <2>3. /\ t3 \in Words /\ Len(t3) = Len(t2) + 1 /\ t3[Len(t2) + 1] = FormatWord
          /\ \A i \in 1 .. Len(t2) : t3[i] = t2[i]
      BY <2>1, <2>2, AppendedIs
    <2> QED
      BY <1>2, <1>5, <2>3
  <1> HIDE DEF t3
  <1>9. t3 \o <<a, b>> = t5
    BY <1>1, <1>8, JoinTwo DEF Words, Text
  <1>10. /\ t4 \in Words /\ Len(t4) = 4 /\ t4[1] = BeginWord /\ t4[2] = brand
         /\ t4[3] = FormatWord /\ t4[4] = a
    <2>1. Appended(t4, t3, a)
      BY DEF Appended
    <2> HIDE DEF t4
    <2>2. t3 \in Words /\ a \in Text
      BY <1>1, <1>8
    <2>3. /\ t4 \in Words /\ Len(t4) = Len(t3) + 1 /\ t4[Len(t3) + 1] = a
          /\ \A i \in 1 .. Len(t3) : t4[i] = t3[i]
      BY <2>1, <2>2, AppendedIs
    <2> QED
      BY <1>1, <1>8, <2>3
  <1> HIDE DEF t4
  <1>11. /\ t5 \in Words /\ Len(t5) = 5 /\ t5[1] = BeginWord /\ t5[2] = brand
         /\ t5[3] = FormatWord /\ t5[4] = a /\ t5[5] = b
    <2>1. Appended(t5, t4, b)
      BY DEF Appended
    <2> HIDE DEF t5
    <2>2. t4 \in Words /\ b \in Text
      BY <1>1, <1>10
    <2>3. /\ t5 \in Words /\ Len(t5) = Len(t4) + 1 /\ t5[Len(t4) + 1] = b
          /\ \A i \in 1 .. Len(t4) : t5[i] = t4[i]
      BY <2>1, <2>2, AppendedIs
    <2> QED
      BY <1>10, <2>3
  <1> HIDE DEF t5
  <1>12. MakeFrame(type, brand) = t5
    BY <1>3, <1>6, <1>7, <1>9
  <1> QED
    BY <1>11, <1>12 DEF a, b

\* A sentence is a frame of a type.
IsFrame(words, type) ==
    /\ Len(words) \in {4, 5} /\ words[1] = BeginWord
    /\ words[Len(words) - 2] = FormatWord
    /\ words[Len(words) - 1] = StringForType(type)[1]
    /\ words[Len(words)] = StringForType(type)[2]

LEMMA FrameBrandIs ==
    ASSUME NEW s \in Text, NEW type \in MessageTypes
    PROVE  FrameBrand(s, type) =
                IF IsFrame(WordsOf(s), type)
                THEN IF Len(WordsOf(s)) = 5 THEN WordsOf(s)[2] ELSE << >>
                ELSE <<"bad">>
  <1> DEFINE w == WordsOf(s)
             n == Len(w)
             a == StringForType(type)[1]
             b == StringForType(type)[2]
  <1>1. w \in Words
    BY WordsType
  <1>2. StringForType(type) = <<a, b>>
    BY TypeWords
  <1> HIDE DEF w, a, b
  <1>3. ASSUME n \in {4, 5}
        PROVE  SubSeq(w, n - 1, n) = <<a, b>> <=> w[n - 1] = a /\ w[n] = b
    <2>1. n - 1 \in 1 .. n + 1 /\ n \in (n - 1) - 1 .. n /\ n - (n - 1) + 1 = 2
      BY <1>3
    <2> DEFINE t == SubSeq(w, n - 1, n)
    <2>2. t \in Words /\ Len(t) = 2 /\ t[1] = w[n - 1] /\ t[2] = w[n]
      <3>1. t \in Words /\ Len(t) = 2
        BY <1>1, <2>1, SubSeqProperties DEF Words
      <3>2. \A i \in 1 .. n - (n - 1) + 1 : t[i] = w[(n - 1) + i - 1]
        BY <1>1, <2>1, SubSeqProperties DEF Words
      <3>3. t[1] = w[(n - 1) + 1 - 1] /\ t[2] = w[(n - 1) + 2 - 1]
        BY <2>1, <3>2
      <3>4. (n - 1) + 1 - 1 = n - 1 /\ (n - 1) + 2 - 1 = n
        BY <1>3
      <3> QED
        BY <3>1, <3>3, <3>4
    <2> HIDE DEF t
    <2>3. t = <<t[1], t[2]>>
      BY <2>2 DEF Words
    <2> QED
      BY <2>2, <2>3 DEF t
  <1>4. FrameBrand(s, type) =
            IF /\ n \in {4, 5} /\ w[1] = BeginWord
               /\ SubSeq(w, n - 1, n) = <<a, b>>
               /\ w[n - 2] = FormatWord
            THEN IF n = 5 THEN w[2] ELSE << >>
            ELSE <<"bad">>
    BY <1>2 DEF FrameBrand, w
  <1>5. IsFrame(w, type) <=> /\ n \in {4, 5} /\ w[1] = BeginWord
                             /\ SubSeq(w, n - 1, n) = <<a, b>>
                             /\ w[n - 2] = FormatWord
    BY <1>3 DEF IsFrame, a, b
  <1> QED
    BY <1>4, <1>5 DEF w

\* Less of the words: the last is shorter by a piece, or missing.
Shorter(words, more) ==
    \/ \E w \in Seq(Piece), p \in Piece :
            /\ Len(words) >= 1 /\ words[Len(words)] = w
            /\ more = [words EXCEPT ![Len(words)] = Append(w, p)]
    \/ \E w \in Seq(Piece) : more = Append(words, w)

LEMMA ShorterByPiece ==
    ASSUME NEW words, NEW more, NEW w \in Seq(Piece), NEW p \in Piece, Len(words) >= 1,
           words[Len(words)] = w, more = [words EXCEPT ![Len(words)] = Append(w, p)]
    PROVE  Shorter(words, more)
  BY Zenon DEF Shorter

LEMMA ShorterByWord ==
    ASSUME NEW words, NEW more, NEW w \in Seq(Piece), more = Append(words, w)
    PROVE  Shorter(words, more)
  BY Zenon DEF Shorter

LEMMA ShorterIs ==
    ASSUME NEW words \in Words, NEW more \in Words, Shorter(words, more)
    PROVE  \/ /\ Len(words) >= 1 /\ Len(more) = Len(words)
              /\ \A i \in 1 .. Len(words) - 1 : more[i] = words[i]
              /\ \E p \in Piece : more[Len(words)] = Append(words[Len(words)], p)
              /\ words[Len(words)] \in Seq(Piece)
           \/ /\ Len(more) = Len(words) + 1
              /\ \A i \in 1 .. Len(words) : more[i] = words[i]
  <1> DEFINE n == Len(words)
  <1>1. n \in Nat /\ DOMAIN words = 1 .. n
    BY LenProperties DEF Words
  <1>2. ASSUME NEW w \in Seq(Piece), NEW p \in Piece, n >= 1, words[n] = w,
               more = [words EXCEPT ![n] = Append(w, p)]
        PROVE  /\ Len(more) = n /\ \A i \in 1 .. n - 1 : more[i] = words[i]
               /\ more[n] = Append(words[n], p) /\ words[n] \in Seq(Piece)
    <2>1. DOMAIN more = 1 .. n
      BY <1>1, <1>2
    <2>2. Len(more) = n
      BY <1>1, <2>1, LenProperties DEF Words
    <2>3. n \in 1 .. n /\ \A i \in 1 .. n - 1 : i \in 1 .. n /\ i # n
      <3> HIDE DEF n
      <3> QED
        BY <1>1, <1>2
    <2>4. more[n] = Append(w, p) /\ \A i \in 1 .. n - 1 : more[i] = words[i]
      BY <1>1, <1>2, <2>3
    <2> QED
      BY <1>2, <2>2, <2>4
  <1>3. ASSUME NEW w \in Seq(Piece), more = Append(words, w)
        PROVE  Len(more) = n + 1 /\ \A i \in 1 .. n : more[i] = words[i]
    BY <1>3, AppendFacts DEF Words
  <1> QED
    BY <1>2, <1>3 DEF Shorter

LEMMA BeginsBack ==
    ASSUME NEW words \in Words, NEW more \in Words, NEW frame \in Words,
           Shorter(words, more), Begins(more, frame)
    PROVE  Begins(words, frame)
  <1> DEFINE n == Len(words)
             m == Len(more)
  <1>1. n \in Nat /\ m \in Nat /\ Len(frame) \in Nat
    BY LenProperties DEF Words
  <1>2. SUFFICES ASSUME words # << >> PROVE Begins(words, frame)
    BY DEF Begins
  <1>3. n >= 1
    BY <1>1, <1>2, EmptySeq DEF Words
  <1>4. m >= n
    BY <1>1, ShorterIs
  <1>5. /\ m <= Len(frame) /\ \A i \in 1 .. m - 1 : more[i] = frame[i]
        /\ IsPrefix(more[m], frame[m])
    <2>1. more # << >>
      BY <1>1, <1>3, <1>4
    <2> QED
      BY <2>1, BeginsIs
  <1>6. n \in 1 .. Len(frame) /\ frame[n] \in Seq(Piece)
    <2>1. n \in 1 .. Len(frame)
      BY <1>1, <1>3, <1>4, <1>5
    <2> QED
      BY <2>1, ElementOfSeq DEF Words
  <1>7. CASE /\ m = n /\ \A i \in 1 .. n - 1 : more[i] = words[i]
             /\ \E p \in Piece : more[n] = Append(words[n], p)
             /\ words[n] \in Seq(Piece)
    <2>1. PICK p \in Piece : more[n] = Append(words[n], p)
      BY <1>7
    <2>2. IsPrefix(words[n], frame[n])
      <3> DEFINE a == words[n]
                 b == frame[n]
      <3>1. a \in Seq(Piece) /\ b \in Seq(Piece) /\ IsPrefix(Append(a, p), b)
        BY <1>5, <1>6, <1>7, <2>1
      <3> HIDE DEF a, b
      <3>2. IsPrefix(a, b)
        BY <3>1, PrefixBack
      <3> QED
        BY <3>2 DEF a, b
    <2>3. \A i \in 1 .. n - 1 : words[i] = frame[i]
      BY <1>5, <1>7
    <2> QED
      BY <1>5, <1>7, <2>2, <2>3, BeginsIs
  <1>8. CASE m = n + 1 /\ \A i \in 1 .. n : more[i] = words[i]
    <2>1. \A i \in 1 .. n : words[i] = frame[i]
      <3>1. \A i \in 1 .. n : i \in 1 .. m - 1
        BY <1>1, <1>8
      <3> QED
        BY <1>5, <1>8, <3>1
    <2>2. words[n] = frame[n] /\ \A i \in 1 .. n - 1 : words[i] = frame[i]
      BY <1>1, <1>3, <2>1
    <2>3. IsPrefix(words[n], frame[n])
      BY <1>6, <2>2, PrefixSelf
    <2>4. n <= Len(frame)
      BY <1>6
    <2> QED
      BY <2>2, <2>3, <2>4, BeginsIs
  <1> QED
    BY <1>7, <1>8, ShorterIs

\* Without the second word.
LEMMA WithoutSecond ==
    ASSUME NEW words \in Words, Len(words) >= 2
    PROVE  /\ RemoveAt(words, 2) \in Words /\ Len(RemoveAt(words, 2)) = Len(words) - 1
           /\ RemoveAt(words, 2)[1] = words[1]
           /\ \A i \in 2 .. Len(words) - 1 : RemoveAt(words, 2)[i] = words[i + 1]
  <1> DEFINE n == Len(words)
             a == SubSeq(words, 1, 2 - 1)
             b == SubSeq(words, 2 + 1, n)
             r == a \o b
             S == Seq(Piece)
  <1>1. n \in Nat /\ n >= 2 /\ words \in Seq(S)
    BY LenProperties DEF Words
  <1> HIDE DEF S
  <1>2. a \in Seq(S) /\ Len(a) = 1 /\ a[1] = words[1]
    <2>1. 2 - 1 = 1 /\ 1 \in 0 .. n /\ 1 \in 1 .. 1
      BY <1>1
    <2> QED
      BY <1>1, <2>1, SubSeqStart
  <1>3. /\ b \in Seq(S) /\ Len(b) = n - 2
        /\ \A i \in 1 .. n - 2 : b[i] = words[i + 2]
    <2>1. 2 + 1 = 3 /\ 3 \in 1 .. n + 1 /\ n \in 3 - 1 .. n /\ n - 3 + 1 = n - 2
      BY <1>1
    <2>2. /\ b \in Seq(S) /\ Len(b) = n - 3 + 1
          /\ \A i \in 1 .. n - 3 + 1 : b[i] = words[3 + i - 1]
      BY <1>1, <2>1, SubSeqProperties
    <2>3. \A i \in 1 .. n - 2 : 3 + i - 1 = i + 2
      BY <1>1
    <2> QED
      BY <2>1, <2>2, <2>3
  <1>4. RemoveAt(words, 2) = r
    BY DEF RemoveAt
  <1> HIDE DEF a, b
  <1>5. r \in Seq(S) /\ Len(r) = Len(a) + Len(b)
    BY <1>2, <1>3, ConcatProperties
  <1>9. ASSUME NEW i \in 1 .. Len(a) + Len(b)
        PROVE  r[i] = IF i <= Len(a) THEN a[i] ELSE b[i - Len(a)]
    BY <1>2, <1>3, ConcatProperties
  <1> HIDE DEF r
  <1>6. Len(r) = n - 1
    BY <1>1, <1>2, <1>3, <1>5
  <1>7. r[1] = words[1]
    <2>1. 1 \in 1 .. Len(a) + Len(b) /\ 1 <= Len(a)
      BY <1>1, <1>2, <1>3
    <2> QED
      BY <1>2, <1>9, <2>1
  <1>8. ASSUME NEW i \in 2 .. n - 1
        PROVE  r[i] = words[i + 1]
    <2>1. /\ i \in 1 .. Len(a) + Len(b) /\ ~(i <= Len(a))
          /\ i - 1 \in 1 .. n - 2 /\ (i - 1) + 2 = i + 1
      BY <1>1, <1>2, <1>3
    <2>2. r[i] = b[i - 1]
      BY <1>2, <1>9, <2>1
    <2> QED
      BY <1>3, <2>1, <2>2
  <1> QED
    BY <1>4, <1>5, <1>6, <1>7, <1>8 DEF S, Words

LEMMA ShorterWithoutSecond ==
    ASSUME NEW words \in Words, NEW more \in Words, Shorter(words, more), Len(words) >= 3
    PROVE  Shorter(RemoveAt(words, 2), RemoveAt(more, 2))
  <1> DEFINE n == Len(words)
             m == Len(more)
             a == RemoveAt(words, 2)
             b == RemoveAt(more, 2)
  <1>1. n \in Nat /\ m \in Nat /\ n >= 3
    BY LenProperties DEF Words
  <1>2. m >= n
    BY <1>1, ShorterIs
  <1>3. /\ a \in Words /\ Len(a) = n - 1 /\ a[1] = words[1]
        /\ \A i \in 2 .. n - 1 : a[i] = words[i + 1]
    BY <1>1, WithoutSecond
  <1>4. /\ b \in Words /\ Len(b) = m - 1 /\ b[1] = more[1]
        /\ \A i \in 2 .. m - 1 : b[i] = more[i + 1]
    BY <1>1, <1>2, WithoutSecond
  <1> HIDE DEF a, b
  <1>5. CASE /\ m = n /\ \A i \in 1 .. n - 1 : more[i] = words[i]
             /\ \E p \in Piece : more[n] = Append(words[n], p)
             /\ words[n] \in Seq(Piece)
    <2>1. PICK p \in Piece : more[n] = Append(words[n], p)
      BY <1>5
    <2> DEFINE c == [a EXCEPT ![n - 1] = Append(words[n], p)]
               S == Seq(Piece)
    <2>2. n - 1 \in 1 .. n - 1 /\ n - 1 \in 2 .. n - 1 /\ (n - 1) + 1 = n
      BY <1>1
    <2>3. a[n - 1] = words[n]
      BY <1>3, <2>2
    <2>4. a \in [1 .. n - 1 -> S]
      BY <1>1, <1>3, LenProperties DEF Words
    <2>5. Append(words[n], p) \in S
      BY <1>5, AppendProperties
    <2>6. c \in [1 .. n - 1 -> S] /\ c[n - 1] = Append(words[n], p)
          /\ \A i \in 1 .. n - 1 : i # n - 1 => c[i] = a[i]
      <3> HIDE DEF S
      <3> QED
        BY <2>2, <2>4, <2>5
    <2>7. n - 1 \in Nat
      BY <1>1
    <2> HIDE DEF c
    <2>8. c \in Seq(S) /\ Len(c) = n - 1
      BY <2>6, <2>7, FunctionSeq
    <2>9. ASSUME NEW i \in 1 .. n - 1
          PROVE  b[i] = c[i]
      <3>1. CASE i = n - 1
        <4>1. b[i] = more[n]
          BY <1>4, <1>5, <2>2, <3>1
        <4> QED
          BY <2>1, <2>6, <3>1, <4>1
      <3>2. CASE i # n - 1 /\ i = 1
        BY <1>1, <1>3, <1>4, <1>5, <2>6, <3>2
      <3>3. CASE i # n - 1 /\ i # 1
        <4>1. i \in 2 .. n - 1 /\ i + 1 \in 1 .. n - 1
          BY <1>1, <3>3
        <4> QED
          BY <1>3, <1>4, <1>5, <2>6, <3>3, <4>1
      <3> QED
        BY <3>1, <3>2, <3>3
    <2>10. b = c
      <3>1. b \in Seq(S) /\ Len(b) = n - 1 /\ c \in Seq(S) /\ Len(c) = n - 1
        BY <1>4, <1>5, <2>8 DEF Words
      <3> HIDE DEF S
      <3> QED
        BY <2>9, <3>1, SeqEqual
    <2>11. Len(a) >= 1 /\ a[Len(a)] = words[n]
      BY <1>1, <1>3, <2>3
    <2>12. b = [a EXCEPT ![Len(a)] = Append(words[n], p)]
      BY <1>3, <2>10 DEF c
    <2>13. Shorter(a, b)
      BY <1>5, <2>11, <2>12, ShorterByPiece
    <2> QED
      BY <2>13 DEF a, b
  <1>6. CASE m = n + 1 /\ \A i \in 1 .. n : more[i] = words[i]
    <2> DEFINE w == more[n + 1]
               c == Append(a, w)
    <2>1. n + 1 \in 1 .. m
      BY <1>1, <1>6
    <2>2. w \in Seq(Piece)
      BY <2>1, ElementOfSeq DEF Words
    <2> HIDE DEF w
    <2>3. /\ c \in Words /\ Len(c) = (n - 1) + 1 /\ c[(n - 1) + 1] = w
          /\ \A i \in 1 .. n - 1 : c[i] = a[i]
      <3>1. n - 1 \in Nat /\ Len(a) = n - 1
        BY <1>1, <1>3
      <3> QED
        BY <1>3, <2>2, <3>1, AppendAt DEF Words
    <2> HIDE DEF c
    <2>4. ASSUME NEW i \in 1 .. n
          PROVE  b[i] = c[i]
      <3>1. CASE i = n
        <4>1. i \in 2 .. m - 1 /\ (n - 1) + 1 = n
          BY <1>1, <1>6, <3>1
        <4> QED
          BY <1>4, <2>3, <3>1, <4>1 DEF w
      <3>2. CASE i # n /\ i = 1
        BY <1>1, <1>3, <1>4, <1>6, <2>3, <3>2
      <3>3. CASE i # n /\ i # 1
        <4>1. i \in 2 .. n - 1 /\ i \in 2 .. m - 1 /\ i + 1 \in 1 .. n /\ i \in 1 .. n - 1
          BY <1>1, <1>6, <3>3
        <4>2. b[i] = words[i + 1]
          BY <1>4, <1>6, <4>1
        <4>3. c[i] = words[i + 1]
          BY <1>3, <2>3, <4>1
        <4> QED
          BY <4>2, <4>3
      <3> QED
        BY <3>1, <3>2, <3>3
    <2>5. Len(b) = n /\ Len(c) = n
      BY <1>1, <1>4, <1>6, <2>3
    <2>6. b = c
      BY <1>4, <2>3, <2>4, <2>5, SeqEqual DEF Words
    <2>7. b = Append(a, w)
      BY <2>6 DEF c
    <2>8. Shorter(a, b)
      BY <2>2, <2>7, ShorterByWord
    <2> QED
      BY <2>8 DEF a, b
  <1> QED
    BY <1>5, <1>6, ShorterIs DEF a, b

LEMMA JoinsBack ==
    ASSUME NEW words \in Words, NEW more \in Words, Shorter(words, more), Joins(more)
    PROVE  Joins(words)
  <1>1. PICK type \in MessageTypes : Begins(more, MakeFrame(type, << >>))
    BY DEF Joins
  <1>2. MakeFrame(type, << >>) \in Words
    BY FrameIs
  <1>3. Begins(words, MakeFrame(type, << >>))
    BY <1>1, <1>2, BeginsBack
  <1> QED
    BY <1>3 DEF Joins

\* Words that can be the beginning of a frame begin with its first word.
LEMMA FirstWord ==
    ASSUME NEW words \in Words, Len(words) >= 3, FrameBegins(words)
    PROVE  words[1] = BeginWord
  <1>1. ASSUME NEW w \in Words, Len(w) >= 2, Joins(w)
        PROVE  w[1] = BeginWord
    <2>1. PICK type \in MessageTypes : Begins(w, MakeFrame(type, << >>))
      BY <1>1 DEF Joins
    <2> DEFINE f == MakeFrame(type, << >>)
    <2>2. f \in Words /\ f[1] = BeginWord
      BY FrameIs
    <2> HIDE DEF f
    <2>3. Len(w) \in Nat /\ w # << >>
      BY <1>1, LenProperties DEF Words
    <2>4. 1 \in 1 .. Len(w) - 1
      BY <1>1, <2>3
    <2>5. w[1] = f[1]
      BY <2>1, <2>2, <2>3, <2>4, BeginsIs DEF f
    <2> QED
      BY <2>2, <2>5
  <1>2. CASE Joins(words)
    <2>1. Len(words) >= 2
      BY LenProperties DEF Words
    <2> QED
      BY <1>1, <1>2, <2>1
  <1>3. CASE Joins(RemoveAt(words, 2))
    <2>1. Len(words) >= 2 /\ Len(words) - 1 >= 2
      BY LenProperties DEF Words
    <2>2. /\ RemoveAt(words, 2) \in Words /\ Len(RemoveAt(words, 2)) >= 2
          /\ RemoveAt(words, 2)[1] = words[1]
      BY <2>1, WithoutSecond
    <2> QED
      BY <1>1, <1>3, <2>2
  <1> QED
    BY <1>2, <1>3 DEF FrameBegins

\* The words that a header may begin with.
WordsToCome(words) ==
    /\ Len(words) <= 5
    /\ CASE Len(words) <= 1 -> Begins(words, <<BeginWord>>)
         [] Len(words) = 2  -> words[1] = BeginWord
         [] OTHER -> FrameBegins(words)

LEMMA OneWord == <<BeginWord>> \in Words /\ Len(<<BeginWord>>) = 1 /\ <<BeginWord>>[1] = BeginWord
  BY FixedWords DEF Words

LEMMA ToComeBack ==
    ASSUME NEW words \in Words, NEW more \in Words, Shorter(words, more),
           WordsToCome(more)
    PROVE  WordsToCome(words)
  <1> DEFINE n == Len(words)
             m == Len(more)
  <1>1. n \in Nat /\ m \in Nat
    BY LenProperties DEF Words
  <1>2. n <= m /\ m <= n + 1 /\ (m = n => n >= 1)
    BY <1>1, ShorterIs
  <1>3. n <= 5
    BY <1>1, <1>2 DEF WordsToCome
  <1>4. CASE n = 0
    <2>1. words = << >>
      BY <1>4, EmptySeq DEF Words
    <2> QED
      BY <1>4, <2>1 DEF WordsToCome, Begins
  <1>5. CASE n = 1 /\ m = 1
    <2>1. Begins(more, <<BeginWord>>)
      BY <1>5 DEF WordsToCome
    <2>2. Begins(words, <<BeginWord>>)
      BY <2>1, OneWord, BeginsBack
    <2> QED
      BY <1>5, <2>2 DEF WordsToCome
  <1>6. CASE n = 1 /\ m = 2
    <2>1. more[1] = BeginWord
      BY <1>6 DEF WordsToCome
    <2>2. words[1] = more[1]
      <3>1. m = n \/ \A i \in 1 .. n : more[i] = words[i]
        BY ShorterIs
      <3>2. 1 \in 1 .. n
        BY <1>6
      <3> QED
        BY <1>6, <3>1, <3>2
    <2>3. IsPrefix(BeginWord, BeginWord)
      BY FixedWords, PrefixSelf
    <2>4. Len(<<BeginWord>>) = 1 /\ <<BeginWord>>[1] = BeginWord
      BY OneWord
    <2>5. n <= Len(<<BeginWord>>) /\ IsPrefix(words[n], <<BeginWord>>[n])
      BY <1>6, <2>1, <2>2, <2>3, <2>4
    <2>6. \A i \in 1 .. n - 1 : words[i] = <<BeginWord>>[i]
      BY <1>6
    <2>7. Begins(words, <<BeginWord>>)
      BY <2>5, <2>6, OneWord, BeginsIs
    <2> QED
      BY <1>6, <2>7 DEF WordsToCome
  <1>7. CASE n = 2
    <2>1. more[1] = words[1]
      <3>1. 1 \in 1 .. n - 1 /\ 1 \in 1 .. n
        BY <1>7
      <3> QED
        BY <3>1, ShorterIs
    <2>2. more[1] = BeginWord
      <3>1. CASE m = 2
        BY <3>1 DEF WordsToCome
      <3>2. CASE m = 3
        <4>1. FrameBegins(more)
          BY <3>2 DEF WordsToCome
        <4>2. Len(more) >= 3
          BY <3>2
        <4> QED
          BY <4>1, <4>2, FirstWord
      <3> QED
        <4> HIDE DEF n, m
        <4> QED
          BY <1>1, <1>2, <1>7, <3>1, <3>2
    <2> QED
      BY <1>7, <2>1, <2>2 DEF WordsToCome
  <1>8. CASE n >= 3
    <2>1. m >= 3 /\ ~(m <= 1) /\ m # 2 /\ ~(n <= 1) /\ n # 2 /\ m >= 2 /\ n >= 2
      <3> HIDE DEF n, m
      <3> QED
        BY <1>1, <1>2, <1>8
    <2>2. FrameBegins(more)
      BY <2>1 DEF WordsToCome
    <2>3. FrameBegins(words)
      <3>1. CASE Joins(more)
        BY <3>1, JoinsBack DEF FrameBegins
      <3>2. CASE Joins(RemoveAt(more, 2))
        <4>1. RemoveAt(words, 2) \in Words /\ RemoveAt(more, 2) \in Words
          BY <2>1, WithoutSecond
        <4>2. Shorter(RemoveAt(words, 2), RemoveAt(more, 2))
          BY <1>8, ShorterWithoutSecond
        <4> QED
          BY <3>2, <4>1, <4>2, JoinsBack DEF FrameBegins
      <3> QED
        BY <2>2, <3>1, <3>2 DEF FrameBegins
    <2> QED
      BY <1>3, <2>1, <2>3 DEF WordsToCome
  <1> HIDE DEF n, m
  <1> QED
    BY <1>1, <1>2, <1>4, <1>5, <1>6, <1>7, <1>8

\* A frame is the beginning of a header.
LEMMA FrameToCome ==
    ASSUME NEW words \in Words, NEW type \in MessageTypes, IsFrame(words, type)
    PROVE  WordsToCome(words)
  <1> DEFINE n == Len(words)
             f == MakeFrame(type, << >>)
  <1>1. n \in {4, 5}
    BY DEF IsFrame
  <1>2. /\ f \in Words /\ Len(f) = 4 /\ f[1] = BeginWord /\ f[2] = FormatWord
        /\ f[3] = StringForType(type)[1] /\ f[4] = StringForType(type)[2]
    BY FrameIs
  <1> HIDE DEF f
  <1>3. f[4] \in Seq(Piece)
    BY <1>2, TypeWords
  <1>4. IsPrefix(f[4], f[4])
    BY <1>3, PrefixSelf
  <1>5. ASSUME NEW w \in Words, Len(w) = 4, \A i \in 1 .. 4 : w[i] = f[i]
        PROVE  Joins(w)
    <2>1. Begins(w, f)
      <3>1. Len(w) <= Len(f) /\ IsPrefix(w[Len(w)], f[Len(w)])
        BY <1>2, <1>4, <1>5
      <3>2. \A i \in 1 .. Len(w) - 1 : w[i] = f[i]
        BY <1>5
      <3> QED
        BY <1>2, <3>1, <3>2, BeginsIs
    <2> QED
      BY <2>1 DEF Joins, f
  <1>6. CASE n = 4
    <2>1. words[1] = f[1] /\ words[2] = f[2] /\ words[3] = f[3] /\ words[4] = f[4]
      BY <1>2, <1>6 DEF IsFrame
    <2>2. \A i \in 1 .. 4 : i = 1 \/ i = 2 \/ i = 3 \/ i = 4
      OBVIOUS
    <2>3. Joins(words)
      BY <1>5, <1>6, <2>1, <2>2
    <2> QED
      BY <1>6, <2>3 DEF WordsToCome, FrameBegins
  <1>7. CASE n = 5
    <2> DEFINE r == RemoveAt(words, 2)
    <2>1. /\ r \in Words /\ Len(r) = 4 /\ r[1] = words[1]
          /\ r[2] = words[3] /\ r[3] = words[4] /\ r[4] = words[5]
      <3>1. /\ r \in Words /\ Len(r) = n - 1 /\ r[1] = words[1]
            /\ \A i \in 2 .. n - 1 : r[i] = words[i + 1]
        <4>1. Len(words) >= 2
          BY <1>7
        <4> QED
          BY <4>1, WithoutSecond
      <3> HIDE DEF r
      <3> QED
        BY <1>7, <3>1
    <2> HIDE DEF r
    <2>2. r[1] = f[1] /\ r[2] = f[2] /\ r[3] = f[3] /\ r[4] = f[4]
      BY <1>2, <1>7, <2>1 DEF IsFrame
    <2>3. \A i \in 1 .. 4 : i = 1 \/ i = 2 \/ i = 3 \/ i = 4
      OBVIOUS
    <2>4. Joins(r)
      BY <1>5, <2>1, <2>2, <2>3
    <2> QED
      BY <1>7, <2>4 DEF WordsToCome, FrameBegins, r
  <1> QED
    BY <1>1, <1>6, <1>7

-----------------------------------------------------------------------------
(* Bytes.                                                                  *)

Singles == {Space, Dot, "-"}
Halves == Piece \ {Space, Dot, "-", "d"}

Places(text, pieces) == { i \in DOMAIN text : text[i] \in pieces }
CountIn(text, pieces) == Cardinality(Places(text, pieces))

Weight(p) == IF p \in Singles THEN 1 ELSE IF p = "d" THEN 15 ELSE 4

LEMMA BytesAre ==
    ASSUME NEW text
    PROVE  Bytes(text) = CountIn(text, Singles) + 15 * CountIn(text, {"d"})
                            + 4 * CountIn(text, Halves)
  BY DEF Bytes, CountIn, Places, Singles, Halves

LEMMA CountType ==
    ASSUME NEW text \in Text, NEW pieces
    PROVE  IsFiniteSet(Places(text, pieces)) /\ CountIn(text, pieces) \in Nat
  <1> DEFINE n == Len(text)
  <1>1. n \in Nat /\ DOMAIN text = 1 .. n
    BY LenProperties DEF Text
  <1> HIDE DEF n
  <1>2. IsFiniteSet(1 .. n)
    BY <1>1, FS_Interval
  <1>3. Places(text, pieces) \subseteq 1 .. n
    BY <1>1 DEF Places
  <1>4. IsFiniteSet(Places(text, pieces))
    BY <1>2, <1>3, FS_Subset
  <1> QED
    BY <1>4, FS_CardinalityType DEF CountIn

LEMMA CountMore ==
    ASSUME NEW text \in Text, NEW p \in Piece, NEW pieces
    PROVE  CountIn(Append(text, p), pieces) =
                CountIn(text, pieces) + (IF p \in pieces THEN 1 ELSE 0)
  <1> DEFINE n == Len(text)
             t == Append(text, p)
             A == Places(text, pieces)
             B == Places(t, pieces)
  <1>1. /\ t \in Text /\ Len(t) = n + 1 /\ t[n + 1] = p /\ n \in Nat
        /\ \A i \in 1 .. n : t[i] = text[i]
    BY AppendFacts DEF Text
  <1>2. DOMAIN text = 1 .. n /\ DOMAIN t = 1 .. n + 1
    <2> HIDE DEF t
    <2> QED
      BY <1>1, LenProperties DEF Text
  <1>3. IsFiniteSet(A)
    BY CountType
  <1> HIDE DEF n, t
  <1>4. n + 1 \notin A /\ A \subseteq 1 .. n
    BY <1>1, <1>2 DEF Places
  <1>5. \A i : i \in 1 .. n + 1 <=> i \in 1 .. n \/ i = n + 1
    BY <1>1
  <1>6. CASE p \in pieces
    <2>1. B = A \union {n + 1}
      BY <1>1, <1>2, <1>5, <1>6 DEF Places
    <2> HIDE DEF A, B
    <2>2. Cardinality(B) = Cardinality(A) + 1
      BY <1>3, <1>4, <2>1, FS_AddElement
    <2> QED
      BY <1>6, <2>2 DEF CountIn, A, B, t
  <1>7. CASE p \notin pieces
    <2>1. B = A
      BY <1>1, <1>2, <1>5, <1>7 DEF Places
    <2>2. CountIn(text, pieces) \in Nat
      BY CountType
    <2> QED
      BY <1>7, <2>1, <2>2 DEF CountIn, t
  <1> QED
    BY <1>6, <1>7

LEMMA BytesMore ==
    ASSUME NEW text \in Text, NEW p \in Piece
    PROVE  /\ Bytes(text) \in Nat /\ Weight(p) \in Nat /\ Weight(p) >= 1
           /\ Bytes(Append(text, p)) = Bytes(text) + Weight(p)
  <1> DEFINE a == CountIn(text, Singles)
             b == CountIn(text, {"d"})
             c == CountIn(text, Halves)
             x == IF p \in Singles THEN 1 ELSE 0
             y == IF p \in {"d"} THEN 1 ELSE 0
             z == IF p \in Halves THEN 1 ELSE 0
  <1>1. a \in Nat /\ b \in Nat /\ c \in Nat
    BY CountType
  <1>2. /\ CountIn(Append(text, p), Singles) = a + x
        /\ CountIn(Append(text, p), {"d"}) = b + y
        /\ CountIn(Append(text, p), Halves) = c + z
    BY CountMore, Zenon
  <1>3. x \in Nat /\ y \in Nat /\ z \in Nat
    OBVIOUS
  <1>4. Weight(p) = x + 15 * y + 4 * z /\ Weight(p) \in Nat /\ Weight(p) >= 1
    <2>1. CASE p \in Singles
      <3>1. p # "d" /\ p \notin Halves
        BY <2>1 DEF Singles, Halves, Space, Dot
      <3> QED
        BY <2>1, <3>1 DEF Weight
    <2>2. CASE p = "d"
      <3>1. p \notin Singles /\ p \notin Halves
        BY <2>2 DEF Singles, Halves, Space, Dot
      <3> QED
        BY <2>2, <3>1 DEF Weight
    <2>3. CASE p \notin Singles /\ p # "d"
      <3>1. p \in Halves
        BY <2>3 DEF Singles, Halves
      <3> QED
        BY <2>3, <3>1 DEF Weight
    <2> QED
      BY <2>1, <2>2, <2>3
  <1>5. Bytes(text) = a + 15 * b + 4 * c
    BY BytesAre
  <1>6. Bytes(Append(text, p)) = (a + x) + 15 * (b + y) + 4 * (c + z)
    BY <1>2, BytesAre
  <1> HIDE DEF a, b, c, x, y, z
  <1> QED
    BY <1>1, <1>3, <1>4, <1>5, <1>6

LEMMA BytesOfNone == Bytes(<< >>) = 0
  <1>1. \A pieces : Places(<< >>, pieces) = {}
    BY DEF Places
  <1>2. \A pieces : CountIn(<< >>, pieces) = 0
    BY <1>1, FS_EmptySet DEF CountIn
  <1> QED
    BY <1>2, BytesAre

LEMMA BytesType ==
    ASSUME NEW text \in Text
    PROVE  Bytes(text) \in Nat
  <1>1. Space \in Piece
    BY DEF Piece
  <1> QED
    BY <1>1, BytesMore

\* A longer beginning of a text has more bytes.
LEMMA BytesGrow ==
    ASSUME NEW text \in Text, NEW n \in Nat, n < Len(text)
    PROVE  Bytes(SubSeq(text, 1, n)) < Bytes(SubSeq(text, 1, n + 1))
  <1>1. /\ SubSeq(text, 1, n + 1) = Append(SubSeq(text, 1, n), text[n + 1])
        /\ SubSeq(text, 1, n) \in Text /\ text[n + 1] \in Piece
    BY SubSeqNext DEF Text
  <1> DEFINE s == SubSeq(text, 1, n)
             p == text[n + 1]
  <1> HIDE DEF s, p
  <1>2. s \in Text /\ p \in Piece /\ SubSeq(text, 1, n + 1) = Append(s, p)
    BY <1>1 DEF s, p
  <1>3. Bytes(s) \in Nat /\ Weight(p) \in Nat /\ Weight(p) >= 1
        /\ Bytes(Append(s, p)) = Bytes(s) + Weight(p)
    BY <1>2, BytesMore
  <1>4. Bytes(s) < Bytes(Append(s, p))
    <2> DEFINE b == Bytes(s)
               w == Weight(p)
    <2>1. b \in Nat /\ w \in Nat /\ w >= 1 /\ Bytes(Append(s, p)) = b + w
      BY <1>3
    <2> HIDE DEF b, w
    <2>2. b < Bytes(Append(s, p))
      BY <2>1
    <2> QED
      BY <2>2 DEF b
  <1> QED
    BY <1>2, <1>4 DEF s

-----------------------------------------------------------------------------
(* What comes before the first stop.                                       *)

HasStop(text, stops) == \E i \in 1 .. Len(text) : text[i] \in stops

EndsAt(text, stops, k) ==
    /\ k \in 0 .. Len(text) /\ \A i \in 1 .. k : text[i] \notin stops
    /\ k < Len(text) => text[k + 1] \in stops

LEMMA MinIsFirst ==
    ASSUME NEW T, T \subseteq Nat, T # {}
    PROVE  Min(T) \in T /\ \A y \in T : Min(T) <= y
  BY LeastNat DEF Min

LEMMA BeforeIs ==
    ASSUME NEW text \in Text, NEW stops, stops \subseteq Piece, stops # {}
    PROVE  \E k \in 0 .. Len(text) : /\ EndsAt(text, stops, k)
                                     /\ Before(text, stops) = SubSeq(text, 1, k)
  <1> DEFINE n == Len(text)
             c == CHOOSE p \in stops : TRUE
             t == Append(text, c)
             I == {i \in 1 .. Len(t) : t[i] \in stops}
             m == Min(I)
  <1>1. c \in stops /\ c \in Piece
    OBVIOUS
  <1> HIDE DEF c
  <1>2. /\ Len(t) = n + 1 /\ t[n + 1] = c /\ n \in Nat
        /\ \A i \in 1 .. n : t[i] = text[i]
    BY <1>1, AppendFacts DEF Text
  <1>3. Before(text, stops) = SubSeq(text, 1, (IF I # {} THEN m ELSE 0) - 1)
    BY DEF Before, SelectInSeq, c
  <1> HIDE DEF t
  <1>4. n + 1 \in I /\ I \subseteq Nat
    BY <1>1, <1>2
  <1>5. m \in I /\ \A y \in I : m <= y
    BY <1>4, MinIsFirst
  <1>6. m \in 1 .. n + 1 /\ t[m] \in stops
    BY <1>2, <1>5
  <1>7. \A i \in 1 .. n + 1 : i < m => i \notin I
    BY <1>2, <1>5, <1>6
  <1>8. \A i \in 1 .. n + 1 : i < m => t[i] \notin stops
    BY <1>2, <1>7
  <1> HIDE DEF m, I
  <1> DEFINE k == m - 1
  <1>9. k \in 0 .. n /\ k + 1 = m
    BY <1>2, <1>6
  <1>10. ASSUME NEW i \in 1 .. k
         PROVE  text[i] \notin stops
    <2>1. i \in 1 .. n /\ i \in 1 .. n + 1 /\ i < m
      BY <1>2, <1>6
    <2> QED
      BY <1>2, <1>8, <2>1
  <1>11. k < n => text[k + 1] \in stops
    <2>1. k < n => m \in 1 .. n
      BY <1>2, <1>6
    <2> QED
      BY <1>2, <1>6, <1>9, <2>1
  <1>12. Before(text, stops) = SubSeq(text, 1, k)
    BY <1>3, <1>4
  <1> HIDE DEF k
  <1>13. EndsAt(text, stops, k)
    BY <1>9, <1>10, <1>11 DEF EndsAt
  <1> QED
    BY <1>9, <1>12, <1>13

LEMMA EndsOnce ==
    ASSUME NEW text \in Text, NEW stops, NEW j, NEW k,
           EndsAt(text, stops, j), EndsAt(text, stops, k)
    PROVE  j = k
  <1>1. Len(text) \in Nat
    BY LenProperties DEF Text
  <1>2. ASSUME NEW a, NEW b, EndsAt(text, stops, a), EndsAt(text, stops, b)
        PROVE  ~(a < b)
    <2>1. SUFFICES ASSUME a < b PROVE FALSE
      OBVIOUS
    <2>2. a \in 0 .. Len(text) /\ b \in 0 .. Len(text)
      BY <1>2 DEF EndsAt
    <2>3. a < Len(text) /\ a + 1 \in 1 .. b
      BY <1>1, <2>1, <2>2
    <2> QED
      BY <1>2, <2>3 DEF EndsAt
  <1>3. ~(j < k) /\ ~(k < j)
    BY <1>2
  <1>4. j \in Nat /\ k \in Nat
    BY DEF EndsAt
  <1> QED
    BY <1>3, <1>4

LEMMA BeforeTo ==
    ASSUME NEW text \in Text, NEW stops, stops \subseteq Piece, stops # {},
           NEW k, EndsAt(text, stops, k)
    PROVE  Before(text, stops) = SubSeq(text, 1, k)
  <1>1. PICK j \in 0 .. Len(text) : /\ EndsAt(text, stops, j)
                                    /\ Before(text, stops) = SubSeq(text, 1, j)
    BY BeforeIs
  <1>2. j = k
    BY <1>1, EndsOnce
  <1> QED
    BY <1>1, <1>2

LEMMA WholeSubSeq ==
    ASSUME NEW S, NEW s \in Seq(S)
    PROVE  SubSeq(s, 1, Len(s)) = s
  <1> DEFINE t == SubSeq(s, 1, Len(s))
  <1>1. Len(s) \in 0 .. Len(s)
    BY LenProperties
  <1>2. t \in Seq(S) /\ Len(t) = Len(s) /\ \A i \in 1 .. Len(s) : t[i] = s[i]
    BY <1>1, SubSeqStart
  <1> HIDE DEF t
  <1>3. t = s
    BY <1>2, SeqEqual
  <1> QED
    BY <1>3 DEF t

LEMMA BeforeType ==
    ASSUME NEW text \in Text, NEW stops, stops \subseteq Piece, stops # {}
    PROVE  /\ Before(text, stops) \in Text /\ ~HasStop(Before(text, stops), stops)
           /\ ~HasStop(text, stops) => Before(text, stops) = text
  <1>1. PICK k \in 0 .. Len(text) : /\ EndsAt(text, stops, k)
                                    /\ Before(text, stops) = SubSeq(text, 1, k)
    BY BeforeIs
  <1>2. /\ SubSeq(text, 1, k) \in Text /\ Len(SubSeq(text, 1, k)) = k
        /\ \A i \in 1 .. k : SubSeq(text, 1, k)[i] = text[i]
    BY <1>1, SubSeqStart DEF Text
  <1>3. ~HasStop(SubSeq(text, 1, k), stops)
    BY <1>1, <1>2 DEF HasStop, EndsAt
  <1>4. ~HasStop(text, stops) => k = Len(text)
    <2>1. Len(text) \in Nat
      BY LenProperties DEF Text
    <2>2. k < Len(text) => HasStop(text, stops)
      <3>1. k < Len(text) => k + 1 \in 1 .. Len(text)
        BY <2>1
      <3> QED
        BY <1>1, <3>1 DEF HasStop, EndsAt
    <2> QED
      BY <2>1, <2>2
  <1> QED
    BY <1>1, <1>2, <1>3, <1>4, WholeSubSeq DEF Text

LEMMA HasStopMore ==
    ASSUME NEW text \in Text, NEW stops, NEW p \in Piece
    PROVE  HasStop(Append(text, p), stops) <=> HasStop(text, stops) \/ p \in stops
  <1> DEFINE n == Len(text)
             t == Append(text, p)
  <1>1. /\ Len(t) = n + 1 /\ t[n + 1] = p /\ n \in Nat /\ \A i \in 1 .. n : t[i] = text[i]
    BY AppendFacts DEF Text
  <1> HIDE DEF n, t
  <1>2. \A i : i \in 1 .. n + 1 <=> i \in 1 .. n \/ i = n + 1
    BY <1>1
  <1>3. (\E i \in 1 .. n + 1 : t[i] \in stops) <=> (\E i \in 1 .. n : text[i] \in stops) \/ p \in stops
    BY <1>1, <1>2
  <1> QED
    BY <1>1, <1>3 DEF HasStop, n, t

LEMMA NoStopInNone == \A stops : ~HasStop(<< >>, stops)
  BY DEF HasStop

LEMMA BeforeMore ==
    ASSUME NEW text \in Text, NEW stops, stops \subseteq Piece, stops # {}, NEW p \in Piece
    PROVE  Before(Append(text, p), stops) =
                IF HasStop(text, stops) \/ p \in stops THEN Before(text, stops)
                ELSE Append(text, p)
  <1> DEFINE n == Len(text)
             t == Append(text, p)
  <1>1. /\ t \in Text /\ Len(t) = n + 1 /\ t[n + 1] = p /\ n \in Nat
        /\ \A i \in 1 .. n : t[i] = text[i]
    BY AppendFacts DEF Text
  <1>2. HasStop(t, stops) <=> HasStop(text, stops) \/ p \in stops
    BY HasStopMore
  <1>3. PICK k \in 0 .. n : EndsAt(text, stops, k) /\ Before(text, stops) = SubSeq(text, 1, k)
    BY BeforeIs
  <1> HIDE DEF t, n
  <1>4. CASE HasStop(text, stops) \/ p \in stops
    <2>1. k < n \/ p \in stops
      <3>1. CASE HasStop(text, stops)
        <4>1. PICK i \in 1 .. n : text[i] \in stops
          BY <3>1 DEF HasStop, n
        <4>2. ~(k = n)
          BY <1>3, <4>1 DEF EndsAt, n
        <4> QED
          BY <1>1, <1>3, <4>2
      <3> QED
        BY <1>4, <3>1
    <2>2. EndsAt(t, stops, k)
      <3>1. k \in 0 .. n + 1 /\ \A i \in 1 .. k : i \in 1 .. n
        BY <1>1, <1>3
      <3>2. \A i \in 1 .. k : t[i] \notin stops
        BY <1>1, <1>3, <3>1 DEF EndsAt
      <3>3. t[k + 1] \in stops
        <4>1. CASE k < n
          <5>1. k + 1 \in 1 .. n /\ text[k + 1] \in stops
            BY <1>1, <1>3, <4>1 DEF EndsAt, n
          <5> QED
            BY <1>1, <5>1
        <4>2. CASE ~(k < n)
          <5>1. k = n
            BY <1>1, <1>3, <4>2
          <5> QED
            BY <1>1, <2>1, <4>2, <5>1
        <4> QED
          BY <4>1, <4>2
      <3> QED
        BY <1>1, <3>1, <3>2, <3>3 DEF EndsAt
    <2>3. Before(t, stops) = SubSeq(t, 1, k)
      BY <1>1, <2>2, BeforeTo
    <2>4. SubSeq(t, 1, k) = SubSeq(text, 1, k)
      <3> DEFINE a == SubSeq(t, 1, k)
                 b == SubSeq(text, 1, k)
      <3>1. k \in 0 .. Len(t) /\ k \in 0 .. Len(text) /\ \A i \in 1 .. k : i \in 1 .. n
        BY <1>1, <1>3 DEF n
      <3>2. a \in Text /\ Len(a) = k /\ \A i \in 1 .. k : a[i] = t[i]
        BY <1>1, <3>1, SubSeqStart DEF Text
      <3>3. b \in Text /\ Len(b) = k /\ \A i \in 1 .. k : b[i] = text[i]
        BY <3>1, SubSeqStart DEF Text
      <3> HIDE DEF a, b
      <3>4. a = b
        BY <1>1, <3>1, <3>2, <3>3, SeqEqual DEF Text
      <3> QED
        BY <3>4 DEF a, b
    <2> QED
      BY <1>3, <1>4, <2>3, <2>4 DEF t
  <1>5. CASE ~(HasStop(text, stops) \/ p \in stops)
    <2>1. Before(t, stops) = t
      BY <1>1, <1>2, <1>5, BeforeType
    <2> QED
      BY <1>5, <2>1 DEF t
  <1> QED
    BY <1>4, <1>5

-----------------------------------------------------------------------------
(* The sentence, and the digits behind it.                                 *)

HasDot(text) == HasStop(text, {Dot})
Body(text) == Before(AfterDot(text), {Dot, "-"})

LEMMA Stops ==
    /\ {Dot} \subseteq Piece /\ {Dot} # {}
    /\ {Dot, "-"} \subseteq Piece /\ {Dot, "-"} # {}
    /\ Space \in Piece /\ Dot \in Piece /\ "d" \in Piece /\ "-" \in Piece
  BY DEF Piece

LEMMA HasDotIs ==
    ASSUME NEW text \in Text
    PROVE  Dot \in Range(text) <=> HasDot(text)
  <1>1. DOMAIN text = 1 .. Len(text)
    BY LenProperties DEF Text
  <1> QED
    BY <1>1 DEF Range, HasDot, HasStop

LEMMA SentenceType ==
    ASSUME NEW text \in Text
    PROVE  Sentence(text) \in Text /\ ~HasDot(Sentence(text))
  BY Stops, BeforeType DEF Sentence, HasDot

LEMMA SentenceMore ==
    ASSUME NEW text \in Text, NEW p \in Piece
    PROVE  /\ HasDot(Append(text, p)) <=> HasDot(text) \/ p = Dot
           /\ HasDot(text) => Sentence(Append(text, p)) = Sentence(text)
           /\ ~HasDot(text) /\ p = Dot => Sentence(Append(text, p)) = text
           /\ ~HasDot(text) => Sentence(text) = text
  <1>1. p \in {Dot} <=> p = Dot
    OBVIOUS
  <1>2. HasDot(Append(text, p)) <=> HasDot(text) \/ p = Dot
    BY <1>1, HasStopMore DEF HasDot
  <1>3. Before(Append(text, p), {Dot}) =
            IF HasStop(text, {Dot}) \/ p \in {Dot} THEN Before(text, {Dot})
            ELSE Append(text, p)
    BY Stops, BeforeMore
  <1>4. ~HasDot(text) => Before(text, {Dot}) = text
    BY Stops, BeforeType DEF HasDot
  <1> QED
    BY <1>1, <1>2, <1>3, <1>4 DEF Sentence, HasDot

\* The end of a sequence, from m on.
LEMMA SubSeqEnd ==
    ASSUME NEW S, NEW s \in Seq(S), NEW m \in 1 .. Len(s) + 1
    PROVE  /\ SubSeq(s, m, Len(s)) \in Seq(S) /\ Len(SubSeq(s, m, Len(s))) = Len(s) + 1 - m
           /\ \A i \in 1 .. Len(s) + 1 - m : SubSeq(s, m, Len(s))[i] = s[m + i - 1]
  <1> DEFINE n == Len(s)
             t == SubSeq(s, m, n)
  <1>1. n \in Nat /\ m \in 1 .. n + 1 /\ n \in m - 1 .. n /\ n - m + 1 = n + 1 - m
    BY LenProperties
  <1>2. t \in Seq(S) /\ Len(t) = n - m + 1 /\ \A i \in 1 .. n - m + 1 : t[i] = s[m + i - 1]
    BY <1>1, SubSeqProperties
  <1> HIDE DEF t, n
  <1> QED
    BY <1>1, <1>2 DEF t, n

LEMMA SubSeqEndMore ==
    ASSUME NEW S, NEW s \in Seq(S), NEW e \in S, NEW m \in 1 .. Len(s) + 1
    PROVE  SubSeq(Append(s, e), m, Len(s) + 1) = Append(SubSeq(s, m, Len(s)), e)
  <1> DEFINE n == Len(s)
             r == Append(s, e)
             a == SubSeq(r, m, n + 1)
             b == SubSeq(s, m, n)
             c == Append(b, e)
             k == n + 1 - m
  <1>1. n \in Nat /\ m \in 1 .. n + 1 /\ k \in Nat
    BY LenProperties
  <1>2. r \in Seq(S) /\ Len(r) = n + 1 /\ r[n + 1] = e /\ \A i \in 1 .. n : r[i] = s[i]
    BY AppendFacts
  <1> HIDE DEF r
  <1>3. /\ a \in Seq(S) /\ Len(a) = k + 1
        /\ \A i \in 1 .. k + 1 : a[i] = r[m + i - 1]
    <2>1. m \in 1 .. Len(r) + 1 /\ Len(r) + 1 - m = k + 1
      BY <1>1, <1>2
    <2> HIDE DEF n, k
    <2> QED
      BY <1>2, <2>1, SubSeqEnd
  <1>4. /\ b \in Seq(S) /\ Len(b) = k
        /\ \A i \in 1 .. k : b[i] = s[m + i - 1]
    BY <1>1, SubSeqEnd
  <1> HIDE DEF a, b
  <1>5. c \in Seq(S) /\ Len(c) = k + 1 /\ c[k + 1] = e /\ \A i \in 1 .. k : c[i] = b[i]
    BY <1>1, <1>4, AppendAt
  <1> HIDE DEF c
  <1>6. ASSUME NEW i \in 1 .. k + 1
        PROVE  a[i] = c[i]
    <2>1. CASE i = k + 1
      <3>1. m + i - 1 = n + 1
        BY <1>1, <2>1
      <3>2. a[i] = r[m + i - 1]
        BY <1>3
      <3> QED
        BY <1>2, <1>5, <2>1, <3>1, <3>2
    <2>2. CASE i # k + 1
      <3>1. i \in 1 .. k /\ m + i - 1 \in 1 .. n
        BY <1>1, <2>2
      <3> QED
        BY <1>2, <1>3, <1>4, <1>5, <3>1
    <2> QED
      BY <2>1, <2>2
  <1>7. a = c
    BY <1>3, <1>5, <1>6, SeqEqual
  <1> QED
    BY <1>7 DEF a, c, r, b

\* The sentence is not the whole of a text with a dot.
LEMMA SentenceShort ==
    ASSUME NEW text \in Text, HasDot(text)
    PROVE  /\ Len(Sentence(text)) \in 0 .. Len(text) - 1
           /\ text[Len(Sentence(text)) + 1] = Dot
           /\ \A i \in 1 .. Len(Sentence(text)) : text[i] # Dot /\ Sentence(text)[i] = text[i]
  <1>1. Len(text) \in Nat
    BY LenProperties DEF Text
  <1>2. PICK k \in 0 .. Len(text) : EndsAt(text, {Dot}, k) /\ Sentence(text) = SubSeq(text, 1, k)
    BY Stops, BeforeIs DEF Sentence
  <1>3. Len(Sentence(text)) = k /\ \A i \in 1 .. k : Sentence(text)[i] = text[i]
    BY <1>2, SubSeqStart DEF Text
  <1>4. k # Len(text)
    BY <1>2 DEF HasDot, HasStop, EndsAt
  <1> QED
    BY <1>1, <1>2, <1>3, <1>4 DEF EndsAt

LEMMA AfterDotMore ==
    ASSUME NEW text \in Text, NEW p \in Piece
    PROVE  /\ HasDot(text) => /\ AfterDot(text) \in Text
                              /\ AfterDot(Append(text, p)) = Append(AfterDot(text), p)
           /\ ~HasDot(text) /\ p = Dot => AfterDot(Append(text, p)) = << >>
  <1> DEFINE n == Len(text)
             t == Append(text, p)
             m == Len(Sentence(text)) + 2
  <1>1. t \in Text /\ Len(t) = n + 1 /\ n \in Nat
    BY AppendFacts DEF Text
  <1>2. CASE HasDot(text)
    <2>1. m \in 1 .. n + 1
      BY <1>1, <1>2, SentenceShort
    <2>2. AfterDot(text) = SubSeq(text, m, n) /\ AfterDot(t) = SubSeq(t, m, n + 1)
      <3>1. Sentence(t) = Sentence(text)
        BY <1>2, SentenceMore
      <3> HIDE DEF t
      <3> QED
        BY <1>1, <3>1 DEF AfterDot
    <2> HIDE DEF m
    <2>3. SubSeq(t, m, n + 1) = Append(SubSeq(text, m, n), p)
      BY <2>1, SubSeqEndMore DEF Text
    <2>4. SubSeq(text, m, n) \in Text
      BY <2>1, SubSeqEnd DEF Text
    <2> QED
      BY <1>2, <2>2, <2>3, <2>4
  <1>3. CASE ~HasDot(text) /\ p = Dot
    <2>1. Sentence(t) = text
      BY <1>3, SentenceMore
    <2> HIDE DEF t
    <2>2. AfterDot(t) = SubSeq(t, n + 2, n + 1)
      BY <1>1, <2>1 DEF AfterDot
    <2>3. n + 2 \in 1 .. Len(t) + 1 /\ Len(t) + 1 - (n + 2) = 0
      BY <1>1
    <2>4. SubSeq(t, n + 2, Len(t)) \in Seq(Piece) /\ Len(SubSeq(t, n + 2, Len(t))) = 0
      <3> DEFINE a == n + 2
      <3>1. a \in 1 .. Len(t) + 1 /\ Len(t) + 1 - a = 0
        BY <2>3
      <3> HIDE DEF a
      <3>2. SubSeq(t, a, Len(t)) \in Seq(Piece) /\ Len(SubSeq(t, a, Len(t))) = 0
        BY <1>1, <3>1, SubSeqEnd DEF Text
      <3> QED
        BY <3>2 DEF a
    <2>5. SubSeq(t, n + 2, n + 1) = << >>
      BY <1>1, <2>4, EmptySeq
    <2> QED
      BY <1>3, <2>2, <2>5 DEF t
  <1> QED
    BY <1>2, <1>3

\* The text behind the dot that may hold digits: none, the same, or one more.
LEMMA BodyMore ==
    ASSUME NEW text \in Text, NEW p \in Piece, HasDot(text)
    PROVE  /\ Body(text) \in Text
           /\ Body(Append(text, p)) \in {Body(text), Append(Body(text), p)}
           /\ ~HasStop(AfterDot(text), {Dot, "-"}) /\ p \notin {Dot, "-"} =>
                Body(Append(text, p)) = Append(Body(text), p)
           /\ HasStop(AfterDot(text), {Dot, "-"}) \/ p \in {Dot, "-"} =>
                Body(Append(text, p)) = Body(text)
  <1> DEFINE a == AfterDot(text)
             S == {Dot, "-"}
  <1>1. a \in Text /\ AfterDot(Append(text, p)) = Append(a, p)
    BY AfterDotMore
  <1>2. S \subseteq Piece /\ S # {}
    BY Stops
  <1> HIDE DEF a, S
  <1>3. Before(Append(a, p), S) = IF HasStop(a, S) \/ p \in S THEN Before(a, S) ELSE Append(a, p)
    BY <1>1, <1>2, BeforeMore
  <1>4. Before(a, S) \in Text /\ (~HasStop(a, S) => Before(a, S) = a)
    BY <1>1, <1>2, BeforeType
  <1>5. Body(text) = Before(a, S) /\ Body(Append(text, p)) = Before(Append(a, p), S)
    BY <1>1 DEF Body, a, S
  <1> QED
    BY <1>3, <1>4, <1>5 DEF a, S

LEMMA DigitsMore ==
    ASSUME NEW s \in Text, NEW p \in Piece
    PROVE  /\ DigitsIn(s) \in Text
           /\ DigitsIn(Append(s, p)) = IF p = Space THEN DigitsIn(s) ELSE Append(DigitsIn(s), p)
  <1> DEFINE P == Seq(Piece)
             One(x) == IF x = Space THEN << >> ELSE <<x>>
             n == Len(s)
             t == Append(s, p)
             f == [i \in DOMAIN s |-> One(s[i])]
             g == [i \in DOMAIN t |-> One(t[i])]
  <1>1. /\ t \in Text /\ Len(t) = n + 1 /\ t[n + 1] = p /\ n \in Nat
        /\ \A i \in 1 .. n : t[i] = s[i]
    BY AppendFacts DEF Text
  <1>2. DOMAIN s = 1 .. n /\ \A i \in 1 .. n : s[i] \in Piece
    BY LenProperties, ElementOfSeq DEF Text
  <1> HIDE DEF n
  <1>3. DOMAIN t = 1 .. n + 1
    <2> HIDE DEF t
    <2> QED
      BY <1>1, LenProperties DEF Text
  <1>4. \A x \in Piece : One(x) \in P
    OBVIOUS
  <1> HIDE DEF P, t
  <1>5. f \in [1 .. n -> P] /\ \A i \in 1 .. n : f[i] = One(s[i])
    BY <1>2, <1>4
  <1>6. g \in [1 .. n + 1 -> P] /\ \A i \in 1 .. n + 1 : g[i] = One(t[i])
    <2>1. ASSUME NEW i \in 1 .. n + 1
          PROVE  t[i] \in Piece
      BY <1>1, <1>2
    <2> QED
      BY <1>3, <1>4, <2>1
  <1>7. One(p) \in P
    BY <1>4
  <1> HIDE DEF f, g
  <1>8. f \in Seq(P) /\ Len(f) = n
    BY <1>1, <1>5, FunctionSeq
  <1>9. g \in Seq(P) /\ Len(g) = n + 1
    <2> DEFINE m == n + 1
    <2>1. m \in Nat /\ g \in [1 .. m -> P]
      BY <1>1, <1>6
    <2> HIDE DEF m
    <2>2. g \in Seq(P) /\ Len(g) = m
      BY <2>1, FunctionSeq
    <2> QED
      BY <2>2 DEF m
  <1> DEFINE o == One(p)
  <1>10. o \in P /\ o = One(p)
    BY <1>7
  <1>11. \A i \in 1 .. n : g[i] = f[i]
    <2>1. \A i \in 1 .. n : i \in 1 .. n + 1
      BY <1>1
    <2> QED
      BY <1>1, <1>5, <1>6, <2>1
  <1>12. g[n + 1] = o
    <2>1. n + 1 \in 1 .. n + 1
      BY <1>1
    <2> QED
      BY <1>1, <1>6, <2>1
  <1> HIDE DEF o, One
  <1>13. /\ Append(f, o) \in Seq(P) /\ Len(Append(f, o)) = n + 1
         /\ Append(f, o)[n + 1] = o /\ \A i \in 1 .. n : Append(f, o)[i] = f[i]
    BY <1>1, <1>8, <1>10, AppendAt
  <1>14. g = Append(f, o)
    <2> DEFINE a == Append(f, o)
    <2>1. /\ a \in Seq(P) /\ Len(a) = n + 1 /\ a[n + 1] = o
          /\ \A i \in 1 .. n : a[i] = f[i]
      BY <1>13
    <2> HIDE DEF a
    <2>2. ASSUME NEW i \in 1 .. n + 1
          PROVE  g[i] = a[i]
      <3>1. i = n + 1 \/ i \in 1 .. n
        BY <1>1
      <3> QED
        BY <1>11, <1>12, <2>1, <3>1
    <2>3. g = a
      BY <1>9, <2>1, <2>2, SeqEqual
    <2> QED
      BY <2>3 DEF a
  <1>15. FlattenSeq(Append(f, o)) = FlattenSeq(f) \o o /\ FlattenSeq(f) \in Seq(Piece)
    BY <1>8, <1>10, FlattenAppend, FlattenType DEF P
  <1>16. DigitsIn(s) = FlattenSeq(f) /\ DigitsIn(t) = FlattenSeq(g)
    BY Zenon DEF DigitsIn, f, g, One
  <1>17. DigitsIn(s) \in Seq(Piece) /\ DigitsIn(t) = DigitsIn(s) \o o
    BY <1>14, <1>15, <1>16
  <1>18. CASE p = Space
    <2>1. o = << >>
      BY <1>10, <1>18 DEF One
    <2>2. DigitsIn(s) \o << >> = DigitsIn(s)
      BY <1>17, ConcatEmptySeq
    <2> QED
      BY <1>17, <1>18, <2>1, <2>2 DEF Text, t
  <1>19. CASE p # Space
    <2>1. o = <<p>>
      BY <1>10, <1>19 DEF One
    <2>2. DigitsIn(s) \o <<p>> = Append(DigitsIn(s), p)
      BY <1>17, JoinOne
    <2> QED
      BY <1>17, <1>19, <2>1, <2>2 DEF Text, t
  <1> QED
    BY <1>18, <1>19

LEMMA DigitsInNone == DigitsIn(<< >>) = << >>
  <1>1. [i \in DOMAIN << >> |-> IF << >>[i] = Space THEN << >> ELSE << << >>[i] >>] = << >>
    OBVIOUS
  <1> QED
    BY <1>1, FlattenType DEF DigitsIn, FlattenSeq

-----------------------------------------------------------------------------
(* The beginning of a header.                                              *)

LEMMA PlainIs ==
    ASSUME NEW text \in Text
    PROVE  Plain(text) <=> ~HasStop(text, {Dot, "-"})
  <1>1. DOMAIN text = 1 .. Len(text)
    BY LenProperties DEF Text
  <1> QED
    BY <1>1 DEF Plain, HasStop

LEMMA PlainMore ==
    ASSUME NEW text \in Text, NEW p \in Piece
    PROVE  Plain(Append(text, p)) <=> Plain(text) /\ p \notin {Dot, "-"}
  <1>1. Append(text, p) \in Text
    BY AppendFacts DEF Text
  <1>2. HasStop(Append(text, p), {Dot, "-"}) <=> HasStop(text, {Dot, "-"}) \/ p \in {Dot, "-"}
    BY HasStopMore
  <1> QED
    BY <1>1, <1>2, PlainIs

LEMMA PlainHasNoDot ==
    ASSUME NEW text \in Text
    PROVE  HasDot(text) => ~Plain(text)
  <1>1. HasDot(text) => HasStop(text, {Dot, "-"})
    BY DEF HasDot, HasStop
  <1> QED
    BY <1>1, PlainIs

LEMMA ToComeIs ==
    ASSUME NEW text
    PROVE  HeaderToCome(text) <=> Plain(text) /\ WordsToCome(WordsOf(text))
  BY DEF HeaderToCome, WordsToCome

LEMMA HeaderToComeBack ==
    ASSUME NEW text \in Text, NEW p \in Piece, HeaderToCome(Append(text, p))
    PROVE  HeaderToCome(text)
  <1> DEFINE w == WordsOf(text)
             v == WordsOf(Append(text, p))
  <1>1. Append(text, p) \in Text
    BY AppendFacts DEF Text
  <1>2. Plain(text)
    BY PlainMore, ToComeIs
  <1>3. w \in Words /\ v \in Words
    BY <1>1, WordsType
  <1>4. WordsToCome(v)
    BY ToComeIs
  <1>5. LastOf(text) # Space => w # << >>
    BY WordsNotEmpty
  <1>6. \/ p = Space /\ v = w
        \/ v = Append(w, <<p>>)
        \/ LastOf(text) # Space /\ v = [w EXCEPT ![Len(w)] = Append(@, p)]
    BY WordsGrow
  <1> HIDE DEF w, v
  <1>7. WordsToCome(w)
    <2>1. CASE v = w
      BY <1>4, <2>1
    <2>2. CASE v = Append(w, <<p>>)
      <3>1. <<p>> \in Seq(Piece)
        OBVIOUS
      <3>2. Shorter(w, v)
        BY <2>2, <3>1, ShorterByWord
      <3> QED
        BY <1>3, <1>4, <3>2, ToComeBack
    <2>3. CASE LastOf(text) # Space /\ v = [w EXCEPT ![Len(w)] = Append(@, p)]
      <3> DEFINE n == Len(w)
                 u == w[n]
      <3>1. n \in Nat /\ n >= 1
        BY <1>3, <1>5, <2>3, LenProperties, EmptySeq DEF Words
      <3>2. u \in Seq(Piece)
        <4>1. n \in 1 .. n
          BY <3>1
        <4> QED
          BY <1>3, <4>1, ElementOfSeq DEF Words
      <3>3. v = [w EXCEPT ![Len(w)] = Append(u, p)]
        BY <2>3
      <3>4. Len(w) >= 1 /\ w[Len(w)] = u
        BY <3>1
      <3> HIDE DEF n, u
      <3>5. Shorter(w, v)
        BY <3>2, <3>3, <3>4, ShorterByPiece
      <3> QED
        BY <1>3, <1>4, <3>5, ToComeBack
    <2> QED
      BY <1>6, <2>1, <2>2, <2>3
  <1> QED
    BY <1>2, <1>7, ToComeIs DEF w

-----------------------------------------------------------------------------
(* The header in the first block of digits.                                *)

Header == [bin : Nat, array : Nat, name : BOOLEAN, type : MessageTypes \union {"other"}]

Decodable(in) == in.header \in Header /\ in.damaged \in Header

LEMMA DecodedType ==
    ASSUME NEW in, Decodable(in), NEW digits
    PROVE  DecodedHeader(in, digits) \in Header
  <1>1. Garbage \in Header
    BY DEF Garbage, Header
  <1> QED
    BY <1>1 DEF Decodable, DecodedHeader

LEMMA SliceType ==
    ASSUME NEW h \in Header, NEW n \in Nat
    PROVE  /\ IsSaltpackBinarySlice(h, n) \in MessageTypes \union {"short", "not"}
           /\ IsSaltpackBinarySlice(h, n) = "short" <=> n < 23
           /\ n >= 23 /\ IsSaltpackBinarySlice(h, n) \in MessageTypes =>
                IsSaltpackBinarySlice(h, n) = h.type
  BY DEF IsSaltpackBinarySlice, Header, MinLengthToIdentifyBinary, MessageTypes

Spoilt(digits) ==
    \E i \in DOMAIN digits :
        digits[i] # "d" /\ Bytes(SubSeq(digits, 1, i - 1)) < BlockDigits

\* More digits do not change a block that is full.
LEMMA DecodedStands ==
    ASSUME NEW in, NEW digits \in Text, NEW p \in Piece, FullBlock(digits)
    PROVE  /\ FullBlock(Append(digits, p))
           /\ DecodedHeader(in, Append(digits, p)) = DecodedHeader(in, digits)
  <1> DEFINE n == Len(digits)
             t == Append(digits, p)
  <1>1. /\ t \in Text /\ Len(t) = n + 1 /\ n \in Nat /\ \A i \in 1 .. n : t[i] = digits[i]
    BY AppendFacts DEF Text
  <1>2. Bytes(digits) >= 43 /\ Bytes(t) >= 43 /\ Bytes(digits) \in Nat /\ Bytes(t) \in Nat
    <2> DEFINE b == Bytes(digits)
               w == Weight(p)
    <2>1. b \in Nat /\ w \in Nat /\ w >= 1 /\ Bytes(t) = b + w
      BY BytesMore
    <2>2. b >= 43
      BY DEF FullBlock, BlockDigits
    <2> HIDE DEF b, w, t
    <2>3. b >= 43 /\ Bytes(t) >= 43 /\ b \in Nat /\ Bytes(t) \in Nat
      BY <2>1, <2>2
    <2> QED
      BY <2>3 DEF b
  <1>3. DOMAIN digits = 1 .. n /\ DOMAIN t = 1 .. n + 1
    <2> HIDE DEF t
    <2> QED
      BY <1>1, LenProperties DEF Text
  <1> HIDE DEF t
  <1>4. ASSUME NEW k \in 0 .. n
        PROVE  SubSeq(t, 1, k) = SubSeq(digits, 1, k)
    <2> DEFINE a == SubSeq(t, 1, k)
               b == SubSeq(digits, 1, k)
    <2>1. k \in 0 .. Len(t) /\ k \in 0 .. Len(digits) /\ \A i \in 1 .. k : i \in 1 .. n
      BY <1>1
    <2>2. a \in Text /\ Len(a) = k /\ \A i \in 1 .. k : a[i] = t[i]
      BY <1>1, <2>1, SubSeqStart DEF Text
    <2>3. b \in Text /\ Len(b) = k /\ \A i \in 1 .. k : b[i] = digits[i]
      BY <2>1, SubSeqStart DEF Text
    <2> HIDE DEF a, b
    <2>4. a = b
      BY <1>1, <2>1, <2>2, <2>3, SeqEqual DEF Text
    <2> QED
      BY <2>4 DEF a, b
  <1>5. SubSeq(t, 1, n) = digits
    <2>1. n \in 0 .. n
      BY <1>1
    <2> QED
      BY <1>4, <2>1, WholeSubSeq DEF Text
  <1>6. Spoilt(t) <=> Spoilt(digits)
    <2>1. ASSUME NEW i \in 1 .. n
          PROVE  t[i] = digits[i] /\ SubSeq(t, 1, i - 1) = SubSeq(digits, 1, i - 1)
      <3>1. i - 1 \in 0 .. n
        BY <1>1
      <3> QED
        BY <1>1, <1>4, <3>1
    <2>2. ~(Bytes(SubSeq(t, 1, n)) < BlockDigits)
      <3> DEFINE b == Bytes(digits)
      <3>1. Bytes(SubSeq(t, 1, n)) = b
        BY <1>5
      <3>2. b \in Nat /\ b >= 43
        BY <1>2
      <3> HIDE DEF b, n
      <3> QED
        BY <3>1, <3>2 DEF BlockDigits
    <2>3. \A i : i \in 1 .. n + 1 <=> i \in 1 .. n \/ i = n + 1
      BY <1>1
    <2>4. (n + 1) - 1 = n
      BY <1>1
    <2> HIDE DEF n
    <2> QED
      BY <1>3, <2>1, <2>2, <2>3, <2>4 DEF Spoilt
  <1>7. \A x : DecodedHeader(in, x) = IF Spoilt(x) THEN in.damaged
                                      ELSE IF Bytes(x) < BlockDigits THEN Garbage ELSE in.header
    BY DEF DecodedHeader, Spoilt
  <1>8. ~(Bytes(digits) < BlockDigits) /\ ~(Bytes(t) < BlockDigits)
    BY <1>2 DEF BlockDigits
  <1>9. FullBlock(t)
    BY <1>2 DEF FullBlock, BlockDigits
  <1>10. DecodedHeader(in, t) = DecodedHeader(in, digits)
    BY <1>6, <1>7, <1>8
  <1> QED
    BY <1>9, <1>10 DEF t

-----------------------------------------------------------------------------
(* What is said of the beginning of an armored text.                       *)

Frames(text) ==
    { t \in MessageTypes : /\ Dot \in Range(text) /\ Plain(Sentence(text))
                           /\ FrameBrand(Sentence(text), t) # <<"bad">> }

HeaderType(in, text) == IsSaltpackBinarySlice(DecodedHeader(in, DigitsIn(Body(text))), 32)

Fits(type, frames) == \E t \in frames : FrameFits(type, t)

LEMMA SaidIs ==
    ASSUME NEW in, NEW text
    PROVE  IsSaltpackArmoredPrefix(in, text) =
        IF Frames(text) = {} THEN NoAnswer(IF HeaderToCome(text) THEN "short" ELSE "not")
        ELSE IF ~FullBlock(DigitsIn(Body(text))) THEN NoAnswer("short")
        ELSE IF HeaderType(in, text) \notin MessageTypes \/ ~Fits(HeaderType(in, text), Frames(text))
             THEN NoAnswer("not")
        ELSE [type |-> HeaderType(in, text),
              brand |-> FrameBrand(Sentence(text), CHOOSE t \in Frames(text) : TRUE)]
  BY Zenon DEF IsSaltpackArmoredPrefix, Frames, HeaderType, Body, Fits

\* No word of a text is the one that stands for no brand.
LEMMA NotBad ==
    ASSUME NEW s \in Text, NEW type \in MessageTypes
    PROVE  FrameBrand(s, type) # <<"bad">> <=> IsFrame(WordsOf(s), type)
  <1> DEFINE w == WordsOf(s)
  <1>1. w \in Words
    BY WordsType
  <1>2. "bad" \notin Piece
    BY DEF Piece, Space, Dot
  <1>3. CASE IsFrame(w, type) /\ Len(w) = 5
    <2>1. 2 \in 1 .. Len(w)
      BY <1>3
    <2>2. w[2] \in Seq(Piece)
      BY <1>1, <2>1, ElementOfSeq DEF Words
    <2>3. w[2] # <<"bad">>
      <3> DEFINE v == w[2]
      <3>1. v \in Seq(Piece)
        BY <2>2
      <3> HIDE DEF v
      <3>2. v # <<"bad">>
        <4>1. SUFFICES ASSUME v = <<"bad">>
                       PROVE  FALSE
          OBVIOUS
        <4>2. Len(v) = 1 /\ v[1] = "bad" /\ 1 \in 1 .. Len(v)
          BY <4>1
        <4>3. v[1] \in Piece
          BY <3>1, <4>2, ElementOfSeq
        <4> QED
          BY <1>2, <4>2, <4>3
      <3> QED
        BY <3>2 DEF v
    <2> QED
      BY <1>3, <2>3, FrameBrandIs
  <1>4. CASE IsFrame(w, type) /\ Len(w) # 5
    <2>1. << >> # <<"bad">>
      OBVIOUS
    <2> QED
      BY <1>4, <2>1, FrameBrandIs
  <1> QED
    BY <1>3, <1>4, FrameBrandIs

LEMMA FramesAre ==
    ASSUME NEW text \in Text
    PROVE  Frames(text) = { t \in MessageTypes : /\ HasDot(text) /\ Plain(Sentence(text))
                                                 /\ IsFrame(WordsOf(Sentence(text)), t) }
  <1>1. Sentence(text) \in Text
    BY SentenceType
  <1>2. \A t \in MessageTypes :
            FrameBrand(Sentence(text), t) # <<"bad">> <=> IsFrame(WordsOf(Sentence(text)), t)
    BY <1>1, NotBad
  <1> QED
    BY <1>2, HasDotIs DEF Frames

LEMMA NoDotNoFrame ==
    ASSUME NEW text \in Text, ~HasDot(text)
    PROVE  Frames(text) = {}
  BY FramesAre

\* The dot that ends a frame comes behind a text that may have become one.
LEMMA FrameCame ==
    ASSUME NEW text \in Text, NEW p \in Piece, ~HasDot(text), Frames(Append(text, p)) # {}
    PROVE  HeaderToCome(text)
  <1> DEFINE t == Append(text, p)
  <1>1. t \in Text
    BY AppendFacts DEF Text
  <1>2. PICK type \in MessageTypes : HasDot(t) /\ Plain(Sentence(t)) /\ IsFrame(WordsOf(Sentence(t)), type)
    BY <1>1, FramesAre
  <1>3. Sentence(t) = text
    BY <1>2, SentenceMore
  <1>4. Plain(text) /\ IsFrame(WordsOf(text), type)
    BY <1>2, <1>3
  <1>5. WordsToCome(WordsOf(text))
    BY <1>4, WordsType, FrameToCome
  <1> QED
    BY <1>4, <1>5, ToComeIs

\* Once there is a dot, more of the text is not looked at but for its digits.
LEMMA SaidAfterDot ==
    ASSUME NEW in, NEW text \in Text, NEW p \in Piece, HasDot(text),
           IsSaltpackArmoredPrefix(in, text).type # "short"
    PROVE  IsSaltpackArmoredPrefix(in, Append(text, p)) = IsSaltpackArmoredPrefix(in, text)
  <1> DEFINE t == Append(text, p)
             d == DigitsIn(Body(text))
             e == DigitsIn(Body(t))
  <1>1. t \in Text
    BY AppendFacts DEF Text
  <1>2. HasDot(t) /\ Sentence(t) = Sentence(text)
    BY SentenceMore
  <1>3. ~HeaderToCome(t) /\ ~HeaderToCome(text)
    BY <1>1, <1>2, PlainHasNoDot, ToComeIs
  <1>4. Frames(t) = Frames(text)
    BY <1>1, <1>2, FramesAre
  <1>5. Body(text) \in Text /\ Body(t) \in {Body(text), Append(Body(text), p)}
    BY BodyMore
  <1>6. d \in Text /\ e \in {d, Append(d, p)}
    BY <1>5, DigitsMore
  <1>7. FullBlock(d) => FullBlock(e) /\ DecodedHeader(in, e) = DecodedHeader(in, d)
    BY <1>6, DecodedStands
  <1>8. Frames(text) = {} \/ FullBlock(d)
    BY SaidIs DEF NoAnswer
  <1>9. IsSaltpackArmoredPrefix(in, t) = IsSaltpackArmoredPrefix(in, text)
    <2>1. CASE Frames(text) = {}
      BY <1>3, <1>4, <2>1, SaidIs
    <2>2. CASE Frames(text) # {}
      <3>1. FullBlock(d) /\ FullBlock(e) /\ HeaderType(in, t) = HeaderType(in, text)
        BY <1>7, <1>8, <2>2 DEF HeaderType
      <3> HIDE DEF t
      <3> QED
        BY <1>2, <1>4, <2>2, <3>1, SaidIs, Zenon
    <2> QED
      BY <2>1, <2>2
  <1> QED
    BY <1>9

\* What is said of an armored text stands, unless there was too little of it.
LEMMA SaidStands ==
    ASSUME NEW in, NEW text \in Text, NEW p \in Piece,
           IsSaltpackArmoredPrefix(in, text).type # "short"
    PROVE  IsSaltpackArmoredPrefix(in, Append(text, p)) = IsSaltpackArmoredPrefix(in, text)
  <1> DEFINE t == Append(text, p)
  <1>1. CASE HasDot(text)
    BY <1>1, SaidAfterDot
  <1>2. CASE ~HasDot(text)
    <2>1. Frames(text) = {}
      BY <1>2, NoDotNoFrame
    <2>2. ~HeaderToCome(text)
      BY <2>1, SaidIs DEF NoAnswer
    <2>3. Frames(t) = {}
      BY <1>2, <2>2, FrameCame
    <2>4. ~HeaderToCome(t)
      BY <2>2, HeaderToComeBack
    <2> QED
      BY <2>1, <2>2, <2>3, <2>4, SaidIs
  <1> QED
    BY <1>1, <1>2

-----------------------------------------------------------------------------
(* The inputs.                                                             *)

LEMMA JoinType ==
    ASSUME NEW s \in Text, NEW t \in Text
    PROVE  s \o t \in Text
  BY ConcatProperties DEF Text

LEMMA SpacedType ==
    ASSUME NEW words \in Words
    PROVE  Spaced(words) \in Text
  <1> DEFINE n == Len(words)
             Part(i) == words[i] \o IF i < n THEN <<Space>> ELSE << >>
             f == [i \in DOMAIN words |-> Part(i)]
  <1>1. n \in Nat /\ DOMAIN words = 1 .. n
    BY LenProperties DEF Words
  <1>2. ASSUME NEW i \in 1 .. n
        PROVE  Part(i) \in Seq(Piece)
    <2> DEFINE end == IF i < n THEN <<Space>> ELSE << >>
    <2>1. words[i] \in Text
      BY ElementOfSeq DEF Words, Text
    <2>2. <<Space>> \in Text /\ << >> \in Text
      BY Stops DEF Text
    <2>3. end \in Text
      BY <2>2
    <2> HIDE DEF end
    <2>4. words[i] \o end \in Text
      BY <2>1, <2>3, JoinType
    <2> QED
      BY <2>4 DEF end, Text
  <1> HIDE DEF n, Part
  <1>3. f \in [1 .. n -> Seq(Piece)]
    BY <1>1, <1>2
  <1>4. Spaced(words) = FlattenSeq(f)
    BY Zenon DEF Spaced, f, Part, n
  <1> HIDE DEF f
  <1>5. f \in Seq(Seq(Piece))
    BY <1>1, <1>3, FunctionSeq
  <1> QED
    BY <1>4, <1>5, FlattenType DEF Text

LEMMA SeqOfMore ==
    ASSUME NEW S, NEW T, S \subseteq T, NEW s \in Seq(S)
    PROVE  s \in Seq(T)
  OBVIOUS

LEMMA BrandType ==
    ASSUME NEW brand \in Brands
    PROVE  brand \in Seq(Piece) /\ brand \in Seq(Piece \ {Space, Dot, "-"})
  <1>1. brand \in Seq(Piece \ {Space, Dot, "-"})
    BY ClassifyAssumption
  <1>2. Piece \ {Space, Dot, "-"} \subseteq Piece
    OBVIOUS
  <1> QED
    BY <1>1, <1>2, SeqOfMore

LEMMA MakeFrameType ==
    ASSUME NEW type \in MessageTypes, NEW brand \in Brands
    PROVE  MakeFrame(type, brand) \in Words
  BY BrandType, FrameIs, BrandedFrameIs

LEMMA ArmoredTextType ==
    ASSUME NEW type \in MessageTypes, NEW brand \in Brands
    PROVE  ArmoredText(type, brand) \in Text
  <1>1. Spaced(MakeFrame(type, brand)) \in Text
    BY MakeFrameType, SpacedType
  <1>2. <<Dot, Space, "d", "d", Space, "d", "d", Dot>> \in Text
    BY Stops DEF Text
  <1> QED
    BY <1>1, <1>2, JoinType DEF ArmoredText

LEMMA PartType ==
    ASSUME NEW text \in Text, NEW i \in 0 .. Len(text)
    PROVE  SubSeq(text, 1, i) \in Text /\ SubSeq(text, i + 1, Len(text)) \in Text
  <1>1. Len(text) \in Nat /\ i + 1 \in 1 .. Len(text) + 1
    BY LenProperties DEF Text
  <1> DEFINE m == i + 1
  <1>2. m \in 1 .. Len(text) + 1
    BY <1>1
  <1> HIDE DEF m
  <1>3. SubSeq(text, m, Len(text)) \in Text
    BY <1>2, SubSeqEnd DEF Text
  <1>4. SubSeq(text, 1, i) \in Text
    BY SubSeqStart DEF Text
  <1> QED
    BY <1>3, <1>4 DEF m

LEMMA AlteredType ==
    ASSUME NEW text \in Text
    PROVE  Altered(text) \subseteq Text
  <1> DEFINE n == Len(text)
  <1>1. n \in Nat /\ DOMAIN text = 1 .. n
    BY LenProperties DEF Text
  <1>2. ASSUME NEW i \in 1 .. n
        PROVE  RemoveAt(text, i) \in Text
    <2>1. i - 1 \in 0 .. n /\ i \in 0 .. n
      BY <1>1
    <2>2. SubSeq(text, 1, i - 1) \in Text /\ SubSeq(text, i + 1, n) \in Text
      BY <2>1, PartType
    <2> HIDE DEF n
    <2>3. RemoveAt(text, i) = SubSeq(text, 1, i - 1) \o SubSeq(text, i + 1, n)
      BY DEF RemoveAt, n
    <2> QED
      BY <2>2, <2>3, JoinType
  <1>3. ASSUME NEW i \in 1 .. n, NEW p \in Strays
        PROVE  [text EXCEPT ![i] = p] \in Text
    <2>1. p \in Piece
      BY ClassifyAssumption
    <2>2. \A j \in 1 .. n : text[j] \in Piece
      BY ElementOfSeq DEF Text
    <2>3. text = [j \in 1 .. n |-> text[j]]
      BY LenProperties DEF Text
    <2> DEFINE f == [text EXCEPT ![i] = p]
    <2>4. f \in [1 .. n -> Piece]
      BY <1>1, <2>1, <2>2, <2>3
    <2> HIDE DEF f, n
    <2>5. f \in Seq(Piece)
      BY <1>1, <2>4, FunctionSeq
    <2> QED
      BY <2>5 DEF f, Text
  <1>4. ASSUME NEW i \in 1 .. n, NEW p \in Strays
        PROVE  InsertAt(text, i, p) \in Text
    <2>1. p \in Piece
      BY ClassifyAssumption
    <2>2. <<p>> \in Text
      BY <2>1 DEF Text
    <2>3. i - 1 \in 0 .. n /\ (i - 1) + 1 = i
      BY <1>1
    <2> DEFINE a == SubSeq(text, 1, i - 1)
               b == SubSeq(text, i, n)
    <2>4. a \in Text /\ b \in Text
      BY <2>3, PartType
    <2>5. InsertAt(text, i, p) = a \o <<p>> \o b
      BY DEF InsertAt
    <2> HIDE DEF a, b, n
    <2>6. a \o <<p>> \in Text
      BY <2>2, <2>4, JoinType
    <2>7. a \o <<p>> \o b \in Text
      BY <2>4, <2>6, JoinType
    <2> QED
      BY <2>5, <2>7
  <1>5. ASSUME NEW i \in 0 .. n
        PROVE  SubSeq(text, 1, i) \in Text
    BY PartType
  <1>6. ASSUME NEW i \in 1 .. n, NEW gap \in Gaps
        PROVE  SubSeq(text, 1, i) \o gap \o SubSeq(text, i + 1, n) \in Text
    <2>1. gap \in Text
      <3>1. gap \in Seq({Space}) /\ {Space} \subseteq Piece
        BY ClassifyAssumption DEF Piece
      <3> QED
        BY <3>1, SeqOfMore DEF Text
    <2>2. i \in 0 .. n
      BY <1>1
    <2> DEFINE a == SubSeq(text, 1, i)
               b == SubSeq(text, i + 1, n)
    <2>3. a \in Text /\ b \in Text
      BY <2>2, PartType
    <2> HIDE DEF a, b, n
    <2>4. a \o gap \in Text
      BY <2>1, <2>3, JoinType
    <2>5. a \o gap \o b \in Text
      BY <2>3, <2>4, JoinType
    <2> QED
      BY <2>5 DEF a, b
  <1> DEFINE A(i) == RemoveAt(text, i)
             B(i, p) == [text EXCEPT ![i] = p]
             C(i, p) == InsertAt(text, i, p)
             D(i) == SubSeq(text, 1, i)
             E(i, gap) == SubSeq(text, 1, i) \o gap \o SubSeq(text, i + 1, n)
  <1>7. ASSUME NEW x \in Altered(text)
        PROVE  \/ \E i \in 1 .. n : x = A(i)
               \/ \E i \in 1 .. n, p \in Strays : x = B(i, p) \/ x = C(i, p)
               \/ \E i \in 1 .. n, gap \in Gaps : x = E(i, gap)
               \/ \E i \in 0 .. n : x = D(i)
    <2>1. Altered(text) = { A(i) : i \in DOMAIN text }
                            \union { B(i, p) : i \in DOMAIN text, p \in Strays }
                            \union { C(i, p) : i \in DOMAIN text, p \in Strays }
                            \union { E(i, gap) : i \in DOMAIN text, gap \in Gaps }
                            \union { D(i) : i \in 0 .. n }
      BY DEF Altered
    <2> HIDE DEF A, B, C, D, E, n
    <2> QED
      BY <1>1, <1>7, <2>1
  <1>8. /\ \A i \in 1 .. n : A(i) \in Text
        /\ \A i \in 1 .. n, p \in Strays : B(i, p) \in Text /\ C(i, p) \in Text
        /\ \A i \in 0 .. n : D(i) \in Text
        /\ \A i \in 1 .. n, gap \in Gaps : E(i, gap) \in Text
    BY <1>2, <1>3, <1>4, <1>5, <1>6
  <1> HIDE DEF A, B, C, D, E, n
  <1> QED
    BY <1>7, <1>8

GoodInput(in) ==
    /\ in.text \in Text /\ Decodable(in) /\ in.armored \in BOOLEAN
    /\ ~in.armored => in.header \in BinaryHeaders

LEMMA OwnHeaderType ==
    /\ Garbage \in Header /\ Garbage \in BinaryHeaders
    /\ \A type \in MessageTypes : OwnHeader(type) \in Header
    /\ BinaryHeaders \subseteq Header
  BY DEF Garbage, OwnHeader, Header, BinaryHeaders

InputOf(t, b, h, d, text) ==
    [armored |-> TRUE, text |-> text, header |-> h, damaged |-> d,
     type |-> h.type, brand |-> b,
     genuine |-> /\ StringForType(h.type) = StringForType(t)
                 /\ WordsOf(text) = WordsOf(ArmoredText(t, b))]

InputsOf(t, b) ==
    { InputOf(t, b, OwnHeader(own), Garbage, ArmoredText(t, b)) : own \in MessageTypes }
        \union { InputOf(t, b, OwnHeader(t), d, text) :
                    d \in {Garbage, OwnHeader(t)}, text \in Altered(ArmoredText(t, b)) }

LEMMA ArmoredInputsAre ==
    ArmoredInputs = UNION { InputsOf(t, b) : t \in {"encryption", "attached", "detached"}, b \in Brands }
  BY DEF ArmoredInputs, InputsOf, InputOf

LEMMA ArmoredInputType ==
    ASSUME NEW in \in ArmoredInputs
    PROVE  /\ in.armored = TRUE /\ GoodInput(in)
           /\ \E t \in {"encryption", "attached", "detached"}, b \in Brands, own \in MessageTypes :
                /\ in.header = OwnHeader(own) /\ in.type = own /\ in.brand = b
                /\ \/ in.text = ArmoredText(t, b)
                   \/ (in.text \in Altered(ArmoredText(t, b)) /\ own = t)
                /\ in.genuine => /\ StringForType(own) = StringForType(t)
                                 /\ WordsOf(in.text) = WordsOf(ArmoredText(t, b))
  <1>1. PICK t \in {"encryption", "attached", "detached"}, b \in Brands : in \in InputsOf(t, b)
    BY ArmoredInputsAre
  <1>2. t \in MessageTypes
    BY DEF MessageTypes
  <1>3. ArmoredText(t, b) \in Text
    BY <1>2, ArmoredTextType
  <1>4. Altered(ArmoredText(t, b)) \subseteq Text
    BY <1>3, AlteredType
  <1> DEFINE T == ArmoredText(t, b)
             A == Altered(T)
  <1>5. PICK own \in MessageTypes, d \in {Garbage, OwnHeader(t)}, text \in Text :
            in = InputOf(t, b, OwnHeader(own), d, text) /\ (text = T \/ (text \in A /\ own = t))
    <2>1. /\ InputsOf(t, b) = { InputOf(t, b, OwnHeader(own), Garbage, T) : own \in MessageTypes }
                    \union { InputOf(t, b, OwnHeader(t), d, text) :
                                d \in {Garbage, OwnHeader(t)}, text \in A }
          /\ T \in Text /\ A \subseteq Text
      BY <1>3, <1>4 DEF InputsOf
    <2> HIDE DEF T, A
    <2>2. CASE \E own \in MessageTypes : in = InputOf(t, b, OwnHeader(own), Garbage, T)
      <3>1. PICK own \in MessageTypes : in = InputOf(t, b, OwnHeader(own), Garbage, T)
        BY <2>2
      <3> Garbage \in {Garbage, OwnHeader(t)} /\ T \in Text
        BY <2>1
      <3> WITNESS own \in MessageTypes, Garbage \in {Garbage, OwnHeader(t)}, T \in Text
      <3> QED
        BY <3>1
    <2>3. CASE \E d \in {Garbage, OwnHeader(t)}, text \in A : in = InputOf(t, b, OwnHeader(t), d, text)
      <3>1. PICK d \in {Garbage, OwnHeader(t)}, text \in A : in = InputOf(t, b, OwnHeader(t), d, text)
        BY <2>3
      <3> QED
        BY <1>2, <2>1, <3>1
    <2> QED
      BY <1>1, <2>1, <2>2, <2>3
  <1>6. OwnHeader(own).type = own
    BY DEF OwnHeader
  <1> DEFINE h == OwnHeader(own)
             same == /\ StringForType(h.type) = StringForType(t)
                     /\ WordsOf(text) = WordsOf(T)
  <1>7. /\ in.armored = TRUE /\ in.text = text /\ in.header = h /\ in.damaged = d
        /\ in.type = h.type /\ in.brand = b /\ in.genuine = same
    <2>1. in = [armored |-> TRUE, text |-> text, header |-> h, damaged |-> d,
                type |-> h.type, brand |-> b, genuine |-> same]
      BY <1>5, Zenon DEF InputOf
    <2> HIDE DEF h, same
    <2> QED
      BY <2>1
  <1>8. d \in Header /\ h \in Header
    BY <1>2, OwnHeaderType
  <1>9. GoodInput(in)
    <2> HIDE DEF h, same
    <2> QED
      BY <1>7, <1>8 DEF GoodInput, Decodable
  <1> QED
    BY <1>5, <1>6, <1>7, <1>9

LEMMA BinaryInputType ==
    ASSUME NEW in \in BinaryInputs
    PROVE  /\ in.armored = FALSE /\ GoodInput(in)
           /\ \E n \in BinaryLens : in.text = [i \in 1 .. n |-> "-"]
           /\ in.type = in.header.type /\ in.brand = << >>
           /\ in.genuine => /\ in.header.name /\ in.header.bin # 0 /\ in.header.array # 0
                            /\ in.header.type # "other" /\ Len(in.text) >= 23
  <1>1. PICK n \in BinaryLens, h \in BinaryHeaders :
            in = [armored |-> FALSE, text |-> [i \in 1 .. n |-> "-"], header |-> h,
                  damaged |-> Garbage, type |-> h.type, brand |-> << >>,
                  genuine |-> /\ h.name /\ h.bin # 0 /\ h.array # 0 /\ h.type # "other"
                              /\ n >= MinLengthToIdentifyBinary]
    BY DEF BinaryInputs
  <1>2. n \in Nat
    BY ClassifyAssumption
  <1> DEFINE text == [i \in 1 .. n |-> "-"]
  <1>3. text \in [1 .. n -> Piece]
    BY Stops
  <1>4. /\ in.armored = FALSE /\ in.text = text /\ in.header = h /\ in.damaged = Garbage
        /\ in.type = h.type /\ in.brand = << >>
        /\ in.genuine => /\ h.name /\ h.bin # 0 /\ h.array # 0 /\ h.type # "other"
                         /\ n >= MinLengthToIdentifyBinary
    BY <1>1
  <1>5. text = [i \in 1 .. n |-> "-"]
    OBVIOUS
  <1> HIDE DEF text
  <1>6. text \in Text /\ Len(text) = n
    BY <1>2, <1>3, FunctionSeq DEF Text
  <1>7. GoodInput(in)
    BY <1>4, <1>6, OwnHeaderType DEF GoodInput, Decodable
  <1> QED
    BY <1>4, <1>5, <1>6, <1>7 DEF MinLengthToIdentifyBinary

LEMMA InputType ==
    ASSUME NEW in \in ArmoredInputs \union BinaryInputs
    PROVE  GoodInput(in)
  BY ArmoredInputType, BinaryInputType

-----------------------------------------------------------------------------
(* Types, and what a caller with a longer slice is told.                   *)

Good == input \in ArmoredInputs \union BinaryInputs /\ size \in Nat /\ TypeOK

LEMMA PrefixIn ==
    ASSUME NEW text \in Text, NEW n \in 0 .. Len(text)
    PROVE  SubSeq(text, 1, n) \in Text /\ Bytes(SubSeq(text, 1, n)) \in Nat
  <1>1. SubSeq(text, 1, n) \in Text
    BY SubSeqStart DEF Text
  <1> QED
    BY <1>1, BytesType

\* What is said of a text is one of four types of message, or why it is none.
LEMMA SaidType ==
    ASSUME NEW in, Decodable(in), NEW text
    PROVE  \/ IsSaltpackArmoredPrefix(in, text) = NoAnswer("short")
           \/ IsSaltpackArmoredPrefix(in, text) = NoAnswer("not")
           \/ IsSaltpackArmoredPrefix(in, text).type \in MessageTypes
  <1> DEFINE a == IsSaltpackArmoredPrefix(in, text)
             h == HeaderType(in, text)
             b == FrameBrand(Sentence(text), CHOOSE t \in Frames(text) : TRUE)
  <1>1. a \in {NoAnswer("short"), NoAnswer("not")} \/ (a = [type |-> h, brand |-> b] /\ h \in MessageTypes)
    BY SaidIs, Zenon
  <1> HIDE DEF a, h, b
  <1>2. a \in {NoAnswer("short"), NoAnswer("not")} \/ a.type \in MessageTypes
    BY <1>1
  <1> QED
    BY <1>2 DEF a

LEMMA GoodText ==
    ASSUME Good
    PROVE  /\ input.text \in Text /\ Len(input.text) \in Nat /\ Decodable(input)
           /\ got \in Nat /\ got \in 0 .. Len(input.text)
  <1>1. input.text \in Text /\ Decodable(input)
    BY InputType DEF Good, GoodInput
  <1>2. got \in 0 .. Len(input.text)
    BY DEF Good, TypeOK
  <1>3. Len(input.text) \in Nat
    BY <1>1, LenProperties DEF Text
  <1> QED
    BY <1>1, <1>2, <1>3

LEMMA DecoderType ==
    \A type \in MessageTypes :
        /\ DecoderFor(type) \in {"none", "decrypt", "signcrypt open"}
        /\ DecoderFor(type) # "none" => type \in {"encryption", "signcryption"}
        /\ DecoderFor(type) = "decrypt" => type = "encryption"
        /\ DecoderFor(type) = "signcrypt open" => type = "signcryption"
  BY DEF DecoderFor, MessageTypes

LEMMA BinaryPrefixType ==
    ASSUME Good
    PROVE  BinaryPrefix \in BinaryHeaders /\ BinaryPrefix \in Header
  BY InputType, OwnHeaderType DEF Good, GoodInput, BinaryPrefix

\* What Answers sets has the right types.
LEMMA AnswersType ==
    ASSUME NEW armored \in BOOLEAN, NEW a,
           a.type \in MessageTypes \union {"short", "not", "EOF", "source"},
           armored \/ a.brand # << >> => a.type \in MessageTypes,
           Answers(armored, a)
    PROVE  /\ pc' = "done"
           /\ answer'.type \in MessageTypes \union {"none", "short", "not", "EOF", "source"}
           /\ answer'.armored \/ answer'.brand # << >> => answer'.type \in MessageTypes
           /\ decoder' \in {"none", "decrypt", "signcrypt open"}
           /\ decoder' # "none" => answer'.type \in {"encryption", "signcryption"}
  <1>1. answer'.armored = armored /\ answer'.type = a.type /\ answer'.brand = a.brand /\ pc' = "done"
    BY DEF Answers
  <1>2. decoder' = IF a.type \in MessageTypes THEN DecoderFor(a.type) ELSE "none"
    BY DEF Answers
  <1> QED
    BY <1>1, <1>2, DecoderType

LEMMA GoodInit == Init => Good
  <1> SUFFICES ASSUME Init
               PROVE  Good
    OBVIOUS
  <1>1. input \in ArmoredInputs \union BinaryInputs /\ size \in Nat
    BY ClassifyAssumption DEF Init
  <1>2. input.text \in Text
    BY <1>1, InputType DEF GoodInput
  <1>3. Prefix = << >>
    <2>1. Len(input.text) \in Nat /\ 0 \in 0 .. Len(input.text)
      BY <1>2, LenProperties DEF Text
    <2>2. SubSeq(input.text, 1, 0) \in Text /\ Len(SubSeq(input.text, 1, 0)) = 0
      BY <1>2, <2>1, SubSeqStart DEF Text
    <2>3. SubSeq(input.text, 1, 0) = << >>
      BY <2>2, EmptySeq DEF Text
    <2> QED
      BY <2>3 DEF Prefix, PrefixOf, Init
  <1>4. Bytes(Prefix) <= size /\ got \in 0 .. Len(input.text)
    BY <1>1, <1>2, <1>3, BytesOfNone, LenProperties DEF Init, Text
  <1>5. failures \in 0 .. MaxFailures
    BY ClassifyAssumption DEF Init
  <1>6. /\ pc = "armored" /\ decoder = "none" /\ answer.type = "none" /\ answer.armored = FALSE
        /\ answer.brand = << >>
    BY DEF Init
  <1> QED
    BY <1>1, <1>4, <1>5, <1>6 DEF Good, TypeOK

LEMMA GoodFill ==
    ASSUME Good, Fill
    PROVE  Good'
  <1>1. /\ input' = input /\ size' = size /\ failures' = failures /\ pc' = pc
        /\ answer' = answer /\ decoder' = decoder /\ got' = got + 1 /\ got < Len(input.text)
    BY DEF Fill
  <1>2. input.text \in Text /\ Len(input.text) \in Nat /\ got \in Nat
    BY GoodText
  <1>3. got + 1 \in 0 .. Len(input.text)
    BY <1>1, <1>2
  <1> DEFINE b == Bytes(PrefixOf(got + 1))
  <1>4. b \in Nat
    BY <1>2, <1>3, PrefixIn DEF PrefixOf
  <1>5. ~(b > size)
    BY <1>1 DEF Fill, Enough
  <1>6. Bytes(Prefix)' = b
    BY <1>1 DEF Prefix, PrefixOf
  <1> HIDE DEF b
  <1>7. b <= size
    BY <1>4, <1>5 DEF Good
  <1>8. (got \in 0 .. Len(input.text) /\ Bytes(Prefix) <= size)'
    BY <1>1, <1>3, <1>6, <1>7
  <1> QED
    BY <1>1, <1>8 DEF Good, TypeOK

LEMMA FailuresType ==
    ASSUME Good, NEW err \in {"nil", "EOF", "source"}, PeekEnds(err)
    PROVE  /\ failures' \in 0 .. MaxFailures /\ input' = input /\ size' = size /\ got' = got
           /\ (got \in 0 .. Len(input.text) /\ Bytes(Prefix) <= size)'
  <1>1. failures \in 0 .. MaxFailures /\ MaxFailures \in Nat
    BY ClassifyAssumption DEF Good, TypeOK
  <1>2. input' = input /\ size' = size /\ got' = got
    BY DEF PeekEnds
  <1>3. failures' = IF err = "source" THEN failures + 1 ELSE failures
    BY DEF PeekEnds
  <1>4. err = "source" => failures < MaxFailures
    BY DEF PeekEnds
  <1>5. failures' \in 0 .. MaxFailures
    BY <1>1, <1>3, <1>4
  <1> QED
    BY <1>2, <1>5 DEF Good, TypeOK, Prefix, PrefixOf

\* What is said of an armored stream, with an error of the Peek or without.
SaidOf(err) ==
    IF err = "source" \/ got = 0 THEN NoAnswer(err) ELSE IsSaltpackArmoredPrefix(input, Prefix)

LEMMA SaidOfType ==
    ASSUME Good, NEW err \in {"nil", "EOF", "source"},
           SaidOf(err).type \in MessageTypes \/ SaidOf(err).type = "short"
    PROVE  /\ ~(err = "source" \/ got = 0) /\ SaidOf(err) = IsSaltpackArmoredPrefix(input, Prefix)
           /\ SaidOf(err).brand # << >> => SaidOf(err).type \in MessageTypes
  <1>1. Decodable(input)
    BY GoodText
  <1>2. \A why : NoAnswer(why).type = why /\ NoAnswer(why).brand = << >>
    BY DEF NoAnswer
  <1>3. err \notin MessageTypes /\ err # "short"
    BY DEF MessageTypes
  <1>4. ~(err = "source" \/ got = 0) /\ SaidOf(err) = IsSaltpackArmoredPrefix(input, Prefix)
    BY <1>2, <1>3 DEF SaidOf
  <1>5. IsSaltpackArmoredPrefix(input, Prefix).brand # << >> =>
            IsSaltpackArmoredPrefix(input, Prefix).type \in MessageTypes
    BY <1>1, <1>2, SaidType
  <1> QED
    BY <1>4, <1>5

LEMMA ArmoredStep ==
    ASSUME NEW err, IsSaltpackArmored(err)
    PROVE  /\ PeekEnds(err) /\ pc = "armored"
           /\ \/ /\ SaidOf(err).type \in MessageTypes \/ SaidOf(err).type = "short"
                 /\ Answers(SaidOf(err).type # "short", SaidOf(err))
              \/ pc' = "binary" /\ answer' = answer /\ decoder' = decoder
  BY DEF IsSaltpackArmored, SaidOf

LEMMA GoodArmored ==
    ASSUME Good, NEW err \in {"nil", "EOF", "source"}, IsSaltpackArmored(err)
    PROVE  Good'
  <1> DEFINE a == SaidOf(err)
  <1>1. /\ failures' \in 0 .. MaxFailures /\ input' = input /\ size' = size /\ got' = got
        /\ (got \in 0 .. Len(input.text) /\ Bytes(Prefix) <= size)'
    BY ArmoredStep, FailuresType
  <1>2. \/ /\ pc' = "done"
           /\ answer'.type \in MessageTypes \union {"none", "short", "not", "EOF", "source"}
           /\ answer'.armored \/ answer'.brand # << >> => answer'.type \in MessageTypes
           /\ decoder' \in {"none", "decrypt", "signcrypt open"}
           /\ decoder' # "none" => answer'.type \in {"encryption", "signcryption"}
        \/ pc' = "binary" /\ answer' = answer /\ decoder' = decoder
    <2>1. CASE /\ a.type \in MessageTypes \/ a.type = "short"
               /\ Answers(a.type # "short", a)
      <3>1. a.brand # << >> => a.type \in MessageTypes
        BY <2>1, SaidOfType
      <3> DEFINE armored == a.type # "short"
      <3>2. armored \in BOOLEAN /\ (armored => a.type \in MessageTypes) /\ Answers(armored, a)
        BY <2>1
      <3> HIDE DEF a, armored
      <3> QED
        BY <2>1, <3>1, <3>2, AnswersType
    <2> QED
      BY <2>1, ArmoredStep
  <1> QED
    BY <1>1, <1>2 DEF Good, TypeOK

LEMMA GoodBinary ==
    ASSUME Good, NEW err \in {"nil", "EOF", "source"}, IsSaltpackBinary(err)
    PROVE  Good' /\ answer'.armored = FALSE
  <1> DEFINE n == MinLengthToIdentifyBinary
             why == IF size < n THEN "short"
                    ELSE IF err # "nil" THEN err
                    ELSE IsSaltpackBinarySlice(BinaryPrefix, n)
             a == NoAnswer(why)
  <1>1. /\ failures' \in 0 .. MaxFailures /\ input' = input /\ size' = size /\ got' = got
        /\ (got \in 0 .. Len(input.text) /\ Bytes(Prefix) <= size)'
    BY FailuresType DEF IsSaltpackBinary
  <1>2. why \in MessageTypes \union {"short", "not", "EOF", "source"}
    <2>1. n \in Nat
      BY DEF MinLengthToIdentifyBinary
    <2>2. IsSaltpackBinarySlice(BinaryPrefix, n) \in MessageTypes \union {"short", "not"}
      BY <2>1, BinaryPrefixType, SliceType
    <2> QED
      BY <2>2
  <1>3. Answers(FALSE, a)
    BY DEF IsSaltpackBinary
  <1> HIDE DEF why
  <1>4. a.type = why /\ a.brand = << >>
    BY DEF NoAnswer
  <1> HIDE DEF a
  <1>5. /\ pc' = "done"
        /\ answer'.type \in MessageTypes \union {"none", "short", "not", "EOF", "source"}
        /\ answer'.armored \/ answer'.brand # << >> => answer'.type \in MessageTypes
        /\ decoder' \in {"none", "decrypt", "signcrypt open"}
        /\ decoder' # "none" => answer'.type \in {"encryption", "signcryption"}
    BY <1>2, <1>3, <1>4, AnswersType
  <1>6. answer'.armored = FALSE
    BY <1>3 DEF Answers
  <1> QED
    BY <1>1, <1>5, <1>6 DEF Good, TypeOK

LEMMA GoodNext ==
    ASSUME Good, [Next]_vars
    PROVE  Good'
  <1>1. CASE Fill
    BY <1>1, GoodFill
  <1>2. CASE \E err \in {"nil", "EOF", "source"} : IsSaltpackArmored(err) \/ IsSaltpackBinary(err)
    BY <1>2, GoodArmored, GoodBinary
  <1>3. CASE UNCHANGED vars
    BY <1>3 DEF vars, Good, TypeOK, Prefix, PrefixOf
  <1> QED
    BY <1>1, <1>2, <1>3 DEF Next

LEMMA GoodAlways == Spec => []Good
  <1>1. Good /\ [Next]_vars => Good'
    BY GoodNext
  <1> QED
    BY <1>1, GoodInit, PTL DEF Spec

\* The types, for every brand, stray piece, length and size of the buffer: an
\* answer of ClassifyStream says "armored", and a brand, only with a type of
\* message, a decoder is made only for encryption and signcryption, and Peek
\* never puts more into the buffer than it holds.
THEOREM TypeCorrect == Spec => []TypeOK
  <1>1. Good => TypeOK
    BY DEF Good
  <1> QED
    BY <1>1, GoodAlways, PTL

\* A longer slice.
LEMMA SlicesStand ==
    ASSUME Good, got < Len(input.text)
    PROVE  /\ ArmoredSlice(got) \in {"short", ArmoredSlice(got + 1)}
           /\ BinarySlice(got) \in {"short", BinarySlice(got + 1)}
  <1> DEFINE s == PrefixOf(got)
             t == PrefixOf(got + 1)
             p == input.text[got + 1]
  <1>1. input.text \in Text /\ Len(input.text) \in Nat /\ got \in Nat
    BY GoodText
  <1>2. t = Append(s, p) /\ s \in Text /\ p \in Piece
    BY <1>1, SubSeqNext DEF PrefixOf, Text
  <1>3. ArmoredSlice(got) \in {"short", ArmoredSlice(got + 1)}
    <2> HIDE DEF s, t, p
    <2>1. \/ IsSaltpackArmoredPrefix(input, s).type = "short"
          \/ IsSaltpackArmoredPrefix(input, t) = IsSaltpackArmoredPrefix(input, s)
      BY <1>2, SaidStands
    <2> QED
      BY <2>1 DEF ArmoredSlice, s, t
  <1>4. BinarySlice(got) \in {"short", BinarySlice(got + 1)}
    <2> DEFINE h == BinaryPrefix
               m == Bytes(s)
               n == Bytes(t)
    <2>1. m \in Nat /\ n \in Nat /\ m < n
      <3> DEFINE w == Weight(p)
      <3> HIDE DEF s, t, p
      <3>1. m \in Nat /\ w \in Nat /\ w >= 1 /\ n = m + w
        BY <1>2, BytesMore
      <3> HIDE DEF m, n, w
      <3> QED
        BY <3>1
    <2>2. h \in BinaryHeaders
      BY BinaryPrefixType
    <2> HIDE DEF h, m, n, s, t
    <2>3. IsSaltpackBinarySlice(h, m) \in {"short", IsSaltpackBinarySlice(h, n)}
      BY <2>1, <2>2 DEF IsSaltpackBinarySlice, BinaryHeaders, MinLengthToIdentifyBinary
    <2> QED
      BY <2>3 DEF BinarySlice, h, m, n, s, t
  <1> QED
    BY <1>3, <1>4

\* What IsSaltpackArmoredPrefix and IsSaltpackBinarySlice say of the beginning
\* of a stream is not taken back when more of it is seen, whatever the stream
\* holds: only ErrShortSliceOrBuffer is an answer to ask again after.
THEOREM AnswersStand == Spec => AnswerStands
  <1> DEFINE Stands == /\ ArmoredSlice(got) \in {"short", ArmoredSlice(got')}
                       /\ BinarySlice(got) \in {"short", BinarySlice(got')}
  <1>1. Good /\ [Next]_vars => Stands \/ UNCHANGED vars
    <2> SUFFICES ASSUME Good, [Next]_vars
                 PROVE  Stands \/ UNCHANGED vars
      OBVIOUS
    <2>1. CASE Fill
      <3>1. got' = got + 1 /\ got < Len(input.text)
        BY <2>1 DEF Fill
      <3> QED
        BY <3>1, SlicesStand
    <2>2. CASE \E err \in {"nil", "EOF", "source"} : IsSaltpackArmored(err) \/ IsSaltpackBinary(err)
      <3>1. got' = got
        BY <2>2 DEF IsSaltpackArmored, IsSaltpackBinary, PeekEnds
      <3> QED
        BY <3>1
    <2> QED
      BY <2>1, <2>2 DEF Next
  <1>2. Good /\ [Next]_vars => [Stands]_vars
    BY <1>1
  <1> QED
    BY <1>2, GoodAlways, PTL DEF Spec, AnswerStands

-----------------------------------------------------------------------------
(* The decoder.                                                            *)

\* The beginning of a text, once it has a dot, has its sentence.
LEMMA SentenceOfWhole ==
    ASSUME NEW text \in Text, NEW n \in 0 .. Len(text), HasDot(SubSeq(text, 1, n))
    PROVE  Sentence(SubSeq(text, 1, n)) = Sentence(text)
  <1> DEFINE s == SubSeq(text, 1, n)
             L == Len(text)
  <1>1. s \in Text /\ Len(s) = n /\ n \in 0 .. L /\ L \in Nat /\ \A i \in 1 .. n : s[i] = text[i]
    BY SubSeqStart, LenProperties DEF Text
  <1>2. PICK k \in 0 .. Len(s) : EndsAt(s, {Dot}, k) /\ Sentence(s) = SubSeq(s, 1, k)
    BY <1>1, Stops, BeforeIs DEF Sentence
  <1>3. HasDot(s)
    OBVIOUS
  <1> HIDE DEF s, L
  <1>4. k \in 0 .. n /\ k # n
    BY <1>1, <1>2, <1>3 DEF HasDot, HasStop, EndsAt
  <1>5. k < n /\ k \in Nat /\ k \in 0 .. L /\ k < L /\ k + 1 \in 1 .. n /\ (\A i \in 1 .. k : i \in 1 .. n)
    BY <1>1, <1>4
  <1>6. EndsAt(text, {Dot}, k)
    <2>1. \A i \in 1 .. k : text[i] \notin {Dot}
      BY <1>1, <1>2, <1>5 DEF EndsAt
    <2>2. text[k + 1] \in {Dot}
      BY <1>1, <1>2, <1>5 DEF EndsAt
    <2> QED
      BY <1>5, <2>1, <2>2 DEF EndsAt, L
  <1>7. Sentence(text) = SubSeq(text, 1, k)
    BY <1>6, Stops, BeforeTo DEF Sentence
  <1>8. SubSeq(s, 1, k) = SubSeq(text, 1, k)
    <2> DEFINE a == SubSeq(s, 1, k)
               b == SubSeq(text, 1, k)
    <2>1. a \in Text /\ Len(a) = k /\ \A i \in 1 .. k : a[i] = s[i]
      BY <1>1, <1>2, SubSeqStart DEF Text
    <2>2. b \in Text /\ Len(b) = k /\ \A i \in 1 .. k : b[i] = text[i]
      BY <1>5, SubSeqStart DEF L, Text
    <2> HIDE DEF a, b
    <2>3. a = b
      BY <1>1, <1>5, <2>1, <2>2, SeqEqual DEF Text
    <2> QED
      BY <2>3 DEF a, b
  <1> QED
    BY <1>2, <1>7, <1>8 DEF s

\* All frames that the sentence may have been are read alike.
LEMMA FramesAgree ==
    ASSUME NEW text \in Text, NEW a \in Frames(text), NEW b \in Frames(text)
    PROVE  FrameBrand(Sentence(text), a) = FrameBrand(Sentence(text), b)
  <1>1. Sentence(text) \in Text
    BY SentenceType
  <1>2. /\ a \in MessageTypes /\ IsFrame(WordsOf(Sentence(text)), a)
        /\ b \in MessageTypes /\ IsFrame(WordsOf(Sentence(text)), b)
    BY FramesAre
  <1> QED
    BY <1>1, <1>2, FrameBrandIs

LEMMA SaidFrame ==
    ASSUME NEW in, NEW text \in Text, IsSaltpackArmoredPrefix(in, text).type \in MessageTypes
    PROVE  /\ HasDot(text)
           /\ IsSaltpackArmoredPrefix(in, text).brand =
                FrameBrand(Sentence(text), IsSaltpackArmoredPrefix(in, text).type)
  <1> DEFINE a == IsSaltpackArmoredPrefix(in, text)
             h == HeaderType(in, text)
             F == Frames(text)
             c == CHOOSE t \in F : TRUE
             s == Sentence(text)
  <1>1. \A why : NoAnswer(why).type = why
    BY DEF NoAnswer
  <1>2. "short" \notin MessageTypes /\ "not" \notin MessageTypes
    BY DEF MessageTypes
  <1>3. F # {} /\ Fits(h, F) /\ a = [type |-> h, brand |-> FrameBrand(s, c)]
    BY <1>1, <1>2, SaidIs
  <1>4. c \in F
    BY <1>3
  <1>5. a.type = h /\ a.brand = FrameBrand(s, c)
    <2> DEFINE b == FrameBrand(s, c)
    <2>1. a = [type |-> h, brand |-> b]
      BY <1>3
    <2> HIDE DEF a, b, h
    <2>2. a.type = h /\ a.brand = b
      BY <2>1
    <2> QED
      BY <2>2 DEF b
  <1>6. PICK t \in F : StringForType(h) = StringForType(t)
    BY <1>3 DEF Fits, FrameFits
  <1>7. FrameBrand(s, h) = FrameBrand(s, t)
    BY <1>6 DEF FrameBrand
  <1>8. FrameBrand(s, t) = FrameBrand(s, c)
    BY <1>4, <1>6, FramesAgree
  <1>9. HasDot(text)
    BY <1>3, NoDotNoFrame
  <1> QED
    BY <1>5, <1>7, <1>8, <1>9

LEMMA RightArmored ==
    ASSUME Good, RightDecoder, NEW err \in {"nil", "EOF", "source"}, IsSaltpackArmored(err)
    PROVE  RightDecoder'
  <1> DEFINE a == SaidOf(err)
             armored == a.type # "short"
  <1>1. input' = input
    BY ArmoredStep, FailuresType
  <1>2. CASE answer' = answer /\ decoder' = decoder
    BY <1>1, <1>2 DEF RightDecoder
  <1>3. CASE a.type \in MessageTypes /\ Answers(armored, a)
    <2>1. a = IsSaltpackArmoredPrefix(input, Prefix)
      BY <1>3, SaidOfType
    <2>2. input.text \in Text /\ got \in 0 .. Len(input.text)
      BY GoodText
    <2>3. Prefix = SubSeq(input.text, 1, got) /\ Prefix \in Text
      BY <2>2, PrefixIn DEF Prefix, PrefixOf
    <2>4. HasDot(Prefix) /\ a.brand = FrameBrand(Sentence(Prefix), a.type)
      BY <1>3, <2>1, <2>3, SaidFrame
    <2>5. Sentence(Prefix) = Sentence(input.text)
      BY <2>2, <2>3, <2>4, SentenceOfWhole
    <2>6. answer'.brand = a.brand /\ decoder' = DecoderFor(a.type)
      BY <1>3 DEF Answers
    <2>7. /\ decoder' = "decrypt" => a.type = "encryption"
          /\ decoder' = "signcrypt open" => a.type = "signcryption"
          /\ decoder' \in {"none", "decrypt", "signcrypt open"}
      BY <1>3, <2>6, DecoderType
    <2> DEFINE type == IF decoder' = "decrypt" THEN "encryption" ELSE "signcryption"
    <2> DEFINE s == Sentence(input.text)
    <2>8. decoder' # "none" => FrameBrand(s, type) = answer'.brand
      BY <2>4, <2>5, <2>6, <2>7
    <2>9. decoder' # "none" =>
            ParseFrame(s, type) = IF TooLong(s, answer'.brand) THEN <<"bad">>
                                  ELSE answer'.brand
      BY <2>8 DEF ParseFrame
    <2> QED
      BY <1>1, <2>9 DEF RightDecoder
  <1>4. CASE a.type = "short" /\ Answers(armored, a)
    <2>1. "short" \notin MessageTypes
      BY DEF MessageTypes
    <2>2. decoder' = "none"
      BY <1>4, <2>1 DEF Answers
    <2> QED
      BY <2>2 DEF RightDecoder
  <1> QED
    BY <1>2, <1>3, <1>4, ArmoredStep

\* A decoder that ClassifyEncryptedStreamAndMakeDecoder makes for an armored
\* stream finds the frame that it wants, with the brand that was found when the
\* stream was classified, whatever the stream holds and wherever the buffer
\* ended: the classification and parseFrame agree, but for the frames and the
\* brands over the limits that only parseFrame has.  Of those the decoder says
\* that they are bad.
THEOREM DecoderIsRight == Spec => []RightDecoder
  <1>1. Init => RightDecoder
    BY DEF Init, RightDecoder
  <1>2. Good /\ RightDecoder /\ [Next]_vars => RightDecoder'
    <2> SUFFICES ASSUME Good, RightDecoder, [Next]_vars
                 PROVE  RightDecoder'
      OBVIOUS
    <2>1. CASE Fill
      BY <2>1 DEF Fill, RightDecoder
    <2>2. ASSUME NEW err \in {"nil", "EOF", "source"}, IsSaltpackArmored(err)
          PROVE  RightDecoder'
      BY <2>2, RightArmored
    <2>3. ASSUME NEW err \in {"nil", "EOF", "source"}, IsSaltpackBinary(err)
          PROVE  RightDecoder'
      <3>1. answer'.armored = FALSE
        BY <2>3, GoodBinary
      <3> QED
        BY <3>1 DEF RightDecoder
    <2>4. CASE UNCHANGED vars
      BY <2>4 DEF vars, RightDecoder
    <2> QED
      BY <2>1, <2>2, <2>3, <2>4 DEF Next
  <1> QED
    BY <1>1, <1>2, GoodAlways, PTL DEF Spec

-----------------------------------------------------------------------------
(* Texts with the same words: they differ in white space.                  *)

LEMMA WordsShorter ==
    ASSUME NEW text \in Text, NEW p \in Piece
    PROVE  \/ WordsOf(Append(text, p)) = WordsOf(text)
           \/ Shorter(WordsOf(text), WordsOf(Append(text, p)))
  <1> DEFINE w == WordsOf(text)
             v == WordsOf(Append(text, p))
  <1>1. Append(text, p) \in Text
    BY AppendFacts DEF Text
  <1>2. w \in Words /\ v \in Words
    BY <1>1, WordsType
  <1>3. LastOf(text) # Space => w # << >>
    BY WordsNotEmpty
  <1>4. \/ p = Space /\ v = w
        \/ v = Append(w, <<p>>)
        \/ LastOf(text) # Space /\ v = [w EXCEPT ![Len(w)] = Append(@, p)]
    BY WordsGrow
  <1> HIDE DEF w, v
  <1>5. CASE v = Append(w, <<p>>)
    <2>1. <<p>> \in Seq(Piece)
      OBVIOUS
    <2>2. Shorter(w, v)
      BY <1>5, <2>1, ShorterByWord
    <2> QED
      BY <2>2 DEF w, v
  <1>6. CASE LastOf(text) # Space /\ v = [w EXCEPT ![Len(w)] = Append(@, p)]
    <2> DEFINE n == Len(w)
               u == w[n]
    <2>1. n \in Nat /\ n >= 1
      BY <1>2, <1>3, <1>6, LenProperties, EmptySeq DEF Words
    <2>2. n \in 1 .. n
      BY <2>1
    <2>3. u \in Seq(Piece)
      BY <1>2, <2>2, ElementOfSeq DEF Words
    <2>4. v = [w EXCEPT ![Len(w)] = Append(u, p)] /\ Len(w) >= 1 /\ w[Len(w)] = u
      BY <1>6, <2>1
    <2> HIDE DEF n, u
    <2>5. Shorter(w, v)
      BY <2>3, <2>4, ShorterByPiece
    <2> QED
      BY <2>5 DEF w, v
  <1> QED
    BY <1>4, <1>5, <1>6 DEF w, v

\* Induction downwards.
LEMMA DownTo ==
    ASSUME NEW N \in Nat, NEW T, N \in T,
           \A n \in 0 .. N : n < N /\ n + 1 \in T => n \in T
    PROVE  \A n \in 0 .. N : n \in T
  <1> DEFINE U == {k \in Nat : k <= N => N - k \in T}
  <1>1. 0 \in U
    OBVIOUS
  <1>2. ASSUME NEW k \in Nat, k \in U
        PROVE  k + 1 \in U
    <2>1. SUFFICES ASSUME k + 1 <= N
                   PROVE  N - (k + 1) \in T
      OBVIOUS
    <2> DEFINE n == N - (k + 1)
    <2>2. n \in 0 .. N /\ n < N /\ n + 1 = N - k /\ k <= N
      BY <2>1
    <2>3. N - k \in T
      BY <1>2, <2>2
    <2> HIDE DEF n
    <2>4. n \in T
      BY <2>2, <2>3
    <2> QED
      BY <2>4 DEF n
  <1> HIDE DEF U
  <1>3. \A k \in Nat : k \in U
    BY <1>1, <1>2, NatInduct
  <1>4. ASSUME NEW n \in 0 .. N
        PROVE  n \in T
    <2>1. N - n \in Nat /\ N - n <= N /\ N - (N - n) = n
      OBVIOUS
    <2>2. N - n \in U
      BY <1>3, <2>1
    <2> QED
      BY <2>1, <2>2 DEF U
  <1> QED
    BY <1>4

\* The words of a beginning of a text begin the words of the text.
LEMMA PrefixWords ==
    ASSUME NEW text \in Text, NEW n \in 0 .. Len(text)
    PROVE  Begins(WordsOf(SubSeq(text, 1, n)), WordsOf(text))
  <1> DEFINE L == Len(text)
             W == WordsOf(text)
             T == {k \in 0 .. L : Begins(WordsOf(SubSeq(text, 1, k)), W)}
  <1>1. L \in Nat /\ L \in 0 .. L
    BY LenProperties DEF Text
  <1>2. W \in Words
    BY WordsType
  <1>3. L \in T
    <2>1. SubSeq(text, 1, L) = text
      BY WholeSubSeq DEF Text
    <2>2. Begins(W, W)
      <3> DEFINE m == Len(W)
      <3>1. m \in Nat
        BY <1>2, LenProperties DEF Words
      <3>2. W = << >> \/ m \in 1 .. m
        BY <1>2, <3>1, EmptySeq DEF Words
      <3>3. W = << >> \/ W[m] \in Seq(Piece)
        BY <1>2, <3>2, ElementOfSeq DEF Words
      <3>4. W = << >> \/ IsPrefix(W[m], W[m])
        BY <3>3, PrefixSelf
      <3>5. m <= m
        BY <3>1
      <3> HIDE DEF W, m
      <3> QED
        BY <1>2, <3>4, <3>5, BeginsIs DEF m
    <2> HIDE DEF W
    <2> QED
      BY <1>1, <2>1, <2>2 DEF W
  <1>4. ASSUME NEW k \in 0 .. L, k < L, k + 1 \in T
        PROVE  k \in T
    <2> DEFINE s == SubSeq(text, 1, k)
               p == text[k + 1]
    <2>1. SubSeq(text, 1, k + 1) = Append(s, p) /\ s \in Text /\ p \in Piece
      BY <1>4, SubSeqNext DEF Text
    <2>2. Append(s, p) \in Text
      BY <2>1, AppendFacts DEF Text
    <2>3. Begins(WordsOf(Append(s, p)), W)
      BY <1>4, <2>1
    <2> HIDE DEF s, p, W
    <2>4. WordsOf(s) \in Words /\ WordsOf(Append(s, p)) \in Words
      BY <2>1, <2>2, WordsType
    <2>5. WordsOf(Append(s, p)) = WordsOf(s) \/ Shorter(WordsOf(s), WordsOf(Append(s, p)))
      BY <2>1, WordsShorter
    <2>6. Begins(WordsOf(s), W)
      BY <1>2, <2>3, <2>4, <2>5, BeginsBack
    <2> QED
      BY <2>6 DEF s
  <1> HIDE DEF T, L
  <1>5. \A k \in 0 .. L : k \in T
    BY <1>1, <1>3, <1>4, DownTo
  <1> QED
    BY <1>5 DEF T, L

\* A text with a dot is its sentence, the dot, and what is behind it.
LEMMA SplitAtDot ==
    ASSUME NEW text \in Text, HasDot(text)
    PROVE  /\ Len(Sentence(text)) + 1 \in 0 .. Len(text)
           /\ SubSeq(text, 1, Len(Sentence(text)) + 1) = Append(Sentence(text), Dot)
           /\ text = Append(Sentence(text), Dot) \o AfterDot(text)
           /\ AfterDot(text) \in Text
  <1> DEFINE k == Len(Sentence(text))
             L == Len(text)
             s == Sentence(text)
  <1>1. s \in Text /\ L \in Nat
    BY SentenceType, LenProperties DEF Text
  <1>2. k \in 0 .. L - 1 /\ text[k + 1] = Dot /\ \A i \in 1 .. k : s[i] = text[i]
    BY SentenceShort
  <1>3. k \in Nat /\ k < L /\ k \in 0 .. L /\ k + 1 \in 0 .. L
    BY <1>1, <1>2
  <1> DEFINE m == k + 1
  <1>4. SubSeq(text, 1, k) = s
    <2> DEFINE a == SubSeq(text, 1, k)
    <2>1. a \in Text /\ Len(a) = k /\ \A i \in 1 .. k : a[i] = text[i]
      BY <1>3, SubSeqStart DEF Text
    <2>2. Len(s) = k
      OBVIOUS
    <2> HIDE DEF a, k, s
    <2>3. a = s
      BY <1>1, <1>2, <2>1, <2>2, SeqEqual DEF Text
    <2> QED
      BY <2>3 DEF a
  <1>5. SubSeq(text, 1, k + 1) = Append(s, Dot)
    <2> HIDE DEF k, s
    <2>1. SubSeq(text, 1, k + 1) = Append(SubSeq(text, 1, k), text[k + 1])
      BY <1>3, SubSeqNext DEF Text, L
    <2> QED
      BY <1>2, <1>4, <2>1
  <1>6. m \in 0 .. L /\ m + 1 = k + 2
    BY <1>3
  <1>7. SubSeq(text, m + 1, L) = AfterDot(text)
    BY <1>6 DEF AfterDot
  <1>8. SubSeq(text, 1, m) \o SubSeq(text, m + 1, L) = text
    <2> HIDE DEF m
    <2> QED
      BY <1>6, SplitAt DEF Text
  <1>9. SubSeq(text, m + 1, L) \in Text
    <2> HIDE DEF m
    <2> QED
      BY <1>6, PartType
  <1> QED
    BY <1>3, <1>5, <1>7, <1>8, <1>9

\* No word has a dot in it.
NoDotIn(words) == \A i \in 1 .. Len(words) : ~HasDot(words[i])

LEMMA DotInMore ==
    ASSUME NEW w \in Text, NEW p \in Piece
    PROVE  HasDot(Append(w, p)) <=> HasDot(w) \/ p = Dot
  BY SentenceMore

LEMMA DotInOne ==
    ASSUME NEW p \in Piece
    PROVE  <<p>> \in Text /\ Len(<<p>>) = 1 /\ <<p>>[1] = p /\ (HasDot(<<p>>) <=> p = Dot)
  <1>1. <<p>> \in Text /\ Len(<<p>>) = 1 /\ <<p>>[1] = p
    BY DEF Text
  <1> DEFINE w == <<p>>
  <1>2. w \in Text /\ Len(w) = 1 /\ w[1] = p
    BY <1>1
  <1> HIDE DEF w
  <1>3. HasStop(w, {Dot}) <=> p = Dot
    BY <1>2 DEF HasStop
  <1> QED
    BY <1>1, <1>3 DEF w, HasDot

\* How the words of a text change when it gets a piece that is no space.
LEMMA WordsGrowBy ==
    ASSUME NEW text \in Text, NEW p \in Piece, p # Space
    PROVE  \E w \in Text :
            LET W == WordsOf(text)
                V == WordsOf(Append(text, p))
            IN  /\ V # << >> /\ V[Len(V)] = Append(w, p)
                /\ \A i \in 1 .. Len(V) - 1 : V[i] = W[i]
                /\ \/ w = << >> /\ LastOf(text) = Space /\ Len(V) = Len(W) + 1
                   \/ /\ w # << >> /\ LastOf(text) # Space /\ Len(V) = Len(W)
                      /\ w = W[Len(W)]
  <1> DEFINE W == WordsOf(text)
             V == WordsOf(Append(text, p))
             n == Len(W)
             m == Len(V)
  <1>1. Append(text, p) \in Text
    BY AppendFacts DEF Text
  <1>2. W \in Words /\ V \in Words /\ n \in Nat /\ m \in Nat
    BY <1>1, WordsType, LenProperties DEF Words
  <1>3. (LastOf(text) # Space => W # << >>) /\ \A i \in 1 .. n : W[i] # << >>
    BY WordsNotEmpty
  <1>4. \/ LastOf(text) = Space /\ V = Append(W, <<p>>)
        \/ LastOf(text) # Space /\ V = [W EXCEPT ![n] = Append(@, p)]
    BY WordsGrow
  <1> HIDE DEF W, V, n, m
  <1>5. CASE LastOf(text) = Space /\ V = Append(W, <<p>>)
    <2>1. <<p>> \in Seq(Piece) /\ Append(<< >>, p) = <<p>> /\ << >> \in Text
      BY DEF Text
    <2> DEFINE o == <<p>>
    <2>2. o \in Seq(Piece) /\ V = Append(W, o)
      BY <1>5, <2>1
    <2> HIDE DEF o
    <2>3. m = n + 1 /\ V[n + 1] = o /\ \A i \in 1 .. n : V[i] = W[i]
      BY <1>2, <2>2, AppendFacts DEF Words, n, m
    <2>4. m \in 1 .. m /\ m - 1 = n
      BY <1>2, <2>3
    <2>5. V # << >>
      BY <1>2, <2>4, EmptySeq DEF m
    <2> QED
      BY <1>5, <2>1, <2>3, <2>4, <2>5 DEF o, W, V, n, m
  <1>6. CASE LastOf(text) # Space /\ V = [W EXCEPT ![n] = Append(@, p)]
    <2> DEFINE w == W[n]
    <2>1. n \in 1 .. n
      BY <1>2, <1>3, <1>6, EmptySeq DEF Words, n
    <2>2. w \in Text /\ w # << >>
      BY <1>2, <1>3, <2>1, ElementOfSeq DEF Words, Text, n
    <2>3. DOMAIN W = 1 .. n
      BY <1>2, LenProperties DEF Words, n
    <2>4. DOMAIN V = 1 .. n /\ V[n] = Append(w, p) /\ \A i \in 1 .. n - 1 : V[i] = W[i]
      BY <1>2, <1>6, <2>1, <2>3
    <2>5. m = n
      BY <1>2, <2>4, LenProperties DEF Words, m
    <2>6. V # << >>
      BY <1>2, <2>1, <2>5, EmptySeq DEF m
    <2> HIDE DEF w
    <2> QED
      BY <1>6, <2>2, <2>4, <2>5, <2>6 DEF w, W, V, n, m
  <1> QED
    BY <1>4, <1>5, <1>6

\* Words of a text without a dot have none.
LEMMA WordsHaveNoDot ==
    ASSUME NEW text \in Text, ~HasDot(text)
    PROVE  NoDotIn(WordsOf(text))
  <1> DEFINE T == {s \in Text : ~HasDot(s) => NoDotIn(WordsOf(s))}
  <1>1. << >> \in T
    <2>1. << >> \in Text /\ Len(<< >>) = 0
      BY DEF Text
    <2>2. NoDotIn(WordsOf(<< >>))
      BY <2>1, WordsOfNone DEF NoDotIn
    <2> QED
      BY <2>1, <2>2
  <1>2. ASSUME NEW s \in Text, NEW p \in Piece, s \in T
        PROVE  Append(s, p) \in T
    <2> DEFINE t == Append(s, p)
               W == WordsOf(s)
               V == WordsOf(t)
    <2>1. t \in Text
      BY AppendFacts DEF Text
    <2>2. HasDot(t) <=> HasDot(s) \/ p = Dot
      BY SentenceMore
    <2>3. SUFFICES ASSUME ~HasDot(t)
                   PROVE  NoDotIn(V)
      BY <2>1
    <2>4. NoDotIn(W) /\ p # Dot
      BY <1>2, <2>2, <2>3
    <2>5. W \in Words /\ V \in Words /\ Len(W) \in Nat /\ Len(V) \in Nat
      BY <2>1, WordsType, LenProperties DEF Words
    <2>6. CASE p = Space
      <3>1. V = W
        BY <2>6, WordsGrow
      <3> QED
        BY <2>4, <3>1
    <2>7. CASE p # Space
      <3>1. PICK w \in Text :
                /\ V[Len(V)] = Append(w, p) /\ \A i \in 1 .. Len(V) - 1 : V[i] = W[i]
                /\ \/ w = << >> /\ Len(V) = Len(W) + 1
                   \/ w # << >> /\ Len(V) = Len(W) /\ w = W[Len(W)]
                /\ V # << >>
        BY <2>7, WordsGrowBy
      <3> HIDE DEF V, W, t
      <3>2. Len(V) >= 1
        BY <2>5, <3>1, EmptySeq DEF Words
      <3>3. ~HasDot(w)
        <4>1. CASE w = << >>
          BY <4>1, NoStopInNone DEF HasDot
        <4>2. CASE w # << >>
          <5>1. Len(W) \in 1 .. Len(W)
            BY <2>5, <3>1, <3>2, <4>2
          <5> QED
            BY <2>4, <3>1, <4>2, <5>1 DEF NoDotIn
        <4> QED
          BY <4>1, <4>2
      <3>4. ~HasDot(V[Len(V)])
        BY <2>4, <3>1, <3>3, DotInMore
      <3>5. ASSUME NEW i \in 1 .. Len(V) - 1
            PROVE  ~HasDot(V[i])
        <4>1. i \in 1 .. Len(W)
          BY <2>5, <3>1
        <4> QED
          BY <2>4, <3>1, <3>5, <4>1 DEF NoDotIn
      <3>6. \A i \in 1 .. Len(V) : i = Len(V) \/ i \in 1 .. Len(V) - 1
        BY <2>5
      <3> QED
        BY <3>4, <3>5, <3>6 DEF NoDotIn
    <2> QED
      BY <2>6, <2>7
  <1> HIDE DEF T
  <1>3. \A s \in Text : s \in T
    BY <1>1, <1>2, SeqInduct DEF Text
  <1> QED
    BY <1>3 DEF T

\* The words, cut behind their first dot, are those of U.
CutAtDot(words, U) ==
    /\ U # << >> /\ Len(U) <= Len(words)
    /\ \A i \in 1 .. Len(U) - 1 : U[i] = words[i] /\ ~HasDot(words[i])
    /\ U[Len(U)] \in Text /\ words[Len(U)] \in Text
    /\ \E w \in Text : U[Len(U)] = Append(w, Dot) /\ ~HasDot(w)
    /\ IsPrefix(U[Len(U)], words[Len(U)])

LEMMA SentenceCuts ==
    ASSUME NEW text \in Text, HasDot(text)
    PROVE  CutAtDot(WordsOf(text), WordsOf(Append(Sentence(text), Dot)))
  <1> DEFINE s == Sentence(text)
             t == Append(s, Dot)
             W == WordsOf(text)
             V == WordsOf(s)
             U == WordsOf(t)
             m == Len(U)
  <1>1. s \in Text /\ ~HasDot(s) /\ t \in Text /\ Dot \in Piece /\ Dot # Space
    BY SentenceType, Stops, AppendFacts DEF Text, Dot, Space
  <1>2. Begins(U, W)
    <2> DEFINE k == Len(s) + 1
    <2>1. k \in 0 .. Len(text) /\ SubSeq(text, 1, k) = t
      BY SplitAtDot
    <2> HIDE DEF k
    <2> QED
      BY <2>1, PrefixWords
  <1>3. NoDotIn(V)
    BY <1>1, WordsHaveNoDot
  <1>4. U \in Words /\ W \in Words /\ V \in Words
    BY <1>1, WordsType
  <1>5. PICK w \in Text :
            /\ U # << >> /\ U[m] = Append(w, Dot)
            /\ \A i \in 1 .. m - 1 : U[i] = V[i]
            /\ \/ w = << >> /\ m = Len(V) + 1
               \/ w # << >> /\ m = Len(V) /\ w = V[Len(V)]
    BY <1>1, WordsGrowBy
  <1>6. m \in Nat /\ Len(V) \in Nat /\ Len(W) \in Nat
    BY <1>4, LenProperties DEF Words
  <1> HIDE DEF U, V, W, t, s
  <1>7. m >= 1
    BY <1>4, <1>5, <1>6, EmptySeq DEF Words
  <1>8. m <= Len(W) /\ (\A i \in 1 .. m - 1 : U[i] = W[i]) /\ IsPrefix(U[m], W[m])
    BY <1>2, <1>4, <1>5, BeginsIs
  <1>9. ~HasDot(w)
    <2>1. CASE w = << >>
      BY <2>1, NoStopInNone DEF HasDot
    <2>2. CASE w # << >>
      <3>1. Len(V) \in 1 .. Len(V)
        BY <1>5, <1>6, <1>7, <2>2
      <3> QED
        BY <1>3, <1>5, <2>2, <3>1 DEF NoDotIn
    <2> QED
      BY <2>1, <2>2
  <1>10. ASSUME NEW i \in 1 .. m - 1
         PROVE  U[i] = W[i] /\ ~HasDot(W[i])
    <2>1. i \in 1 .. Len(V)
      BY <1>5, <1>6
    <2>2. U[i] = V[i] /\ U[i] = W[i]
      BY <1>5, <1>8
    <2>3. ~HasDot(V[i])
      BY <1>3, <2>1 DEF NoDotIn
    <2> QED
      BY <2>2, <2>3
  <1>11. U[m] \in Text /\ W[m] \in Text
    <2>1. m \in 1 .. m /\ m \in 1 .. Len(W)
      BY <1>6, <1>7, <1>8
    <2> QED
      BY <1>4, <2>1, ElementOfSeq DEF Words, Text
  <1> QED
    BY <1>5, <1>8, <1>9, <1>10, <1>11 DEF CutAtDot, U, W, t, s

LEMMA DotAt ==
    ASSUME NEW w \in Text, ~HasDot(w), NEW x \in Text, IsPrefix(Append(w, Dot), x)
    PROVE  /\ HasDot(x) /\ Len(w) + 1 <= Len(x) /\ x[Len(w) + 1] = Dot /\ Len(w) \in Nat
           /\ \A i \in 1 .. Len(w) : x[i] = w[i] /\ x[i] # Dot
  <1> DEFINE n == Len(w)
             u == Append(w, Dot)
  <1>1. Dot \in Piece
    BY Stops
  <1>2. /\ u \in Text /\ Len(u) = n + 1 /\ u[n + 1] = Dot /\ n \in Nat
        /\ \A i \in 1 .. n : u[i] = w[i]
    BY <1>1, AppendFacts DEF Text
  <1>3. Len(x) \in Nat
    BY LenProperties DEF Text
  <1>4. \A i \in 1 .. n : w[i] # Dot
    BY DEF HasDot, HasStop
  <1>5. IsPrefix(u, x)
    OBVIOUS
  <1> HIDE DEF u, n
  <1>6. n + 1 <= Len(x) /\ \A i \in 1 .. n + 1 : u[i] = x[i]
    <2>1. Len(u) <= Len(x) /\ \A i \in 1 .. Len(u) : u[i] = x[i]
      BY <1>2, <1>5, PrefixIs DEF Text
    <2> QED
      BY <1>2, <2>1
  <1>7. n + 1 \in 1 .. n + 1 /\ n + 1 \in 1 .. Len(x) /\ \A i \in 1 .. n : i \in 1 .. n + 1
    BY <1>2, <1>3, <1>6
  <1>8. x[n + 1] = Dot /\ \A i \in 1 .. n : x[i] = w[i] /\ x[i] # Dot
    BY <1>2, <1>4, <1>6, <1>7
  <1>9. HasDot(x)
    BY <1>7, <1>8 DEF HasDot, HasStop
  <1> QED
    BY <1>2, <1>6, <1>8, <1>9 DEF n

\* There is one first dot.
LEMMA CutOnce ==
    ASSUME NEW W \in Words, NEW U \in Words, NEW V \in Words,
           CutAtDot(W, U), CutAtDot(W, V)
    PROVE  U = V
  <1>1. Len(U) \in Nat /\ Len(V) \in Nat /\ Len(W) \in Nat /\ Len(U) >= 1 /\ Len(V) >= 1
    <2>1. \A X \in Words : Len(X) \in Nat /\ (X # << >> => Len(X) >= 1)
      BY LenProperties, EmptySeq DEF Words
    <2>2. U # << >> /\ V # << >>
      BY DEF CutAtDot
    <2> QED
      BY <2>1, <2>2, Zenon
  <1>2. ASSUME NEW A \in Words, NEW B \in Words, CutAtDot(W, A), CutAtDot(W, B),
               Len(A) \in Nat, Len(B) \in Nat, Len(A) >= 1
        PROVE  ~(Len(A) < Len(B))
    <2>1. SUFFICES ASSUME Len(A) < Len(B)
                   PROVE  FALSE
      OBVIOUS
    <2>2. Len(A) \in 1 .. Len(B) - 1
      BY <1>2, <2>1
    <2>3. ~HasDot(W[Len(A)])
      BY <1>2, <2>2 DEF CutAtDot
    <2>4. HasDot(W[Len(A)])
      <3>1. PICK w \in Text : A[Len(A)] = Append(w, Dot) /\ ~HasDot(w)
        BY <1>2 DEF CutAtDot
      <3>2. W[Len(A)] \in Text /\ IsPrefix(Append(w, Dot), W[Len(A)])
        BY <1>2, <3>1 DEF CutAtDot
      <3> QED
        BY <3>1, <3>2, DotAt
    <2> QED
      BY <2>3, <2>4
  <1>3. Len(U) = Len(V)
    <2>1. ~(Len(U) < Len(V)) /\ ~(Len(V) < Len(U))
      BY <1>1, <1>2
    <2> QED
      BY <1>1, <2>1
  <1> DEFINE m == Len(U)
             x == W[m]
  <1>4. x \in Text
    BY DEF CutAtDot
  <1>5. PICK a \in Text : U[m] = Append(a, Dot) /\ ~HasDot(a)
    BY DEF CutAtDot
  <1>6. PICK b \in Text : V[m] = Append(b, Dot) /\ ~HasDot(b)
    BY <1>3 DEF CutAtDot
  <1>7. IsPrefix(Append(a, Dot), x) /\ IsPrefix(Append(b, Dot), x)
    BY <1>3, <1>5, <1>6 DEF CutAtDot
  <1>8. \A i \in 1 .. m - 1 : U[i] = V[i]
    BY <1>3 DEF CutAtDot
  <1>9. a = b
    <2> HIDE DEF x, m
    <2>1. /\ x[Len(a) + 1] = Dot /\ Len(a) \in Nat
          /\ \A i \in 1 .. Len(a) : x[i] = a[i] /\ x[i] # Dot
      BY <1>4, <1>5, <1>7, DotAt
    <2>2. /\ x[Len(b) + 1] = Dot /\ Len(b) \in Nat
          /\ \A i \in 1 .. Len(b) : x[i] = b[i] /\ x[i] # Dot
      BY <1>4, <1>6, <1>7, DotAt
    <2>3. ~(Len(a) < Len(b)) /\ ~(Len(b) < Len(a))
      <3>1. Len(a) < Len(b) => Len(a) + 1 \in 1 .. Len(b)
        BY <2>1, <2>2
      <3>2. Len(b) < Len(a) => Len(b) + 1 \in 1 .. Len(a)
        BY <2>1, <2>2
      <3> QED
        BY <2>1, <2>2, <3>1, <3>2
    <2>4. Len(a) = Len(b)
      BY <2>1, <2>2, <2>3
    <2>5. \A i \in 1 .. Len(a) : a[i] = b[i]
      BY <2>1, <2>2, <2>4
    <2> QED
      BY <2>4, <2>5, SeqEqual DEF Text
  <1>10. \A i \in 1 .. m : U[i] = V[i]
    <2>1. \A i \in 1 .. m : i = m \/ i \in 1 .. m - 1
      BY <1>1
    <2> HIDE DEF m
    <2> QED
      BY <1>5, <1>6, <1>8, <1>9, <2>1
  <1> QED
    BY <1>3, <1>10, SeqEqual DEF Words

\* The words of a text with a dot more determine those of the text.
LEMMA WordsBeforeDot ==
    ASSUME NEW s \in Text, NEW t \in Text,
           WordsOf(Append(s, Dot)) = WordsOf(Append(t, Dot))
    PROVE  WordsOf(s) = WordsOf(t)
  <1> DEFINE A == WordsOf(s)
             B == WordsOf(t)
             U == WordsOf(Append(s, Dot))
             V == WordsOf(Append(t, Dot))
             m == Len(U)
             n == Len(V)
  <1>1. Dot \in Piece /\ Dot # Space
    BY Stops DEF Dot, Space
  <1>2. Append(s, Dot) \in Text
    BY <1>1, AppendFacts DEF Text
  <1>3. A \in Words /\ B \in Words /\ U \in Words
    BY <1>2, WordsType
  <1>4. PICK v \in Text :
            /\ U[m] = Append(v, Dot) /\ U # << >> /\ \A i \in 1 .. m - 1 : U[i] = A[i]
            /\ \/ v = << >> /\ m = Len(A) + 1
               \/ v # << >> /\ m = Len(A) /\ v = A[Len(A)]
    BY <1>1, WordsGrowBy
  <1>5. PICK w \in Text :
            /\ U[m] = Append(w, Dot) /\ \A i \in 1 .. m - 1 : U[i] = B[i]
            /\ \/ w = << >> /\ m = Len(B) + 1
               \/ w # << >> /\ m = Len(B) /\ w = B[Len(B)]
    <2>1. U = V
      OBVIOUS
    <2>2. \E w \in Text :
            /\ V[n] = Append(w, Dot) /\ \A i \in 1 .. n - 1 : V[i] = B[i]
            /\ \/ w = << >> /\ n = Len(B) + 1
               \/ w # << >> /\ n = Len(B) /\ w = B[Len(B)]
      BY <1>1, WordsGrowBy
    <2> HIDE DEF U, V, B
    <2> QED
      BY <2>1, <2>2
  <1> HIDE DEF A, B, U, V
  <1>6. v = w
    <2> DEFINE x == Append(v, Dot)
               y == Append(w, Dot)
    <2>1. /\ Len(x) = Len(v) + 1 /\ Len(v) \in Nat /\ \A i \in 1 .. Len(v) : x[i] = v[i]
      BY <1>1, AppendFacts DEF Text
    <2>2. /\ Len(y) = Len(w) + 1 /\ Len(w) \in Nat /\ \A i \in 1 .. Len(w) : y[i] = w[i]
      BY <1>1, AppendFacts DEF Text
    <2>3. x = y
      BY <1>4, <1>5
    <2> HIDE DEF x, y
    <2>4. Len(v) = Len(w) /\ \A i \in 1 .. Len(v) : v[i] = w[i]
      BY <2>1, <2>2, <2>3
    <2> QED
      BY <2>4, SeqEqual DEF Text
  <1>7. Len(A) \in Nat /\ Len(B) \in Nat /\ m \in Nat
    BY <1>3, LenProperties DEF Words
  <1> HIDE DEF m
  <1>8. Len(A) = Len(B)
    BY <1>4, <1>5, <1>6, <1>7
  <1>9. ASSUME NEW i \in 1 .. Len(A)
        PROVE  A[i] = B[i]
    <2>1. i \in 1 .. m - 1 \/ (i = Len(A) /\ m = Len(A))
      BY <1>4, <1>7
    <2>2. CASE i \in 1 .. m - 1
      BY <1>4, <1>5, <2>2
    <2>3. CASE i = Len(A) /\ m = Len(A)
      BY <1>4, <1>5, <1>6, <1>7, <1>8, <2>3
    <2> QED
      BY <2>1, <2>2, <2>3
  <1>10. A = B
    BY <1>3, <1>8, <1>9, SeqEqual DEF Words
  <1> QED
    BY <1>10 DEF A, B

LEMMA SameSentence ==
    ASSUME NEW s \in Text, NEW t \in Text, WordsOf(s) = WordsOf(t), HasDot(s), HasDot(t)
    PROVE  WordsOf(Sentence(s)) = WordsOf(Sentence(t))
  <1> DEFINE a == Sentence(s)
             b == Sentence(t)
             U == WordsOf(Append(a, Dot))
             V == WordsOf(Append(b, Dot))
             W == WordsOf(s)
  <1>1. a \in Text /\ b \in Text
    BY SentenceType
  <1>2. Append(a, Dot) \in Text /\ Append(b, Dot) \in Text
    BY <1>1, Stops, AppendFacts DEF Text
  <1>3. U \in Words /\ V \in Words /\ W \in Words
    BY <1>2, WordsType
  <1>4. CutAtDot(W, U) /\ CutAtDot(W, V)
    BY SentenceCuts
  <1> HIDE DEF U, V, W
  <1>5. U = V
    BY <1>3, <1>4, CutOnce
  <1> QED
    BY <1>1, <1>5, WordsBeforeDot DEF U, V

-----------------------------------------------------------------------------
(* A text without its white space.                                         *)

\* That is what its words are put together.
LEMMA WordsTogether ==
    ASSUME NEW text \in Text
    PROVE  DigitsIn(text) = FlattenSeq(WordsOf(text))
  <1> DEFINE T == {s \in Text : DigitsIn(s) = FlattenSeq(WordsOf(s))}
  <1>1. << >> \in T
    <2>1. << >> \in Text /\ << >> \in Seq(Seq(Piece))
      BY DEF Text
    <2>2. FlattenSeq(<< >>) = << >>
      BY <2>1, FlattenType
    <2> QED
      BY <2>1, <2>2, DigitsInNone, WordsOfNone
  <1>2. ASSUME NEW s \in Text, NEW p \in Piece, s \in T
        PROVE  Append(s, p) \in T
    <2> DEFINE t == Append(s, p)
               d == DigitsIn(s)
               W == WordsOf(s)
               V == WordsOf(t)
               n == Len(W)
    <2>1. t \in Text
      BY AppendFacts DEF Text
    <2>2. W \in Words /\ V \in Words /\ n \in Nat
      BY <2>1, WordsType, LenProperties DEF Words
    <2>3. d \in Text /\ d = FlattenSeq(W)
      BY <1>2, DigitsMore
    <2>4. DigitsIn(t) = IF p = Space THEN d ELSE Append(d, p)
      BY DigitsMore
    <2>5. DigitsIn(t) = FlattenSeq(V)
      <3>1. CASE p = Space
        <4>1. V = W
          BY <3>1, WordsGrow
        <4> QED
          BY <2>3, <2>4, <3>1, <4>1
      <3>2. CASE p # Space
        <4>1. PICK w \in Text :
                /\ V[Len(V)] = Append(w, p) /\ \A i \in 1 .. Len(V) - 1 : V[i] = W[i]
                /\ \/ w = << >> /\ Len(V) = n + 1
                   \/ w # << >> /\ Len(V) = n /\ w = W[n]
                /\ V # << >>
          BY <3>2, WordsGrowBy
        <4> DEFINE k == Len(V) - 1
                   F == SubSeq(V, 1, k)
                   G == SubSeq(W, 1, k)
        <4> HIDE DEF d, W, V, n, t
        <4>2. k \in Nat /\ Len(V) = k + 1
          BY <2>2, <4>1, LenProperties, EmptySeq DEF Words
        <4> HIDE DEF k
        <4>3. F \in Words /\ Len(F) = k /\ V = Append(F, V[k + 1]) /\ \A i \in 1 .. k : F[i] = V[i]
          BY <2>2, <4>2, Decompose DEF Words
        <4>4. n = k \/ n = k + 1
          BY <2>2, <4>1, <4>2
        <4>5. G \in Words /\ Len(G) = k /\ \A i \in 1 .. k : G[i] = W[i]
          <5>1. k \in 0 .. Len(W)
            BY <2>2, <4>2, <4>4 DEF n
          <5> QED
            BY <2>2, <5>1, SubSeqStart DEF Words
        <4> HIDE DEF F, G
        <4>6. \A i \in 1 .. k : V[i] = W[i]
          BY <4>1, <4>2
        <4>7. F = G
          <5>1. \A i \in 1 .. k : F[i] = G[i]
            BY <4>3, <4>5, <4>6
          <5> QED
            BY <4>3, <4>5, <5>1, SeqEqual DEF Words
        <4>8. FlattenSeq(W) = FlattenSeq(F) \o w
          <5>1. CASE w = << >>
            <6>1. n = k
              BY <2>2, <4>1, <4>2, <5>1
            <6>2. W = G
              BY <2>2, <4>5, <6>1, SeqEqual DEF Words, n
            <6>3. FlattenSeq(F) \in Seq(Piece)
              BY <4>3, FlattenType DEF Words
            <6> QED
              BY <4>7, <5>1, <6>2, <6>3, ConcatEmptySeq
          <5>2. CASE w # << >>
            <6>1. n = k + 1 /\ w = W[k + 1]
              BY <2>2, <4>1, <4>2, <5>2
            <6>2. W = Append(G, w)
              BY <2>2, <4>2, <6>1, Decompose DEF Words, n, G
            <6> QED
              BY <4>3, <4>7, <6>2, FlattenAppend DEF Words, Text
          <5> QED
            BY <5>1, <5>2
        <4> DEFINE x == Append(w, p)
        <4>9. x \in Text /\ V = Append(F, x)
          BY <4>1, <4>2, <4>3, AppendFacts DEF Text
        <4>10. x = w \o <<p>>
          BY JoinOne DEF Text
        <4> HIDE DEF x
        <4>11. FlattenSeq(V) = FlattenSeq(F) \o x
          BY <4>3, <4>9, FlattenAppend DEF Words, Text
        <4> DEFINE f == FlattenSeq(F)
        <4>12. f \in Text
          BY <4>3, FlattenType DEF Words, Text
        <4> HIDE DEF f
        <4>13. f \o (w \o <<p>>) = Append(f \o w, p)
          <5>1. <<p>> \in Seq(Piece)
            OBVIOUS
          <5>2. f \o (w \o <<p>>) = (f \o w) \o <<p>>
            BY <4>12, <5>1, ConcatAssociative DEF Text
          <5>3. f \o w \in Seq(Piece)
            BY <4>12, JoinType DEF Text
          <5> QED
            BY <5>2, <5>3, JoinOne
        <4> QED
          BY <2>3, <2>4, <3>2, <4>8, <4>10, <4>11, <4>13 DEF f
      <3> QED
        BY <3>1, <3>2
    <2> QED
      BY <2>1, <2>5 DEF t
  <1> HIDE DEF T
  <1>3. \A s \in Text : s \in T
    BY <1>1, <1>2, SeqInduct DEF Text
  <1> QED
    BY <1>3 DEF T

LEMMA TogetherType ==
    ASSUME NEW text \in Text
    PROVE  DigitsIn(text) \in Text
  <1>1. Space \in Piece
    BY Stops
  <1> QED
    BY <1>1, DigitsMore

LEMMA DigitsJoin ==
    ASSUME NEW s \in Text, NEW t \in Text
    PROVE  DigitsIn(s \o t) = DigitsIn(s) \o DigitsIn(t)
  <1> DEFINE a == DigitsIn(s)
             T == {r \in Text : DigitsIn(s \o r) = a \o DigitsIn(r)}
  <1>1. a \in Text
    BY TogetherType
  <1> HIDE DEF a
  <1>2. << >> \in T
    <2>1. << >> \in Text /\ s \o << >> = s /\ a \o << >> = a
      BY <1>1, ConcatEmptySeq DEF Text
    <2> QED
      BY <2>1, DigitsInNone DEF a
  <1>3. ASSUME NEW r \in Text, NEW p \in Piece, r \in T
        PROVE  Append(r, p) \in T
    <2> DEFINE x == s \o r
               b == DigitsIn(r)
    <2>1. Append(r, p) \in Text /\ s \o Append(r, p) = Append(x, p)
      BY AppendFacts, ConcatAppend DEF Text
    <2>2. x \in Text /\ DigitsIn(x) = a \o b /\ b \in Text
      BY <1>3, JoinType, TogetherType
    <2> HIDE DEF x
    <2>3. DigitsIn(Append(x, p)) = IF p = Space THEN a \o b ELSE Append(a \o b, p)
      BY <2>2, DigitsMore
    <2>4. DigitsIn(Append(r, p)) = IF p = Space THEN b ELSE Append(b, p)
      BY DigitsMore
    <2> HIDE DEF b
    <2>5. Append(a \o b, p) = a \o Append(b, p)
      <3>1. a \in Seq(Piece) /\ b \in Seq(Piece)
        BY <1>1, <2>2 DEF Text
      <3>2. a \o Append(b, p) = Append(a \o b, p)
        BY <3>1, ConcatAppend
      <3> QED
        BY <3>2
    <2>6. DigitsIn(Append(x, p)) = a \o DigitsIn(Append(r, p))
      BY <2>3, <2>4, <2>5
    <2> QED
      BY <2>1, <2>6
  <1> HIDE DEF T
  <1>4. \A r \in Text : r \in T
    BY <1>2, <1>3, SeqInduct DEF Text
  <1> QED
    BY <1>4 DEF T, a

\* White space is no stop.
LEMMA StopsOfDigits ==
    ASSUME NEW text \in Text, NEW stops, stops \subseteq Piece, Space \notin stops, stops # {}
    PROVE  /\ HasStop(DigitsIn(text), stops) <=> HasStop(text, stops)
           /\ DigitsIn(Before(text, stops)) = Before(DigitsIn(text), stops)
  <1> DEFINE Fine(s) ==
                /\ HasStop(DigitsIn(s), stops) <=> HasStop(s, stops)
                /\ DigitsIn(Before(s, stops)) = Before(DigitsIn(s), stops)
             T == {s \in Text : Fine(s)}
  <1>1. << >> \in T
    <2>1. << >> \in Text /\ ~HasStop(<< >>, stops)
      BY NoStopInNone DEF Text
    <2>2. Before(<< >>, stops) = << >>
      BY <2>1, BeforeType
    <2> QED
      BY <2>1, <2>2, DigitsInNone
  <1>2. ASSUME NEW s \in Text, NEW p \in Piece, s \in T
        PROVE  Append(s, p) \in T
    <2> DEFINE t == Append(s, p)
               d == DigitsIn(s)
    <2>1. t \in Text /\ d \in Text
      BY AppendFacts, TogetherType DEF Text
    <2>2. (HasStop(d, stops) <=> HasStop(s, stops)) /\ DigitsIn(Before(s, stops)) = Before(d, stops)
      BY <1>2
    <2>3. HasStop(t, stops) <=> HasStop(s, stops) \/ p \in stops
      BY HasStopMore
    <2>4. Before(t, stops) = IF HasStop(s, stops) \/ p \in stops THEN Before(s, stops) ELSE t
      BY BeforeMore
    <2>5. DigitsIn(t) = IF p = Space THEN d ELSE Append(d, p)
      BY DigitsMore
    <2> HIDE DEF t, d
    <2>6. HasStop(Append(d, p), stops) <=> HasStop(d, stops) \/ p \in stops
      BY <2>1, HasStopMore
    <2>7. Before(Append(d, p), stops) = IF HasStop(d, stops) \/ p \in stops THEN Before(d, stops)
                                        ELSE Append(d, p)
      BY <2>1, BeforeMore
    <2>8. ~HasStop(d, stops) => Before(d, stops) = d
      BY <2>1, BeforeType
    <2>9. HasStop(DigitsIn(t), stops) <=> HasStop(t, stops)
      BY <2>2, <2>3, <2>5, <2>6
    <2>10. DigitsIn(Before(t, stops)) = Before(DigitsIn(t), stops)
      <3>1. CASE HasStop(s, stops)
        BY <2>2, <2>4, <2>5, <2>7, <3>1
      <3>2. CASE ~HasStop(s, stops) /\ p \in stops
        BY <2>2, <2>4, <2>5, <2>7, <3>2
      <3>3. CASE ~HasStop(s, stops) /\ p \notin stops
        <4>1. Before(t, stops) = t
          BY <2>4, <3>3
        <4>2. Before(DigitsIn(t), stops) = DigitsIn(t)
          BY <2>2, <2>5, <2>7, <2>8, <3>3
        <4> QED
          BY <4>1, <4>2
      <3> QED
        BY <3>1, <3>2, <3>3
    <2> QED
      BY <2>1, <2>9, <2>10 DEF t
  <1> HIDE DEF T
  <1>3. \A s \in Text : s \in T
    BY <1>1, <1>2, SeqInduct DEF Text
  <1> QED
    BY <1>3 DEF T

LEMMA CancelFront ==
    ASSUME NEW a \in Text, NEW x \in Text, NEW y \in Text, a \o x = a \o y
    PROVE  x = y
  <1> DEFINE n == Len(a)
             u == a \o x
             v == a \o y
  <1>1. n \in Nat /\ Len(x) \in Nat /\ Len(y) \in Nat
    BY LenProperties DEF Text
  <1>2. Len(u) = n + Len(x) /\ Len(v) = n + Len(y)
    BY ConcatProperties DEF Text
  <1>3. \A i \in 1 .. Len(x) : u[n + i] = x[i]
    <2>1. ASSUME NEW i \in 1 .. Len(x)
          PROVE  u[n + i] = x[i]
      <3> DEFINE k == n + i
      <3>1. k \in 1 .. n + Len(x) /\ ~(k <= n) /\ k - n = i
        BY <1>1
      <3> HIDE DEF k
      <3>2. u[k] = x[k - n]
        BY <3>1, ConcatProperties DEF Text
      <3> QED
        BY <3>1, <3>2 DEF k
    <2> QED
      BY <2>1
  <1>4. \A i \in 1 .. Len(y) : v[n + i] = y[i]
    <2>1. ASSUME NEW i \in 1 .. Len(y)
          PROVE  v[n + i] = y[i]
      <3> DEFINE k == n + i
      <3>1. k \in 1 .. n + Len(y) /\ ~(k <= n) /\ k - n = i
        BY <1>1
      <3> HIDE DEF k
      <3>2. v[k] = y[k - n]
        BY <3>1, ConcatProperties DEF Text
      <3> QED
        BY <3>1, <3>2 DEF k
    <2> QED
      BY <2>1
  <1>5. u = v
    OBVIOUS
  <1> HIDE DEF u, v, n
  <1>6. Len(x) = Len(y)
    BY <1>1, <1>2, <1>5
  <1>7. \A i \in 1 .. Len(x) : x[i] = y[i]
    BY <1>3, <1>4, <1>5, <1>6
  <1> QED
    BY <1>6, <1>7, SeqEqual DEF Text

\* Texts with the same words have the same stops.
LEMMA SameStops ==
    ASSUME NEW s \in Text, NEW t \in Text, WordsOf(s) = WordsOf(t)
    PROVE  /\ DigitsIn(s) = DigitsIn(t)
           /\ HasDot(s) <=> HasDot(t)
           /\ Plain(s) <=> Plain(t)
  <1>1. DigitsIn(s) = DigitsIn(t)
    BY WordsTogether
  <1>2. /\ {Dot} \subseteq Piece /\ {Dot} # {} /\ Space \notin {Dot}
        /\ {Dot, "-"} \subseteq Piece /\ {Dot, "-"} # {} /\ Space \notin {Dot, "-"}
    BY Stops DEF Space, Dot
  <1> DEFINE one == {Dot}
             two == {Dot, "-"}
  <1> HIDE DEF one, two
  <1>3. HasStop(s, one) <=> HasStop(t, one)
    BY <1>1, <1>2, StopsOfDigits DEF one
  <1>4. HasStop(s, two) <=> HasStop(t, two)
    BY <1>1, <1>2, StopsOfDigits DEF two
  <1> QED
    BY <1>1, <1>3, <1>4, PlainIs DEF one, two, HasDot

\* And the same digits behind the frame.
LEMMA SameBody ==
    ASSUME NEW s \in Text, NEW t \in Text, WordsOf(s) = WordsOf(t), HasDot(s), HasDot(t)
    PROVE  DigitsIn(Body(s)) = DigitsIn(Body(t))
  <1> DEFINE a == Sentence(s)
             b == Sentence(t)
             x == AfterDot(s)
             y == AfterDot(t)
  <1>1. a \in Text /\ b \in Text /\ Dot \in Piece /\ Dot # Space
    BY SentenceType, Stops DEF Dot, Space
  <1>2. s = Append(a, Dot) \o x /\ t = Append(b, Dot) \o y /\ x \in Text /\ y \in Text
    BY SplitAtDot
  <1>3. DigitsIn(a) = DigitsIn(b)
    BY <1>1, SameSentence, WordsTogether
  <1>4. DigitsIn(s) = DigitsIn(t)
    BY SameStops
  <1>5. Body(s) = Before(x, {Dot, "-"}) /\ Body(t) = Before(y, {Dot, "-"})
    BY DEF Body
  <1> HIDE DEF a, b, x, y
  <1> DEFINE f == DigitsIn(Append(a, Dot))
  <1>6. Append(a, Dot) \in Text /\ Append(b, Dot) \in Text
    BY <1>1, AppendFacts DEF Text
  <1>7. f = DigitsIn(Append(b, Dot)) /\ f \in Text
    BY <1>1, <1>3, <1>6, DigitsMore, TogetherType
  <1>8. DigitsIn(s) = f \o DigitsIn(x) /\ DigitsIn(t) = f \o DigitsIn(y)
    <2> DEFINE p == Append(a, Dot)
               q == Append(b, Dot)
    <2>1. p \in Text /\ q \in Text /\ s = p \o x /\ t = q \o y /\ f = DigitsIn(p) /\ f = DigitsIn(q)
      BY <1>2, <1>6, <1>7
    <2> HIDE DEF f, p, q
    <2>2. DigitsIn(p \o x) = DigitsIn(p) \o DigitsIn(x)
      BY <1>2, <2>1, DigitsJoin
    <2>3. DigitsIn(q \o y) = DigitsIn(q) \o DigitsIn(y)
      BY <1>2, <2>1, DigitsJoin
    <2> QED
      BY <2>1, <2>2, <2>3
  <1> HIDE DEF f
  <1>9. DigitsIn(x) \in Text /\ DigitsIn(y) \in Text
    BY <1>2, TogetherType
  <1>10. DigitsIn(x) = DigitsIn(y)
    BY <1>4, <1>7, <1>8, <1>9, CancelFront
  <1> DEFINE two == {Dot, "-"}
  <1>11. two \subseteq Piece /\ two # {} /\ Space \notin two
    BY Stops DEF Space, Dot
  <1>12. Body(s) = Before(x, two) /\ Body(t) = Before(y, two)
    BY <1>5
  <1> HIDE DEF two
  <1> QED
    BY <1>2, <1>10, <1>11, <1>12, StopsOfDigits

\* Classification looks at the words of a text only: white space between them,
\* more or less of it, changes nothing of what isSaltpackArmoredPrefix says.
THEOREM SaidOfWords ==
    ASSUME NEW in, NEW s \in Text, NEW t \in Text, WordsOf(s) = WordsOf(t)
    PROVE  IsSaltpackArmoredPrefix(in, s) = IsSaltpackArmoredPrefix(in, t)
  <1>1. (HasDot(s) <=> HasDot(t)) /\ (Plain(s) <=> Plain(t))
    BY SameStops
  <1>2. HeaderToCome(s) <=> HeaderToCome(t)
    BY <1>1, ToComeIs
  <1>3. CASE ~HasDot(s)
    <2>1. Frames(s) = {} /\ Frames(t) = {}
      BY <1>1, <1>3, NoDotNoFrame
    <2>2. IsSaltpackArmoredPrefix(in, s) = NoAnswer(IF HeaderToCome(s) THEN "short" ELSE "not")
      BY <2>1, SaidIs
    <2>3. IsSaltpackArmoredPrefix(in, t) = NoAnswer(IF HeaderToCome(t) THEN "short" ELSE "not")
      BY <2>1, SaidIs
    <2> QED
      BY <1>2, <2>2, <2>3
  <1>4. CASE HasDot(s)
    <2> DEFINE a == Sentence(s)
               b == Sentence(t)
    <2>1. a \in Text /\ b \in Text /\ WordsOf(a) = WordsOf(b)
      BY <1>1, <1>4, SentenceType, SameSentence
    <2>2. Plain(a) <=> Plain(b)
      BY <2>1, SameStops
    <2>3. Frames(s) = {u \in MessageTypes : HasDot(s) /\ Plain(a) /\ IsFrame(WordsOf(a), u)}
      BY FramesAre
    <2>4. Frames(t) = {u \in MessageTypes : HasDot(t) /\ Plain(b) /\ IsFrame(WordsOf(b), u)}
      BY FramesAre
    <2>5. \A u \in MessageTypes : FrameBrand(a, u) = FrameBrand(b, u)
      BY <2>1, FrameBrandIs
    <2>6. Frames(s) \subseteq MessageTypes
      BY <2>3
    <2> DEFINE d == DigitsIn(Body(s))
    <2>7. d = DigitsIn(Body(t))
      BY <1>1, <1>4, SameBody
    <2> DEFINE h == HeaderType(in, s)
    <2>8. h = HeaderType(in, t)
      BY <2>7 DEF HeaderType
    <2> HIDE DEF a, b, d, h
    <2>9. Frames(s) = Frames(t)
      BY <1>1, <2>1, <2>2, <2>3, <2>4
    <2> DEFINE F == Frames(s)
               c == CHOOSE u \in F : TRUE
    <2>10. F = Frames(t) /\ (F # {} => c \in MessageTypes)
      BY <2>6, <2>9
    <2>11. IsSaltpackArmoredPrefix(in, s) =
            IF F = {} THEN NoAnswer(IF HeaderToCome(s) THEN "short" ELSE "not")
            ELSE IF ~FullBlock(d) THEN NoAnswer("short")
            ELSE IF h \notin MessageTypes \/ ~Fits(h, F) THEN NoAnswer("not")
            ELSE [type |-> h, brand |-> FrameBrand(a, c)]
      BY SaidIs DEF a, d, h
    <2>12. IsSaltpackArmoredPrefix(in, t) =
            IF F = {} THEN NoAnswer(IF HeaderToCome(t) THEN "short" ELSE "not")
            ELSE IF ~FullBlock(d) THEN NoAnswer("short")
            ELSE IF h \notin MessageTypes \/ ~Fits(h, F) THEN NoAnswer("not")
            ELSE [type |-> h, brand |-> FrameBrand(b, c)]
      BY <2>7, <2>8, <2>10, SaidIs DEF b
    <2> HIDE DEF F, c
    <2>13. F # {} => FrameBrand(a, c) = FrameBrand(b, c)
      BY <2>5, <2>10
    <2> DEFINE P == HeaderToCome(s)
               Q == FullBlock(d)
               R == Fits(h, F)
    <2> QED
      BY <1>2, <2>11, <2>12, <2>13
  <1> QED
    BY <1>3, <1>4

-----------------------------------------------------------------------------
(* The texts of our own messages.                                          *)

\* A word that a frame may have.
Solid(w) == w # << >> /\ \A i \in 1 .. Len(w) : w[i] \notin {Space, Dot, "-"}

LEMMA SolidMore ==
    ASSUME NEW v \in Text, NEW p \in Piece, Solid(Append(v, p))
    PROVE  p \notin {Space, Dot, "-"} /\ (v = << >> \/ Solid(v))
  <1> DEFINE w == Append(v, p)
             n == Len(v)
  <1>1. Len(w) = n + 1 /\ w[n + 1] = p /\ n \in Nat /\ \A i \in 1 .. n : w[i] = v[i]
    BY AppendFacts DEF Text
  <1>2. \A i \in 1 .. Len(w) : w[i] \notin {Space, Dot, "-"}
    BY DEF Solid
  <1> HIDE DEF w, n
  <1>3. n + 1 \in 1 .. Len(w) /\ \A i \in 1 .. n : i \in 1 .. Len(w)
    BY <1>1
  <1>4. p \notin {Space, Dot, "-"} /\ \A i \in 1 .. n : v[i] \notin {Space, Dot, "-"}
    BY <1>1, <1>2, <1>3
  <1> QED
    BY <1>4 DEF Solid, n

LEMMA LastReplaced ==
    ASSUME NEW words \in Words, NEW v \in Text, NEW w \in Text
    PROVE  LET more == Append(words, v)
           IN  /\ Len(more) = Len(words) + 1 /\ more[Len(more)] = v
               /\ [more EXCEPT ![Len(more)] = w] = Append(words, w)
  <1> DEFINE more == Append(words, v)
             n == Len(words)
             other == Append(words, w)
             new == [more EXCEPT ![Len(more)] = w]
  <1>1. more \in Words /\ Len(more) = n + 1 /\ more[n + 1] = v /\ n \in Nat
        /\ \A i \in 1 .. n : more[i] = words[i]
    BY AppendFacts DEF Words, Text
  <1>2. other \in Words /\ Len(other) = n + 1 /\ other[n + 1] = w
        /\ \A i \in 1 .. n : other[i] = words[i]
    BY AppendFacts DEF Words, Text
  <1>3. DOMAIN more = 1 .. n + 1
    BY <1>1, LenProperties DEF Words
  <1> HIDE DEF more, other, n
  <1>4. new \in [1 .. n + 1 -> Text]
    <2>1. \A i \in 1 .. n + 1 : more[i] \in Text
      BY <1>1, ElementOfSeq DEF Words, Text
    <2> QED
      BY <1>1, <1>3, <2>1
  <1>5. \A i \in 1 .. n + 1 : new[i] = IF i = n + 1 THEN w ELSE words[i]
    BY <1>1, <1>3
  <1>6. n + 1 \in Nat
    BY <1>1
  <1> HIDE DEF new
  <1> DEFINE m == n + 1
  <1>7. new \in [1 .. m -> Text] /\ m \in Nat
    BY <1>4, <1>6
  <1> HIDE DEF m
  <1>8. new \in Words /\ Len(new) = m
    BY <1>7, FunctionSeq DEF Words, Text
  <1>9. \A i \in 1 .. m : new[i] = other[i]
    BY <1>1, <1>2, <1>5 DEF m
  <1>10. new = other
    BY <1>2, <1>8, <1>9, SeqEqual DEF Words, m
  <1> QED
    BY <1>1, <1>10 DEF new, more, other, n

\* A word is added behind a space.
LEMMA WordAdded ==
    ASSUME NEW text \in Text, LastOf(text) = Space, NEW w \in Text, Solid(w)
    PROVE  WordsOf(text \o w) = Append(WordsOf(text), w) /\ LastOf(text \o w) # Space
  <1> DEFINE W == WordsOf(text)
             T == {v \in Text : Solid(v) => /\ WordsOf(text \o v) = Append(W, v)
                                            /\ LastOf(text \o v) # Space}
  <1>1. W \in Words
    BY WordsType
  <1> HIDE DEF W
  <1>2. << >> \in T
    BY DEF Solid, Text
  <1>3. ASSUME NEW v \in Text, NEW p \in Piece, v \in T
        PROVE  Append(v, p) \in T
    <2> DEFINE t == text \o v
               u == Append(v, p)
    <2>1. u \in Text /\ t \in Text
      BY AppendFacts, JoinType DEF Text
    <2>2. text \o u = Append(t, p)
      BY ConcatAppend DEF Text
    <2>3. SUFFICES ASSUME Solid(u)
                   PROVE  /\ WordsOf(text \o u) = Append(W, u) /\ LastOf(text \o u) # Space
      BY <2>1
    <2>4. p # Space /\ (v = << >> \/ Solid(v))
      BY <2>3, SolidMore
    <2>5. LastOf(Append(t, p)) # Space
      BY <2>1, <2>4, LastOfMore
    <2>6. CASE v = << >>
      <3>1. t = text /\ u = <<p>>
        BY <2>6, ConcatEmptySeq DEF Text
      <3>2. WordsOf(Append(text, p)) = Append(W, <<p>>)
        BY <2>4, WordsGrow DEF W
      <3> QED
        BY <2>2, <2>5, <3>1, <3>2
    <2>7. CASE Solid(v)
      <3> DEFINE more == Append(W, v)
      <3>1. WordsOf(t) = more /\ LastOf(t) # Space
        BY <1>3, <2>7
      <3>2. Len(more) = Len(W) + 1 /\ more[Len(more)] = v
            /\ [more EXCEPT ![Len(more)] = u] = Append(W, u)
        <4> HIDE DEF u
        <4> QED
          BY <1>1, <2>1, LastReplaced
      <3> HIDE DEF more, t
      <3>3. WordsOf(Append(t, p)) = [more EXCEPT ![Len(more)] = Append(@, p)]
        BY <2>1, <2>4, <3>1, WordsGrow
      <3>4. [more EXCEPT ![Len(more)] = Append(@, p)] = [more EXCEPT ![Len(more)] = u]
        BY <3>2
      <3> QED
        BY <2>2, <2>5, <3>2, <3>3, <3>4
    <2> QED
      BY <2>4, <2>6, <2>7
  <1> HIDE DEF T
  <1>4. \A v \in Text : v \in T
    BY <1>2, <1>3, SeqInduct DEF Text
  <1> QED
    BY <1>4 DEF T, W

LEMMA PlainAdded ==
    ASSUME NEW text \in Text, Plain(text), NEW w \in Text, Solid(w)
    PROVE  Plain(text \o w)
  <1> DEFINE T == {v \in Text : v = << >> \/ Solid(v) => Plain(text \o v)}
  <1>1. << >> \in T
    BY ConcatEmptySeq DEF Text
  <1>2. ASSUME NEW v \in Text, NEW p \in Piece, v \in T
        PROVE  Append(v, p) \in T
    <2> DEFINE t == text \o v
               u == Append(v, p)
    <2>1. u \in Text /\ t \in Text
      BY AppendFacts, JoinType DEF Text
    <2>2. text \o u = Append(t, p)
      BY ConcatAppend DEF Text
    <2>3. u # << >>
      <3>1. Len(u) = Len(v) + 1 /\ Len(v) \in Nat
        BY AppendFacts DEF Text
      <3> HIDE DEF u
      <3> QED
        BY <2>1, <3>1, EmptySeq DEF Text
    <2>4. SUFFICES ASSUME Solid(u)
                   PROVE  Plain(text \o u)
      BY <2>1, <2>3
    <2>5. p \notin {Dot, "-"} /\ (v = << >> \/ Solid(v))
      BY <2>4, SolidMore
    <2>6. Plain(t)
      BY <1>2, <2>5
    <2> HIDE DEF t
    <2>7. Plain(Append(t, p))
      BY <2>1, <2>5, <2>6, PlainMore
    <2> QED
      BY <2>2, <2>7
  <1> HIDE DEF T
  <1>3. \A v \in Text : v \in T
    BY <1>1, <1>2, SeqInduct DEF Text
  <1> QED
    BY <1>3 DEF T

\* Words, a space behind each.
SpaceAfter(words) == [i \in DOMAIN words |-> words[i] \o <<Space>>]
Gapped(words) == FlattenSeq(SpaceAfter(words))

LEMMA SpaceAfterIs ==
    ASSUME NEW words \in Words
    PROVE  /\ SpaceAfter(words) \in Words /\ Len(SpaceAfter(words)) = Len(words)
           /\ \A i \in 1 .. Len(words) : SpaceAfter(words)[i] = words[i] \o <<Space>>
  <1> DEFINE n == Len(words)
             f == SpaceAfter(words)
  <1>1. n \in Nat /\ DOMAIN words = 1 .. n
    BY LenProperties DEF Words
  <1>2. ASSUME NEW i \in 1 .. n
        PROVE  words[i] \o <<Space>> \in Text
    <2>1. words[i] \in Text
      BY ElementOfSeq DEF Words, Text
    <2>2. <<Space>> \in Text
      BY Stops DEF Text
    <2> QED
      BY <2>1, <2>2, JoinType
  <1>3. \A i \in 1 .. n : f[i] = words[i] \o <<Space>>
    BY <1>1 DEF SpaceAfter
  <1>4. f \in [1 .. n -> Text]
    BY <1>1, <1>2 DEF SpaceAfter
  <1> HIDE DEF n, f
  <1>5. f \in Words /\ Len(f) = n
    BY <1>1, <1>4, FunctionSeq DEF Words, Text
  <1> QED
    BY <1>3, <1>5 DEF n, f

LEMMA GappedMore ==
    ASSUME NEW words \in Words, NEW w \in Text
    PROVE  /\ Gapped(words) \in Text
           /\ Gapped(Append(words, w)) = Append(Gapped(words) \o w, Space)
           /\ Spaced(Append(words, w)) = Gapped(words) \o w
  <1> DEFINE more == Append(words, w)
             n == Len(words)
             s == SpaceAfter(words)
             t == SpaceAfter(more)
             v == w \o <<Space>>
             g == FlattenSeq(s)
  <1>1. /\ more \in Words /\ Len(more) = n + 1 /\ more[n + 1] = w /\ n \in Nat
        /\ \A i \in 1 .. n : more[i] = words[i]
    BY AppendFacts DEF Words, Text
  <1>2. v = Append(w, Space) /\ v \in Text
    BY Stops, JoinOne, AppendFacts DEF Text
  <1>3. s \in Words /\ Len(s) = n /\ \A i \in 1 .. n : s[i] = words[i] \o <<Space>>
    BY SpaceAfterIs
  <1>4. t \in Words /\ Len(t) = n + 1 /\ \A i \in 1 .. n + 1 : t[i] = more[i] \o <<Space>>
    BY <1>1, SpaceAfterIs
  <1> HIDE DEF s, t
  <1>5. t = Append(s, v)
    <2> DEFINE a == Append(s, v)
    <2>1. /\ a \in Words /\ Len(a) = n + 1 /\ a[n + 1] = v
          /\ \A i \in 1 .. n : a[i] = s[i]
      BY <1>2, <1>3, AppendFacts DEF Words, Text
    <2> HIDE DEF a, n, more
    <2>2. \A i \in 1 .. n + 1 : i = n + 1 \/ i \in 1 .. n
      BY <1>1
    <2>3. \A i \in 1 .. n : t[i] = a[i]
      <3>1. ASSUME NEW i \in 1 .. n
            PROVE  t[i] = a[i]
        <4>1. i \in 1 .. n + 1
          BY <1>1
        <4>2. t[i] = more[i] \o <<Space>> /\ more[i] = words[i]
          BY <1>1, <1>4, <4>1
        <4>3. a[i] = words[i] \o <<Space>>
          BY <1>3, <2>1
        <4> QED
          BY <4>2, <4>3
      <3> QED
        BY <3>1
    <2>4. t[n + 1] = a[n + 1]
      <3>1. n + 1 \in 1 .. n + 1
        BY <1>1
      <3> QED
        BY <1>1, <1>4, <2>1, <3>1
    <2>5. \A i \in 1 .. n + 1 : t[i] = a[i]
      BY <2>2, <2>3, <2>4
    <2> QED
      BY <1>4, <2>1, <2>5, SeqEqual DEF Words, a
  <1>6. g \in Text
    BY <1>3, FlattenType DEF Words, Text
  <1>7. Gapped(more) = Append(g \o w, Space)
    <2>1. FlattenSeq(t) = g \o v
      BY <1>2, <1>3, <1>5, FlattenAppend DEF Words, Text
    <2>2. g \o Append(w, Space) = Append(g \o w, Space)
      BY <1>6, Stops, ConcatAppend DEF Text
    <2> QED
      BY <1>2, <2>1, <2>2 DEF Gapped, t
  <1>8. Spaced(more) = g \o w
    <2> DEFINE f == [i \in DOMAIN more |->
                        more[i] \o IF i < Len(more) THEN <<Space>> ELSE << >>]
               a == Append(s, w)
               m == n + 1
    <2>1. /\ a \in Words /\ Len(a) = m /\ a[n + 1] = w
          /\ \A i \in 1 .. n : a[i] = s[i]
      BY <1>3, AppendFacts DEF Words, Text
    <2>2. DOMAIN more = 1 .. m
      BY <1>1, LenProperties DEF Words
    <2>3. w \o << >> = w
      BY ConcatEmptySeq DEF Text
    <2> HIDE DEF a, n, more
    <2>4. \A i \in 1 .. m : f[i] = a[i]
      <3>1. ASSUME NEW i \in 1 .. m
            PROVE  f[i] = a[i]
        <4>1. f[i] = more[i] \o IF i < Len(more) THEN <<Space>> ELSE << >>
          BY <2>2
        <4>2. CASE i = n + 1
          <5>1. ~(i < Len(more)) /\ more[i] = w /\ a[i] = w
            BY <1>1, <2>1, <4>2
          <5>2. f[i] = w \o << >>
            BY <4>1, <5>1
          <5> QED
            BY <2>3, <5>1, <5>2
        <4>3. CASE i # n + 1
          <5>1. i \in 1 .. n /\ i < Len(more)
            BY <1>1, <4>3
          <5>2. f[i] = more[i] \o <<Space>>
            BY <4>1, <5>1
          <5> QED
            BY <1>1, <1>3, <2>1, <5>1, <5>2
        <4> QED
          BY <4>2, <4>3
      <3> QED
        BY <3>1
    <2>5. DOMAIN a = 1 .. m
      BY <2>1, LenProperties DEF Words
    <2>6. f = a
      <3>1. DOMAIN f = 1 .. m
        BY <2>2
      <3>2. f = [i \in 1 .. m |-> f[i]]
        BY <3>1
      <3>3. a = [i \in 1 .. m |-> a[i]]
        BY <2>1, <2>5 DEF Words
      <3> HIDE DEF f, m
      <3> QED
        BY <2>4, <3>2, <3>3
    <2>7. Spaced(more) = FlattenSeq(f)
      BY Zenon DEF Spaced
    <2> HIDE DEF f
    <2>8. FlattenSeq(Append(s, w)) = g \o w
      BY <1>3, FlattenAppend DEF Words, Text
    <2> QED
      BY <2>6, <2>7, <2>8 DEF a
  <1> QED
    BY <1>6, <1>7, <1>8 DEF Gapped, s

SolidWords(words) == \A i \in 1 .. Len(words) : Solid(words[i])

LEMMA GappedIs ==
    ASSUME NEW words \in Words, SolidWords(words)
    PROVE  /\ WordsOf(Gapped(words)) = words /\ LastOf(Gapped(words)) = Space
           /\ Plain(Gapped(words)) /\ Gapped(words) \in Text
  <1> DEFINE Fine(ws) == /\ WordsOf(Gapped(ws)) = ws /\ LastOf(Gapped(ws)) = Space
                         /\ Plain(Gapped(ws)) /\ Gapped(ws) \in Text
             T == {ws \in Words : SolidWords(ws) => Fine(ws)}
  <1>1. << >> \in T
    <2>1. << >> \in Words /\ << >> \in Text
      BY DEF Words, Text
    <2>2. Gapped(<< >>) = << >>
      <3> DEFINE f == SpaceAfter(<< >>)
      <3>1. f \in Words /\ Len(f) = Len(<< >>) /\ Len(<< >>) = 0
        BY <2>1, SpaceAfterIs
      <3> HIDE DEF f
      <3>2. f = << >>
        BY <3>1, EmptySeq DEF Words
      <3>3. FlattenSeq(f) = << >>
        BY <3>1, <3>2, FlattenType DEF Words
      <3> QED
        BY <3>3 DEF Gapped, f
    <2>3. Plain(<< >>)
      BY DEF Plain
    <2> QED
      BY <2>1, <2>2, <2>3, WordsOfNone DEF LastOf
  <1>2. ASSUME NEW ws \in Seq(Text), NEW w \in Text, ws \in T
        PROVE  Append(ws, w) \in T
    <2> DEFINE more == Append(ws, w)
               g == Gapped(ws)
               t == g \o w
               n == Len(ws)
    <2>1. /\ more \in Words /\ Len(more) = n + 1 /\ more[n + 1] = w /\ n \in Nat
          /\ \A i \in 1 .. n : more[i] = ws[i]
      BY AppendFacts DEF Words, Text
    <2>2. SUFFICES ASSUME SolidWords(more)
                   PROVE  Fine(more)
      BY <2>1
    <2>3. ws \in Words
      BY DEF Words, Text
    <2>4. Gapped(more) = Append(t, Space)
      BY <2>3, GappedMore
    <2> HIDE DEF more
    <2>5. Solid(w) /\ SolidWords(ws)
      <3>1. n + 1 \in 1 .. Len(more) /\ \A i \in 1 .. n : i \in 1 .. Len(more)
        BY <2>1
      <3> QED
        BY <2>1, <2>2, <3>1 DEF SolidWords
    <2>6. WordsOf(g) = ws /\ LastOf(g) = Space /\ Plain(g) /\ g \in Text
      BY <1>2, <2>5
    <2> HIDE DEF g
    <2>7. WordsOf(t) = Append(ws, w) /\ t \in Text /\ Plain(t)
      BY <2>5, <2>6, WordAdded, PlainAdded, JoinType
    <2> HIDE DEF t
    <2>8. WordsOf(Append(t, Space)) = WordsOf(t)
      BY <2>7, Stops, WordsGrow
    <2>9. LastOf(Append(t, Space)) = Space /\ Append(t, Space) \in Text
      BY <2>7, Stops, LastOfMore, AppendFacts DEF Text
    <2>10. Plain(Append(t, Space))
      BY <2>7, Stops, PlainMore DEF Space, Dot
    <2> QED
      BY <2>4, <2>7, <2>8, <2>9, <2>10 DEF more
  <1> HIDE DEF T
  <1>3. \A ws \in Seq(Text) : ws \in T
    <2>1. \A ws \in Seq(Text), w \in Text : ws \in T => Append(ws, w) \in T
      BY <1>2
    <2> QED
      BY <1>1, <2>1, SeqInduct
  <1> QED
    BY <1>3 DEF T, Words, Text

\* The words of a text made of words are those words.
LEMMA SpacedIs ==
    ASSUME NEW words \in Words, words # << >>, SolidWords(words)
    PROVE  WordsOf(Spaced(words)) = words /\ Plain(Spaced(words)) /\ Spaced(words) \in Text
  <1> DEFINE n == Len(words)
             k == n - 1
             f == SubSeq(words, 1, k)
             w == words[n]
  <1>1. n \in Nat /\ n >= 1
    BY LenProperties, EmptySeq DEF Words
  <1>2. k \in Nat /\ n = k + 1
    BY <1>1
  <1> HIDE DEF k
  <1>3. /\ f \in Words /\ Len(f) = k /\ w \in Text /\ words = Append(f, w)
        /\ \A i \in 1 .. k : f[i] = words[i]
    BY <1>2, Decompose DEF Words, Text
  <1>4. Solid(w) /\ SolidWords(f)
    <2>1. n \in 1 .. n /\ \A i \in 1 .. k : i \in 1 .. n
      BY <1>1, <1>2
    <2> QED
      BY <1>3, <2>1 DEF SolidWords
  <1> HIDE DEF f, w, n
  <1> DEFINE g == Gapped(f)
  <1>5. WordsOf(g) = f /\ LastOf(g) = Space /\ Plain(g) /\ g \in Text
    BY <1>3, <1>4, GappedIs
  <1>6. Spaced(words) = g \o w
    BY <1>3, GappedMore
  <1> HIDE DEF g
  <1>7. WordsOf(g \o w) = Append(f, w) /\ Plain(g \o w) /\ g \o w \in Text
    BY <1>3, <1>4, <1>5, WordAdded, PlainAdded, JoinType
  <1> QED
    BY <1>3, <1>6, <1>7

LEMMA SolidPair ==
    ASSUME NEW p \in Piece \ {Space, Dot, "-"}, NEW q \in Piece \ {Space, Dot, "-"}
    PROVE  Solid(<<p, q>>)
  <1> DEFINE w == <<p, q>>
  <1>1. w \in Text /\ Len(w) = 2 /\ w[1] = p /\ w[2] = q
    BY DEF Text
  <1>2. w # << >>
    <2> HIDE DEF w
    <2> QED
      BY <1>1, EmptySeq DEF Text
  <1> HIDE DEF w
  <1>3. \A i \in 1 .. Len(w) : w[i] \notin {Space, Dot, "-"}
    BY <1>1
  <1> QED
    BY <1>2, <1>3 DEF Solid, w

LEMMA FixedWordsSolid == Solid(BeginWord) /\ Solid(FormatWord)
  <1>1. \A p \in {"BE", "GIN", "SALT", "PACK"} : p \in Piece \ {Space, Dot, "-"}
    BY DEF Piece, Space, Dot
  <1> QED
    BY <1>1, SolidPair DEF BeginWord, FormatWord

LEMMA TypeWordsSolid ==
    ASSUME NEW type \in MessageTypes
    PROVE  Solid(StringForType(type)[1]) /\ Solid(StringForType(type)[2])
  <1>1. StringForType(type) \in { <<<<"ENCR", "YPTED">>, <<"MESS", "AGE">>>>,
                                  <<<<"SIGN", "ED">>, <<"MESS", "AGE">>>>,
                                  <<<<"DETA", "CHED">>, <<"SIGN", "ATURE">>>> }
    BY DEF StringForType, MessageTypes
  <1>2. \A p \in {"ENCR", "YPTED", "MESS", "AGE", "SIGN", "ED", "DETA", "CHED", "ATURE"} :
            p \in Piece \ {Space, Dot, "-"}
    BY DEF Piece, Space, Dot
  <1> DEFINE S == {"ENCR", "YPTED", "MESS", "AGE", "SIGN", "ED", "DETA", "CHED", "ATURE"}
  <1>3. \A p, q \in S : Solid(<<p, q>>)
    BY <1>2, SolidPair
  <1>4. \E p, q, r, u \in S : StringForType(type) = << <<p, q>>, <<r, u>> >>
    BY <1>1
  <1> HIDE DEF S
  <1>5. PICK p \in S, q \in S, r \in S, u \in S : StringForType(type) = << <<p, q>>, <<r, u>> >>
    BY <1>4
  <1> DEFINE v == <<p, q>>
             w == <<r, u>>
  <1>6. Solid(v) /\ Solid(w) /\ StringForType(type) = <<v, w>>
    BY <1>3, <1>5
  <1> HIDE DEF v, w
  <1> QED
    BY <1>6

LEMMA BrandSolid ==
    ASSUME NEW brand \in Brands, brand # << >>
    PROVE  Solid(brand)
  <1>1. brand \in Seq(Piece \ {Space, Dot, "-"})
    BY BrandType
  <1>2. \A i \in 1 .. Len(brand) : brand[i] \in Piece \ {Space, Dot, "-"}
    BY <1>1, ElementOfSeq
  <1> QED
    BY <1>2 DEF Solid

LEMMA SomeIn ==
    ASSUME NEW words \in Words, Len(words) # 0
    PROVE  words # << >>
  OBVIOUS

\* The frames that are written are frames, and made of words.
LEMMA FrameWritten ==
    ASSUME NEW type \in MessageTypes, NEW brand \in Brands
    PROVE  LET frame == MakeFrame(type, brand)
           IN  /\ frame \in Words /\ frame # << >> /\ SolidWords(frame)
               /\ IsFrame(frame, type)
               /\ (IF Len(frame) = 5 THEN frame[2] ELSE << >>) = brand
  <1> DEFINE a == StringForType(type)[1]
             b == StringForType(type)[2]
             frame == MakeFrame(type, brand)
  <1>1. Solid(BeginWord) /\ Solid(FormatWord) /\ Solid(a) /\ Solid(b)
    BY FixedWordsSolid, TypeWordsSolid
  <1>2. CASE brand = << >>
    <2>1. /\ frame \in Words /\ Len(frame) = 4 /\ frame[1] = BeginWord
          /\ frame[2] = FormatWord /\ frame[3] = a /\ frame[4] = b
      BY <1>2, FrameIs
    <2> HIDE DEF frame, a, b
    <2>2. frame # << >>
      <3>1. Len(frame) # 0
        BY <2>1
      <3> QED
        BY <2>1, <3>1, SomeIn
    <2>3. \A i \in 1 .. 4 : i = 1 \/ i = 2 \/ i = 3 \/ i = 4
      OBVIOUS
    <2>4. SolidWords(frame)
      BY <1>1, <2>1, <2>3 DEF SolidWords
    <2>5. Len(frame) - 2 = 2 /\ Len(frame) - 1 = 3
      BY <2>1
    <2>6. IsFrame(frame, type)
      BY <2>1, <2>5 DEF IsFrame, a, b
    <2>7. (IF Len(frame) = 5 THEN frame[2] ELSE << >>) = brand
      BY <1>2, <2>1
    <2> QED
      BY <2>1, <2>2, <2>4, <2>6, <2>7, Zenon DEF frame
  <1>3. CASE brand # << >>
    <2>0. brand \in Seq(Piece) /\ Solid(brand)
      BY <1>3, BrandType, BrandSolid
    <2>1. /\ frame \in Words /\ Len(frame) = 5 /\ frame[1] = BeginWord /\ frame[2] = brand
          /\ frame[3] = FormatWord /\ frame[4] = a /\ frame[5] = b
      BY <1>3, <2>0, BrandedFrameIs
    <2> HIDE DEF frame, a, b
    <2>2. frame # << >>
      <3>1. Len(frame) # 0
        BY <2>1
      <3> QED
        BY <2>1, <3>1, SomeIn
    <2>3. \A i \in 1 .. 5 : i = 1 \/ i = 2 \/ i = 3 \/ i = 4 \/ i = 5
      OBVIOUS
    <2>4. SolidWords(frame)
      BY <1>1, <2>0, <2>1, <2>3 DEF SolidWords
    <2>5. Len(frame) - 2 = 3 /\ Len(frame) - 1 = 4
      BY <2>1
    <2>6. IsFrame(frame, type)
      BY <2>1, <2>5 DEF IsFrame, a, b
    <2> QED
      BY <2>1, <2>2, <2>4, <2>6 DEF frame
  <1> QED
    BY <1>2, <1>3

-----------------------------------------------------------------------------
(* What is said of a whole text.                                           *)

\* The text of a frame and some of its body.
Framed(text, sentence, digits) ==
    /\ text \in Text /\ HasDot(text) /\ Sentence(text) = sentence
    /\ ~HasStop(AfterDot(text), {Dot, "-"}) /\ DigitsIn(Body(text)) = digits

LEMMA FramedStart ==
    ASSUME NEW s \in Text, ~HasDot(s)
    PROVE  Framed(Append(s, Dot), s, << >>)
  <1> DEFINE t == Append(s, Dot)
  <1>1. t \in Text /\ HasDot(t) /\ Sentence(t) = s /\ AfterDot(t) = << >>
    BY Stops, AppendFacts, SentenceMore, AfterDotMore DEF Text
  <1> HIDE DEF t
  <1>2. << >> \in Text /\ ~HasStop(<< >>, {Dot, "-"})
    BY NoStopInNone DEF Text
  <1>3. Body(t) = << >>
    BY <1>1, <1>2, Stops, BeforeType DEF Body
  <1> QED
    BY <1>1, <1>2, <1>3, DigitsInNone DEF Framed, t

LEMMA FramedMore ==
    ASSUME NEW text, NEW s, NEW digits, Framed(text, s, digits),
           NEW p \in Piece, p \notin {Dot, "-"}
    PROVE  Framed(Append(text, p), s, IF p = Space THEN digits ELSE Append(digits, p))
  <1> DEFINE t == Append(text, p)
             two == {Dot, "-"}
  <1>1. text \in Text /\ HasDot(text) /\ Sentence(text) = s /\ ~HasStop(AfterDot(text), two)
        /\ DigitsIn(Body(text)) = digits
    BY DEF Framed
  <1>2. t \in Text /\ HasDot(t) /\ Sentence(t) = s
    BY <1>1, AppendFacts, SentenceMore DEF Text
  <1>3. AfterDot(text) \in Text /\ AfterDot(t) = Append(AfterDot(text), p)
    BY <1>1, AfterDotMore
  <1>4. Body(text) \in Text /\ Body(t) = Append(Body(text), p)
    BY <1>1, BodyMore
  <1> HIDE DEF t, two
  <1>5. ~HasStop(AfterDot(t), two)
    BY <1>1, <1>3, HasStopMore DEF two
  <1>6. DigitsIn(Body(t)) = IF p = Space THEN digits ELSE Append(digits, p)
    BY <1>1, <1>4, DigitsMore
  <1> QED
    BY <1>2, <1>5, <1>6 DEF Framed, t, two

LEMMA FramedEnd ==
    ASSUME NEW text, NEW s, NEW digits, Framed(text, s, digits)
    PROVE  /\ Append(text, Dot) \in Text /\ HasDot(Append(text, Dot))
           /\ Sentence(Append(text, Dot)) = s /\ DigitsIn(Body(Append(text, Dot))) = digits
  <1> DEFINE t == Append(text, Dot)
             two == {Dot, "-"}
             a == AfterDot(text)
  <1>1. text \in Text /\ HasDot(text) /\ Sentence(text) = s /\ ~HasStop(a, two)
        /\ DigitsIn(Body(text)) = digits
    BY DEF Framed
  <1>2. t \in Text /\ HasDot(t) /\ Sentence(t) = s
    BY <1>1, Stops, AppendFacts, SentenceMore DEF Text
  <1>3. a \in Text /\ AfterDot(t) = Append(a, Dot)
    BY <1>1, Stops, AfterDotMore
  <1>4. two \subseteq Piece /\ two # {} /\ Dot \in two /\ Dot \in Piece
    BY Stops
  <1>5. Body(t) = Before(AfterDot(t), two) /\ Body(text) = Before(a, two)
    BY DEF Body
  <1> HIDE DEF t, two, a
  <1>6. Body(t) = Body(text)
    BY <1>3, <1>4, <1>5, BeforeMore
  <1> QED
    BY <1>1, <1>2, <1>6 DEF t

\* Digits of the body only.
Clean(digits) == digits \in Text /\ \A i \in 1 .. Len(digits) : digits[i] = "d"

LEMMA CleanMore ==
    ASSUME NEW digits, Clean(digits)
    PROVE  Clean(Append(digits, "d")) /\ Bytes(Append(digits, "d")) = Bytes(digits) + 15
  <1> DEFINE t == Append(digits, "d")
             n == Len(digits)
             p == "d"
  <1>1. digits \in Text /\ p \in Piece /\ \A i \in 1 .. n : digits[i] = p
    BY Stops DEF Clean
  <1>2. Weight(p) = 15
    BY DEF Weight, Singles, Space, Dot
  <1>3. t = Append(digits, p)
    OBVIOUS
  <1> HIDE DEF t, p
  <1>4. t \in Text /\ Len(t) = n + 1 /\ t[n + 1] = p /\ n \in Nat /\ \A i \in 1 .. n : t[i] = digits[i]
    BY <1>1, <1>3, AppendFacts DEF Text
  <1>5. Bytes(t) = Bytes(digits) + 15
    BY <1>1, <1>2, <1>3, BytesMore
  <1> HIDE DEF n
  <1>6. \A i \in 1 .. n + 1 : i = n + 1 \/ i \in 1 .. n
    BY <1>4
  <1>7. \A i \in 1 .. Len(t) : t[i] = p
    BY <1>1, <1>4, <1>6
  <1> QED
    BY <1>4, <1>5, <1>7 DEF Clean, t, p

LEMMA CleanHeader ==
    ASSUME NEW in, NEW digits, Clean(digits), Bytes(digits) >= BlockDigits
    PROVE  DecodedHeader(in, digits) = in.header /\ FullBlock(digits)
  <1>1. DOMAIN digits = 1 .. Len(digits) /\ Bytes(digits) \in Nat
    BY LenProperties, BytesType DEF Clean, Text
  <1>2. ~Spoilt(digits)
    BY <1>1 DEF Spoilt, Clean
  <1>3. ~(Bytes(digits) < BlockDigits)
    BY <1>1 DEF BlockDigits
  <1> QED
    BY <1>2, <1>3 DEF DecodedHeader, Spoilt, FullBlock

LEMMA OwnHeaderSaid ==
    ASSUME NEW type \in MessageTypes, NEW n \in Nat, n >= 23
    PROVE  IsSaltpackBinarySlice(OwnHeader(type), n) = type
  BY DEF IsSaltpackBinarySlice, OwnHeader, MinLengthToIdentifyBinary, MessageTypes

\* The end of the text of every armored message.
LEMMA JoinEnd ==
    ASSUME NEW s \in Seq(Piece), NEW a \in Piece, NEW b \in Piece, NEW c \in Piece
    PROVE  s \o <<a, b, c, c, b, c, c, a>> =
            Append(Append(Append(Append(Append(Append(Append(Append(s, a), b), c), c), b), c), c), a)
  <1>1. s \o <<a, b, c, c, b, c, c, a>> = Append(s \o <<a, b, c, c, b, c, c>>, a)
    OBVIOUS
  <1>2. s \o <<a, b, c, c, b, c, c>> = Append(s \o <<a, b, c, c, b, c>>, c)
    OBVIOUS
  <1>3. s \o <<a, b, c, c, b, c>> = Append(s \o <<a, b, c, c, b>>, c)
    OBVIOUS
  <1>4. s \o <<a, b, c, c, b>> = Append(s \o <<a, b, c, c>>, b)
    OBVIOUS
  <1>5. s \o <<a, b, c, c>> = Append(s \o <<a, b, c>>, c)
    OBVIOUS
  <1>6. s \o <<a, b, c>> = Append(s \o <<a, b>>, c)
    OBVIOUS
  <1>7. s \o <<a, b>> = Append(Append(s, a), b)
    BY JoinTwo
  <1> QED
    BY <1>1, <1>2, <1>3, <1>4, <1>5, <1>6, <1>7, Zenon

\* The whole of a message of ours is recognised.
LEMMA WholeSaid ==
    ASSUME NEW in, NEW type \in MessageTypes, NEW brand \in Brands, NEW own \in MessageTypes,
           in.header = OwnHeader(own), StringForType(own) = StringForType(type)
    PROVE  IsSaltpackArmoredPrefix(in, ArmoredText(type, brand)) = [type |-> own, brand |-> brand]
  <1> DEFINE frame == MakeFrame(type, brand)
             s == Spaced(frame)
             text == ArmoredText(type, brand)
             d == "d"
  <1>1. /\ frame \in Words /\ frame # << >> /\ SolidWords(frame) /\ IsFrame(frame, type)
        /\ (IF Len(frame) = 5 THEN frame[2] ELSE << >>) = brand
    BY FrameWritten
  <1>2. text = s \o <<Dot, Space, d, d, Space, d, d, Dot>>
    BY DEF ArmoredText
  <1> HIDE DEF frame, text
  <1>3. WordsOf(s) = frame /\ Plain(s) /\ s \in Text
    BY <1>1, SpacedIs
  <1>4. ~HasDot(s)
    BY <1>3, PlainHasNoDot
  <1> HIDE DEF s
  <1>5. d \in Piece /\ Dot \in Piece /\ Space \in Piece /\ d # Space /\ d \notin {Dot, "-"}
        /\ Space \notin {Dot, "-"}
    BY Stops DEF Space, Dot
  <1> HIDE DEF d
  <1> DEFINE t1 == Append(s, Dot)
             t2 == Append(t1, Space)
             t3 == Append(t2, d)
             t4 == Append(t3, d)
             t5 == Append(t4, Space)
             t6 == Append(t5, d)
             t7 == Append(t6, d)
             t8 == Append(t7, Dot)
             d1 == Append(<< >>, d)
             d2 == Append(d1, d)
             d3 == Append(d2, d)
             d4 == Append(d3, d)
  <1>6. text = t8
    <2>1. s \in Seq(Piece)
      BY <1>3 DEF Text
    <2>2. s \o <<Dot, Space, d, d, Space, d, d, Dot>> = t8
      BY <1>5, <2>1, JoinEnd, Zenon
    <2> QED
      BY <1>2, <2>2
  <1>7. Framed(t1, s, << >>)
    BY <1>3, <1>4, FramedStart
  <1> HIDE DEF t1
  <1>8. Framed(t2, s, << >>)
    BY <1>5, <1>7, FramedMore
  <1> HIDE DEF t2
  <1>9. Framed(t3, s, d1)
    BY <1>5, <1>8, FramedMore
  <1> HIDE DEF t3, d1
  <1>10. Framed(t4, s, d2)
    BY <1>5, <1>9, FramedMore
  <1> HIDE DEF t4, d2
  <1>11. Framed(t5, s, d2)
    BY <1>5, <1>10, FramedMore
  <1> HIDE DEF t5
  <1>12. Framed(t6, s, d3)
    BY <1>5, <1>11, FramedMore
  <1> HIDE DEF t6, d3
  <1>13. Framed(t7, s, d4)
    BY <1>5, <1>12, FramedMore
  <1> HIDE DEF t7, d4
  <1>14. text \in Text /\ HasDot(text) /\ Sentence(text) = s /\ DigitsIn(Body(text)) = d4
    BY <1>6, <1>13, FramedEnd
  <1> HIDE DEF t8
  <1>15. Clean(d4) /\ Bytes(d4) >= BlockDigits
    <2> DEFINE e == << >>
    <2>1. Clean(e) /\ Bytes(e) = 0 /\ d1 = Append(e, "d")
      BY BytesOfNone DEF Clean, Text, d1, d
    <2> HIDE DEF e
    <2>2. Clean(d1) /\ Bytes(d1) = 15
      BY <2>1, CleanMore
    <2>3. Clean(d2) /\ Bytes(d2) = 30
      BY <2>2, CleanMore DEF d2, d
    <2>4. Clean(d3) /\ Bytes(d3) = 45
      BY <2>3, CleanMore DEF d3, d
    <2>5. Clean(d4) /\ Bytes(d4) = 60
      BY <2>4, CleanMore DEF d4, d
    <2> QED
      BY <2>5 DEF BlockDigits
  <1>16. HeaderType(in, text) = own /\ FullBlock(DigitsIn(Body(text)))
    <2>1. DecodedHeader(in, d4) = OwnHeader(own) /\ FullBlock(d4)
      BY <1>15, CleanHeader
    <2> DEFINE k == 32
    <2>2. k \in Nat /\ k >= 23
      OBVIOUS
    <2> HIDE DEF k
    <2>3. IsSaltpackBinarySlice(OwnHeader(own), k) = own
      BY <2>2, OwnHeaderSaid
    <2> QED
      BY <1>14, <2>1, <2>3 DEF HeaderType, k
  <1> DEFINE F == Frames(text)
             c == CHOOSE u \in F : TRUE
  <1>17. F = {u \in MessageTypes : HasDot(text) /\ Plain(Sentence(text))
                                   /\ IsFrame(WordsOf(Sentence(text)), u)}
    BY <1>14, FramesAre
  <1>18. type \in F /\ \A u \in F : u \in MessageTypes /\ IsFrame(frame, u)
    BY <1>1, <1>3, <1>14, <1>17
  <1> HIDE DEF F
  <1>19. Fits(own, F)
    BY <1>18 DEF Fits, FrameFits
  <1>20. c \in F
    BY <1>18
  <1> HIDE DEF c
  <1>21. FrameBrand(s, c) = brand
    BY <1>1, <1>3, <1>18, <1>20, FrameBrandIs
  <1>22. F # {}
    BY <1>18
  <1>23. IsSaltpackArmoredPrefix(in, text) =
            IF F = {} THEN NoAnswer(IF HeaderToCome(text) THEN "short" ELSE "not")
            ELSE IF ~FullBlock(DigitsIn(Body(text))) THEN NoAnswer("short")
            ELSE IF HeaderType(in, text) \notin MessageTypes \/ ~Fits(HeaderType(in, text), F)
                 THEN NoAnswer("not")
            ELSE [type |-> HeaderType(in, text), brand |-> FrameBrand(Sentence(text), c)]
    BY SaidIs DEF F, c
  <1>24. IsSaltpackArmoredPrefix(in, text) = [type |-> own, brand |-> FrameBrand(s, c)]
    BY <1>14, <1>16, <1>19, <1>22, <1>23
  <1> QED
    BY <1>21, <1>24 DEF text

-----------------------------------------------------------------------------
(* Messages of ours are not denied.                                        *)

\* The beginnings of a text that is told to be a message.
LEMMA SaidOfPrefix ==
    ASSUME NEW in, NEW text \in Text, NEW n \in 0 .. Len(text)
    PROVE  \/ IsSaltpackArmoredPrefix(in, SubSeq(text, 1, n)).type = "short"
           \/ IsSaltpackArmoredPrefix(in, SubSeq(text, 1, n)) = IsSaltpackArmoredPrefix(in, text)
  <1> DEFINE L == Len(text)
             Said(k) == IsSaltpackArmoredPrefix(in, SubSeq(text, 1, k))
             whole == IsSaltpackArmoredPrefix(in, text)
             T == {k \in 0 .. L : Said(k).type = "short" \/ Said(k) = whole}
  <1>1. L \in Nat /\ L \in 0 .. L
    BY LenProperties DEF Text
  <1>2. L \in T
    <2>1. SubSeq(text, 1, L) = text
      BY WholeSubSeq DEF Text
    <2> QED
      BY <1>1, <2>1
  <1>3. ASSUME NEW k \in 0 .. L, k < L, k + 1 \in T
        PROVE  k \in T
    <2> DEFINE s == SubSeq(text, 1, k)
               p == text[k + 1]
    <2>1. SubSeq(text, 1, k + 1) = Append(s, p) /\ s \in Text /\ p \in Piece
      BY <1>3, SubSeqNext DEF Text
    <2>2. Said(k + 1).type = "short" \/ Said(k + 1) = whole
      BY <1>3
    <2> HIDE DEF p
    <2>3. Said(k).type = "short" \/ Said(k + 1) = Said(k)
      <3>1. Said(k) = IsSaltpackArmoredPrefix(in, s)
            /\ Said(k + 1) = IsSaltpackArmoredPrefix(in, Append(s, p))
        BY <2>1
      <3> HIDE DEF s, Said
      <3> QED
        BY <2>1, <3>1, SaidStands
    <2> HIDE DEF Said, whole
    <2> QED
      BY <2>2, <2>3
  <1> HIDE DEF T, L
  <1>4. \A k \in 0 .. L : k \in T
    BY <1>1, <1>2, <1>3, DownTo
  <1> QED
    BY <1>4 DEF T, L

LEMMA BytesOfPrefix ==
    ASSUME NEW text \in Text, NEW n \in 0 .. Len(text)
    PROVE  /\ Bytes(SubSeq(text, 1, n)) \in Nat /\ Bytes(text) \in Nat
           /\ Bytes(SubSeq(text, 1, n)) <= Bytes(text)
  <1> DEFINE L == Len(text)
             b(k) == Bytes(SubSeq(text, 1, k))
             T == {k \in 0 .. L : b(k) <= Bytes(text)}
  <1>1. L \in Nat /\ L \in 0 .. L
    BY LenProperties DEF Text
  <1>2. Bytes(text) \in Nat /\ \A k \in 0 .. L : b(k) \in Nat
    BY BytesType, PrefixIn
  <1>3. L \in T
    <2>1. SubSeq(text, 1, L) = text
      BY WholeSubSeq DEF Text
    <2>2. b(L) = Bytes(text)
      BY <2>1
    <2> HIDE DEF b
    <2>3. b(L) <= Bytes(text)
      BY <1>2, <2>2
    <2> QED
      BY <1>1, <2>3
  <1>4. ASSUME NEW k \in 0 .. L, k < L, k + 1 \in T
        PROVE  k \in T
    <2>1. b(k) < b(k + 1)
      BY <1>4, BytesGrow
    <2>2. b(k + 1) <= Bytes(text)
      BY <1>4
    <2>3. b(k) \in Nat /\ b(k + 1) \in Nat
      BY <1>1, <1>2, <1>4
    <2> HIDE DEF b
    <2>4. b(k) <= Bytes(text)
      BY <1>2, <2>1, <2>2, <2>3
    <2> QED
      BY <2>4
  <1> HIDE DEF T, L
  <1>5. \A k \in 0 .. L : k \in T
    BY <1>1, <1>3, <1>4, DownTo
  <1> QED
    BY <1>2, <1>5 DEF T, L

LEMMA LenBytes ==
    ASSUME NEW text \in Text
    PROVE  Len(text) <= Bytes(text)
  <1> DEFINE T == {s \in Text : Len(s) <= Bytes(s)}
  <1>1. << >> \in T
    BY BytesOfNone DEF Text
  <1>2. ASSUME NEW s \in Text, NEW p \in Piece, s \in T
        PROVE  Append(s, p) \in T
    <2> DEFINE t == Append(s, p)
               w == Weight(p)
    <2>1. t \in Text /\ Len(t) = Len(s) + 1 /\ Len(s) \in Nat
      BY AppendFacts DEF Text
    <2>2. Bytes(s) \in Nat /\ w \in Nat /\ w >= 1 /\ Bytes(t) = Bytes(s) + w
      BY BytesMore
    <2>3. Len(s) <= Bytes(s)
      BY <1>2
    <2> HIDE DEF t, w
    <2>4. Len(t) <= Bytes(t)
      BY <2>1, <2>2, <2>3
    <2> QED
      BY <2>1, <2>4 DEF t
  <1> HIDE DEF T
  <1>3. \A s \in Text : s \in T
    BY <1>1, <1>2, SeqInduct DEF Text
  <1> QED
    BY <1>3 DEF T

\* A buffer that does not hold the first piece is smaller than 23 bytes.
LEMMA FirstPiece ==
    ASSUME NEW text \in Text, Len(text) > 0
    PROVE  Bytes(SubSeq(text, 1, 1)) \in Nat /\ Bytes(SubSeq(text, 1, 1)) <= 15
  <1> DEFINE s == SubSeq(text, 1, 0)
             p == text[1]
             w == Weight(p)
  <1>1. Len(text) \in Nat /\ 0 \in Nat /\ 0 < Len(text) /\ 0 \in 0 .. Len(text) /\ 0 + 1 = 1
    BY LenProperties DEF Text
  <1>2. SubSeq(text, 1, 1) = Append(s, p) /\ s \in Text /\ p \in Piece
    BY <1>1, SubSeqNext DEF Text
  <1>3. s = << >>
    <2>1. Len(s) = 0
      BY <1>1, SubSeqStart DEF Text
    <2> HIDE DEF s
    <2> QED
      BY <1>2, <2>1, EmptySeq DEF Text
  <1> DEFINE b == Bytes(s)
  <1>4. b = 0
    BY <1>3, BytesOfNone
  <1> HIDE DEF s, p
  <1>5. Bytes(Append(s, p)) = b + w /\ w \in Nat
    BY <1>2, BytesMore
  <1>6. w <= 15
    BY DEF Weight
  <1> DEFINE c == Bytes(SubSeq(text, 1, 1))
  <1>7. c = Bytes(Append(s, p))
    BY <1>2
  <1> HIDE DEF w, b, c
  <1>8. c \in Nat /\ c <= 15
    BY <1>4, <1>5, <1>6, <1>7
  <1> QED
    BY <1>8 DEF c

\* What a genuine message is taken for.
Recognised == [type |-> input.type, brand |-> input.brand]

LEMMA GenuineArmored ==
    ASSUME Good, input.genuine, input.armored
    PROVE  /\ IsSaltpackArmoredPrefix(input, input.text) = Recognised
           /\ input.type \in MessageTypes /\ input.text # << >>
           /\ \A n \in 0 .. Len(input.text) :
                \/ IsSaltpackArmoredPrefix(input, PrefixOf(n)).type = "short"
                \/ IsSaltpackArmoredPrefix(input, PrefixOf(n)) = Recognised
  <1>1. input \in ArmoredInputs
    BY BinaryInputType DEF Good
  <1>2. input.text \in Text
    BY GoodText
  <1>3. PICK t \in {"encryption", "attached", "detached"}, b \in Brands, own \in MessageTypes :
            /\ input.header = OwnHeader(own) /\ input.type = own /\ input.brand = b
            /\ StringForType(own) = StringForType(t)
            /\ WordsOf(input.text) = WordsOf(ArmoredText(t, b))
    BY <1>1, ArmoredInputType
  <1>4. t \in MessageTypes
    BY DEF MessageTypes
  <1>5. ArmoredText(t, b) \in Text
    BY <1>4, ArmoredTextType
  <1>6. IsSaltpackArmoredPrefix(input, ArmoredText(t, b)) = [type |-> own, brand |-> b]
    BY <1>3, <1>4, WholeSaid
  <1>7. IsSaltpackArmoredPrefix(input, input.text) = Recognised
    BY <1>2, <1>3, <1>5, <1>6, SaidOfWords DEF Recognised
  <1>8. Recognised.type \in MessageTypes
    BY <1>3 DEF Recognised
  <1>9. input.text # << >>
    <2>1. HasDot(input.text)
      BY <1>2, <1>7, <1>8, SaidFrame
    <2> QED
      BY <2>1, NoStopInNone DEF HasDot
  <1>10. ASSUME NEW n \in 0 .. Len(input.text)
         PROVE  \/ IsSaltpackArmoredPrefix(input, PrefixOf(n)).type = "short"
                \/ IsSaltpackArmoredPrefix(input, PrefixOf(n)) = Recognised
    BY <1>2, <1>7, SaidOfPrefix DEF PrefixOf
  <1> QED
    BY <1>3, <1>7, <1>9, <1>10

LEMMA GenuineBinary ==
    ASSUME Good, input.genuine, ~input.armored
    PROVE  /\ \A n \in Nat : n >= 23 => IsSaltpackBinarySlice(BinaryPrefix, n) = input.type
           /\ input.type \in MessageTypes /\ input.brand = << >>
           /\ Bytes(input.text) >= 23 /\ input.armored = FALSE
           /\ \A n \in 1 .. Len(input.text) :
                IsSaltpackArmoredPrefix(input, PrefixOf(n)) = NoAnswer("not")
  <1>1. input \in BinaryInputs
    BY ArmoredInputType DEF Good
  <1> DEFINE h == input.header
             text == input.text
  <1>2. /\ h.name /\ h.bin # 0 /\ h.array # 0 /\ h.type # "other" /\ Len(text) >= 23
        /\ input.type = h.type /\ input.brand = << >> /\ input.armored = FALSE
        /\ GoodInput(input)
    BY <1>1, BinaryInputType
  <1>3. h \in BinaryHeaders /\ text \in Text /\ Len(text) \in Nat /\ Decodable(input)
    BY <1>2, LenProperties DEF GoodInput, Text
  <1>4. BinaryPrefix = h
    BY <1>2 DEF BinaryPrefix
  <1>5. PICK m \in BinaryLens : text = [i \in 1 .. m |-> "-"]
    BY <1>1, BinaryInputType
  <1>6. \A i \in 1 .. Len(text) : text[i] = "-"
    <2>1. DOMAIN text = 1 .. Len(text) /\ DOMAIN text = 1 .. m
      BY <1>3, <1>5, LenProperties DEF Text
    <2> QED
      BY <1>5, <2>1
  <1>7. Bytes(text) \in Nat /\ Bytes(text) >= 23
    <2>1. Len(text) <= Bytes(text) /\ Bytes(text) \in Nat
      BY <1>3, LenBytes, BytesType
    <2> QED
      BY <1>2, <1>3, <2>1
  <1> HIDE DEF h, text
  <1>8. h.type \in MessageTypes
    BY <1>2, <1>3 DEF BinaryHeaders
  <1>9. ASSUME NEW n \in Nat, n >= 23
        PROVE  IsSaltpackBinarySlice(h, n) = h.type
    <2>1. h.bin \in {2, 3, 5} /\ h.array \in {1, 3, 5}
      BY <1>2, <1>3 DEF BinaryHeaders
    <2>2. h.bin + h.array + 9 + 3 + 1 <= n
      BY <1>9, <2>1
    <2> QED
      BY <1>2, <1>9, <2>2 DEF IsSaltpackBinarySlice, MinLengthToIdentifyBinary
  <1>10. ASSUME NEW n \in 1 .. Len(text)
         PROVE  IsSaltpackArmoredPrefix(input, PrefixOf(n)) = NoAnswer("not")
    <2> DEFINE s == PrefixOf(n)
    <2>1. n \in 0 .. Len(text) /\ 1 \in 1 .. n /\ n \in Nat /\ \A i \in 1 .. n : i \in 1 .. Len(text)
      BY <1>3
    <2>2. s \in Text /\ Len(s) = n /\ \A i \in 1 .. n : s[i] = text[i]
      BY <1>3, <2>1, SubSeqStart DEF PrefixOf, text, Text
    <2> HIDE DEF s
    <2>3. \A i \in 1 .. n : s[i] = "-"
      BY <1>6, <2>1, <2>2
    <2>4. ~HasDot(s)
      BY <2>2, <2>3 DEF HasDot, HasStop, Dot
    <2>5. ~Plain(s)
      <3>1. HasStop(s, {Dot, "-"})
        BY <2>1, <2>2, <2>3 DEF HasStop
      <3> QED
        BY <2>2, <3>1, PlainIs
    <2>6. ~HeaderToCome(s)
      BY <2>5 DEF HeaderToCome
    <2>7. Frames(s) = {}
      BY <2>2, <2>4, NoDotNoFrame
    <2>8. IsSaltpackArmoredPrefix(input, s) = NoAnswer("not")
      BY <2>6, <2>7, SaidIs
    <2> QED
      BY <2>8 DEF s
  <1> QED
    BY <1>2, <1>4, <1>7, <1>8, <1>9, <1>10 DEF h, text

\* The first half of NeverDenied: what a caller with a slice is told.
SliceTrue ==
    input.genuine =>
        IF input.armored THEN ArmoredSlice(got) \in {"short", input.type}
        ELSE BinarySlice(got) \in {"short", input.type}

LEMMA GenuineSlice ==
    ASSUME Good
    PROVE  SliceTrue
  <1> SUFFICES ASSUME input.genuine
               PROVE  IF input.armored THEN ArmoredSlice(got) \in {"short", input.type}
                      ELSE BinarySlice(got) \in {"short", input.type}
    BY DEF SliceTrue
  <1>1. input.text \in Text /\ got \in 0 .. Len(input.text)
    BY GoodText
  <1>2. CASE input.armored
    <2>1. Recognised.type = input.type
      BY DEF Recognised
    <2>2. ArmoredSlice(got) = "short" \/ ArmoredSlice(got) = Recognised.type
      BY <1>1, <1>2, GenuineArmored DEF ArmoredSlice
    <2> QED
      BY <1>2, <2>1, <2>2
  <1>3. CASE ~input.armored
    <2> DEFINE b == Bytes(PrefixOf(got))
    <2>1. b \in Nat
      BY <1>1, PrefixIn DEF PrefixOf
    <2>2. BinarySlice(got) = IsSaltpackBinarySlice(BinaryPrefix, b)
      BY DEF BinarySlice
    <2> HIDE DEF b
    <2>3. CASE b >= 23
      BY <1>3, <2>1, <2>2, <2>3, GenuineBinary
    <2>4. CASE b < 23
      <3>1. IsSaltpackBinarySlice(BinaryPrefix, b) = "short"
        BY <2>1, <2>4 DEF IsSaltpackBinarySlice, MinLengthToIdentifyBinary
      <3> QED
        BY <1>3, <2>2, <3>1
    <2> QED
      BY <2>1, <2>3, <2>4
  <1> QED
    BY <1>2, <1>3

Told ==
    input.genuine /\ pc = "done" /\ failures = 0 =>
        \/ answer = [armored |-> input.armored, type |-> input.type, brand |-> input.brand]
        \/ answer.type = "short" /\ size < Bytes(input.text)

\* An armored message is looked at as a binary one only if the buffer is too
\* small to hold its first piece.
Small ==
    input.genuine /\ input.armored /\ pc = "binary" /\ failures = 0 =>
        size < MinLengthToIdentifyBinary /\ size < Bytes(input.text)

LEMMA NeverDeniedIs == NeverDenied <=> SliceTrue /\ Told
  BY Zenon DEF NeverDenied, SliceTrue, Told

LEMMA ArmoredBranch ==
    ASSUME NEW err, IsSaltpackArmored(err)
    PROVE  IF SaidOf(err).type \in MessageTypes \/ SaidOf(err).type = "short"
           THEN Answers(SaidOf(err).type # "short", SaidOf(err))
           ELSE pc' = "binary"
  BY DEF IsSaltpackArmored, SaidOf

\* The first Peek, without an error of the source, at an armored message.
LEMMA FirstPeek ==
    ASSUME Good, NEW err \in {"nil", "EOF"}, IsSaltpackArmored(err),
           input.genuine, input.armored
    PROVE  \/ got # 0 /\ IsSaltpackArmoredPrefix(input, Prefix) = Recognised
           \/ got # 0 /\ IsSaltpackArmoredPrefix(input, Prefix).type = "short"
                      /\ size < Bytes(input.text)
           \/ got = 0 /\ size < MinLengthToIdentifyBinary /\ size < Bytes(input.text)
  <1> DEFINE text == input.text
             L == Len(text)
             b(n) == Bytes(PrefixOf(n))
             whole == Bytes(text)
             said(n) == IsSaltpackArmoredPrefix(input, PrefixOf(n))
  <1>1. text \in Text /\ L \in Nat /\ got \in Nat /\ got \in 0 .. L /\ size \in Nat
    BY GoodText DEF Good
  <1>2. /\ IsSaltpackArmoredPrefix(input, text) = Recognised /\ Recognised.type # "short"
        /\ text # << >> /\ \A n \in 0 .. L : said(n).type = "short" \/ said(n) = Recognised
    BY GenuineArmored DEF Recognised, MessageTypes
  <1>3. Prefix = PrefixOf(got) /\ PrefixOf(L) = text
    BY <1>1, WholeSubSeq DEF Prefix, PrefixOf, Text
  <1>4. L >= 1
    BY <1>1, <1>2, EmptySeq DEF Text
  <1>5. \A n \in 0 .. L : b(n) \in Nat /\ whole \in Nat /\ b(n) <= whole
    BY <1>1, BytesOfPrefix DEF PrefixOf
  <1>6. \A n \in Nat : n < L => b(n) < b(n + 1)
    BY <1>1, BytesGrow DEF PrefixOf
  <1>7. \/ err = "nil" /\ (b(got) >= size \/ (got < L /\ b(got + 1) > size))
        \/ err = "EOF" /\ got = L
    <2>1. /\ err = "nil" => Enough(Wanted)
          /\ err = "EOF" => got = L
          /\ Wanted = size
      BY DEF IsSaltpackArmored, PeekEnds, Wanted
    <2> QED
      BY <1>3, <2>1 DEF Enough
  <1>8. got = L => said(got) = Recognised
    BY <1>2, <1>3
  <1>9. b(1) \in Nat /\ b(1) <= 15 /\ b(0) = 0
    <2>1. PrefixOf(0) = << >>
      <3> DEFINE s == SubSeq(text, 1, 0)
      <3>1. 0 \in 0 .. L
        BY <1>1
      <3>2. s \in Text /\ Len(s) = 0
        BY <1>1, <3>1, SubSeqStart DEF Text
      <3> HIDE DEF s
      <3>3. s = << >>
        BY <3>2, EmptySeq DEF Text
      <3> QED
        BY <3>3 DEF s, PrefixOf
    <2>2. b(1) \in Nat /\ b(1) <= 15
      BY <1>1, <1>4, FirstPiece DEF PrefixOf
    <2> QED
      BY <2>1, <2>2, BytesOfNone
  <1> HIDE DEF text, L, b, whole, said
  <1>10. got < L => size < whole \/ err = "EOF"
    <2> SUFFICES ASSUME got < L, err = "nil"
                 PROVE  size < whole
      BY <1>7
    <2>1. got \in 0 .. L /\ got + 1 \in 0 .. L
      BY <1>1
    <2> DEFINE x == b(got)
               y == b(got + 1)
    <2>2. x \in Nat /\ y \in Nat /\ whole \in Nat /\ y <= whole /\ x < y
      BY <1>1, <1>5, <1>6, <2>1
    <2>3. x >= size \/ y > size
      BY <1>7
    <2> HIDE DEF x, y
    <2> QED
      BY <1>1, <2>2, <2>3
  <1>11. CASE got = 0
    <2>1. got < L /\ err = "nil"
      BY <1>1, <1>4, <1>7, <1>11
    <2>2. size < whole
      BY <1>10, <2>1
    <2>3. b(0) >= size \/ b(1) > size
      BY <1>7, <1>11, <2>1
    <2>4. size < 23
      BY <1>1, <1>9, <2>3
    <2> QED
      BY <1>11, <2>2, <2>4 DEF whole, text, MinLengthToIdentifyBinary
  <1>12. CASE got # 0
    <2>1. said(got).type = "short" \/ said(got) = Recognised
      BY <1>1, <1>2
    <2>2. CASE said(got) = Recognised
      BY <1>3, <1>12, <2>2 DEF said
    <2>3. CASE said(got).type = "short"
      <3>1. got # L
        BY <1>2, <1>8, <2>3
      <3>2. got < L /\ err # "EOF"
        BY <1>1, <1>7, <3>1
      <3>3. size < whole
        BY <1>10, <3>2
      <3> QED
        BY <1>3, <1>12, <2>3, <3>3 DEF said, whole, text
    <2> QED
      BY <2>1, <2>2, <2>3
  <1> QED
    BY <1>11, <1>12

LEMMA GoodInputArmored ==
    ASSUME Good, input.armored
    PROVE  input.armored = TRUE
  BY InputType DEF Good, GoodInput

LEMMA NoFailure ==
    ASSUME Good, NEW err \in {"nil", "EOF", "source"}, PeekEnds(err), failures' = 0
    PROVE  failures = 0 /\ err \in {"nil", "EOF"} /\ input' = input /\ size' = size
  <1>1. failures \in Nat
    <2>1. failures \in 0 .. MaxFailures /\ MaxFailures \in Nat
      BY ClassifyAssumption DEF Good, TypeOK
    <2> QED
      BY <2>1
  <1>2. failures' = IF err = "source" THEN failures + 1 ELSE failures
    BY DEF PeekEnds
  <1> QED
    BY <1>1, <1>2 DEF PeekEnds

LEMMA AnswerSet ==
    ASSUME NEW armored, NEW a, Answers(armored, a)
    PROVE  answer' = [armored |-> armored, type |-> a.type, brand |-> a.brand] /\ pc' = "done"
  BY DEF Answers

LEMMA ToldArmored ==
    ASSUME Good, NEW err \in {"nil", "EOF", "source"}, IsSaltpackArmored(err)
    PROVE  Told' /\ Small'
  <1> DEFINE a == SaidOf(err)
             armored == a.type # "short"
  <1>1. PeekEnds(err) /\ input' = input /\ size' = size
    BY ArmoredStep, FailuresType
  <1>2. SUFFICES ASSUME input.genuine, failures' = 0
                 PROVE  Told' /\ Small'
    BY <1>1 DEF Told, Small
  <1>3. err \in {"nil", "EOF"}
    BY <1>1, <1>2, NoFailure
  <1>4. IF a.type \in MessageTypes \/ a.type = "short" THEN Answers(armored, a) ELSE pc' = "binary"
    BY ArmoredBranch
  <1>5. err \notin MessageTypes /\ err # "short" /\ "short" \notin MessageTypes
        /\ "not" \notin MessageTypes /\ \A why : NoAnswer(why).type = why
    BY <1>3 DEF MessageTypes, NoAnswer
  <1>6. CASE input.armored
    <2>0. input.armored = TRUE
      BY <1>6, GoodInputArmored
    <2>1. CASE got # 0 /\ IsSaltpackArmoredPrefix(input, Prefix) = Recognised
      <3>1. a = Recognised
        BY <1>3, <2>1 DEF SaidOf
      <3>2. a.type = input.type /\ a.brand = input.brand
        BY <3>1 DEF Recognised
      <3>3. input.type \in MessageTypes
        BY <1>2, <1>6, GenuineArmored
      <3> HIDE DEF a
      <3>4. Answers(armored, a) /\ armored = TRUE
        BY <1>4, <1>5, <3>2, <3>3
      <3> HIDE DEF armored
      <3>5. answer' = [armored |-> armored, type |-> a.type, brand |-> a.brand] /\ pc' = "done"
        BY <3>4, AnswerSet
      <3>6. answer' = [armored |-> input.armored, type |-> input.type, brand |-> input.brand]
        BY <2>0, <3>2, <3>4, <3>5
      <3> QED
        BY <1>1, <3>5, <3>6 DEF Told, Small
    <2>2. CASE /\ got # 0 /\ IsSaltpackArmoredPrefix(input, Prefix).type = "short"
               /\ size < Bytes(input.text)
      <3>1. a.type = "short"
        BY <1>3, <2>2 DEF SaidOf
      <3> HIDE DEF a
      <3>2. Answers(armored, a)
        BY <1>4, <3>1
      <3> HIDE DEF armored
      <3>3. answer' = [armored |-> armored, type |-> a.type, brand |-> a.brand] /\ pc' = "done"
        BY <3>2, AnswerSet
      <3>4. answer'.type = "short"
        BY <3>1, <3>3
      <3> QED
        BY <1>1, <2>2, <3>3, <3>4 DEF Told, Small
    <2>3. CASE got = 0 /\ size < MinLengthToIdentifyBinary /\ size < Bytes(input.text)
      <3>1. a.type = err
        BY <1>5, <2>3 DEF SaidOf
      <3> HIDE DEF a
      <3>2. pc' = "binary"
        BY <1>4, <1>5, <3>1
      <3> QED
        BY <1>1, <2>3, <3>2 DEF Told, Small
    <2> QED
      BY <1>2, <1>3, <1>6, <2>1, <2>2, <2>3, FirstPeek
  <1>7. CASE ~input.armored
    <2>1. a.type = err \/ a.type = "not"
      <3>1. CASE got = 0
        BY <1>5, <3>1 DEF SaidOf
      <3>2. CASE got # 0
        <4>1. a = IsSaltpackArmoredPrefix(input, Prefix)
          BY <1>3, <3>2 DEF SaidOf
        <4>2. got \in 1 .. Len(input.text)
          BY <3>2, GoodText
        <4>3. Prefix = PrefixOf(got)
          BY DEF Prefix
        <4>4. a = NoAnswer("not")
          BY <1>2, <1>7, <4>1, <4>2, <4>3, GenuineBinary
        <4> QED
          BY <1>5, <4>4
      <3> QED
        BY <3>1, <3>2
    <2> HIDE DEF a, armored
    <2>2. pc' = "binary"
      BY <1>4, <1>5, <2>1
    <2> QED
      BY <1>1, <1>7, <2>2 DEF Told, Small
  <1> QED
    BY <1>6, <1>7

LEMMA ToldBinary ==
    ASSUME Good, Small, NEW err \in {"nil", "EOF", "source"}, IsSaltpackBinary(err)
    PROVE  Told' /\ Small'
  <1> DEFINE n == MinLengthToIdentifyBinary
             why == IF size < n THEN "short"
                    ELSE IF err # "nil" THEN err
                    ELSE IsSaltpackBinarySlice(BinaryPrefix, n)
             a == NoAnswer(why)
  <1>1. PeekEnds(err) /\ pc = "binary" /\ Answers(FALSE, a)
    BY DEF IsSaltpackBinary
  <1>2. input' = input /\ size' = size
    BY <1>1, FailuresType
  <1>3. a.type = why /\ a.brand = << >>
    BY DEF NoAnswer
  <1>4. n \in Nat /\ n = 23 /\ size \in Nat
    BY DEF MinLengthToIdentifyBinary, Good
  <1>5. (size < n => why = "short") /\ (~(size < n) /\ err = "nil" => why = IsSaltpackBinarySlice(BinaryPrefix, n))
    OBVIOUS
  <1>6. Wanted = n
    BY <1>1 DEF Wanted
  <1> HIDE DEF why, a, n
  <1>7. answer' = [armored |-> FALSE, type |-> why, brand |-> << >>] /\ pc' = "done"
    <2>1. answer' = [armored |-> FALSE, type |-> a.type, brand |-> a.brand] /\ pc' = "done"
      BY <1>1, AnswerSet
    <2> QED
      BY <1>3, <2>1
  <1>8. Small'
    BY <1>7 DEF Small
  <1>9. SUFFICES ASSUME input.genuine, failures' = 0
                 PROVE  \/ answer' = [armored |-> input.armored, type |-> input.type, brand |-> input.brand]
                        \/ answer'.type = "short" /\ size < Bytes(input.text)
    BY <1>2, <1>8 DEF Told
  <1>10. failures = 0 /\ err \in {"nil", "EOF"}
    BY <1>1, <1>9, NoFailure
  <1>11. CASE input.armored
    <2>1. size < n /\ size < Bytes(input.text)
      BY <1>1, <1>9, <1>10, <1>11 DEF Small, n
    <2>2. answer'.type = "short"
      BY <1>5, <1>7, <2>1
    <2> QED
      BY <2>1, <2>2
  <1>12. CASE ~input.armored
    <2> DEFINE whole == Bytes(input.text)
    <2>1. /\ \A k \in Nat : k >= 23 => IsSaltpackBinarySlice(BinaryPrefix, k) = input.type
          /\ input.brand = << >> /\ whole >= 23 /\ input.armored = FALSE
      BY <1>9, <1>12, GenuineBinary
    <2>2. input.text \in Text /\ whole \in Nat
      BY GoodText, BytesType
    <2>3. CASE size < n
      <3>1. answer'.type = "short"
        BY <1>5, <1>7, <2>3
      <3> HIDE DEF whole
      <3>2. size < whole
        BY <1>4, <2>1, <2>2, <2>3
      <3> QED
        BY <3>1, <3>2 DEF whole
    <2>4. CASE ~(size < n) /\ err = "nil"
      <3>1. why = input.type
        BY <1>4, <1>5, <2>1, <2>4
      <3> QED
        BY <1>7, <2>1, <3>1
    <2>5. CASE err = "EOF"
      <3>1. ~Enough(n) /\ got = Len(input.text)
        BY <1>1, <1>6, <2>5 DEF PeekEnds
      <3>2. Prefix = input.text
        BY <2>2, <3>1, WholeSubSeq DEF Prefix, PrefixOf, Text
      <3>3. whole >= n
        BY <1>4, <2>1
      <3> QED
        BY <3>1, <3>2, <3>3 DEF Enough
    <2> QED
      BY <1>10, <2>3, <2>4, <2>5
  <1> QED
    BY <1>11, <1>12

\* No beginning of a message of ours is denied or taken for another type,
\* wherever it is cut and however its words are spaced, for every brand (one
\* that is itself a word of frames, too); and if the source does not fail,
\* ClassifyStream recognises the whole of it or has a buffer too small for it.
THEOREM NothingDenied == Spec => []NeverDenied
  <1>1. Init => Told /\ Small
    BY DEF Init, Told, Small
  <1>2. Good /\ Told /\ Small /\ [Next]_vars => Told' /\ Small'
    <2> SUFFICES ASSUME Good, Told, Small, [Next]_vars
                 PROVE  Told' /\ Small'
      OBVIOUS
    <2>1. CASE Fill
      BY <2>1 DEF Fill, Told, Small
    <2>2. ASSUME NEW err \in {"nil", "EOF", "source"}, IsSaltpackArmored(err)
          PROVE  Told' /\ Small'
      BY <2>2, ToldArmored
    <2>3. ASSUME NEW err \in {"nil", "EOF", "source"}, IsSaltpackBinary(err)
          PROVE  Told' /\ Small'
      BY <2>3, ToldBinary
    <2>4. CASE UNCHANGED vars
      BY <2>4 DEF vars, Told, Small
    <2> QED
      BY <2>1, <2>2, <2>3, <2>4 DEF Next
  <1>3. Good /\ Told => NeverDenied
    BY GenuineSlice, NeverDeniedIs
  <1> QED
    BY <1>1, <1>2, <1>3, GoodAlways, PTL DEF Spec

=============================================================================
