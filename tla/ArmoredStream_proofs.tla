------------------------- MODULE ArmoredStream_proofs -------------------------
(***************************************************************************)
(* Proofs about ArmoredStream and the ArmorWriter in it: however the bytes *)
(* of a message come to the armor, the text is the one that armoring them  *)
(* all at once gives, and a text that has all of its frame, which a failed *)
(* call may have left too, holds a whole message.                          *)
(***************************************************************************)
EXTENDS ArmoredStream, ArmorFormat_proofs

-----------------------------------------------------------------------------
(* The encoder.                                                            *)

LEMMA FirstAndRest ==
    ASSUME NEW S, NEW s \in Seq(S), NEW n \in 0 .. Len(s)
    PROVE  /\ First(s, n) \in Seq(S) /\ Len(First(s, n)) = n
           /\ Without(s, n) \in Seq(S) /\ Len(Without(s, n)) = Len(s) - n
           /\ s = First(s, n) \o Without(s, n)
  <1>1. Len(s) \in Nat /\ n \in Nat /\ n <= Len(s)
    BY LenProperties
  <1>2. First(s, n) = SubSeq(s, 1, n) /\ Without(s, n) = SubSeq(s, n + 1, Len(s))
    BY <1>1 DEF First, Without
  <1>3. \A i \in 1 .. Len(s) : s[i] \in S
    BY ElementOfSeq
  <1>4. SubSeq(s, 1, n) \in Seq(S) /\ Len(SubSeq(s, 1, n)) = n
    BY <1>1, <1>3, SubSeqProperties
  <1>5. /\ SubSeq(s, n + 1, Len(s)) \in Seq(S)
        /\ Len(SubSeq(s, n + 1, Len(s))) = Len(s) - n
    BY <1>1, <1>3, SubSeqProperties
  <1>6. s = SubSeq(s, 1, n) \o SubSeq(s, n + 1, Len(s))
    BY SplitAt
  <1> QED
    BY <1>2, <1>4, <1>5, <1>6

LEMMA InteriorIsWhole ==
    ASSUME NEW q \in Seq(Byte)
    PROVE  /\ InteriorLen(q) \in 0 .. Len(q)
           /\ Len(q) - InteriorLen(q) < BlockLen
           /\ Whole(First(q, InteriorLen(q)), BlockLen)
  <1> DEFINE m == Len(q)
             n == BlockLen
             k == m \div n
  <1>1. m \in Nat /\ n \in Nat \ {0}
    BY Bases, LenProperties
  <1> HIDE DEF m, n
  <1>2. k \in Nat /\ m % n \in 0 .. n - 1 /\ m = (k * n) + (m % n)
    BY <1>1, DivProperties
  <1>3. k * n \in Nat
    BY <1>1, <1>2
  <1>4. k * n \in 0 .. m /\ m - (k * n) < n
    <2> DEFINE a == k * n
    <2>1. a \in Nat /\ m = a + (m % n)
      BY <1>2, <1>3
    <2> HIDE DEF a
    <2>2. a \in 0 .. m /\ m - a < n
      BY <1>1, <1>2, <2>1
    <2> QED
      BY <2>2 DEF a
  <1>5. InteriorLen(q) = k * n
    BY DEF InteriorLen, m, n
  <1> HIDE DEF k
  <1>6. InteriorLen(q) \in 0 .. Len(q) /\ Len(q) - InteriorLen(q) < BlockLen
    BY <1>4, <1>5 DEF m, n
  <1>7. Len(First(q, InteriorLen(q))) = k * BlockLen
    BY <1>5, <1>6, FirstAndRest DEF n
  <1> QED
    BY <1>2, <1>6, <1>7 DEF Whole

\* A call of Write encodes whole blocks and keeps less than one.
LEMMA EncodedProperties ==
    ASSUME waiting \in Seq(Byte), Len(waiting) < BlockLen, NEW p \in Seq(Byte)
    PROVE  /\ Encoded(p).left \in Seq(Byte) /\ Len(Encoded(p).left) < BlockLen
           /\ \E q \in Seq(Byte) :
                /\ Whole(q, BlockLen) /\ Encoded(p).digits = Encode(q)
                /\ waiting \o p = q \o Encoded(p).left
  <1> DEFINE l == LeadingLen(p)
             block == waiting \o First(p, l)
             rest == Without(p, l)
             n == InteriorLen(rest)
  <1>1. Len(waiting) \in Nat /\ Len(p) \in Nat /\ BlockLen \in Nat \ {0}
    BY Bases, LenProperties
  <1>2. l \in 0 .. Len(p)
    BY <1>1 DEF LeadingLen
  <1>3. /\ First(p, l) \in Seq(Byte) /\ Len(First(p, l)) = l
        /\ rest \in Seq(Byte) /\ Len(rest) = Len(p) - l /\ p = First(p, l) \o rest
    BY <1>2, FirstAndRest
  <1>4. block \in Seq(Byte) /\ Len(block) = Len(waiting) + l
    <2>1. First(p, l) \in Seq(Byte) /\ Len(First(p, l)) = l
      BY <1>3
    <2> QED
      BY <2>1
  <1>5. waiting \o p = block \o rest
    <2> DEFINE fst == First(p, l)
    <2>1. fst \in Seq(Byte) /\ rest \in Seq(Byte) /\ p = fst \o rest
      BY <1>3
    <2> HIDE DEF fst, rest
    <2>2. waiting \o (fst \o rest) = (waiting \o fst) \o rest
      <3>1. Moves(waiting, fst, rest)
        BY <2>1, Moving, Zenon
      <3> QED
        BY <3>1, Zenon DEF Moves
    <2> QED
      BY <2>1, <2>2 DEF fst
  <1>6. CASE waiting # << >> /\ Len(block) < BlockLen
    <2>1. Encoded(p).digits = << >> /\ Encoded(p).left = block
      BY <1>6 DEF Encoded
    <2>2. l = Len(p)
      BY <1>1, <1>4, <1>6 DEF LeadingLen
    <2>3. Len(rest) = 0
      BY <1>1, <1>2, <1>3, <2>2
    <2>4. rest = << >> /\ << >> \in Seq(Byte)
      BY <1>3, <2>3, EmptySeq
    <2> HIDE DEF block, rest
    <2>5. waiting \o p = << >> \o block
      BY <1>4, <1>5, <2>4
    <2>6. Whole(<< >>, BlockLen) /\ Encode(<< >>) = << >>
      BY <1>1, WholeNone, EncodeShort
    <2> QED
      BY <1>4, <1>6, <2>1, <2>4, <2>5, <2>6, Zenon
  <1>7. CASE ~(waiting # << >> /\ Len(block) < BlockLen)
    <2> DEFINE big == First(rest, n)
               left == Without(rest, n)
    <2>1. Encoded(p).digits = Encode(block) \o Encode(big) /\ Encoded(p).left = left
      BY <1>7 DEF Encoded
    <2>2. /\ n \in 0 .. Len(rest) /\ Len(rest) - n < BlockLen /\ Whole(big, BlockLen)
      BY <1>3, InteriorIsWhole
    <2>3. /\ big \in Seq(Byte) /\ left \in Seq(Byte) /\ Len(left) = Len(rest) - n
          /\ rest = big \o left
      <3>1. rest \in Seq(Byte) /\ n \in 0 .. Len(rest)
        BY <1>3, <2>2
      <3> HIDE DEF rest, n
      <3> QED
        BY <3>1, FirstAndRest
    <2>4. Whole(block, BlockLen)
      <3>1. CASE waiting = << >>
        <4>1. l = 0 /\ Len(waiting) = 0
          BY <3>1 DEF LeadingLen
        <4>2. Len(block) = 0
          BY <1>4, <4>1
        <4> HIDE DEF block
        <4>3. block = << >>
          BY <1>4, <4>2, EmptySeq
        <4> QED
          BY <1>1, <4>3, WholeNone
      <3>2. CASE waiting # << >>
        <4>1. Len(block) >= BlockLen
          BY <1>1, <1>4, <1>7, <3>2
        <4>2. Len(block) = BlockLen
          BY <1>1, <1>2, <1>4, <3>2, <4>1 DEF LeadingLen
        <4> HIDE DEF block
        <4> QED
          BY <1>1, <4>2, WholeOne
      <3> QED
        BY <3>1, <3>2
    <2> HIDE DEF block, rest, big, left
    <2>5. /\ block \o big \in Seq(Byte) /\ Whole(block \o big, BlockLen)
          /\ Encode(block \o big) = Encode(block) \o Encode(big)
      <3>1. block \in Seq(Byte) /\ big \in Seq(Byte) /\ BlockLen \in Nat \ {0}
        BY <1>1, <1>4, <2>3
      <3>2. block \o big \in Seq(Byte)
        BY <3>1
      <3>3. Whole(block \o big, BlockLen)
        BY <2>2, <2>4, <3>1, WholeConcat
      <3>4. Encode(block \o big) = Encode(block) \o Encode(big)
        BY <2>4, <3>1, EncodeConcat
      <3> QED
        BY <3>2, <3>3, <3>4
    <2>6. waiting \o p = (block \o big) \o left
      <3>1. block \o (big \o left) = (block \o big) \o left
        <4>1. Moves(block, big, left)
          BY <1>4, <2>3, Moving, Zenon
        <4> QED
          BY <4>1, Zenon DEF Moves
      <3> QED
        BY <1>5, <2>3, <3>1
    <2> HIDE DEF n
    <2> DEFINE q == block \o big
    <2>7. /\ q \in Seq(Byte) /\ Whole(q, BlockLen) /\ Encoded(p).digits = Encode(q)
          /\ waiting \o p = q \o Encoded(p).left
      BY <2>1, <2>5, <2>6
    <2>8. Encoded(p).left \in Seq(Byte) /\ Len(Encoded(p).left) < BlockLen
      BY <2>1, <2>2, <2>3
    <2> HIDE DEF q
    <2> QED
      BY <2>7, <2>8
  <1> QED
    BY <1>6, <1>7

-----------------------------------------------------------------------------
(* The text.                                                               *)

LEMMA PrefixTransitive ==
    ASSUME NEW S, NEW s \in Seq(S), NEW t \in Seq(S), NEW u \in Seq(S),
           IsPrefix(s, t), IsPrefix(t, u)
    PROVE  IsPrefix(s, u)
  <1>1. PICK v \in Seq(S) : u = t \o v
    BY PrefixSplits
  <1>2. IsPrefix(s, t \o v)
    BY PrefixOfMore
  <1> QED
    BY <1>1, <1>2

LEMMA BegunConcat ==
    ASSUME NEW a \in Seq(Char), NEW b \in Seq(Char)
    PROVE  Begun(a \o b) = Begun(a) \o b
  <1> DEFINE h == Header \o Sign
  <1>1. h \in Seq(Char)
    BY FrameAssumption, SignProperties
  <1> HIDE DEF h
  <1>2. h \o (a \o b) = (h \o a) \o b
    <2>1. Moves(h, a, b)
      BY <1>1, Moving, Zenon
    <2> QED
      BY <2>1, Zenon DEF Moves
  <1> QED
    BY <1>2 DEF Begun, h

LEMMA EndingConcat ==
    ASSUME NEW a \in Seq(Char), NEW b \in Seq(Char)
    PROVE  Ending(a \o b) = a \o Ending(b)
  <1> DEFINE e == <<Punct>> \o ((<<Skip>> \o Footer) \o Sign)
  <1>1. e \in Seq(Char) /\ a \o b \in Seq(Char)
    BY FrameAssumption, SignProperties
  <1>2. Ending(b) = b \o e /\ Ending(a \o b) = (a \o b) \o e
    BY <1>1, EndingType
  <1> HIDE DEF e
  <1>3. (a \o b) \o e = a \o (b \o e)
    <2>1. Moves(a, b, e)
      BY <1>1, Moving, Zenon
    <2> QED
      BY <2>1, Zenon DEF Moves
  <1> QED
    BY <1>2, <1>3

\* What the text is going to be, as far as it is known.
Target == IF closed THEN ArmorSeal(written)
          ELSE Begun(SpacedWords(Encode(written)))

LEMMA TargetType ==
    ASSUME written \in Seq(Byte), closed \in BOOLEAN
    PROVE  /\ SpacedWords(Encode(written)) \in Seq(Char)
           /\ Target \in Seq(Char) /\ ArmorSeal(written) \in Seq(Char)
           /\ IsPrefix(Begun(SpacedWords(Encode(written))), ArmorSeal(written))
           /\ IsPrefix(Begun(SpacedWords(Encode(written))), Target)
           /\ IsPrefix(Target, ArmorSeal(written))
  <1> DEFINE w == SpacedWords(Encode(written))
             e == Ending(w)
  <1>1. w \in Seq(Char)
    BY CodecType, WordsKeepDigits
  <1>2. ArmorSeal(written) = Begun(e)
    BY SealIs
  <1> HIDE DEF w
  <1>3. /\ w \in Seq(Char) /\ e \in Seq(Char) /\ Begun(w) \in Seq(Char)
        /\ Begun(e) \in Seq(Char)
    BY <1>1, EndingType, BegunType
  <1>4. IsPrefix(Begun(w), Begun(e))
    <2> DEFINE z == <<Punct>> \o ((<<Skip>> \o Footer) \o Sign)
    <2>1. z \in Seq(Char) /\ e = w \o z
      <3>1. z \in Seq(Char)
        BY FrameAssumption, SignProperties
      <3>2. e = w \o z
        BY <1>3, EndingType
      <3> QED
        BY <3>1, <3>2
    <2> HIDE DEF z, e
    <2>2. Begun(w \o z) = Begun(w) \o z
      BY <1>3, <2>1, BegunConcat
    <2>3. IsPrefix(Begun(w), Begun(w) \o z)
      BY <1>3, <2>1, PrefixOfConcat
    <2> QED
      BY <2>1, <2>2, <2>3
  <1>5. \A s \in Seq(Char) : IsPrefix(s, s)
    BY DEF IsPrefix
  <1> HIDE DEF e
  <1> QED
    BY <1>2, <1>3, <1>4, <1>5 DEF Target, w

\* Whole words of the first digits are the beginning of it.
LEMMA WordsAhead ==
    ASSUME written \in Seq(Byte), closed \in BOOLEAN,
           NEW placed \in Seq(Digit), NEW more \in Seq(Digit),
           Whole(placed, BytesPerWord), Encode(written) = placed \o more
    PROVE  /\ Begun(SpacedWords(placed)) \in Seq(Char)
           /\ IsPrefix(Begun(SpacedWords(placed)), Target)
  <1> DEFINE a == SpacedWords(placed)
             b == SpacedWords(more)
             w == SpacedWords(Encode(written))
  <1>1. a \in Seq(Char) /\ b \in Seq(Char)
    BY WordsKeepDigits
  <1>2. w = a \o b
    BY SpacedConcat
  <1>3. IsPrefix(Begun(w), Target) /\ w \in Seq(Char) /\ Target \in Seq(Char)
    BY TargetType
  <1> HIDE DEF a, b, w
  <1>4. Begun(a \o b) = Begun(a) \o b
    BY <1>1, BegunConcat
  <1>5. Begun(a) \in Seq(Char) /\ Begun(w) \in Seq(Char)
    BY <1>1, <1>3, BegunType
  <1>6. IsPrefix(Begun(a), Begun(w))
    BY <1>1, <1>2, <1>4, <1>5, PrefixOfConcat
  <1>7. IsPrefix(Begun(a), Target)
    BY <1>3, <1>5, <1>6, PrefixTransitive
  <1> QED
    BY <1>5, <1>7 DEF a

\* A word, and the digits behind it.
LEMMA WordPut ==
    ASSUME NEW placed \in Seq(Digit), Whole(placed, BytesPerWord),
           NEW d \in Seq(Digit), Len(d) > BytesPerWord,
           NEW w, w = First(d, BytesPerWord),
           NEW z, z = Without(d, BytesPerWord)
    PROVE  /\ w \in Seq(Digit) /\ z \in Seq(Digit)
           /\ placed \o w \in Seq(Digit) /\ Whole(placed \o w, BytesPerWord)
           /\ Append(w, Skip) \in Seq(Char)
           /\ Begun(SpacedWords(placed \o w))
                = Begun(SpacedWords(placed)) \o Append(w, Skip)
  <1>1. BytesPerWord \in 0 .. Len(d) /\ BytesPerWord \in Nat \ {0}
    BY BytesPerWordAssumption, LenProperties
  <1>2. /\ w \in Seq(Digit) /\ Len(w) = BytesPerWord /\ z \in Seq(Digit) /\ d = w \o z
    <2>1. /\ First(d, BytesPerWord) \in Seq(Digit) /\ Without(d, BytesPerWord) \in Seq(Digit)
          /\ Len(First(d, BytesPerWord)) = BytesPerWord
      BY <1>1, FirstAndRest
    <2>2. d = First(d, BytesPerWord) \o Without(d, BytesPerWord)
      BY <1>1, FirstAndRest
    <2> QED
      BY <2>1, <2>2
  <1>3. /\ placed \o w \in Seq(Digit) /\ Whole(w, BytesPerWord)
        /\ Append(w, Skip) \in Seq(Char)
    <2>1. w \in Seq(Digit) /\ Len(w) = BytesPerWord
      BY <1>2
    <2> QED
      BY <1>1, <2>1, WholeOne, Chars
  <1>4. Whole(placed \o w, BytesPerWord)
    BY <1>1, <1>2, <1>3, WholeConcat
  <1>6. SpacedWords(placed \o w) = SpacedWords(placed) \o Append(w, Skip)
    <2>1. SpacedWords(placed \o w) = SpacedWords(placed) \o SpacedWords(w)
      BY <1>2, SpacedConcat
    <2>2. w # << >>
      BY <1>1, <1>2
    <2>3. SpacedWords(w) = Append(w, Skip)
      BY <1>1, <1>2, <2>2, SpacedShort
    <2> QED
      BY <2>1, <2>3
  <1> DEFINE a == SpacedWords(placed)
             b == Append(w, Skip)
  <1>7. a \in Seq(Char) /\ b \in Seq(Char)
    BY <1>3, WordsKeepDigits
  <1> HIDE DEF a, b
  <1>8. Begun(a \o b) = Begun(a) \o b
    BY <1>7, BegunConcat
  <1> QED
    BY <1>2, <1>3, <1>4, <1>6, <1>8 DEF a, b

-----------------------------------------------------------------------------
(* The inductive invariant of the armor.                                   *)

\* The digits of the bytes x are in the text, in whole words, but for those in
\* the buffer.
Laid(x) ==
    \E placed \in Seq(Digit) :
        /\ Whole(placed, BytesPerWord) /\ Encode(x) = placed \o digits
        /\ text = Begun(SpacedWords(placed))

\* Whole blocks of what was written are encoded.
Open ==
    \E done \in Seq(Byte) :
        Whole(done, BlockLen) /\ written = done \o waiting /\ Laid(done)

\* Without a call after an error or after Close; a failed one has left the
\* beginning of the text.
ArmorInv ==
    ~resumed =>
        /\ pc = "write" => ~closed
        /\ pc = "close" => closed
        /\ pc # "idle" => result # "err"
        /\ ~closed /\ result # "err" => Open
        /\ pc = "close" => Laid(written)
        /\ closed /\ pc = "idle" /\ result # "err" =>
              result = "ok" /\ text = ArmorSeal(written)
        /\ result = "err" => IsPrefix(text, Target)

LEMMA ArmorTypes ==
    ASSUME ArmorTypeOK
    PROVE  /\ written \in Seq(Byte) /\ waiting \in Seq(Byte) /\ digits \in Seq(Digit)
           /\ text \in Seq(Char) /\ closed \in BOOLEAN /\ Len(waiting) < BlockLen
  BY DEF ArmorTypeOK, Byte, Digit, Digits

LEMMA ArmorInitInv == ArmorInit => ArmorTypeOK /\ ArmorInv
  <1> SUFFICES ASSUME ArmorInit PROVE ArmorTypeOK /\ ArmorInv
    OBVIOUS
  <1>1. << >> \in Seq(Byte) /\ << >> \in Seq(Digit) /\ << >> \in Seq(Char)
    OBVIOUS
  <1>2. Header \o Sign \in Seq(Char) /\ Begun(<< >>) = Header \o Sign
    <2> DEFINE h == Header \o Sign
    <2>1. h \in Seq(Char)
      BY FrameAssumption, SignProperties
    <2> HIDE DEF h
    <2>2. h \o << >> = h
      BY <2>1
    <2> QED
      BY <2>1, <2>2 DEF h, Begun
  <1>3. text = Begun(<< >>) /\ text \in Seq(Char)
    BY <1>2 DEF ArmorInit, Sign
  <1>4. Len(<< >>) = 0 /\ BlockLen \in Nat \ {0} /\ MaxFailures \in Nat
    BY Bases, MaxFailuresAssumption
  <1>5. ArmorTypeOK
    <2>1. /\ written \in Seq(0 .. ByteBase - 1) /\ waiting \in Seq(0 .. ByteBase - 1)
          /\ digits \in Seq(0 .. Base - 1)
      BY DEF ArmorInit
    <2>2. Len(waiting) < BlockLen
      <3>1. waiting = << >>
        BY DEF ArmorInit
      <3> QED
        BY <1>4, <3>1
    <2>3. /\ pc \in {"idle", "write", "close"} /\ failures \in 0 .. MaxFailures
          /\ result \in {"none", "ok", "err"} /\ closed \in BOOLEAN
          /\ resumed \in BOOLEAN
      <3>1. 0 \in 0 .. MaxFailures
        BY MaxFailuresAssumption
      <3> QED
        BY <3>1 DEF ArmorInit
    <2> QED
      BY <1>3, <2>1, <2>2, <2>3 DEF ArmorTypeOK
  <1>6. Laid(<< >>)
    <2>1. Encode(<< >>) = << >> /\ SpacedWords(<< >>) = << >> /\ << >> \o << >> = << >>
      BY EncodeShort, SpacedShort
    <2>2. Whole(<< >>, BytesPerWord) /\ digits = << >>
      BY BytesPerWordAssumption, WholeNone DEF ArmorInit
    <2> QED
      BY <1>1, <1>3, <2>1, <2>2 DEF Laid
  <1>7. Open
    <2>1. Whole(<< >>, BlockLen) /\ << >> \o << >> = << >>
      BY <1>4, WholeNone
    <2> QED
      BY <1>1, <1>6, <2>1 DEF Open, ArmorInit
  <1> QED
    BY <1>5, <1>7 DEF ArmorInit, ArmorInv

\* A call of Write.
LEMMA WriteCallKeeps ==
    ASSUME ArmorTypeOK, ArmorInv, NEW p \in Seq(Byte), WriteCall(p)
    PROVE  ArmorTypeOK' /\ ArmorInv' /\ written' \in Seq(Byte)
  <1>1. /\ written \in Seq(Byte) /\ waiting \in Seq(Byte) /\ digits \in Seq(Digit)
        /\ Len(waiting) < BlockLen
    BY ArmorTypes
  <1>2. /\ written' = written \o p /\ waiting' = Encoded(p).left
        /\ digits' = digits \o Encoded(p).digits /\ pc' = "write" /\ pc = "idle"
        /\ resumed' = (resumed \/ closed \/ result = "err")
        /\ UNCHANGED <<text, failures, result, closed>>
    BY DEF WriteCall, Call
  <1>3. Encoded(p).left \in Seq(Byte) /\ Len(Encoded(p).left) < BlockLen
    BY <1>1, EncodedProperties
  <1>4. PICK q \in Seq(Byte) :
            /\ Whole(q, BlockLen) /\ Encoded(p).digits = Encode(q)
            /\ waiting \o p = q \o Encoded(p).left
    BY <1>1, EncodedProperties
  <1>5. Encode(q) \in Seq(Digit)
    BY CodecType
  <1>6. written' \in Seq(Byte) /\ digits' \in Seq(Digit) /\ waiting' \in Seq(Byte)
    BY <1>1, <1>2, <1>3, <1>4, <1>5
  <1>7. ArmorTypeOK'
    BY <1>2, <1>3, <1>6 DEF ArmorTypeOK, Byte, Digit, Digits
  <1>8. ASSUME ~resumed' PROVE Open' /\ ~closed /\ result # "err"
    <2>1. ~resumed /\ ~closed /\ result # "err"
      BY <1>2, <1>8 DEF ArmorTypeOK
    <2>2. Open
      BY <2>1 DEF ArmorInv
    <2>3. PICK done \in Seq(Byte) :
              Whole(done, BlockLen) /\ written = done \o waiting /\ Laid(done)
      BY <2>2 DEF Open
    <2>4. PICK placed \in Seq(Digit) :
              /\ Whole(placed, BytesPerWord) /\ Encode(done) = placed \o digits
              /\ text = Begun(SpacedWords(placed))
      BY <2>3 DEF Laid
    <2>5. /\ done \o q \in Seq(Byte) /\ Whole(done \o q, BlockLen)
          /\ Encode(done \o q) = Encode(done) \o Encode(q)
      BY <1>4, <2>3, Bases, WholeConcat, EncodeConcat
    <2>6. Encode(done \o q) = placed \o digits'
      <3>1. (placed \o digits) \o Encode(q) = placed \o (digits \o Encode(q))
        <4>1. Moves(placed, digits, Encode(q))
          BY <1>1, <1>5, Moving, Zenon
        <4> QED
          BY <4>1, Zenon DEF Moves
      <3> QED
        BY <1>2, <1>4, <2>4, <2>5, <3>1
    <2>7. Laid(done \o q)'
      <3>1. /\ placed \in Seq(Digit) /\ Whole(placed, BytesPerWord)
            /\ text' = Begun(SpacedWords(placed))
        BY <1>2, <2>4
      <3> QED
        BY <2>6, <3>1 DEF Laid
    <2>8. written' = (done \o q) \o waiting'
      <3> DEFINE left == Encoded(p).left
      <3>1. left \in Seq(Byte) /\ q \in Seq(Byte) /\ waiting \o p = q \o left
        BY <1>3, <1>4
      <3> HIDE DEF left
      <3>2. (done \o waiting) \o p = done \o (waiting \o p)
        <4>1. Moves(done, waiting, p)
          BY <1>1, Moving, Zenon
        <4> QED
          BY <4>1, Zenon DEF Moves
      <3>3. done \o (q \o left) = (done \o q) \o left
        <4>1. Moves(done, q, left)
          BY <3>1, Moving, Zenon
        <4> QED
          BY <4>1, Zenon DEF Moves
      <3> QED
        BY <1>2, <2>3, <3>1, <3>2, <3>3 DEF left
    <2> DEFINE d == done \o q
    <2>9. d \in Seq(Byte) /\ Whole(d, BlockLen) /\ written' = d \o waiting' /\ Laid(d)'
      BY <2>5, <2>7, <2>8
    <2> HIDE DEF d
    <2>10. Open'
      BY <2>9 DEF Open
    <2> QED
      BY <2>1, <2>10
  <1>9. ArmorInv'
    BY <1>2, <1>8 DEF ArmorInv
  <1> QED
    BY <1>6, <1>7, <1>9

\* The call of Close.
LEMMA CloseCallKeeps ==
    ASSUME ArmorTypeOK, ArmorInv, CloseCall
    PROVE  ArmorTypeOK' /\ ArmorInv'
  <1>1. /\ written \in Seq(Byte) /\ waiting \in Seq(Byte) /\ digits \in Seq(Digit)
        /\ Len(waiting) < BlockLen
    BY ArmorTypes
  <1>2. /\ digits' = digits \o Encode(waiting) /\ waiting' = << >> /\ pc = "idle"
        /\ pc' = "close" /\ closed' = TRUE /\ written' = written
        /\ resumed' = (resumed \/ closed \/ result = "err")
        /\ UNCHANGED <<text, failures, result>>
    BY DEF CloseCall, Call
  <1>3. Encode(waiting) \in Seq(Digit) /\ digits' \in Seq(Digit)
    BY <1>1, <1>2, CodecType
  <1>4. ArmorTypeOK'
    <2>1. << >> \in Seq(0 .. ByteBase - 1) /\ Len(<< >>) < BlockLen
      BY Bases
    <2> QED
      BY <1>2, <1>3, <2>1 DEF ArmorTypeOK, Byte, Digit, Digits
  <1>5. ASSUME ~resumed' PROVE Laid(written)' /\ result # "err"
    <2>1. ~resumed /\ ~closed /\ result # "err"
      BY <1>2, <1>5 DEF ArmorTypeOK
    <2>2. Open
      BY <2>1 DEF ArmorInv
    <2>3. PICK done \in Seq(Byte) :
              Whole(done, BlockLen) /\ written = done \o waiting /\ Laid(done)
      BY <2>2 DEF Open
    <2>4. PICK placed \in Seq(Digit) :
              /\ Whole(placed, BytesPerWord) /\ Encode(done) = placed \o digits
              /\ text = Begun(SpacedWords(placed))
      BY <2>3 DEF Laid
    <2>5. Encode(done \o waiting) = Encode(done) \o Encode(waiting)
      BY <1>1, <2>3, EncodeConcat
    <2>6. (placed \o digits) \o Encode(waiting) = placed \o (digits \o Encode(waiting))
      <3>1. Moves(placed, digits, Encode(waiting))
        BY <1>1, <1>3, Moving, Zenon
      <3> QED
        BY <3>1, Zenon DEF Moves
    <2>7. Encode(written) = placed \o digits'
      BY <1>2, <2>3, <2>4, <2>5, <2>6
    <2> QED
      BY <1>2, <2>1, <2>4, <2>7 DEF Laid
  <1>6. ArmorInv'
    BY <1>2, <1>5 DEF ArmorInv
  <1> QED
    BY <1>4, <1>6

\* A failing write leaves the beginning of what was to be written.
LEMMA EmitFailsPrefix ==
    ASSUME text \in Seq(Char), NEW s \in Seq(Char), EmitFails(s)
    PROVE  text' \in Seq(Char) /\ IsPrefix(text', text \o s)
  <1>1. PICK n \in 0 .. Len(s) : text' = text \o First(s, n)
    BY DEF EmitFails
  <1>2. /\ First(s, n) \in Seq(Char) /\ Without(s, n) \in Seq(Char)
    BY FirstAndRest
  <1>3. s = First(s, n) \o Without(s, n)
    BY FirstAndRest
  <1> DEFINE x == First(s, n)
             y == Without(s, n)
  <1> HIDE DEF x, y
  <1>4. text \o (x \o y) = (text \o x) \o y /\ text \o x \in Seq(Char)
    BY <1>2 DEF x, y
  <1>5. IsPrefix(text \o x, (text \o x) \o y)
    BY <1>2, <1>4, PrefixOfConcat DEF x, y
  <1> QED
    BY <1>1, <1>3, <1>4, <1>5 DEF x, y

\* The next word in the buffer goes on with the text, as the digits of all that
\* was written do.
LEMMA NextWord ==
    ASSUME ArmorTypeOK, NEW x \in Seq(Byte), Laid(x), NEW more \in Seq(Digit),
           Encode(written) = Encode(x) \o more,
           NEW word, word = Append(First(digits, BytesPerWord), Skip)
    PROVE  /\ IsPrefix(text, Target)
           /\ HasWord =>
                 /\ word \in Seq(Char) /\ text \o word \in Seq(Char)
                 /\ Without(digits, BytesPerWord) \in Seq(Digit)
                 /\ IsPrefix(text \o word, Target)
                 /\ \E placed \in Seq(Digit) :
                       /\ Whole(placed, BytesPerWord)
                       /\ Encode(x) = placed \o Without(digits, BytesPerWord)
                       /\ text \o word = Begun(SpacedWords(placed))
  <1>1. written \in Seq(Byte) /\ digits \in Seq(Digit) /\ closed \in BOOLEAN
    BY ArmorTypes
  <1>2. PICK placed \in Seq(Digit) :
            /\ Whole(placed, BytesPerWord) /\ Encode(x) = placed \o digits
            /\ text = Begun(SpacedWords(placed))
    BY DEF Laid
  <1>3. IsPrefix(text, Target)
    <2>1. (placed \o digits) \o more = placed \o (digits \o more)
      <3>1. Moves(placed, digits, more)
        BY <1>1, Moving, Zenon
      <3> QED
        BY <3>1, Zenon DEF Moves
    <2>2. digits \o more \in Seq(Digit)
      BY <1>1
    <2> DEFINE rest == digits \o more
    <2>3. rest \in Seq(Digit) /\ Encode(written) = placed \o rest
      BY <1>2, <2>1, <2>2
    <2> HIDE DEF rest
    <2> QED
      BY <1>1, <1>2, <2>3, WordsAhead
  <1>4. ASSUME HasWord
        PROVE  /\ word \in Seq(Char) /\ text \o word \in Seq(Char)
               /\ Without(digits, BytesPerWord) \in Seq(Digit)
               /\ IsPrefix(text \o word, Target)
               /\ \E pl \in Seq(Digit) :
                     /\ Whole(pl, BytesPerWord)
                     /\ Encode(x) = pl \o Without(digits, BytesPerWord)
                     /\ text \o word = Begun(SpacedWords(pl))
    <2> DEFINE w == First(digits, BytesPerWord)
               z == Without(digits, BytesPerWord)
    <2>0. /\ Len(digits) > BytesPerWord /\ w = First(digits, BytesPerWord)
          /\ z = Without(digits, BytesPerWord)
      BY <1>4 DEF HasWord
    <2> HIDE DEF w, z
    <2> DEFINE pl == placed \o w
    <2>1. /\ w \in Seq(Digit) /\ z \in Seq(Digit) /\ Append(w, Skip) \in Seq(Char)
          /\ pl \in Seq(Digit) /\ Whole(pl, BytesPerWord)
      BY <1>1, <1>2, <2>0, WordPut
    <2>2. placed \o digits = pl \o z
      <3>1. BytesPerWord \in 0 .. Len(digits)
        BY <1>1, <2>0, BytesPerWordAssumption, LenProperties
      <3>2. digits = w \o z
        <4>1. digits = First(digits, BytesPerWord) \o Without(digits, BytesPerWord)
          BY <1>1, <3>1, FirstAndRest
        <4> QED
          BY <2>0, <4>1
      <3>3. placed \o (w \o z) = (placed \o w) \o z
        <4>1. Moves(placed, w, z)
          BY <2>1, Moving, Zenon
        <4> QED
          BY <4>1, Zenon DEF Moves
      <3> QED
        BY <3>2, <3>3
    <2>3. Begun(SpacedWords(pl)) = Begun(SpacedWords(placed)) \o Append(w, Skip)
      BY <1>1, <1>2, <2>0, WordPut
    <2> HIDE DEF pl
    <2>4. Encode(x) = pl \o z /\ text \o word = Begun(SpacedWords(pl))
      BY <1>2, <2>0, <2>2, <2>3
    <2>5. Encode(written) = pl \o (z \o more) /\ z \o more \in Seq(Digit)
      <3>1. (pl \o z) \o more = pl \o (z \o more) /\ z \o more \in Seq(Digit)
        BY <2>1
      <3> QED
        BY <2>4, <3>1
    <2> DEFINE rest == z \o more
    <2>6. rest \in Seq(Digit) /\ Encode(written) = pl \o rest
      BY <2>5
    <2> HIDE DEF rest
    <2>7. /\ Begun(SpacedWords(pl)) \in Seq(Char)
          /\ IsPrefix(Begun(SpacedWords(pl)), Target)
      BY <1>1, <2>1, <2>6, WordsAhead
    <2>8. word \in Seq(Char) /\ text \o word \in Seq(Char) /\ IsPrefix(text \o word, Target)
      BY <2>0, <2>1, <2>4, <2>7
    <2>9. \E q \in Seq(Digit) : /\ Whole(q, BytesPerWord) /\ Encode(x) = q \o z
                                /\ text \o word = Begun(SpacedWords(q))
      BY <2>1, <2>4
    <2> QED
      BY <2>0, <2>1, <2>8, <2>9
  <1> QED
    BY <1>3, <1>4

\* What Close adds at last makes the text of all that was written.
LEMMA LastPart ==
    ASSUME ArmorTypeOK, closed, Laid(written), ~HasWord,
           NEW ending, ending = LastWord \o <<Punct, Skip>> \o Footer \o <<Punct, Skip>>
    PROVE  /\ ending \in Seq(Char) /\ text \o ending = ArmorSeal(written)
           /\ Target = ArmorSeal(written)
  <1>1. /\ written \in Seq(Byte) /\ digits \in Seq(Digit) /\ Len(digits) \in Nat
        /\ BytesPerWord \in Nat \ {0}
    BY ArmorTypes, BytesPerWordAssumption, LenProperties
  <1>2. PICK placed \in Seq(Digit) :
            /\ Whole(placed, BytesPerWord) /\ Encode(written) = placed \o digits
            /\ text = Begun(SpacedWords(placed))
    BY DEF Laid
  <1>3. LastWord = SpacedWords(digits)
    <2>1. CASE digits = << >>
      <3>1. Len(<< >>) = 0
        OBVIOUS
      <3>2. LastWord = digits
        BY <1>1, <2>1, <3>1 DEF LastWord
      <3> QED
        BY <2>1, <3>2, SpacedShort
    <2>2. CASE digits # << >>
      <3>1. Len(digits) <= BytesPerWord
        BY <1>1 DEF HasWord
      <3>2. SpacedWords(digits)
              = IF Len(digits) = BytesPerWord THEN Append(digits, Skip) ELSE digits
        BY <1>1, <2>2, <3>1, SpacedShort
      <3> QED
        BY <3>2 DEF LastWord
    <2> QED
      BY <2>1, <2>2
  <1> DEFINE a == SpacedWords(placed)
             b == SpacedWords(digits)
  <1>4. ending = Ending(b)
    BY <1>3 DEF Ending, Sign
  <1>5. a \in Seq(Char) /\ b \in Seq(Char)
    BY <1>1, WordsKeepDigits
  <1>6. SpacedWords(Encode(written)) = a \o b
    BY <1>1, <1>2, SpacedConcat
  <1>7. ArmorSeal(written) = Begun(Ending(a \o b))
    BY <1>1, <1>6, SealIs
  <1> HIDE DEF a, b
  <1>8. Ending(a \o b) = a \o Ending(b) /\ Ending(b) \in Seq(Char)
    BY <1>5, EndingConcat, EndingType
  <1>9. Begun(a \o Ending(b)) = Begun(a) \o Ending(b)
    BY <1>5, <1>8, BegunConcat
  <1>10. text \o ending = ArmorSeal(written)
    BY <1>2, <1>4, <1>7, <1>8, <1>9 DEF a
  <1>11. Target = ArmorSeal(written)
    BY DEF Target
  <1> QED
    BY <1>4, <1>8, <1>10, <1>11

LEMMA LastWordType ==
    ASSUME digits \in Seq(Digit),
           NEW ending, ending = LastWord \o <<Punct, Skip>> \o Footer \o <<Punct, Skip>>
    PROVE  ending \in Seq(Char)
  <1>1. LastWord \in Seq(Char)
    <2>1. digits \in Seq(Char) /\ Append(digits, Skip) \in Seq(Char)
      BY Chars
    <2> QED
      BY <2>1 DEF LastWord
  <1>2. ending = Ending(LastWord)
    BY DEF Ending, Sign
  <1> QED
    BY <1>1, <1>2, EndingType

\* A step of a call under way keeps the types.
LEMMA GoesOnTypes ==
    ASSUME ArmorTypeOK, ArmorGoesOn
    PROVE  ArmorTypeOK'
  <1>1. digits \in Seq(Digit) /\ text \in Seq(Char) /\ failures \in 0 .. MaxFailures
    BY ArmorTypes DEF ArmorTypeOK
  <1>2. /\ UNCHANGED <<written, waiting, closed, resumed>>
    BY DEF ArmorGoesOn, PutWord, WriteReturns, CloseReturns
  <1>3. ASSUME NEW s \in Seq(Char), EmitFails(s)
        PROVE  /\ text' \in Seq(Char) /\ failures' \in 0 .. MaxFailures
               /\ pc' = "idle" /\ result' = "err"
    <2>1. text' \in Seq(Char)
      BY <1>1, <1>3, EmitFailsPrefix
    <2>2. failures' \in 0 .. MaxFailures
      BY <1>1, <1>3, MaxFailuresAssumption DEF EmitFails
    <2> QED
      BY <1>3, <2>1, <2>2 DEF EmitFails
  <1>4. /\ digits' \in Seq(Digit) /\ text' \in Seq(Char) /\ failures' \in 0 .. MaxFailures
        /\ pc' \in {"idle", "write", "close"} /\ result' \in {"none", "ok", "err"}
    <2>1. CASE PutWord
      <3> DEFINE word == Append(First(digits, BytesPerWord), Skip)
      <3>1. BytesPerWord \in 0 .. Len(digits)
        BY <1>1, <2>1, BytesPerWordAssumption, LenProperties DEF PutWord, HasWord
      <3>2. First(digits, BytesPerWord) \in Seq(Digit) /\ digits' \in Seq(Digit)
        BY <1>1, <2>1, <3>1, FirstAndRest DEF PutWord
      <3>3. word \in Seq(Char)
        BY <3>2, Chars
      <3> HIDE DEF word
      <3>4. \/ text' = text \o word /\ UNCHANGED <<pc, failures, result>>
            \/ EmitFails(word)
        BY <2>1 DEF PutWord, word
      <3>5. text \o word \in Seq(Char)
        BY <1>1, <3>3
      <3> QED
        BY <1>1, <1>3, <3>2, <3>3, <3>4, <3>5 DEF ArmorTypeOK
    <2>2. CASE WriteReturns
      BY <1>1, <2>2 DEF WriteReturns
    <2>3. CASE CloseReturns
      <3> DEFINE ending == LastWord \o <<Punct, Skip>> \o Footer \o <<Punct, Skip>>
      <3>1. ending \in Seq(Char)
        BY <1>1, LastWordType
      <3> HIDE DEF ending
      <3>2. \/ text' = text \o ending /\ pc' = "idle" /\ result' = "ok" /\ UNCHANGED failures
            \/ EmitFails(ending)
        BY <2>3 DEF CloseReturns, ending
      <3>3. text \o ending \in Seq(Char)
        BY <1>1, <3>1
      <3>4. digits' = digits
        BY <2>3 DEF CloseReturns
      <3> QED
        BY <1>1, <1>3, <3>1, <3>2, <3>3, <3>4
    <2> QED
      BY <2>1, <2>2, <2>3 DEF ArmorGoesOn
  <1> QED
    BY <1>2, <1>4 DEF ArmorTypeOK, Byte, Digit, Digits

\* One step of a call under way.
LEMMA GoesOnKeeps ==
    ASSUME ArmorTypeOK, ArmorInv, ArmorGoesOn
    PROVE  ArmorTypeOK' /\ ArmorInv'
  <1> SUFFICES ArmorInv'
    BY GoesOnTypes
  <1>1. /\ written \in Seq(Byte) /\ waiting \in Seq(Byte) /\ digits \in Seq(Digit)
        /\ text \in Seq(Char) /\ closed \in BOOLEAN
    BY ArmorTypes
  <1>2. /\ written' = written /\ waiting' = waiting /\ closed' = closed
        /\ resumed' = resumed /\ pc \in {"write", "close"} /\ Target' = Target
    BY DEF ArmorGoesOn, PutWord, WriteReturns, CloseReturns, Target
  <1> DEFINE word == Append(First(digits, BytesPerWord), Skip)
             ending == LastWord \o <<Punct, Skip>> \o Footer \o <<Punct, Skip>>
  <1>3. ASSUME ~resumed
        PROVE  \E x \in Seq(Byte) : \E more \in Seq(Digit) :
                  /\ Encode(written) = Encode(x) \o more /\ Laid(x)
                  /\ pc = "close" => x = written
                  /\ pc = "write" => Whole(x, BlockLen) /\ written = x \o waiting
    <2>1. CASE pc = "write"
      <3>1. Open
        BY <1>3, <2>1 DEF ArmorInv
      <3>2. PICK done \in Seq(Byte) :
                Whole(done, BlockLen) /\ written = done \o waiting /\ Laid(done)
        BY <3>1 DEF Open
      <3>3. Encode(done \o waiting) = Encode(done) \o Encode(waiting)
        BY <1>1, <3>2, EncodeConcat
      <3>4. Encode(waiting) \in Seq(Digit) /\ Encode(written) = Encode(done) \o Encode(waiting)
        BY <1>1, <3>2, <3>3, CodecType
      <3> QED
        BY <2>1, <3>2, <3>4
    <2>2. CASE pc = "close"
      <3>1. Laid(written)
        BY <1>3, <2>2 DEF ArmorInv
      <3>2. Encode(written) \in Seq(Digit)
        BY <1>1, CodecType
      <3>3. Encode(written) = Encode(written) \o << >> /\ << >> \in Seq(Digit)
        BY <3>2
      <3> QED
        BY <1>1, <2>2, <3>1, <3>3
    <2> QED
      BY <1>2, <2>1, <2>2
  <1>4. ASSUME NEW s \in Seq(Char), EmitFails(s), ~resumed,
               text \o s \in Seq(Char), IsPrefix(text \o s, Target)
        PROVE  ArmorInv'
    <2>1. Target \in Seq(Char)
      BY <1>1, TargetType
    <2>2. text' \in Seq(Char) /\ IsPrefix(text', text \o s)
      BY <1>1, <1>4, EmitFailsPrefix
    <2>3. IsPrefix(text', Target)
      BY <1>4, <2>1, <2>2, PrefixTransitive
    <2>4. pc' = "idle" /\ result' = "err" /\ IsPrefix(text', Target')
      BY <1>2, <1>4, <2>3 DEF EmitFails
    <2> QED
      BY <2>4 DEF ArmorInv
  <1>5. CASE resumed
    BY <1>2, <1>5, Zenon DEF ArmorInv
  <1>6. CASE ~resumed /\ PutWord
    <2>1. PICK x \in Seq(Byte), more \in Seq(Digit) :
              /\ Encode(written) = Encode(x) \o more /\ Laid(x)
              /\ pc = "close" => x = written
              /\ pc = "write" => Whole(x, BlockLen) /\ written = x \o waiting
      BY <1>3, <1>6
    <2>2. HasWord /\ digits' = Without(digits, BytesPerWord)
      BY <1>6 DEF PutWord
    <2>3. /\ word \in Seq(Char) /\ text \o word \in Seq(Char)
          /\ IsPrefix(text \o word, Target)
      BY <2>1, <2>2, NextWord
    <2>4. \E placed \in Seq(Digit) :
              /\ Whole(placed, BytesPerWord) /\ Encode(x) = placed \o digits'
              /\ text \o word = Begun(SpacedWords(placed))
      <3>1. \E placed \in Seq(Digit) :
              /\ Whole(placed, BytesPerWord)
              /\ Encode(x) = placed \o Without(digits, BytesPerWord)
              /\ text \o word = Begun(SpacedWords(placed))
        BY <2>1, <2>2, NextWord
      <3> QED
        BY <2>2, <3>1
    <2> HIDE DEF word
    <2>5. \/ text' = text \o word /\ UNCHANGED <<pc, failures, result>>
          \/ EmitFails(word)
      BY <1>6 DEF PutWord, word
    <2>6. CASE EmitFails(word)
      BY <1>4, <1>6, <2>3, <2>6, Zenon
    <2>7. CASE text' = text \o word /\ UNCHANGED <<pc, failures, result>>
      <3>1. Laid(x)'
        BY <2>4, <2>7 DEF Laid
      <3>2. pc = "write" => Open'
        BY <1>2, <2>1, <3>1 DEF Open
      <3>3. pc = "close" => Laid(written)'
        <4>1. pc = "close" => x = written'
          BY <1>2, <2>1
        <4> QED
          BY <3>1, <4>1 DEF Laid
      <3>4. pc \in {"write", "close"} /\ (pc = "write" => ~closed) /\ (pc = "close" => closed)
            /\ result # "err" /\ pc' = pc /\ result' = result /\ closed' = closed
            /\ resumed' = resumed
        BY <1>2, <1>6, <2>7 DEF ArmorInv
      <3> QED
        BY <3>2, <3>3, <3>4, Zenon DEF ArmorInv
    <2> QED
      BY <2>5, <2>6, <2>7
  <1>7. CASE ~resumed /\ WriteReturns
    <2>1. pc = "write" /\ pc' = "idle" /\ result' = "ok" /\ digits' = digits /\ text' = text
      BY <1>7 DEF WriteReturns
    <2>2. ~closed /\ Open
      BY <1>7, <2>1 DEF ArmorInv
    <2>3. Open'
      BY <1>2, <2>1, <2>2 DEF Open, Laid
    <2> QED
      BY <1>2, <1>7, <2>1, <2>2, <2>3, Zenon DEF ArmorInv
  <1>8. CASE ~resumed /\ CloseReturns
    <2>1. pc = "close" /\ ~HasWord
      BY <1>8 DEF CloseReturns
    <2>2. closed /\ Laid(written)
      BY <1>8, <2>1 DEF ArmorInv
    <2>3. /\ ending \in Seq(Char) /\ text \o ending = ArmorSeal(written)
          /\ Target = ArmorSeal(written)
      BY <2>1, <2>2, LastPart
    <2> HIDE DEF ending
    <2>4. \/ text' = text \o ending /\ pc' = "idle" /\ result' = "ok"
          \/ EmitFails(ending)
      BY <1>8 DEF CloseReturns, ending
    <2>5. CASE EmitFails(ending)
      <3>1. Target \in Seq(Char)
        BY <1>1, TargetType
      <3>2. text \o ending \in Seq(Char) /\ IsPrefix(text \o ending, Target)
        BY <2>3, <3>1 DEF IsPrefix
      <3> QED
        BY <1>4, <1>8, <2>3, <2>5, <3>2, Zenon
    <2>6. CASE text' = text \o ending /\ pc' = "idle" /\ result' = "ok"
      <3>1. text' = ArmorSeal(written)'
        BY <1>2, <2>3, <2>6
      <3> QED
        BY <1>2, <2>2, <2>6, <3>1, Zenon DEF ArmorInv
    <2> QED
      BY <2>4, <2>5, <2>6
  <1> QED
    BY <1>5, <1>6, <1>7, <1>8 DEF ArmorGoesOn
-----------------------------------------------------------------------------
(* The packets.                                                            *)

PacketBytes == [p \in Packet |-> p.bytes]

LEMMA PacketsType ==
    \A p \in HeaderPackets \union BlockPackets \union FinalPackets : p \in Seq(Byte)
  <1>1. Byte = 0 .. ByteBase - 1
    BY DEF Byte, Digits
  <1> QED
    BY <1>1, ArmoredAssumption

LEMMA BytesOfMap ==
    /\ IsMap(PacketBytes, Packet, Seq(Byte))
    /\ \A s \in Seq(Packet) : BytesOf(s) = FlattenSeq(Map(PacketBytes, s))
  <1>1. \A p \in Packet : PacketBytes[p] \in Seq(Byte)
    BY PacketsType DEF Packet, PacketBytes
  <1>2. IsMap(PacketBytes, Packet, Seq(Byte))
    BY <1>1 DEF IsMap, PacketBytes
  <1>3. ASSUME NEW s \in Seq(Packet)
        PROVE  BytesOf(s) = FlattenSeq(Map(PacketBytes, s))
    <2>1. ASSUME NEW i \in DOMAIN s
          PROVE  s[i].bytes = PacketBytes[s[i]]
      <3>1. s[i] \in Packet
        OBVIOUS
      <3> QED
        BY <3>1, Zenon DEF PacketBytes
    <2>2. [i \in DOMAIN s |-> s[i].bytes] = Map(PacketBytes, s)
      BY <2>1, Zenon DEF Map
    <2> QED
      BY <2>2, Zenon DEF BytesOf
  <1> QED
    BY <1>2, <1>3

\* One packet more, its bytes behind the others.
LEMMA BytesOfAppend ==
    ASSUME NEW s \in Seq(Packet), NEW p \in Packet
    PROVE  /\ BytesOf(s) \in Seq(Byte) /\ p.bytes \in Seq(Byte)
           /\ BytesOf(Append(s, p)) = BytesOf(s) \o p.bytes
  <1> DEFINE f == PacketBytes
             one == <<p>>
  <1>1. IsMap(f, Packet, Seq(Byte))
    BY BytesOfMap
  <1>2. one \in Seq(Packet) /\ Append(s, p) = s \o one /\ s \o one \in Seq(Packet)
    OBVIOUS
  <1>3. Map(f, s) \in Seq(Seq(Byte))
    BY <1>1, MapType
  <1>4. p.bytes \in Seq(Byte) /\ Map(f, one) = <<p.bytes>>
    <2>1. f[p] = p.bytes /\ p.bytes \in Seq(Byte)
      BY PacketsType DEF PacketBytes, Packet
    <2>2. DOMAIN one = {1} /\ one[1] = p
      OBVIOUS
    <2>3. Map(f, one) = [i \in {1} |-> p.bytes]
      <3>1. \A i \in {1} : f[one[i]] = p.bytes
        BY <2>1, <2>2
      <3> QED
        BY <2>2, <3>1, Zenon DEF Map
    <2>4. [i \in {1} |-> p.bytes] = <<p.bytes>>
      OBVIOUS
    <2> QED
      BY <2>1, <2>3, <2>4
  <1> HIDE DEF f, one
  <1>5. Map(f, s \o one) = Map(f, s) \o Map(f, one)
    BY <1>1, <1>2, MapConcat
  <1> DEFINE m == Map(f, s)
             b == p.bytes
  <1>6. m \in Seq(Seq(Byte)) /\ b \in Seq(Byte)
    BY <1>3, <1>4
  <1> HIDE DEF m, b
  <1>7. m \o <<b>> = Append(m, b)
    BY <1>6
  <1>8. FlattenSeq(Append(m, b)) = FlattenSeq(m) \o b /\ FlattenSeq(m) \in Seq(Byte)
    BY <1>6, FlattenAppend, FlattenType
  <1>9. BytesOf(s) = FlattenSeq(m) /\ BytesOf(s \o one) = FlattenSeq(Map(f, s \o one))
    BY <1>2, BytesOfMap DEF f, m
  <1>10. Map(f, s \o one) = m \o <<b>>
    BY <1>4, <1>5 DEF m, b
  <1> QED
    BY <1>2, <1>6, <1>7, <1>8, <1>9, <1>10 DEF b
-----------------------------------------------------------------------------
(* The inductive invariant of the stream.                                  *)

NoLast(packets) == \A i \in DOMAIN packets : ~packets[i].last

\* Close has sealed the last packet, and the armor is to be closed.
Sealed == toClose \in {<<"last packet", "armor">>, <<"armor">>}

\* As long as nothing has failed and Close has not returned, every packet is in
\* the armor, or on its way.
Underway ==
    outcome \in {"none", "ok"} =>
        /\ written \o packet = BytesOf(sent)
        /\ result = "err" => inArmor /\ pc = "idle"
        /\ ~closed /\ ~Sealed => Len(sent) >= 1 /\ NoLast(sent)
        /\ Sealed => IsMessage(sent)
        /\ toClose = <<"armor">> => packet = << >> /\ (inArmor <=> closed)
        /\ closed => call = "close" /\ toClose \in {<<"armor">>, << >>}
        /\ closed /\ toClose = << >> => ~inArmor /\ result = "ok"
        /\ call = "close" /\ toClose = << >> => closed

\* When it has, nothing is going on.
Over ==
    /\ call \in {"idle", "gone"} \/ outcome \in {"err", "closed"} =>
          /\ call \in {"idle", "gone"}
          /\ packet = << >> /\ toClose = << >> /\ ~inArmor
    /\ outcome = "closed" => call = "idle" /\ closed /\ result = "ok"
    /\ call = "gone" => outcome = "err"

\* Nothing comes behind the end of the armor.
AllIn == closed => /\ IsMessage(sent) /\ packet = << >> /\ written = BytesOf(sent)

StreamInv == ~misused => ~resumed /\ Underway /\ Over /\ AllIn

IInv == TypeOK /\ ArmorInv /\ StreamInv

\* What one more packet makes of the packets sealed so far.
LEMMA Appended ==
    ASSUME NEW s \in Seq(Packet), Len(s) >= 1, NoLast(s), NEW b, NEW last \in BOOLEAN,
           NEW p \in Packet, p = [bytes |-> b, last |-> last],
           NEW t, t = Append(s, p)
    PROVE  /\ t \in Seq(Packet) /\ BytesOf(t) = BytesOf(s) \o b
           /\ ~last => Len(t) >= 1 /\ NoLast(t)
           /\ last => IsMessage(t)
  <1>1. Len(s) \in Nat /\ DOMAIN s = 1 .. Len(s)
    BY LenProperties
  <1>2. /\ t \in Seq(Packet) /\ Len(t) = Len(s) + 1 /\ DOMAIN t = 1 .. Len(t)
        /\ \A i \in 1 .. Len(s) : t[i] = s[i]
        /\ t[Len(s) + 1] = p
    BY AppendProperties, LenProperties
  <1>3. p.last = last /\ p.bytes = b
    OBVIOUS
  <1>4. \A i \in 1 .. Len(s) : ~t[i].last
    BY <1>1, <1>2 DEF NoLast
  <1>5. BytesOf(t) = BytesOf(s) \o b
    BY <1>3, BytesOfAppend
  <1>6. ASSUME ~last PROVE NoLast(t)
    <2>1. ~t[Len(s) + 1].last
      BY <1>2, <1>3, <1>6
    <2>2. \A i \in DOMAIN t : i \in 1 .. Len(s) \/ i = Len(s) + 1
      BY <1>1, <1>2
    <2> QED
      BY <1>4, <2>1, <2>2 DEF NoLast
  <1>7. ASSUME last PROVE IsMessage(t)
    <2>1. t[Len(s) + 1].last
      BY <1>2, <1>3, <1>7
    <2>2. \A i \in DOMAIN t : (i \in 1 .. Len(s) /\ i # Len(t)) \/ (i = Len(s) + 1 /\ i = Len(t))
      BY <1>1, <1>2
    <2>3. Len(t) >= 2
      BY <1>1, <1>2
    <2> QED
      BY <1>4, <2>1, <2>2, <2>3 DEF IsMessage
  <1> QED
    BY <1>1, <1>2, <1>5, <1>6, <1>7

\* What the armor's part of the invariant is about.
LEMMA ArmorSame ==
    ASSUME ArmorTypeOK, ArmorInv, failures' \in 0 .. MaxFailures,
           UNCHANGED <<written, waiting, digits, text, pc, result, closed, resumed>>
    PROVE  ArmorTypeOK' /\ ArmorInv'
  <1>1. ArmorTypeOK'
    BY DEF ArmorTypeOK
  <1>2. /\ written' = written /\ waiting' = waiting /\ digits' = digits /\ text' = text
        /\ pc' = pc /\ result' = result /\ closed' = closed /\ resumed' = resumed
    OBVIOUS
  <1>3. (Open' <=> Open) /\ (Laid(written)' <=> Laid(written)) /\ Target' = Target
    BY <1>2 DEF Open, Laid, Target
  <1>4. ArmorInv'
    <2>1. CASE resumed
      <3>1. resumed'
        BY <1>2, <2>1, Zenon
      <3> QED
        BY <3>1, Zenon DEF ArmorInv
    <2>2. CASE ~resumed
      <3>1. (~closed /\ result # "err" => Open) /\ (pc = "close" => Laid(written))
        BY <2>2 DEF ArmorInv
      <3>2. (~closed' /\ result' # "err" => Open') /\ (pc' = "close" => Laid(written)')
        BY <1>2, <1>3, <3>1
      <3>3. /\ pc' = "write" => ~closed'
            /\ pc' = "close" => closed'
            /\ pc' # "idle" => result' # "err"
        BY <1>2, <2>2 DEF ArmorInv
      <3>4. /\ closed' /\ pc' = "idle" /\ result' # "err" =>
                  result' = "ok" /\ text' = ArmorSeal(written)'
            /\ result' = "err" => IsPrefix(text', Target')
        BY <1>2, <1>3, <2>2 DEF ArmorInv
      <3> QED
        BY <3>2, <3>3, <3>4 DEF ArmorInv
    <2> QED
      BY <2>1, <2>2
  <1> QED
    BY <1>1, <1>4

LEMMA PairOf == ASSUME NEW x, NEW y PROVE <<x>> \o <<y>> = <<x, y>>
  <1> DEFINE S == {x, y}
  <1>1. /\ Len(<<x>>) = 1 /\ Len(<<y>>) = 1 /\ <<x>>[1] = x /\ <<y>>[1] = y
        /\ Len(<<x, y>>) = 2 /\ <<x, y>>[1] = x /\ <<x, y>>[2] = y
    OBVIOUS
  <1>2. <<x>> \in Seq(S) /\ <<y>> \in Seq(S) /\ <<x, y>> \in Seq(S)
    OBVIOUS
  <1>3. /\ <<x>> \o <<y>> \in Seq(S) /\ Len(<<x>> \o <<y>>) = Len(<<x>>) + Len(<<y>>)
        /\ \A i \in 1 .. Len(<<x>>) + Len(<<y>>) :
              (<<x>> \o <<y>>)[i] = IF i <= Len(<<x>>) THEN <<x>>[i] ELSE <<y>>[i - Len(<<x>>)]
    BY <1>2, ConcatProperties
  <1>4. (<<x>> \o <<y>>)[1] = x /\ (<<x>> \o <<y>>)[2] = y /\ Len(<<x>> \o <<y>>) = 2
    BY <1>1, <1>3
  <1>5. \A i \in 1 .. Len(<<x, y>>) : <<x, y>>[i] = (<<x>> \o <<y>>)[i]
    BY <1>1, <1>4
  <1> QED
    BY <1>1, <1>2, <1>3, <1>4, <1>5, SeqEqual

\* The writers to close.
LEMMA Lists ==
    /\ <<"armor">> # << >> /\ <<"message", "armor">> # << >>
    /\ <<"last packet", "armor">> # << >>
    /\ <<"message", "armor">> # <<"armor">> /\ <<"last packet", "armor">> # <<"armor">>
    /\ <<"message", "armor">> # <<"last packet", "armor">>
    /\ Head(<<"armor">>) = "armor" /\ Tail(<<"armor">>) = << >>
    /\ Head(<<"message", "armor">>) = "message"
    /\ Tail(<<"message", "armor">>) = <<"armor">>
    /\ Head(<<"last packet", "armor">>) = "last packet"
    /\ Tail(<<"last packet", "armor">>) = <<"armor">>
    /\ <<"last packet">> \o <<"armor">> = <<"last packet", "armor">>
  <1>1. /\ <<"armor">> # << >> /\ <<"message", "armor">> # << >>
        /\ <<"last packet", "armor">> # << >>
    OBVIOUS
  <1>2. <<"message", "armor">> # <<"armor">> /\ <<"last packet", "armor">> # <<"armor">>
    <2>1. /\ Len(<<"armor">>) = 1 /\ Len(<<"message", "armor">>) = 2
          /\ Len(<<"last packet", "armor">>) = 2
      OBVIOUS
    <2> QED
      BY <2>1
  <1>3. Head(<<"armor">>) = "armor" /\ Tail(<<"armor">>) = << >>
    OBVIOUS
  <1>4. Head(<<"message", "armor">>) = "message" /\ Tail(<<"message", "armor">>) = <<"armor">>
    OBVIOUS
  <1>5. /\ Head(<<"last packet", "armor">>) = "last packet"
        /\ Tail(<<"last packet", "armor">>) = <<"armor">>
    OBVIOUS
  <1>6. <<"message", "armor">> # <<"last packet", "armor">>
    BY <1>4, <1>5
  <1>7. <<"last packet">> \o <<"armor">> = <<"last packet", "armor">>
    BY PairOf
  <1> QED
    BY <1>1, <1>2, <1>3, <1>4, <1>5, <1>6, <1>7

LEMMA ClosingWhat ==
    ASSUME TypeOK
    PROVE  /\ Closing("message") => call = "close" /\ toClose = <<"message", "armor">>
           /\ Closing("last packet") =>
                 call = "close" /\ toClose = <<"last packet", "armor">>
           /\ Closing("armor") => call = "close" /\ toClose = <<"armor">>
           /\ call = "close" /\ toClose = <<"armor">> => Closing("armor")
  BY Lists DEF TypeOK, Closing

LEMMA StreamInitInv == Init => IInv
  <1> SUFFICES ASSUME Init PROVE IInv
    OBVIOUS
  <1>1. ArmorInit
    BY DEF Init
  <1>2. ArmorTypeOK /\ ArmorInv
    BY <1>1, ArmorInitInv
  <1>3. PICK h \in HeaderPackets : packet = h /\ sent = <<[bytes |-> h, last |-> FALSE]>>
    BY DEF Init
  <1> DEFINE p == [bytes |-> h, last |-> FALSE]
  <1>4. p \in Packet /\ h \in Seq(Byte) /\ p.bytes = h /\ p.last = FALSE
    BY PacketsType DEF Packet
  <1>5. sent = <<p>> /\ packet = h
    BY <1>3
  <1> HIDE DEF p
  <1>6. sent \in Seq(Packet) /\ Len(sent) = 1 /\ sent[1] = p /\ sent = Append(<< >>, p)
    BY <1>4, <1>5
  <1>7. TypeOK
    <2>1. packet \in Seq(0 .. ByteBase - 1)
      BY <1>4, <1>5 DEF Byte, Digits
    <2>2. calls \in 0 .. MaxCalls
      BY ArmoredAssumption DEF Init
    <2>3. pc = "idle"
      BY <1>1 DEF ArmorInit
    <2> QED
      BY <1>2, <1>6, <2>1, <2>2, <2>3 DEF Init, TypeOK
  <1>8. BytesOf(sent) = h
    <2>1. << >> \in Seq(Packet)
      OBVIOUS
    <2>2. BytesOf(Append(<< >>, p)) = BytesOf(<< >>) \o p.bytes
      BY <1>4, <2>1, BytesOfAppend
    <2>3. BytesOf(<< >>) = << >>
      <3>1. BytesOf(<< >>) = FlattenSeq(Map(PacketBytes, << >>))
        BY <2>1, BytesOfMap
      <3>2. /\ Map(PacketBytes, << >>) \in Seq(Seq(Byte))
            /\ Len(Map(PacketBytes, << >>)) = Len(<< >>)
        <4>1. IsMap(PacketBytes, Packet, Seq(Byte))
          BY BytesOfMap
        <4> DEFINE e == << >>
        <4>2. e \in Seq(Packet)
          BY <2>1
        <4> HIDE DEF e
        <4>3. Map(PacketBytes, e) \in Seq(Seq(Byte)) /\ Len(Map(PacketBytes, e)) = Len(e)
          BY <4>1, <4>2, MapType
        <4> QED
          BY <4>3 DEF e
      <3>3. Len(<< >>) = 0
        OBVIOUS
      <3>4. Map(PacketBytes, << >>) = << >>
        BY <3>2, <3>3, EmptySeq
      <3> QED
        BY <3>1, <3>2, <3>4, FlattenType
    <2>4. << >> \o h = h
      BY <1>4
    <2> QED
      BY <1>4, <1>6, <2>2, <2>3, <2>4
  <1>9. NoLast(sent) /\ Len(sent) >= 1
    <2>1. DOMAIN sent = {1}
      BY <1>6
    <2> QED
      BY <1>4, <1>6, <2>1 DEF NoLast
  <1>10. Underway
    <2>1. written = << >> /\ << >> \o h = h
      BY <1>1, <1>4 DEF ArmorInit
    <2>2. toClose = << >> /\ result # "err" /\ ~closed /\ call = "create"
      BY <1>1 DEF Init, ArmorInit
    <2>3. ~Sealed /\ toClose # <<"armor">>
      BY <2>2, Lists DEF Sealed
    <2> QED
      BY <1>5, <1>8, <1>9, <2>1, <2>2, <2>3 DEF Underway
  <1>11. Over /\ AllIn /\ ~resumed
    BY <1>1 DEF Init, ArmorInit, Over, AllIn
  <1> QED
    BY <1>2, <1>7, <1>10, <1>11 DEF IInv, StreamInv

\* Write or Close is called.
LEMMA StreamCallKeeps ==
    ASSUME IInv, StartWrite \/ StartClose
    PROVE  IInv'
  <1>1. /\ call = "idle" /\ calls < MaxCalls /\ calls' = calls + 1
        /\ misused' = (misused \/ outcome # "ok")
        /\ packet' = packet /\ sent' = sent /\ inArmor' = inArmor /\ outcome' = outcome
        /\ UNCHANGED armorVars
    BY DEF StartWrite, StartClose, StreamCall
  <1>2. \/ call' = "write" /\ toClose' = toClose
        \/ call' = "close" /\ toClose' = <<"message", "armor">>
    BY DEF StartWrite, StartClose, CloseForwarder
  <1>3. TypeOK /\ ArmorTypeOK /\ ArmorInv /\ StreamInv
    BY DEF IInv, TypeOK
  <1>4. ArmorTypeOK' /\ ArmorInv'
    <2>1. failures' \in 0 .. MaxFailures
      BY <1>1, <1>3 DEF ArmorTypeOK, armorVars
    <2> QED
      BY <1>1, <1>3, <2>1, ArmorSame DEF armorVars
  <1>5. toClose = << >>
    BY <1>1, <1>3 DEF TypeOK
  <1>6. /\ toClose' \in {<< >>, <<"message", "armor">>} /\ call' \in {"write", "close"}
        /\ toClose' # << >> => call' = "close"
        /\ call' = "close" => toClose' # << >>
    BY <1>2, <1>5, Lists
  <1>7. TypeOK'
    <2>1. calls' \in 0 .. MaxCalls /\ misused' \in BOOLEAN
      <3>1. calls \in 0 .. MaxCalls /\ MaxCalls \in Nat
        BY <1>3, ArmoredAssumption DEF TypeOK
      <3>2. calls' \in 0 .. MaxCalls
        BY <1>1, <3>1
      <3>3. misused' \in BOOLEAN
        BY <1>1, <1>3, Zenon DEF TypeOK
      <3> QED
        BY <3>2, <3>3
    <2>2. pc' # "idle" => inArmor'
      BY <1>1, <1>3 DEF TypeOK, armorVars
    <2>3. packet' \in Seq(0 .. ByteBase - 1) /\ sent' \in Seq(Packet)
      BY <1>1, <1>3 DEF TypeOK
    <2>4. inArmor' \in BOOLEAN /\ outcome' \in {"none", "ok", "err", "closed"}
      BY <1>1, <1>3 DEF TypeOK
    <2> QED
      BY <1>4, <1>6, <2>1, <2>2, <2>3, <2>4 DEF TypeOK
  <1>8. ASSUME ~misused'
        PROVE  ~resumed' /\ Underway' /\ Over' /\ AllIn'
    <2>1. outcome = "ok" /\ ~resumed /\ Underway /\ Over /\ AllIn
      BY <1>1, <1>3, <1>8 DEF StreamInv
    <2>2. packet = << >> /\ ~inArmor
      BY <1>1, <2>1 DEF Over
    <2>3. ~closed
      BY <1>1, <2>1 DEF Underway
    <2>4. ~Sealed
      BY <1>5, Lists DEF Sealed
    <2>5. /\ written \o packet = BytesOf(sent) /\ result # "err"
          /\ Len(sent) >= 1 /\ NoLast(sent)
      BY <2>1, <2>2, <2>3, <2>4 DEF Underway
    <2>6. /\ written' \o packet' = BytesOf(sent)' /\ result' # "err" /\ ~closed' /\ ~resumed'
          /\ Len(sent') >= 1 /\ NoLast(sent)'
      BY <1>1, <2>1, <2>3, <2>5 DEF armorVars, BytesOf, NoLast
    <2>7. ~Sealed' /\ toClose' # <<"armor">>
      BY <1>6, Lists DEF Sealed
    <2>8. Underway'
      BY <1>6, <2>6, <2>7 DEF Underway
    <2>9. Over'
      BY <1>1, <1>6, <2>1 DEF Over
    <2> QED
      BY <2>6, <2>8, <2>9 DEF AllIn
  <1> QED
    BY <1>4, <1>7, <1>8 DEF IInv, StreamInv

\* The message stream encodes a packet.
LEMMA EncodesKeeps ==
    ASSUME IInv, SealBlock \/ SealFinal
    PROVE  IInv'
  <1>1. TypeOK /\ ArmorTypeOK /\ ArmorInv /\ StreamInv
    BY DEF IInv, TypeOK
  <1>2. PICK b \in BlockPackets \union FinalPackets, last \in BOOLEAN :
            /\ Encodes(b, last)
            /\ ~last => toClose' = toClose /\ (call = "write" \/ Closing("message"))
            /\ last => Closing("message") /\ toClose' = <<"last packet">> \o Tail(toClose)
    <2>1. CASE SealBlock
      <3>1. PICK b \in BlockPackets : Encodes(b, FALSE)
        BY <2>1 DEF SealBlock
      <3>2. toClose' = toClose /\ (call = "write" \/ Closing("message"))
        BY <2>1 DEF SealBlock
      <3> QED
        BY <3>1, <3>2
    <2>2. CASE SealFinal
      <3>1. PICK b \in FinalPackets : Encodes(b, TRUE)
        BY <2>2 DEF SealFinal
      <3>2. Closing("message") /\ toClose' = <<"last packet">> \o Tail(toClose)
        BY <2>2 DEF SealFinal
      <3> QED
        BY <3>1, <3>2
    <2> QED
      BY <2>1, <2>2
  <1> DEFINE p == [bytes |-> b, last |-> last]
  <1>3. /\ ~inArmor /\ packet = << >> /\ packet' = b /\ sent' = Append(sent, p)
        /\ call' = call /\ inArmor' = inArmor /\ outcome' = outcome
        /\ calls' = calls /\ misused' = misused /\ UNCHANGED armorVars
    BY <1>2 DEF Encodes, BetweenPackets
  <1>4. p \in Packet /\ b \in Seq(Byte)
    BY PacketsType DEF Packet
  <1>5. \/ ~last /\ toClose' = toClose /\ call = "write" /\ toClose = << >>
        \/ ~last /\ toClose' = toClose /\ call = "close" /\ toClose = <<"message", "armor">>
        \/ last /\ call = "close" /\ toClose = <<"message", "armor">>
                /\ toClose' = <<"last packet", "armor">>
    <2>1. call = "write" => toClose = << >>
      BY <1>1 DEF TypeOK
    <2> QED
      BY <1>1, <1>2, <2>1, ClosingWhat, Lists
  <1> HIDE DEF p
  <1>6. ArmorTypeOK' /\ ArmorInv'
    <2>1. failures' \in 0 .. MaxFailures
      BY <1>1, <1>3 DEF ArmorTypeOK, armorVars
    <2> QED
      BY <1>1, <1>3, <2>1, ArmorSame DEF armorVars
  <1>7. TypeOK'
    <2>1. packet' \in Seq(0 .. ByteBase - 1)
      BY <1>3, <1>4 DEF Byte, Digits
    <2>2. sent' \in Seq(Packet)
      <3>1. sent \in Seq(Packet)
        BY <1>1 DEF TypeOK
      <3> QED
        BY <1>3, <1>4, <3>1
    <2>3. /\ toClose' \in {<< >>, <<"message", "armor">>, <<"last packet", "armor">>}
          /\ toClose' # << >> => call' = "close"
      BY <1>3, <1>5
    <2>4. call' \in {"create", "write", "close", "idle", "gone"}
      BY <1>1, <1>3 DEF TypeOK
    <2>5. inArmor' \in BOOLEAN /\ (pc' # "idle" => inArmor')
      BY <1>1, <1>3 DEF TypeOK, armorVars
    <2>6. outcome' \in {"none", "ok", "err", "closed"} /\ calls' \in 0 .. MaxCalls
      BY <1>1, <1>3 DEF TypeOK
    <2>7. misused' \in BOOLEAN
      BY <1>1, <1>3 DEF TypeOK
    <2> QED
      BY <1>6, <2>1, <2>2, <2>3, <2>4, <2>5, <2>6, <2>7 DEF TypeOK
  <1>8. ASSUME ~misused'
        PROVE  ~resumed' /\ Underway' /\ Over' /\ AllIn'
    <2>1. ~resumed /\ Underway /\ Over /\ AllIn
      BY <1>1, <1>3, <1>8 DEF StreamInv
    <2>2. outcome \in {"none", "ok"} /\ call \in {"write", "close"}
      BY <1>1, <1>5, <2>1 DEF Over, TypeOK
    <2>3. ~closed
      BY <1>5, <2>1, <2>2, Lists DEF Underway
    <2>4. ~Sealed /\ sent \in Seq(Packet)
      BY <1>1, <1>5, Lists DEF Sealed, TypeOK
    <2>5. /\ written \o packet = BytesOf(sent) /\ ~(result = "err")
          /\ Len(sent) >= 1 /\ NoLast(sent)
      BY <1>3, <2>1, <2>2, <2>3, <2>4 DEF Underway
    <2> DEFINE t == Append(sent, p)
    <2>6. /\ BytesOf(t) = BytesOf(sent) \o b
          /\ ~last => Len(t) >= 1 /\ NoLast(t)
          /\ last => IsMessage(t)
      <3>1. sent \in Seq(Packet) /\ Len(sent) >= 1 /\ NoLast(sent)
        BY <2>4, <2>5
      <3>2. p \in Packet /\ p = [bytes |-> b, last |-> last]
        BY <1>4 DEF p
      <3> QED
        BY <3>1, <3>2, Appended
    <2>7. sent' = t
      BY <1>3
    <2> HIDE DEF t
    <2>8. written' \o packet' = BytesOf(sent)'
      <3>1. written' = written /\ written \in Seq(Byte)
        BY <1>1, <1>3, ArmorTypes DEF armorVars
      <3>2. written \o << >> = written
        BY <3>1
      <3>3. BytesOf(sent)' = BytesOf(t)
        BY <2>7 DEF BytesOf
      <3> QED
        BY <1>3, <2>5, <2>6, <3>1, <3>2, <3>3
    <2>9. /\ ~last => Len(sent') >= 1 /\ NoLast(sent)' /\ ~Sealed'
          /\ last => IsMessage(sent)' /\ Sealed'
      BY <1>5, <2>6, <2>7, Lists DEF NoLast, IsMessage, Sealed
    <2>10. result' # "err" /\ ~closed' /\ ~resumed'
      BY <1>3, <2>1, <2>3, <2>5 DEF armorVars
    <2>11. toClose' # <<"armor">> /\ (call' = "close" => toClose' # << >>)
      BY <1>3, <1>5, Lists
    <2>12. Underway'
      BY <2>8, <2>9, <2>10, <2>11 DEF Underway
    <2>13. Over'
      BY <1>3, <2>2 DEF Over
    <2> QED
      BY <2>10, <2>12, <2>13 DEF AllIn
  <1> QED
    BY <1>6, <1>7, <1>8 DEF IInv, StreamInv

\* The armor gets a piece of the packet.
LEMMA PassOnKeeps ==
    ASSUME IInv, PassOn
    PROVE  IInv'
  <1>1. TypeOK /\ ArmorTypeOK /\ ArmorInv /\ StreamInv
    BY DEF IInv, TypeOK
  <1>2. PICK n \in 0 .. Len(packet) :
            WriteCall(First(packet, n)) /\ packet' = Without(packet, n)
    BY DEF PassOn
  <1>3. /\ ~inArmor /\ inArmor' = TRUE /\ packet # << >>
        /\ call' = call /\ toClose' = toClose /\ sent' = sent /\ outcome' = outcome
        /\ calls' = calls /\ misused' = misused
    BY DEF PassOn
  <1> DEFINE x == First(packet, n)
             y == Without(packet, n)
  <1>4. packet \in Seq(Byte) /\ written \in Seq(Byte)
    BY <1>1, ArmorTypes DEF TypeOK, Byte, Digits
  <1>5. x \in Seq(Byte) /\ y \in Seq(Byte)
    BY <1>4, FirstAndRest
  <1>6. packet = x \o y
    BY <1>4, FirstAndRest
  <1>7. WriteCall(x) /\ packet' = y
    BY <1>2
  <1> HIDE DEF x, y
  <1>8. /\ written' = written \o x /\ closed' = closed /\ result' = result
        /\ resumed' = (resumed \/ closed \/ result = "err")
    BY <1>7 DEF WriteCall, Call
  <1>9. ArmorTypeOK' /\ ArmorInv'
    BY <1>1, <1>5, <1>7, WriteCallKeeps
  <1>10. TypeOK'
    <2>1. packet' \in Seq(0 .. ByteBase - 1)
      BY <1>5, <1>7 DEF Byte, Digits
    <2> QED
      BY <1>1, <1>3, <1>9, <2>1 DEF TypeOK
  <1>11. ASSUME ~misused'
         PROVE  ~resumed' /\ Underway' /\ Over' /\ AllIn'
    <2>1. ~resumed /\ Underway /\ Over /\ AllIn
      BY <1>1, <1>3, <1>11 DEF StreamInv
    <2>2. outcome \in {"none", "ok"} /\ call \notin {"idle", "gone"}
      BY <1>1, <1>3, <2>1 DEF Over, TypeOK
    <2>3. ~closed
      BY <1>3, <2>1 DEF AllIn
    <2>4. /\ written \o packet = BytesOf(sent) /\ result # "err"
          /\ ~Sealed => Len(sent) >= 1 /\ NoLast(sent)
          /\ Sealed => IsMessage(sent)
          /\ toClose # <<"armor">>
          /\ call = "close" => toClose # << >>
      BY <1>3, <2>1, <2>2, <2>3 DEF Underway
    <2>5. written' \o packet' = BytesOf(sent)'
      <3>1. (written \o x) \o y = written \o (x \o y)
        <4>1. Moves(written, x, y)
          BY <1>4, <1>5, Moving, Zenon
        <4> QED
          BY <4>1, Zenon DEF Moves
      <3>2. BytesOf(sent)' = BytesOf(sent)
        BY <1>3 DEF BytesOf
      <3> QED
        BY <1>6, <1>7, <1>8, <2>4, <3>1, <3>2
    <2>6. ~closed' /\ ~resumed' /\ result' # "err"
      BY <1>8, <2>1, <2>3, <2>4
    <2>7. /\ ~Sealed' => Len(sent') >= 1 /\ NoLast(sent)'
          /\ Sealed' => IsMessage(sent)'
          /\ toClose' # <<"armor">>
          /\ call' = "close" => toClose' # << >>
      BY <1>3, <2>4 DEF Sealed, NoLast, IsMessage
    <2>8. Underway'
      BY <2>5, <2>6, <2>7 DEF Underway
    <2>9. Over'
      BY <1>3, <2>2 DEF Over
    <2> QED
      BY <2>6, <2>8, <2>9 DEF AllIn
  <1> QED
    BY <1>9, <1>10, <1>11 DEF IInv, StreamInv

\* The armor is closed.
LEMMA CloseArmorKeeps ==
    ASSUME IInv, CloseArmor
    PROVE  IInv'
  <1>1. TypeOK /\ ArmorTypeOK /\ ArmorInv /\ StreamInv
    BY DEF IInv, TypeOK
  <1>2. /\ ~inArmor /\ inArmor' = TRUE /\ packet = << >> /\ CloseCall
        /\ call' = call /\ toClose' = toClose /\ packet' = packet /\ sent' = sent
        /\ outcome' = outcome /\ calls' = calls /\ misused' = misused
    BY DEF CloseArmor, BetweenPackets
  <1>3. call = "close" /\ toClose = <<"armor">>
    BY <1>1, ClosingWhat DEF CloseArmor
  <1>4. /\ written' = written /\ closed' = TRUE /\ result' = result
        /\ resumed' = (resumed \/ closed \/ result = "err")
    BY <1>2 DEF CloseCall, Call
  <1>5. ArmorTypeOK' /\ ArmorInv'
    BY <1>1, <1>2, CloseCallKeeps
  <1>6. TypeOK'
    BY <1>1, <1>2, <1>5 DEF TypeOK
  <1>7. ASSUME ~misused'
        PROVE  ~resumed' /\ Underway' /\ Over' /\ AllIn'
    <2>1. ~resumed /\ Underway /\ Over /\ AllIn
      BY <1>1, <1>2, <1>7 DEF StreamInv
    <2>2. outcome \in {"none", "ok"}
      BY <1>1, <1>3, <2>1 DEF Over, TypeOK
    <2>3. Sealed
      BY <1>3 DEF Sealed
    <2>4. /\ written \o packet = BytesOf(sent) /\ result # "err" /\ IsMessage(sent)
          /\ ~closed
      BY <1>2, <1>3, <2>1, <2>2, <2>3 DEF Underway
    <2>5. closed' /\ ~resumed' /\ result' # "err"
      BY <1>4, <2>1, <2>4
    <2>6. /\ written' \o packet' = BytesOf(sent)' /\ IsMessage(sent)'
          /\ BytesOf(sent)' = BytesOf(sent)
      BY <1>2, <1>4, <2>4 DEF BytesOf, IsMessage
    <2>7. toClose' = <<"armor">> /\ call' = "close" /\ inArmor' /\ packet' = << >>
      BY <1>2, <1>3
    <2>8. toClose' # << >>
      BY <2>7, Lists
    <2>9. Underway'
      BY <2>5, <2>6, <2>7, <2>8, Zenon DEF Underway
    <2>10. Over'
      BY <1>2, <1>3, <2>2 DEF Over
    <2>11. AllIn'
      <3>1. written \in Seq(Byte)
        BY <1>1, ArmorTypes
      <3>2. written \o << >> = written
        BY <3>1
      <3>3. written' = BytesOf(sent)'
        BY <1>2, <1>4, <2>4, <2>6, <3>2
      <3> QED
        BY <2>6, <2>7, <3>3 DEF AllIn
    <2> QED
      BY <2>5, <2>9, <2>10, <2>11
  <1> QED
    BY <1>5, <1>6, <1>7 DEF IInv, StreamInv

\* The message stream fails, or hears that the armor has.
LEMMA FailsKeeps ==
    ASSUME IInv, Fails, ~inArmor' /\ pc = "idle",
           failures' \in 0 .. MaxFailures, inArmor' \in BOOLEAN,
           UNCHANGED <<written, waiting, digits, text, pc, result, closed, resumed>>
    PROVE  IInv'
  <1>1. TypeOK /\ ArmorTypeOK /\ ArmorInv /\ StreamInv
    BY DEF IInv, TypeOK
  <1>2. ArmorTypeOK' /\ ArmorInv'
    BY <1>1, ArmorSame
  <1>3. /\ packet' = << >> /\ outcome' = "err" /\ toClose' = << >>
        /\ call' \in {"idle", "gone"} /\ (call' = "gone" => outcome' = "err")
        /\ sent' = sent /\ calls' = calls /\ misused' = misused
    BY DEF Fails, AfterError
  <1>4. TypeOK'
    <2>1. << >> \in Seq(0 .. ByteBase - 1)
      OBVIOUS
    <2> QED
      BY <1>1, <1>2, <1>3, <2>1 DEF TypeOK
  <1>5. ASSUME ~misused'
        PROVE  ~resumed' /\ Underway' /\ Over' /\ AllIn'
    <2>1. ~resumed /\ AllIn
      BY <1>1, <1>3, <1>5 DEF StreamInv
    <2>2. resumed' = resumed /\ closed' = closed /\ written' = written
      OBVIOUS
    <2>3. ~resumed'
      BY <2>1, <2>2
    <2>4. AllIn'
      <3>1. BytesOf(sent)' = BytesOf(sent) /\ (IsMessage(sent)' <=> IsMessage(sent))
        BY <1>3 DEF BytesOf, IsMessage
      <3> QED
        BY <1>3, <2>1, <2>2, <3>1 DEF AllIn
    <2>5. Underway' /\ Over'
      BY <1>3 DEF Underway, Over
    <2> QED
      BY <2>3, <2>4, <2>5
  <1> QED
    BY <1>2, <1>4, <1>5 DEF IInv, StreamInv

LEMMA MessageFailsKeeps ==
    ASSUME IInv, MessageFails
    PROVE  IInv'
  <1>1. TypeOK /\ failures \in 0 .. MaxFailures /\ MaxFailures \in Nat
    BY MaxFailuresAssumption DEF IInv, TypeOK, ArmorTypeOK
  <1>2. /\ Fails /\ ~inArmor /\ inArmor' = inArmor
        /\ UNCHANGED <<written, waiting, digits, text, pc, result, closed, resumed>>
        /\ failures < MaxFailures /\ failures' = failures + 1
    BY DEF MessageFails, BetweenPackets
  <1>3. failures' \in 0 .. MaxFailures
    BY <1>1, <1>2
  <1>4. pc = "idle" /\ ~inArmor' /\ inArmor' \in BOOLEAN
    BY <1>1, <1>2 DEF TypeOK
  <1> QED
    BY <1>2, <1>3, <1>4, FailsKeeps

\* The armor works on, seen by the stream.
LEMMA ArmorStepKeeps ==
    ASSUME IInv, ArmorStep
    PROVE  IInv'
  <1>1. TypeOK /\ ArmorTypeOK /\ ArmorInv /\ StreamInv
    BY DEF IInv, TypeOK
  <1>2. /\ call' = call /\ toClose' = toClose /\ packet' = packet /\ sent' = sent
        /\ inArmor' = inArmor /\ outcome' = outcome /\ calls' = calls
        /\ misused' = misused
    BY DEF ArmorStep, streamVars
  <1>3. /\ ArmorGoesOn /\ pc # "idle" /\ written' = written /\ closed' = closed
        /\ resumed' = resumed /\ (result' = "err" => pc' = "idle" \/ result = "err")
    BY DEF ArmorStep, ArmorGoesOn, PutWord, WriteReturns, CloseReturns, EmitFails
  <1>4. ArmorTypeOK' /\ ArmorInv'
    BY <1>1, <1>3, GoesOnKeeps
  <1>5. inArmor
    BY <1>1, <1>3 DEF TypeOK
  <1>6. TypeOK'
    BY <1>1, <1>2, <1>4, <1>5 DEF TypeOK
  <1>7. ASSUME ~misused'
        PROVE  ~resumed' /\ Underway' /\ Over' /\ AllIn'
    <2>1. ~resumed /\ Underway /\ Over /\ AllIn
      BY <1>1, <1>2, <1>7 DEF StreamInv
    <2>2. outcome \in {"none", "ok"} /\ call \notin {"idle", "gone"}
      BY <1>1, <1>5, <2>1 DEF Over, TypeOK
    <2>3. result' = "err" => pc' = "idle"
      BY <1>1, <1>3, <2>1 DEF ArmorInv
    <2>4. BytesOf(sent)' = BytesOf(sent) /\ (IsMessage(sent)' <=> IsMessage(sent))
      BY <1>2 DEF BytesOf, IsMessage
    <2>5. (NoLast(sent)' <=> NoLast(sent)) /\ (Sealed' <=> Sealed)
      BY <1>2 DEF NoLast, Sealed
    <2>6. /\ written \o packet = BytesOf(sent)
          /\ ~closed /\ ~Sealed => Len(sent) >= 1 /\ NoLast(sent)
          /\ Sealed => IsMessage(sent)
          /\ toClose = <<"armor">> => packet = << >> /\ closed
          /\ closed => call = "close" /\ toClose \in {<<"armor">>, << >>}
          /\ ~(closed /\ toClose = << >>)
          /\ call = "close" /\ toClose = << >> => closed
      BY <1>5, <2>1, <2>2 DEF Underway
    <2>7. Underway'
      <3>1. /\ written' \o packet' = BytesOf(sent)'
            /\ ~closed' /\ ~Sealed' => Len(sent') >= 1 /\ NoLast(sent)'
            /\ Sealed' => IsMessage(sent)'
            /\ toClose' = <<"armor">> => packet' = << >> /\ closed' /\ inArmor'
            /\ closed' => call' = "close" /\ toClose' \in {<<"armor">>, << >>}
            /\ ~(closed' /\ toClose' = << >>)
            /\ call' = "close" /\ toClose' = << >> => closed'
        BY <1>2, <1>3, <1>5, <2>4, <2>5, <2>6
      <3>2. inArmor' /\ (result' = "err" => pc' = "idle")
        BY <1>2, <1>5, <2>3
      <3> QED
        BY <3>1, <3>2, Zenon DEF Underway
    <2>8. Over'
      BY <1>2, <2>2 DEF Over
    <2>9. ~resumed' /\ AllIn'
      BY <1>2, <1>3, <2>1, <2>4 DEF AllIn
    <2> QED
      BY <2>7, <2>8, <2>9
  <1> QED
    BY <1>4, <1>6, <1>7 DEF IInv, StreamInv

\* The armor's call returns.
LEMMA ArmorReturnsKeeps ==
    ASSUME IInv, ArmorReturns
    PROVE  IInv'
  <1>1. TypeOK /\ ArmorTypeOK /\ ArmorInv /\ StreamInv
    BY DEF IInv, TypeOK
  <1>2. inArmor /\ inArmor' = FALSE /\ pc = "idle" /\ UNCHANGED armorVars
    BY DEF ArmorReturns
  <1>3. failures' \in 0 .. MaxFailures
    BY <1>1, <1>2 DEF ArmorTypeOK, armorVars
  <1>4. CASE result = "err"
    <2>1. Fails
      BY <1>4 DEF ArmorReturns
    <2> QED
      BY <1>2, <1>3, <1>4, <2>1, FailsKeeps DEF armorVars
  <1>5. ArmorTypeOK' /\ ArmorInv'
    BY <1>1, <1>2, <1>3, ArmorSame DEF armorVars
  <1>6. CASE result # "err"
    <2>1. /\ toClose' = IF Closing("armor") THEN Tail(toClose) ELSE toClose
          /\ call' = call /\ packet' = packet /\ sent' = sent /\ outcome' = outcome
          /\ calls' = calls /\ misused' = misused
      BY <1>6 DEF ArmorReturns
    <2>2. \/ call = "close" /\ toClose = <<"armor">> /\ toClose' = << >>
          \/ toClose # <<"armor">> /\ toClose' = toClose
      <3>1. CASE Closing("armor")
        BY <1>1, <2>1, <3>1, ClosingWhat, Lists
      <3>2. CASE ~Closing("armor")
        <4>1. toClose # <<"armor">>
          BY <1>1, <3>2, ClosingWhat, Lists DEF TypeOK
        <4> QED
          BY <2>1, <3>2, <4>1
      <3> QED
        BY <3>1, <3>2
    <2>3. /\ toClose' \in {<< >>, <<"armor">>, <<"message", "armor">>,
                           <<"last packet", "armor">>}
          /\ toClose' # << >> => call' = "close"
      BY <1>1, <2>1, <2>2 DEF TypeOK
    <2>4. TypeOK'
      <3>1. inArmor' \in BOOLEAN /\ (pc' # "idle" => inArmor')
        BY <1>2 DEF armorVars
      <3> QED
        BY <1>1, <1>5, <2>1, <2>3, <3>1 DEF TypeOK
    <2>5. ASSUME ~misused'
          PROVE  ~resumed' /\ Underway' /\ Over' /\ AllIn'
      <3>1. ~resumed /\ Underway /\ Over /\ AllIn
        BY <1>1, <2>1, <2>5 DEF StreamInv
      <3>2. outcome \in {"none", "ok"} /\ call \notin {"idle", "gone"}
        BY <1>1, <1>2, <3>1 DEF Over, TypeOK
      <3>3. BytesOf(sent)' = BytesOf(sent) /\ (IsMessage(sent)' <=> IsMessage(sent))
        BY <2>1 DEF BytesOf, IsMessage
      <3>4. NoLast(sent)' <=> NoLast(sent)
        BY <2>1 DEF NoLast
      <3>5. /\ written \o packet = BytesOf(sent)
            /\ ~closed /\ ~Sealed => Len(sent) >= 1 /\ NoLast(sent)
            /\ Sealed => IsMessage(sent)
            /\ toClose = <<"armor">> => packet = << >> /\ closed
            /\ closed => call = "close" /\ toClose \in {<<"armor">>, << >>}
            /\ ~(closed /\ toClose = << >>)
            /\ call = "close" /\ toClose = << >> => closed
        BY <1>2, <3>1, <3>2 DEF Underway
      <3>6. closed => result = "ok"
        BY <1>1, <1>2, <1>6, <3>1 DEF ArmorInv
      <3>7. /\ written' = written /\ result' = result /\ closed' = closed
            /\ resumed' = resumed
        BY <1>2 DEF armorVars
      <3>8. CASE call = "close" /\ toClose = <<"armor">> /\ toClose' = << >>
        <4>1. /\ closed' /\ result' = "ok" /\ call' = "close"
              /\ written' \o packet' = BytesOf(sent)'
          BY <2>1, <3>3, <3>5, <3>6, <3>7, <3>8
        <4>2. ~Sealed' /\ toClose' # <<"armor">> /\ ~inArmor'
          BY <1>2, <3>8, Lists DEF Sealed
        <4> QED
          BY <2>1, <3>1, <3>2, <3>3, <3>5, <3>7, <3>8, <4>1, <4>2 DEF Underway, Over, AllIn
      <3>9. CASE toClose # <<"armor">> /\ toClose' = toClose
        <4>1. ~closed
          BY <3>5, <3>9
        <4>2. Sealed' <=> Sealed
          BY <3>9 DEF Sealed
        <4>3. /\ written' \o packet' = BytesOf(sent)' /\ ~closed' /\ result' # "err"
              /\ ~Sealed' => Len(sent') >= 1 /\ NoLast(sent)'
              /\ Sealed' => IsMessage(sent)'
              /\ toClose' # <<"armor">> /\ (call' = "close" => toClose' # << >>)
          BY <1>6, <2>1, <3>3, <3>4, <3>5, <3>7, <3>9, <4>1, <4>2
        <4>4. Underway'
          BY <4>3 DEF Underway
        <4> QED
          BY <2>1, <3>1, <3>2, <3>7, <4>3, <4>4 DEF Over, AllIn
      <3> QED
        BY <2>2, <3>8, <3>9
    <2> QED
      BY <1>5, <2>4, <2>5 DEF IInv, StreamInv
  <1> QED
    BY <1>4, <1>6

\* The message stream is closed, or a call returns.
LEMMA ReturnsKeeps ==
    ASSUME IInv, MessageClosed \/ Returns
    PROVE  IInv'
  <1>1. TypeOK /\ ArmorTypeOK /\ ArmorInv /\ StreamInv
    BY DEF IInv, TypeOK
  <1>2. /\ ~inArmor /\ packet = << >> /\ packet' = packet /\ sent' = sent
        /\ inArmor' = inArmor /\ calls' = calls /\ misused' = misused
        /\ UNCHANGED armorVars
    BY DEF MessageClosed, Returns, BetweenPackets
  <1>3. \/ /\ toClose = <<"last packet", "armor">> /\ toClose' = <<"armor">>
           /\ call = "close" /\ call' = "close" /\ outcome' = outcome
        \/ /\ toClose' = toClose /\ call \in {"create", "write"} /\ call' = "idle"
           /\ outcome' = "ok" /\ toClose = << >>
        \/ /\ toClose' = toClose /\ call = "close" /\ toClose = << >>
           /\ call' = "idle" /\ outcome' = "closed"
    <2>1. CASE MessageClosed
      BY <1>1, <2>1, ClosingWhat, Lists DEF MessageClosed
    <2>2. CASE Returns
      BY <1>1, <2>2 DEF Returns, TypeOK
    <2> QED
      BY <2>1, <2>2
  <1>4. failures' \in 0 .. MaxFailures
    BY <1>1, <1>2 DEF ArmorTypeOK, armorVars
  <1>5. ArmorTypeOK' /\ ArmorInv'
    BY <1>1, <1>2, <1>4, ArmorSame DEF armorVars
  <1>6. TypeOK'
    <2>1. /\ toClose' \in {<< >>, <<"armor">>}
          /\ toClose' # << >> => call' = "close"
          /\ call' \in {"close", "idle"} /\ outcome' \in {"none", "ok", "err", "closed"}
      BY <1>1, <1>3 DEF TypeOK
    <2>2. inArmor' \in BOOLEAN /\ (pc' # "idle" => inArmor')
      BY <1>1, <1>2 DEF TypeOK, armorVars
    <2> QED
      BY <1>1, <1>2, <1>5, <2>1, <2>2 DEF TypeOK
  <1>7. ASSUME ~misused'
        PROVE  ~resumed' /\ Underway' /\ Over' /\ AllIn'
    <2>1. ~resumed /\ Underway /\ Over /\ AllIn
      BY <1>1, <1>2, <1>7 DEF StreamInv
    <2>2. outcome \in {"none", "ok"}
      BY <1>1, <1>3, <2>1 DEF Over, TypeOK
    <2>3. BytesOf(sent)' = BytesOf(sent) /\ (IsMessage(sent)' <=> IsMessage(sent))
      BY <1>2 DEF BytesOf, IsMessage
    <2>4. NoLast(sent)' <=> NoLast(sent)
      BY <1>2 DEF NoLast
    <2>5. /\ written' = written /\ result' = result /\ closed' = closed
          /\ resumed' = resumed
      BY <1>2 DEF armorVars
    <2>6. /\ written \o packet = BytesOf(sent) /\ result # "err"
          /\ ~closed /\ ~Sealed => Len(sent) >= 1 /\ NoLast(sent)
          /\ Sealed => IsMessage(sent)
          /\ closed => call = "close" /\ toClose \in {<<"armor">>, << >>}
          /\ closed /\ toClose = << >> => result = "ok"
          /\ call = "close" /\ toClose = << >> => closed
      BY <1>2, <2>1, <2>2 DEF Underway
    <2>7. ~resumed' /\ AllIn'
      BY <1>2, <2>1, <2>3, <2>5 DEF AllIn
    <2>8. CASE /\ toClose = <<"last packet", "armor">> /\ toClose' = <<"armor">>
               /\ call = "close" /\ call' = "close" /\ outcome' = outcome
      <3>1. Sealed /\ Sealed' /\ toClose' # << >>
        BY <2>8, Lists DEF Sealed
      <3>2. ~closed
        BY <2>6, <2>8, Lists
      <3>3. Underway'
        BY <1>2, <2>3, <2>5, <2>6, <2>8, <3>1, <3>2 DEF Underway
      <3>4. Over'
        BY <2>2, <2>8 DEF Over
      <3> QED
        BY <2>7, <3>3, <3>4
    <2>9. CASE /\ toClose' = toClose /\ call \in {"create", "write"} /\ call' = "idle"
               /\ outcome' = "ok" /\ toClose = << >>
      <3>1. ~Sealed /\ ~Sealed' /\ toClose' # <<"armor">>
        BY <2>9, Lists DEF Sealed
      <3>2. ~closed
        BY <2>6, <2>9
      <3>3. Underway'
        BY <1>2, <2>3, <2>4, <2>5, <2>6, <2>9, <3>1, <3>2 DEF Underway
      <3>4. Over'
        BY <1>2, <2>9 DEF Over
      <3> QED
        BY <2>7, <3>3, <3>4
    <2>10. CASE /\ toClose' = toClose /\ call = "close" /\ toClose = << >>
                /\ call' = "idle" /\ outcome' = "closed"
      <3>1. closed' /\ result' = "ok"
        BY <2>5, <2>6, <2>10
      <3>2. Underway'
        BY <2>10 DEF Underway
      <3>3. Over'
        BY <1>2, <2>10, <3>1 DEF Over
      <3> QED
        BY <2>7, <3>2, <3>3
    <2> QED
      BY <1>3, <2>8, <2>9, <2>10
  <1> QED
    BY <1>5, <1>6, <1>7 DEF IInv, StreamInv

LEMMA SameKeeps == ASSUME IInv, UNCHANGED vars PROVE IInv'
  <1>1. TypeOK /\ ArmorTypeOK /\ ArmorInv /\ StreamInv
    BY DEF IInv, TypeOK
  <1>2. failures' \in 0 .. MaxFailures
    BY <1>1 DEF ArmorTypeOK, vars, armorVars
  <1>3. ArmorTypeOK' /\ ArmorInv'
    BY <1>1, <1>2, ArmorSame DEF vars, armorVars
  <1>4. /\ call' = call /\ toClose' = toClose /\ packet' = packet /\ sent' = sent
        /\ inArmor' = inArmor /\ outcome' = outcome /\ calls' = calls
        /\ misused' = misused
    BY DEF vars, streamVars
  <1>5. /\ written' = written /\ result' = result /\ closed' = closed /\ pc' = pc
        /\ resumed' = resumed
    BY DEF vars, armorVars
  <1>6. TypeOK'
    BY <1>1, <1>3, <1>4, <1>5 DEF TypeOK
  <1>7. /\ BytesOf(sent)' = BytesOf(sent) /\ (IsMessage(sent)' <=> IsMessage(sent))
        /\ (NoLast(sent)' <=> NoLast(sent)) /\ (Sealed' <=> Sealed)
    BY <1>4 DEF BytesOf, IsMessage, NoLast, Sealed
  <1>8. StreamInv'
    <2>1. ASSUME ~misused'
          PROVE  ~resumed' /\ Underway' /\ Over' /\ AllIn'
      <3>1. ~resumed /\ Underway /\ Over /\ AllIn
        BY <1>1, <1>4, <2>1 DEF StreamInv
      <3>2. Underway'
        BY <1>4, <1>5, <1>7, <3>1 DEF Underway
      <3>3. Over'
        BY <1>4, <1>5, <3>1 DEF Over
      <3>4. AllIn' /\ ~resumed'
        BY <1>4, <1>5, <1>7, <3>1 DEF AllIn
      <3> QED
        BY <3>2, <3>3, <3>4
    <2> QED
      BY <2>1 DEF StreamInv
  <1> QED
    BY <1>3, <1>6, <1>8 DEF IInv

LEMMA StreamInductive == IInv /\ [Next]_vars => IInv'
  <1> SUFFICES ASSUME IInv, [Next]_vars PROVE IInv'
    OBVIOUS
  <1>1. CASE StartWrite \/ StartClose
    BY <1>1, StreamCallKeeps
  <1>2. CASE SealBlock \/ SealFinal
    BY <1>2, EncodesKeeps
  <1>3. CASE MessageFails
    BY <1>3, MessageFailsKeeps
  <1>4. CASE MessageClosed \/ Returns
    BY <1>4, ReturnsKeeps
  <1>5. CASE PassOn
    BY <1>5, PassOnKeeps
  <1>6. CASE CloseArmor
    BY <1>6, CloseArmorKeeps
  <1>7. CASE ArmorStep
    BY <1>7, ArmorStepKeeps
  <1>8. CASE ArmorReturns
    BY <1>8, ArmorReturnsKeeps
  <1>9. CASE UNCHANGED vars
    BY <1>9, SameKeeps
  <1> QED
    BY <1>1, <1>2, <1>3, <1>4, <1>5, <1>6, <1>7, <1>8, <1>9 DEF Next

LEMMA StreamInvariant == Spec => []IInv
  <1>1. Init => IInv
    BY StreamInitInv
  <1>2. IInv /\ [Next]_vars => IInv'
    BY StreamInductive
  <1> QED
    BY <1>1, <1>2, PTL DEF Spec
-----------------------------------------------------------------------------
(* The theorems.                                                           *)

\* Without a call after an error, the text is the beginning of what it is going
\* to be.
LEMMA TextAhead ==
    ASSUME ArmorTypeOK, ArmorInv, ~resumed
    PROVE  IsPrefix(text, Target)
  <1>1. written \in Seq(Byte) /\ waiting \in Seq(Byte)
    BY ArmorTypes
  <1>2. CASE result = "err"
    BY <1>2 DEF ArmorInv
  <1>3. CASE result # "err" /\ ~closed
    <2>1. Open
      BY <1>3 DEF ArmorInv
    <2>2. PICK done \in Seq(Byte) :
              Whole(done, BlockLen) /\ written = done \o waiting /\ Laid(done)
      BY <2>1 DEF Open
    <2>3. Encode(done \o waiting) = Encode(done) \o Encode(waiting)
      BY <1>1, <2>2, EncodeConcat
    <2>4. Encode(waiting) \in Seq(Digit) /\ Encode(written) = Encode(done) \o Encode(waiting)
      BY <1>1, <2>2, <2>3, CodecType
    <2> QED
      BY <2>2, <2>4, NextWord
  <1>4. CASE result # "err" /\ closed
    <2>1. CASE pc = "idle"
      <3>1. text = ArmorSeal(written) /\ Target = ArmorSeal(written)
        BY <1>4, <2>1 DEF ArmorInv, Target
      <3>2. text \in Seq(Char)
        BY ArmorTypes
      <3> QED
        BY <3>1, <3>2 DEF IsPrefix
    <2>2. CASE pc # "idle"
      <3>1. pc = "close"
        BY <1>4, <2>2 DEF ArmorInv, ArmorTypeOK
      <3>2. Laid(written)
        BY <3>1 DEF ArmorInv
      <3>3. Encode(written) \in Seq(Digit)
        BY <1>1, CodecType
      <3>4. Encode(written) = Encode(written) \o << >> /\ << >> \in Seq(Digit)
        BY <3>3
      <3> QED
        BY <1>1, <3>2, <3>4, NextWord
    <2> QED
      BY <2>1, <2>2
  <1> QED
    BY <1>2, <1>3, <1>4

\* The writers of a message stream, of the armor and of the encoder keep their
\* types: less than a block of bytes waits, and a call of the armor is under way
\* only inside one of the stream.
THEOREM StreamTypeCorrect == Spec => []TypeOK
  <1>1. IInv => TypeOK
    BY DEF IInv
  <1> QED
    BY <1>1, StreamInvariant, PTL

\* For any bytes, in any cuts, with any failures of the io.Writer: what
\* armorEncoderStream has written is the beginning of the text that armoring
\* all of them at once gives.  Nothing is put differently because a call of
\* Write ended there.
THEOREM TextPrefix == Spec => []TextIsPrefix
  <1>1. IInv => TextIsPrefix
    <2> SUFFICES ASSUME IInv, ~resumed PROVE IsPrefix(text, ArmorSeal(written))
      BY DEF TextIsPrefix
    <2>1. ArmorTypeOK /\ ArmorInv
      BY DEF IInv, TypeOK
    <2>2. /\ written \in Seq(Byte) /\ text \in Seq(Char) /\ closed \in BOOLEAN
      BY <2>1, ArmorTypes
    <2>3. IsPrefix(text, Target)
      BY <2>1, TextAhead
    <2>4. /\ Target \in Seq(Char) /\ ArmorSeal(written) \in Seq(Char)
          /\ IsPrefix(Target, ArmorSeal(written))
      BY <2>2, TargetType
    <2> QED
      BY <2>2, <2>3, <2>4, PrefixTransitive
  <1> QED
    BY <1>1, StreamInvariant, PTL

\* And a Close of the armor that returns nil leaves all of that text.
THEOREM TextWhole == Spec => []TextComplete
  <1>1. IInv => TextComplete
    BY DEF IInv, ArmorInv, TextComplete
  <1> QED
    BY <1>1, StreamInvariant, PTL

\* A stream used by the rules, of any packets, that Close of the closeForwarder
\* returned nil for: the text is a good armored message, of all the packets, and
\* the last of them is the final one.
THEOREM StreamIsComplete == Spec => []StreamComplete
  <1>1. IInv => StreamComplete
    <2> SUFFICES ASSUME IInv, outcome = "closed", call = "idle", ~misused
                 PROVE  /\ IsMessage(sent) /\ GoodMessage(text)
                        /\ text = ArmorSeal(BytesOf(sent))
      BY DEF StreamComplete
    <2>1. TypeOK /\ ArmorTypeOK /\ ArmorInv /\ ~resumed /\ Over /\ AllIn
      BY DEF IInv, StreamInv, TypeOK
    <2>2. closed /\ result = "ok" /\ ~inArmor
      BY <2>1 DEF Over
    <2>3. pc = "idle"
      BY <2>1, <2>2 DEF TypeOK
    <2>4. text = ArmorSeal(written)
      BY <2>1, <2>2, <2>3 DEF ArmorInv
    <2>5. IsMessage(sent) /\ written = BytesOf(sent)
      BY <2>1, <2>2 DEF AllIn
    <2>6. written \in Seq(Byte)
      BY <2>1, ArmorTypes
    <2>7. GoodMessage(ArmorSeal(written))
      BY <2>6, ArmorRoundTrip
    <2> QED
      BY <2>4, <2>5, <2>7
  <1> QED
    BY <1>1, StreamInvariant, PTL

\* Whatever a failed call of a stream used by the rules has left: when the text
\* has all three sentences, the body decodes to all the packets, and the last of
\* them is the final one.
THEOREM FramedIsComplete == Spec => []CompleteWhenFramed
  <1>1. IInv => CompleteWhenFramed
    <2> SUFFICES ASSUME IInv, GoodMessage(text), ~misused
                 PROVE  /\ IsMessage(sent) /\ packet = << >>
                        /\ Decode(DigitsIn(BodyOf(text))).bytes = BytesOf(sent)
      BY DEF CompleteWhenFramed
    <2>1. TypeOK /\ ArmorTypeOK /\ ArmorInv /\ ~resumed /\ AllIn
      BY DEF IInv, StreamInv, TypeOK
    <2>2. written \in Seq(Byte) /\ text \in Seq(Char) /\ Framed(text)
      BY <2>1, ArmorTypes DEF GoodMessage
    <2>3. IsPrefix(text, Target)
      BY <2>1, TextAhead
    <2>4. closed
      <3> SUFFICES ASSUME ~closed PROVE FALSE
        OBVIOUS
      <3> DEFINE w == SpacedWords(Encode(written))
      <3>1. w \in Seq(Char) /\ AllValid(w)
        BY <2>2, CodecType, WordsKeepDigits
      <3>2. IsPrefix(text, Begun(w))
        BY <2>3 DEF Target
      <3> HIDE DEF w
      <3> QED
        BY <2>2, <3>1, <3>2, BegunNotFramed
    <2>5. IsMessage(sent) /\ packet = << >> /\ written = BytesOf(sent)
      BY <2>1, <2>4 DEF AllIn
    <2> DEFINE all == ArmorSeal(written)
    <2>6. all \in Seq(Char) /\ IsPrefix(text, all)
      BY <2>1, <2>2, <2>3, <2>4, TargetType DEF Target, ArmorTypeOK
    <2>7. Decode(DigitsIn(BodyOf(all))).bytes = written
      BY <2>2, ArmorRoundTrip
    <2> HIDE DEF all
    <2>8. PICK u \in Seq(Char) : all = text \o u
      BY <2>2, <2>6, PrefixSplits
    <2>9. BodyOf(all) = BodyOf(text)
      BY <2>2, <2>8, FramedStays
    <2> QED
      BY <2>5, <2>7, <2>9
  <1> QED
    BY <1>1, StreamInvariant, PTL
=============================================================================
