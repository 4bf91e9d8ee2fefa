-------------------------- MODULE ArmorReader_proofs --------------------------
(***************************************************************************)
(* Proofs about ArmorReader: whatever the text, and however its source and *)
(* the buffers cut it, the bytes returned are the first ones of its body,  *)
(* io.EOF means that the text is right and nothing of it is missing, a     *)
(* right text is not refused, and no slice of a caller's buffer is kept    *)
(* between two calls.                                                      *)
(***************************************************************************)
EXTENDS ArmorReader, ArmorFormat_proofs

-----------------------------------------------------------------------------
(* Pieces of texts.                                                        *)

LEMMA FirstAndRest ==
    ASSUME NEW S, NEW s \in Seq(S), NEW n \in Nat
    PROVE  /\ First(s, n) \in Seq(S) /\ Without(s, n) \in Seq(S)
           /\ Len(First(s, n)) = Min2(n, Len(s))
           /\ \A i \in 1 .. Min2(n, Len(s)) : First(s, n)[i] = s[i]
           /\ Len(Without(s, n)) = Len(s) - Min2(n, Len(s))
           /\ \A i \in 1 .. Len(Without(s, n)) :
                 Without(s, n)[i] = s[Min2(n, Len(s)) + i]
           /\ s = First(s, n) \o Without(s, n)
  <1> DEFINE k == Min2(n, Len(s))
  <1>1. Len(s) \in Nat /\ k \in 0 .. Len(s) /\ \A i \in 1 .. Len(s) : s[i] \in S
    BY DEF Min2
  <1>2. /\ SubSeq(s, 1, k) \in Seq(S) /\ Len(SubSeq(s, 1, k)) = k
        /\ \A i \in 1 .. k : SubSeq(s, 1, k)[i] = s[i]
    BY <1>1, SubSeqProperties
  <1>3. /\ SubSeq(s, k + 1, Len(s)) \in Seq(S)
        /\ Len(SubSeq(s, k + 1, Len(s))) = Len(s) - k
        /\ \A i \in 1 .. Len(s) - k : SubSeq(s, k + 1, Len(s))[i] = s[k + i]
    BY <1>1, SubSeqProperties
  <1>4. SubSeq(s, 1, k) \o SubSeq(s, k + 1, Len(s)) = s
    BY <1>1, SplitAt
  <1> QED
    BY <1>2, <1>3, <1>4 DEF First, Without

LEMMA CutNoPunct ==
    ASSUME NEW s \in Seq(Char), NEW n \in Nat, NoPunct(s)
    PROVE  NoPunct(First(s, n)) /\ NoPunct(Without(s, n))
  <1> DEFINE k == Min2(n, Len(s))
             a == First(s, n)
             b == Without(s, n)
  <1>1. /\ Len(a) = k /\ Len(b) = Len(s) - k
        /\ \A i \in 1 .. k : a[i] = s[i]
        /\ \A i \in 1 .. Len(b) : b[i] = s[k + i]
        /\ a \in Seq(Char) /\ b \in Seq(Char)
    BY FirstAndRest
  <1>2. /\ Len(s) \in Nat /\ k \in 0 .. Len(s)
        /\ \A i \in 1 .. Len(s) : s[i] # Punct
    BY LenProperties DEF Min2, NoPunct
  <1> HIDE DEF a, b, k
  <1>3. \A i \in DOMAIN a : a[i] # Punct
    BY <1>1, <1>2, LenProperties
  <1>4. \A i \in DOMAIN b : b[i] # Punct
    BY <1>1, <1>2, LenProperties
  <1> QED
    BY <1>3, <1>4 DEF NoPunct, a, b

-----------------------------------------------------------------------------
(* The inductive invariant.                                                *)

\* punctuatedReader holds no data of its own.
Emptied(sg) == sg.this = << >> /\ sg.next = << >>

\* thisSegment ends where the punctuation was, which is still to be reported
\* only as long as there is some of the segment to report it with.
SegmentOK(sg) == NoPunct(sg.this) /\ (sg.punct => sg.this # << >>)

\* The part of the text that the readers above have not seen.
Pending(sg) == sg.this \o (Mark(sg.punct) \o (sg.next \o sg.rest))

\* Of the body characters b that the decoder was given, the digits done have
\* been decoded, to the bytes returned and those that are left over, and the
\* others are in its buffer.
Handed(b, done) ==
    /\ DigitsIn(b) = done \o buf
    /\ out \o outbuf = Decode(done).bytes /\ Decode(done).ok

\* There is nothing more to decode.
Finished == buf = << >> /\ state = "end" /\ held = << >>

\* Only whole blocks are decoded before the end of the body.
Decoded(b) ==
    \E done \in Seq(Digit) :
        Handed(b, done) /\ (Whole(done, DigitBlockLen) \/ Finished)

\* The text consists of the frames seen so far, the body seen so far, of which
\* all but what is held was given to the decoder, and what is pending.
InHeader ==
    /\ held = << >> /\ NoPunct(frame) /\ full = frame \o Pending(seg)
    /\ buf = << >> /\ out = << >> /\ outbuf = << >>

InBody ==
    /\ frame = << >> /\ held = << >>
    /\ \E h, b \in Seq(Char) :
        /\ NoPunct(h) /\ HeaderOK(h) /\ NoPunct(b) /\ AllValid(b)
        /\ full = h \o (<<Punct>> \o (b \o Pending(seg)))
        /\ Decoded(b)

InFooter ==
    /\ NoPunct(frame)
    /\ \E h, b \in Seq(Char) :
        /\ NoPunct(h) /\ HeaderOK(h) /\ NoPunct(b \o held) /\ AllValid(b)
        /\ full = h \o (<<Punct>> \o ((b \o held)
                    \o (<<Punct>> \o (frame \o Pending(seg)))))
        /\ Decoded(b)

InTrailer ==
    \E h, b, f, t \in Seq(Char) :
        /\ NoPunct(h) /\ HeaderOK(h) /\ NoPunct(b \o held) /\ AllValid(b)
        /\ NoPunct(f) /\ FooterOK(f)
        /\ full = h \o (<<Punct>> \o ((b \o held)
                    \o (<<Punct>> \o (f \o (<<Punct>> \o (t \o Pending(seg)))))))
        /\ Decoded(b)

Located ==
    ~retried /\ err \in {"nil", "EOF"} =>
        /\ state = "header" => InHeader
        /\ state = "body" => InBody
        /\ state = "footer" => InFooter
        /\ state = "end" => InTrailer

\* decoder.err is io.EOF only when the source has ended behind the footer and
\* nothing is held any more.
EOFAtEnd == err = "EOF" => state = "end" /\ held = << >> /\ Emptied(seg)

\* Only data with the end of the body in it leaves something in the buffer of
\* decoder.Read, and the call goes on until it is used or has failed.
BorrowedInCall ==
    seg.borrowed =>
        /\ state \in {"footer", "end"}
        /\ Emptied(seg) \/ err # "nil" \/ (pc = "read" /\ Len(buf) < DigitBlockLen)

\* What is held is the end of the body; it fits into the buffer of the decoder.
Fits == /\ Len(buf) + Len(held) <= BufLen
        /\ state \in {"header", "body"} => held = << >>

\* A kept error is the last one returned, except within a call of Read.
Told == verdict = IF pc = "read" THEN "nil" ELSE err

\* What was decoded is the beginning of what the body stands for; it is all
\* returned before more is decoded, and before io.EOF is reported.
Delivered ==
    /\ pc = "read" => outbuf = << >>
    /\ pc # "read" /\ err = "EOF" => buf = << >> /\ outbuf = << >>
    /\ ~retried => IsPrefix(out \o outbuf, Body)

IInv == /\ TypeOK /\ SegmentOK(seg) /\ Located /\ EOFAtEnd /\ BorrowedInCall
        /\ Fits /\ Told /\ Delivered

-----------------------------------------------------------------------------
(* One Read of punctuatedReader.                                           *)

\* Nothing is read although the source has not ended.
NoData(r) == r.data = << >> /\ r.err \in {"nil", "Source"}

\* What the readers above may count on in the result of a Read of n bytes.
GoodResult(r, n, own) ==
    /\ r.data \in Seq(Char) /\ Len(r.data) <= n
    /\ r.err \in {"nil", "EOF", "Source", "Punctuated"}
    /\ r.seg \in Segments /\ SegmentOK(r.seg)
    /\ Pending(seg) = r.data \o (Mark(r.err = "Punctuated") \o Pending(r.seg))
    /\ r.err \in {"nil", "Punctuated"} => NoPunct(r.data)
    /\ r.err = "EOF" => Emptied(r.seg)
    /\ r.err = "EOF" /\ source = "plain" => Pending(seg) = << >>
    /\ r.err = "Source" => r.data = << >>
    /\ NoData(r) => hiccups < MaxHiccups
    /\ r.data = << >> /\ r.err = "nil" => Emptied(r.seg)
    /\ r.seg.borrowed => seg.borrowed \/ (~own /\ r.err = "Punctuated")

CopiedOK(segment, n, ended, sg, r) ==
    /\ r.data \in Seq(Char) /\ NoPunct(r.data) /\ Len(r.data) <= n
    /\ r.err \in {"nil", "Punctuated"}
    /\ r.seg \in Segments /\ SegmentOK(r.seg)
    /\ r.seg.next = sg.next /\ r.seg.borrowed = sg.borrowed
    /\ segment \o (Mark(ended) \o (sg.next \o sg.rest))
         = r.data \o (Mark(r.err = "Punctuated") \o Pending(r.seg))
    /\ r.data = << >> => r.err = IF ended THEN "Punctuated" ELSE "nil"
    /\ r.data = << >> => segment = << >> /\ r.seg.this = << >>
    /\ ended /\ Len(segment) <= n => r.err = "Punctuated"

LEMMA CopiedResult ==
    ASSUME NEW segment \in Seq(Char), NoPunct(segment), NEW n \in Nat \ {0},
           NEW ended \in BOOLEAN, NEW sg \in Segments,
           NEW r, r = Copied(segment, n, ended, sg)
    PROVE  CopiedOK(segment, n, ended, sg, r)
  <1> DEFINE front == First(segment, n)
             back  == Without(segment, n)
             rest  == sg.next \o sg.rest
             tail  == Mark(ended) \o rest
  <1>1. /\ front \in Seq(Char) /\ back \in Seq(Char)
        /\ Len(front) = Min2(n, Len(segment))
        /\ Len(back) = Len(segment) - Min2(n, Len(segment))
        /\ segment = front \o back /\ NoPunct(front) /\ NoPunct(back)
    BY FirstAndRest, CutNoPunct
  <1>2. /\ Len(segment) \in Nat
        /\ rest \in Seq(Char) /\ tail \in Seq(Char) /\ Mark(ended) \in Seq(Char)
    BY MarkType, ConcatProperties DEF Segments
  <1>3. /\ r.data = front
        /\ r.err = IF ended /\ Len(segment) <= n THEN "Punctuated" ELSE "nil"
        /\ r.seg = [sg EXCEPT !.this = back, !.punct = ended /\ Len(segment) > n]
    BY DEF Copied
  <1>0. Len(front) <= n
    BY <1>1, <1>2 DEF Min2
  <1> HIDE DEF front, back
  <1>4. /\ r.data = front /\ r.seg \in Segments
        /\ r.seg.this = back /\ r.seg.next = sg.next /\ r.seg.rest = sg.rest
        /\ r.seg.borrowed = sg.borrowed
    BY <1>1, <1>3 DEF Segments
  <1>5. CASE Len(segment) <= n
    <2>0. ~(Len(segment) > n)
      BY <1>2, <1>5
    <2>1. /\ r.err = IF ended THEN "Punctuated" ELSE "nil"
          /\ r.seg.punct = FALSE
      BY <1>3, <1>5, <2>0 DEF Segments
    <2>2. Len(back) = 0 /\ Len(front) = Len(segment)
      BY <1>1, <1>2, <1>5 DEF Min2
    <2>3. back = << >> /\ (front = << >> => segment = << >>)
      BY <1>1, <2>2, EmptySeq
    <2>4. Mark(r.seg.punct) = << >> /\ Mark(r.err = "Punctuated") = Mark(ended)
      BY <2>1 DEF Mark
    <2>5. Pending(r.seg) = rest
      <3>1. << >> \o rest = rest
        BY <1>2, ConcatEmptySeq
      <3> QED
        BY <1>4, <2>3, <2>4, <3>1 DEF Pending
    <2>6. segment = front
      BY <1>1, <2>3, ConcatEmptySeq
    <2>7. SegmentOK(r.seg)
      BY <1>1, <1>4, <2>1 DEF SegmentOK
    <2> QED
      BY <1>0, <1>1, <1>4, <2>1, <2>3, <2>4, <2>5, <2>6, <2>7 DEF CopiedOK
  <1>6. CASE ~(Len(segment) <= n)
    <2>1. r.err = "nil" /\ r.seg.punct = ended
      BY <1>2, <1>3, <1>6 DEF Segments
    <2>2. Len(back) # 0 /\ Len(front) # 0
      BY <1>1, <1>2, <1>6 DEF Min2
    <2>3. back # << >> /\ front # << >>
      BY <2>2, EmptySeq
    <2>4. Mark(r.seg.punct) = Mark(ended) /\ Mark(r.err = "Punctuated") = << >>
      BY <2>1 DEF Mark
    <2>5. Pending(r.seg) = back \o tail
      BY <1>4, <2>4 DEF Pending
    <2> HIDE DEF tail
    <2>6. << >> \o (back \o tail) = back \o tail
      BY <1>1, <1>2, ConcatProperties, ConcatEmptySeq
    <2>7. segment \o tail = front \o (back \o tail)
      <3>1. /\ front \in Seq(Char) /\ back \in Seq(Char) /\ tail \in Seq(Char)
            /\ segment = front \o back
        BY <1>1, <1>2
      <3> QED
        BY <3>1, Regroup
    <2>8. segment \o tail = r.data \o (Mark(r.err = "Punctuated") \o Pending(r.seg))
      BY <1>4, <2>4, <2>5, <2>6, <2>7
    <2>9. SegmentOK(r.seg)
      BY <1>1, <1>4, <2>3 DEF SegmentOK
    <2> QED
      BY <1>0, <1>1, <1>4, <1>6, <2>1, <2>3, <2>8, <2>9 DEF CopiedOK, tail
  <1> QED
    BY <1>5, <1>6

\* What is pending when punctuatedReader holds nothing.
LEMMA OnlyRest ==
    ASSUME NEW sg \in Segments, SegmentOK(sg), Emptied(sg)
    PROVE  Pending(sg) = sg.rest
  <1>1. sg.punct = FALSE /\ sg.rest \in Seq(Char)
    BY DEF SegmentOK, Emptied, Segments
  <1>2. Mark(sg.punct) = << >> /\ << >> \o sg.rest = sg.rest
    BY <1>1, ConcatEmptySeq DEF Mark
  <1> QED
    BY <1>2 DEF Pending, Emptied

LEMMA UnsearchedResult ==
    ASSUME seg \in Segments, SegmentOK(seg), Emptied(seg),
           NEW own \in BOOLEAN, NEW n \in Nat, NEW k \in 0 .. Len(seg.rest), k <= n,
           NEW e \in {"nil", "EOF", "Source"},
           e \in {"nil", "Source"} => k = 0 /\ hiccups < MaxHiccups,
           e = "EOF" /\ source = "plain" => seg.rest = << >>
    PROVE  GoodResult(Unsearched(First(seg.rest, k), e), n, own)
  <1> DEFINE got == First(seg.rest, k)
             r == Unsearched(got, e)
  <1>1. seg.rest \in Seq(Char) /\ Len(seg.rest) \in Nat
    BY DEF Segments
  <1>2. /\ got \in Seq(Char) /\ Len(got) = k
        /\ Without(seg.rest, Len(got)) \in Seq(Char)
        /\ seg.rest = got \o Without(seg.rest, Len(got))
    <2>1. k \in Nat /\ Min2(k, Len(seg.rest)) = k
      BY <1>1 DEF Min2
    <2>2. got \in Seq(Char) /\ Without(seg.rest, k) \in Seq(Char)
      BY <1>1, <2>1, FirstAndRest
    <2>3. Len(got) = k
      BY <1>1, <2>1, FirstAndRest
    <2>4. seg.rest = got \o Without(seg.rest, k)
      BY <1>1, <2>1, FirstAndRest, Zenon
    <2> QED
      BY <2>2, <2>3, <2>4
  <1>3. r.data = got /\ r.err = e /\ r.seg = [seg EXCEPT !.rest = Without(seg.rest, Len(got))]
    BY DEF Unsearched
  <1>4. /\ r.seg \in Segments /\ r.seg.this = seg.this /\ r.seg.next = seg.next
        /\ r.seg.punct = seg.punct /\ r.seg.borrowed = seg.borrowed
        /\ r.seg.rest = Without(seg.rest, Len(got))
    BY <1>2, <1>3 DEF Segments
  <1>5. SegmentOK(r.seg) /\ Emptied(r.seg)
    BY <1>4 DEF SegmentOK, Emptied
  <1>6. \A sg \in Segments : SegmentOK(sg) /\ Emptied(sg) => Pending(sg) = sg.rest
    BY OnlyRest
  <1>7. Pending(seg) = seg.rest /\ Pending(r.seg) = Without(seg.rest, Len(got))
    BY <1>4, <1>5, <1>6
  <1>8. Pending(seg) = got \o (Mark(e = "Punctuated") \o Pending(r.seg))
    <2>1. Mark(e = "Punctuated") = << >>
      BY DEF Mark
    <2>2. << >> \o Pending(r.seg) = Pending(r.seg)
      BY <1>2, <1>7, ConcatEmptySeq
    <2> QED
      BY <1>2, <1>7, <2>1, <2>2
  <1>9. e \in {"nil", "Source"} => got = << >>
    BY <1>2, EmptySeq
  <1>10. NoPunct(<< >>)
    BY DEF NoPunct
  <1>11. e = "EOF" /\ source = "plain" => Pending(seg) = << >>
    BY <1>7
  <1>12. NoData(r) => hiccups < MaxHiccups
    BY <1>3 DEF NoData
  <1> HIDE DEF got, r
  <1>13. GoodResult(r, n, own)
    BY <1>2, <1>3, <1>4, <1>5, <1>8, <1>9, <1>10, <1>11, <1>12 DEF GoodResult
  <1> QED
    BY <1>13 DEF r, got

LEMMA SearchedResult ==
    ASSUME seg \in Segments, SegmentOK(seg), Emptied(seg),
           NEW own \in BOOLEAN, NEW n \in Nat \ {0},
           NEW k \in 1 .. n, k <= Len(seg.rest)
    PROVE  GoodResult(Searched(First(seg.rest, k), n, own), n, own)
  <1> DEFINE got == First(seg.rest, k)
             r == Searched(got, n, own)
             sg == [seg EXCEPT !.rest = Without(seg.rest, Len(got)),
                               !.next = AfterPunct(got),
                               !.borrowed = ~own /\ AfterPunct(got) # << >>]
  <1>1. seg.rest \in Seq(Char) /\ Len(seg.rest) \in Nat
    BY DEF Segments
  <1>2. /\ got \in Seq(Char) /\ Len(got) = k
        /\ Without(seg.rest, Len(got)) \in Seq(Char)
        /\ seg.rest = got \o Without(seg.rest, Len(got))
    <2>1. k \in Nat /\ Min2(k, Len(seg.rest)) = k
      BY <1>1 DEF Min2
    <2>2. got \in Seq(Char) /\ Without(seg.rest, k) \in Seq(Char)
      BY <1>1, <2>1, FirstAndRest
    <2>3. Len(got) = k
      BY <1>1, <2>1, FirstAndRest
    <2>4. seg.rest = got \o Without(seg.rest, k)
      BY <1>1, <2>1, FirstAndRest, Zenon
    <2> QED
      BY <2>2, <2>3, <2>4
  <1>3. /\ BeforePunct(got) \in Seq(Char) /\ AfterPunct(got) \in Seq(Char)
        /\ HasPunct(got) \in BOOLEAN
        /\ NoPunct(BeforePunct(got)) /\ Len(BeforePunct(got)) <= Len(got)
        /\ got = BeforePunct(got) \o (Mark(HasPunct(got)) \o AfterPunct(got))
    BY <1>2, CutHere
  <1>4. /\ sg \in Segments /\ sg.next = AfterPunct(got)
        /\ sg.rest = Without(seg.rest, Len(got))
        /\ sg.borrowed = (~own /\ AfterPunct(got) # << >>)
    BY <1>2, <1>3 DEF Segments
  <1>5. r = Copied(BeforePunct(got), n, HasPunct(got), sg)
    BY DEF Searched
  <1> HIDE DEF sg
  <1>6. CopiedOK(BeforePunct(got), n, HasPunct(got), sg, r)
    BY <1>3, <1>4, <1>5, CopiedResult, Zenon
  <1>7. HasPunct(got) => r.err = "Punctuated"
    <2>1. Len(BeforePunct(got)) \in Nat /\ Len(BeforePunct(got)) <= n
      BY <1>2, <1>3
    <2> QED
      BY <1>6, <2>1 DEF CopiedOK
  <1>8. ~HasPunct(got) => AfterPunct(got) = << >>
    BY DEF AfterPunct
  <1>9. Pending(seg) = seg.rest
    BY OnlyRest
  <1>10. seg.rest = BeforePunct(got) \o (Mark(HasPunct(got)) \o (sg.next \o sg.rest))
    <2> DEFINE bp == BeforePunct(got)
               ap == AfterPunct(got)
               mk == Mark(HasPunct(got))
               re == sg.rest
    <2>1. /\ got = bp \o (mk \o ap) /\ seg.rest = got \o re /\ sg.next = ap
          /\ bp \in Seq(Char) /\ mk \in Seq(Char) /\ ap \in Seq(Char)
          /\ re \in Seq(Char)
      BY <1>2, <1>3, <1>4, MarkType
    <2> HIDE DEF got, bp, ap, mk, re
    <2>2. got \o re = bp \o (mk \o (ap \o re))
      <3>1. /\ got = bp \o (mk \o ap)
            /\ bp \in Seq(Char) /\ mk \in Seq(Char) /\ ap \in Seq(Char)
            /\ re \in Seq(Char)
        BY <2>1
      <3> QED
        BY <3>1, RegroupTwice, SMTT(30)
    <2>3. seg.rest = bp \o (mk \o (sg.next \o re))
      BY <2>1, <2>2
    <2> QED
      BY <2>3 DEF bp, mk, re
  <1>11. ~(r.data = << >> /\ r.err = "nil")
    <2> SUFFICES ASSUME r.data = << >>, r.err = "nil" PROVE FALSE
      OBVIOUS
    <2>1. ~HasPunct(got) /\ BeforePunct(got) = << >>
      BY <1>6, <1>7 DEF CopiedOK
    <2>2. got = << >>
      BY <2>1 DEF BeforePunct
    <2> QED
      BY <1>2, <2>2
  <1>12. r.seg.borrowed => ~own /\ r.err = "Punctuated"
    BY <1>4, <1>6, <1>7, <1>8 DEF CopiedOK
  <1> HIDE DEF r, got
  <1>13. r.err # "EOF"
    BY <1>6 DEF CopiedOK
  <1>14. Pending(seg) = r.data \o (Mark(r.err = "Punctuated") \o Pending(r.seg))
    BY <1>6, <1>9, <1>10 DEF CopiedOK
  <1>15. GoodResult(r, n, own)
    BY <1>6, <1>11, <1>12, <1>13, <1>14 DEF GoodResult, CopiedOK, NoData
  <1> QED
    BY <1>15 DEF r, got

LEMMA ReadResult ==
    ASSUME seg \in Segments, SegmentOK(seg), NEW own \in BOOLEAN,
           NEW n \in Nat \ {0}, NEW r \in PunctuatedReads(n, own)
    PROVE  GoodResult(r, n, own)
  <1>1. /\ seg.this \in Seq(Char) /\ seg.next \in Seq(Char) /\ seg.rest \in Seq(Char)
        /\ seg.punct \in BOOLEAN /\ Len(seg.rest) \in Nat
    BY DEF Segments
  <1>2. CASE seg.this # << >>
    <2>1. r = Copied(seg.this, n, seg.punct, seg)
      BY <1>2 DEF PunctuatedReads
    <2>2. NoPunct(seg.this)
      BY DEF SegmentOK
    <2>3. CopiedOK(seg.this, n, seg.punct, seg, r)
      BY <1>1, <2>1, <2>2, CopiedResult, Zenon
    <2>4. r.data # << >> /\ r.err # "EOF"
      BY <1>2, <2>3 DEF CopiedOK
    <2> QED
      BY <2>3, <2>4 DEF GoodResult, CopiedOK, Pending, NoData
  <1>3. CASE seg.this = << >> /\ seg.next # << >>
    <2> DEFINE sg == [seg EXCEPT !.next = AfterPunct(seg.next)]
               bp == BeforePunct(seg.next)
               ap == AfterPunct(seg.next)
               mk == Mark(HasPunct(seg.next))
               ne == seg.next
               re == seg.rest
    <2>1. r = Copied(bp, n, HasPunct(ne), sg)
      BY <1>3 DEF PunctuatedReads
    <2>2. /\ bp \in Seq(Char) /\ ap \in Seq(Char) /\ mk \in Seq(Char)
          /\ re \in Seq(Char) /\ ne \in Seq(Char)
          /\ HasPunct(ne) \in BOOLEAN /\ NoPunct(bp)
          /\ ne = bp \o (mk \o ap)
      BY <1>1, CutHere, MarkType
    <2>3. /\ sg \in Segments /\ sg.next = ap /\ sg.rest = re
          /\ sg.borrowed = seg.borrowed
      BY <2>2 DEF Segments
    <2>4. Pending(seg) = ne \o re
      <3>1. seg.punct = FALSE /\ Mark(seg.punct) = << >>
        BY <1>1, <1>3 DEF SegmentOK, Mark
      <3>2. ne \o re \in Seq(Char) /\ << >> \o (ne \o re) = ne \o re
        BY <2>2, ConcatProperties, ConcatEmptySeq
      <3> QED
        BY <1>3, <3>1, <3>2 DEF Pending
    <2>5. ap = << >> \/ HasPunct(ne)
      BY DEF AfterPunct
    <2> HIDE DEF sg, bp, ap, mk, ne, re
    <2>6. CopiedOK(bp, n, HasPunct(ne), sg, r)
      BY <2>1, <2>2, <2>3, CopiedResult, Zenon
    <2>7. ne \o re = bp \o (mk \o (ap \o re))
      BY <2>2, RegroupTwice, SMTT(30)
    <2>8. Pending(seg) = r.data \o (Mark(r.err = "Punctuated") \o Pending(r.seg))
      <3>1. ne \o re = bp \o (Mark(HasPunct(ne)) \o (sg.next \o sg.rest))
        BY <2>3, <2>7 DEF mk, ne
      <3> QED
        BY <2>4, <2>6, <3>1 DEF CopiedOK
    <2>9. ~(r.data = << >> /\ r.err = "nil")
      <3> SUFFICES ASSUME r.data = << >>, r.err = "nil" PROVE FALSE
        OBVIOUS
      <3>1. ~HasPunct(ne) /\ bp = << >>
        BY <2>6 DEF CopiedOK
      <3>2. ne = << >>
        BY <3>1 DEF BeforePunct, bp, ne
      <3> QED
        BY <1>3, <3>2 DEF ne
    <2>10. r.seg.borrowed = seg.borrowed /\ r.err # "EOF"
      BY <2>3, <2>6 DEF CopiedOK
    <2> QED
      BY <2>6, <2>8, <2>9, <2>10 DEF GoodResult, CopiedOK, NoData
  <1>4. CASE Emptied(seg)
    <2>1. /\ First(seg.rest, 0) = << >>
          /\ seg.rest = << >> => Len(seg.rest) = 0
      <3>1. Len(First(seg.rest, 0)) = 0 /\ First(seg.rest, 0) \in Seq(Char)
        BY <1>1, FirstAndRest DEF Min2
      <3> QED
        BY <3>1, EmptySeq
    <2>2. r \in SourceReads(n, own) \/ r \in Hiccups
      BY <1>4 DEF PunctuatedReads, Emptied
    <2>3. CASE r \in Hiccups
      <3>1. r \in {Unsearched(First(seg.rest, 0), "nil"),
                   Unsearched(First(seg.rest, 0), "Source")}
        BY <2>1, <2>3 DEF Hiccups
      <3>2. hiccups < MaxHiccups
        BY <2>3 DEF Hiccups
      <3>3. 0 \in 0 .. Len(seg.rest) /\ 0 <= n /\ n \in Nat
        BY <1>1
      <3> QED
        BY <1>4, <3>1, <3>2, <3>3, UnsearchedResult
    <2>4. CASE r \in SourceReads(n, own)
      <3>1. \/ \E k \in 1 .. Min2(n, Len(seg.rest)) :
                \/ r = Searched(First(seg.rest, k), n, own)
                \/ r = Unsearched(First(seg.rest, k), "EOF") /\ source = "dataEOF"
            \/ r = Unsearched(First(seg.rest, 0), "EOF") /\ seg.rest = << >>
        BY <2>1, <2>4 DEF SourceReads
      <3>2. ASSUME NEW k \in 1 .. Min2(n, Len(seg.rest))
            PROVE  k \in 1 .. n /\ k <= Len(seg.rest) /\ k \in 0 .. Len(seg.rest)
                   /\ k <= n /\ n \in Nat
        BY <1>1 DEF Min2
      <3>3. 0 \in 0 .. Len(seg.rest) /\ 0 <= n /\ n \in Nat
        BY <1>1
      <3>4. CASE r = Unsearched(First(seg.rest, 0), "EOF") /\ seg.rest = << >>
        BY <1>4, <3>3, <3>4, UnsearchedResult
      <3>5. ASSUME NEW k \in 1 .. Min2(n, Len(seg.rest)),
                   r = Searched(First(seg.rest, k), n, own)
            PROVE  GoodResult(r, n, own)
        BY <1>4, <3>2, <3>5, SearchedResult
      <3>6. ASSUME NEW k \in 1 .. Min2(n, Len(seg.rest)),
                   r = Unsearched(First(seg.rest, k), "EOF"), source = "dataEOF"
            PROVE  GoodResult(r, n, own)
        BY <1>4, <3>2, <3>6, UnsearchedResult
      <3> QED
        BY <3>1, <3>4, <3>5, <3>6
    <2> QED
      BY <2>2, <2>3, <2>4
  <1> QED
    BY <1>2, <1>3, <1>4 DEF Emptied

-----------------------------------------------------------------------------
(* What the readers above make of a result.                                *)

LEMMA PendingType ==
    ASSUME NEW sg \in Segments
    PROVE  Pending(sg) \in Seq(Char)
  <1>1. /\ sg.this \in Seq(Char) /\ sg.next \in Seq(Char) /\ sg.rest \in Seq(Char)
        /\ Mark(sg.punct) \in Seq(Char)
    BY MarkType DEF Segments
  <1>2. Mark(sg.punct) \o (sg.next \o sg.rest) \in Seq(Char)
    BY <1>1, ConcatProperties
  <1> QED
    BY <1>1, <1>2, ConcatProperties DEF Pending

\* What is read is added to what has been read of the sentence x.
LEMMA Gathered ==
    ASSUME seg \in Segments, NEW n, NEW own, NEW r, GoodResult(r, n, own),
           NEW x \in Seq(Char), NoPunct(x), r.err \in {"nil", "Punctuated"}
    PROVE  /\ x \o r.data \in Seq(Char) /\ NoPunct(x \o r.data)
           /\ x \o Pending(seg)
                = (x \o r.data) \o (Mark(r.err = "Punctuated") \o Pending(r.seg))
  <1> DEFINE d == r.data
             rest == Mark(r.err = "Punctuated") \o Pending(r.seg)
  <1>1. /\ d \in Seq(Char) /\ NoPunct(d) /\ r.seg \in Segments
        /\ Pending(seg) = d \o rest
    BY DEF GoodResult
  <1>2. rest \in Seq(Char)
    <2>1. Mark(r.err = "Punctuated") \in Seq(Char) /\ Pending(r.seg) \in Seq(Char)
      BY <1>1, MarkType, PendingType
    <2> QED
      BY <2>1, ConcatProperties
  <1>3. x \o d \in Seq(Char) /\ NoPunct(x \o d)
    BY <1>1, NoPunctConcat
  <1> HIDE DEF d, rest
  <1>4. (x \o d) \o rest = x \o (d \o rest)
    <2>1. d \in Seq(Char)
      BY <1>1
    <2> QED
      BY <1>2, <2>1, Regroup
  <1> QED
    BY <1>1, <1>3, <1>4 DEF d, rest

LEMMA GatheredMore ==
    ASSUME seg \in Segments, NEW n, NEW own, NEW r, GoodResult(r, n, own),
           NEW x \in Seq(Char), NoPunct(x), r.err = "nil"
    PROVE  /\ x \o r.data \in Seq(Char) /\ NoPunct(x \o r.data)
           /\ x \o Pending(seg) = (x \o r.data) \o Pending(r.seg)
  <1>1. /\ x \o r.data \in Seq(Char) /\ NoPunct(x \o r.data)
        /\ x \o Pending(seg)
             = (x \o r.data) \o (Mark(r.err = "Punctuated") \o Pending(r.seg))
    BY Gathered
  <1>2. Mark(r.err = "Punctuated") = << >>
    BY DEF Mark
  <1>3. << >> \o Pending(r.seg) = Pending(r.seg)
    BY PendingType, ConcatEmptySeq DEF GoodResult
  <1> QED
    BY <1>1, <1>2, <1>3

LEMMA GatheredAll ==
    ASSUME seg \in Segments, NEW n, NEW own, NEW r, GoodResult(r, n, own),
           NEW x \in Seq(Char), NoPunct(x), r.err = "Punctuated"
    PROVE  /\ x \o r.data \in Seq(Char) /\ NoPunct(x \o r.data)
           /\ x \o Pending(seg) = (x \o r.data) \o (<<Punct>> \o Pending(r.seg))
  <1>1. /\ x \o r.data \in Seq(Char) /\ NoPunct(x \o r.data)
        /\ x \o Pending(seg)
             = (x \o r.data) \o (Mark(r.err = "Punctuated") \o Pending(r.seg))
    BY Gathered
  <1>2. Mark(r.err = "Punctuated") = <<Punct>>
    BY DEF Mark
  <1> QED
    BY <1>1, <1>2

LEMMA ScannedWhat ==
    ASSUME NEW n, NEW own, NEW r, GoodResult(r, n, own)
    PROVE  /\ Scanned(r) = "more" => r.err = "nil"
           /\ Scanned(r) = "found" <=> r.err = "Punctuated"
           /\ Scanned(r) # "more" => FrameError(r) \in Error \ {"EOF"}
  <1>1. r.err \in {"nil", "EOF", "Source", "Punctuated"}
    BY DEF GoodResult
  <1>2. /\ r.err = "Punctuated" => Scanned(r) = "found"
        /\ r.err = "EOF" => Scanned(r) = "UnexpectedEOF"
        /\ r.err = "Source" => Scanned(r) = "Source"
        /\ r.err = "nil" => Scanned(r) \in {"Overflow", "UnexpectedEOF", "more"}
    BY DEF Scanned
  <1> QED
    BY <1>1, <1>2 DEF FrameError, Error

-----------------------------------------------------------------------------
(* The steps.                                                              *)

LEMMA InitInv == Init => IInv
  <1> SUFFICES ASSUME Init PROVE IInv
    OBVIOUS
  <1>1. full \in Seq(Char) /\ << >> \in Seq(Char)
    BY ArmorReaderAssumption DEF Init
  <1>2. seg \in Segments
    BY <1>1 DEF Init, Segments
  <1>3. /\ seg.this = << >> /\ seg.next = << >> /\ seg.rest = full
        /\ seg.punct = FALSE /\ seg.borrowed = FALSE
    BY DEF Init
  <1>4. TypeOK
    <2>1. << >> \in Seq(0 .. Base - 1) /\ << >> \in Seq(0 .. ByteBase - 1)
      OBVIOUS
    <2>2. Len(<< >>) <= BufLen /\ 0 \in 0 .. MaxHiccups
      BY ArmorReaderAssumption
    <2> QED
      BY <1>1, <1>2, <2>1, <2>2 DEF Init, TypeOK
  <1>5. SegmentOK(seg)
    BY <1>3 DEF SegmentOK, NoPunct
  <1>6. Located
    <2>1. Mark(seg.punct) = << >>
      BY <1>3 DEF Mark
    <2>2. << >> \o full = full
      BY <1>1, ConcatEmptySeq
    <2>3. << >> \o Pending(seg) = full
      BY <1>3, <2>1, <2>2 DEF Pending
    <2>4. frame = << >> /\ held = << >> /\ state = "header" /\ NoPunct(<< >>)
      BY DEF Init, NoPunct
    <2> QED
      BY <2>3, <2>4 DEF Located, InHeader, Init
  <1>7. Fits /\ Told
    BY ArmorReaderAssumption DEF Init, Fits, Told
  <1>8. Delivered
    <2>1. out = << >> /\ outbuf = << >> /\ pc = "idle" /\ err = "nil"
      BY DEF Init
    <2>2. << >> \o << >> = << >> /\ IsPrefix(<< >>, Body)
      BY DEF IsPrefix
    <2> QED
      BY <2>1, <2>2 DEF Delivered
  <1> QED
    BY <1>3, <1>4, <1>5, <1>6, <1>7, <1>8 DEF IInv, EOFAtEnd, BorrowedInCall, Init

\* What was given to the decoder, if it neither gets nor decodes anything, if
\* it gets more, and if it decodes some of it.
LEMMA DecodedSame ==
    ASSUME NEW b \in Seq(Char), Decoded(b), out' \o outbuf' = out \o outbuf,
           UNCHANGED buf, Finished => Finished'
    PROVE  Decoded(b)'
  <1>1. PICK done \in Seq(Digit) :
            Handed(b, done) /\ (Whole(done, DigitBlockLen) \/ Finished)
    BY DEF Decoded
  <1>2. Handed(b, done)'
    BY <1>1 DEF Handed
  <1> QED
    BY <1>1, <1>2 DEF Decoded

LEMMA DecodedNone ==
    ASSUME buf = << >>, out = << >>, outbuf = << >>
    PROVE  Decoded(<< >>)
  <1>1. << >> \in Seq(Digit) /\ << >> \o << >> = << >>
    OBVIOUS
  <1>2. DigitsIn(<< >>) = << >> /\ Decode(<< >>) = [bytes |-> << >>, ok |-> TRUE]
    BY DigitsInOne, DecodeShort
  <1>3. Whole(<< >>, DigitBlockLen)
    BY BlockLengths, WholeNone
  <1>4. Handed(<< >>, << >>)
    BY <1>1, <1>2 DEF Handed
  <1> QED
    BY <1>1, <1>3, <1>4 DEF Decoded

LEMMA DecodedMore ==
    ASSUME TypeOK, NEW b \in Seq(Char), NEW d \in Seq(Char), Decoded(b), ~Finished,
           buf' = buf \o DigitsIn(d), UNCHANGED <<out, outbuf>>
    PROVE  Decoded(b \o d)'
  <1>1. PICK done \in Seq(Digit) :
            Handed(b, done) /\ (Whole(done, DigitBlockLen) \/ Finished)
    BY DEF Decoded
  <1>2. buf \in Seq(Digit) /\ DigitsIn(d) \in Seq(Digit)
    BY DigitsInType DEF TypeOK, Digit, Digits
  <1>3. DigitsIn(b \o d) = DigitsIn(b) \o DigitsIn(d)
    BY DigitsInConcat
  <1>4. (done \o buf) \o DigitsIn(d) = done \o (buf \o DigitsIn(d))
    BY <1>2
  <1>5. DigitsIn(b \o d) = done \o buf'
    BY <1>1, <1>3, <1>4 DEF Handed
  <1>6. Handed(b \o d, done)'
    BY <1>1, <1>5 DEF Handed
  <1> QED
    BY <1>1, <1>6 DEF Decoded

\* A part of the digits in the buffer that may be decoded.
LEMMA DecodablePart ==
    ASSUME IInv, ReturnBytes, NEW part, part = First(buf, Decodable)
    PROVE  /\ buf \in Seq(Digit) /\ part \in Seq(Digit) /\ buf' \in Seq(Digit)
           /\ part # << >> /\ buf = part \o buf' /\ Len(buf') <= Len(buf)
           /\ \/ err = "nil" /\ Whole(part, DigitBlockLen)
              \/ err = "EOF" /\ buf' = << >> /\ part = buf
  <1> DEFINE n == DigitBlockLen
             k == (Len(buf) \div n) * n
  <1>1. n \in Nat \ {0}
    BY BlockLengths
  <1>2. buf \in Seq(Digit) /\ Len(buf) \in Nat
    BY DEF IInv, TypeOK, Digit, Digits
  <1>3. /\ pc = "read" /\ buf' = Without(buf, Decodable)
        /\ (err = "EOF" /\ buf # << >>) \/ (err = "nil" /\ ~Filling)
    BY DEF ReturnBytes
  <1>4. CASE err = "EOF" /\ buf # << >>
    <2>1. Decodable = Len(buf) /\ Min2(Len(buf), Len(buf)) = Len(buf)
      BY <1>4 DEF Decodable, Min2
    <2>2. /\ part \in Seq(Digit) /\ buf' \in Seq(Digit)
          /\ Len(buf') = Len(buf) - Len(buf) /\ buf = part \o buf'
      BY <1>2, <1>3, <2>1, FirstAndRest
    <2>3. buf' = << >>
      BY <1>2, <2>2
    <2>4. part = buf
      BY <2>2, <2>3
    <2> QED
      BY <1>2, <1>4, <2>2, <2>3, <2>4
  <1>5. CASE err = "nil" /\ ~Filling
    <2>1. Len(buf) >= n
      BY <1>1, <1>2, <1>3, <1>5 DEF Filling
    <2>2. /\ Len(buf) \div n \in Nat /\ Len(buf) % n \in 0 .. n - 1
          /\ Len(buf) = k + (Len(buf) % n)
      <3> HIDE DEF n
      <3> QED
        BY <1>1, <1>2, DivProperties
    <2>3. Len(buf) \div n # 0
      BY <1>1, <1>2, <2>1, <2>2
    <2>4. k \in Nat /\ k >= n
      BY <1>1, <2>2, <2>3
    <2>5. Decodable = k
      BY <1>5 DEF Decodable
    <2>6. \E q \in Nat : k = q * n
      BY <2>2
    <2> HIDE DEF k, n
    <2>7. k <= Len(buf) /\ Min2(k, Len(buf)) = k
      <3>1. Len(buf) % n \in Nat
        BY <1>1, <2>2
      <3>2. k <= Len(buf)
        BY <1>2, <2>2, <2>4, <3>1
      <3>3. k \in Nat /\ Len(buf) \in Nat
        BY <1>2, <2>4
      <3> QED
        BY <3>2, <3>3 DEF Min2
    <2>8. /\ part \in Seq(Digit) /\ buf' \in Seq(Digit) /\ Len(part) = k
          /\ Len(buf') = Len(buf) - k /\ buf = part \o buf'
      <3>1. part = First(buf, k) /\ buf' = Without(buf, k)
        BY <1>3, <2>5
      <3>2. First(buf, k) \in Seq(Digit) /\ Without(buf, k) \in Seq(Digit)
        BY <1>2, <2>4, FirstAndRest
      <3>3. Len(First(buf, k)) = k /\ Len(Without(buf, k)) = Len(buf) - k
        BY <1>2, <2>4, <2>7, FirstAndRest
      <3>4. buf = First(buf, k) \o Without(buf, k)
        BY <1>2, <2>4, FirstAndRest
      <3> QED
        BY <3>1, <3>2, <3>3, <3>4
    <2>9. part # << >> /\ Len(buf') <= Len(buf)
      BY <1>1, <1>2, <2>4, <2>8
    <2>10. Whole(part, DigitBlockLen)
      BY <2>6, <2>8 DEF Whole, n
    <2> QED
      BY <1>2, <1>5, <2>8, <2>9, <2>10
  <1> QED
    BY <1>3, <1>4, <1>5

LEMMA DecodedPart ==
    ASSUME IInv, ReturnBytes, NEW part, part = First(buf, Decodable),
           NEW b \in Seq(Char), Decoded(b)
    PROVE  \E done \in Seq(Digit) :
              /\ DigitsIn(b) = done \o buf' /\ Decode(done).ok = Decode(part).ok
              /\ out' \o outbuf' = Decode(done).bytes
              /\ Whole(done, DigitBlockLen) \/ (err = "EOF" /\ buf' = << >>)
  <1>1. /\ buf \in Seq(Digit) /\ part \in Seq(Digit) /\ buf' \in Seq(Digit)
        /\ part # << >> /\ buf = part \o buf'
        /\ \/ err = "nil" /\ Whole(part, DigitBlockLen)
           \/ err = "EOF" /\ buf' = << >>
    BY DecodablePart
  <1>2. PICK old \in Seq(Digit) :
            Handed(b, old) /\ (Whole(old, DigitBlockLen) \/ Finished)
    BY DEF Decoded
  <1>3. buf # << >>
    BY <1>1
  <1>4. Whole(old, DigitBlockLen)
    BY <1>2, <1>3 DEF Finished
  <1> DEFINE done == old \o part
             bytes == Decode(part).bytes
  <1>5. done \in Seq(Digit)
    BY <1>1
  <1>6. DigitsIn(b) = done \o buf'
    <2>1. old \o (part \o buf') = (old \o part) \o buf'
      <3>1. part \in Seq(Digit) /\ buf' \in Seq(Digit)
        BY <1>1
      <3> QED
        BY <3>1
    <2> QED
      BY <1>1, <1>2, <2>1 DEF Handed
  <1>7. /\ Decode(done).bytes = Decode(old).bytes \o bytes
        /\ Decode(done).ok = Decode(part).ok
    BY <1>1, <1>4, DecodeConcat
  <1>8. bytes \in Seq(Byte)
    BY <1>1, CodecType
  <1>9. out' \o outbuf' = Decode(done).bytes
    <2>1. /\ out' = out \o First(bytes, size) /\ outbuf' = Without(bytes, size)
          /\ pc = "read"
      BY DEF ReturnBytes
    <2>2. outbuf = << >> /\ out \in Seq(Byte) /\ size \in Nat
      BY <2>1 DEF IInv, Delivered, TypeOK, Byte, Digits
    <2>3. out = Decode(old).bytes
      BY <1>2, <2>2 DEF Handed
    <2> HIDE DEF bytes
    <2>6. size \in Nat
      BY <2>2
    <2>4. /\ First(bytes, size) \in Seq(Byte) /\ Without(bytes, size) \in Seq(Byte)
          /\ bytes = First(bytes, size) \o Without(bytes, size)
      BY <1>8, <2>6, FirstAndRest
    <2>5. (out \o First(bytes, size)) \o Without(bytes, size) = out \o bytes
      <3> DEFINE x == First(bytes, size)
                 y == Without(bytes, size)
      <3>1. x \in Seq(Byte) /\ y \in Seq(Byte) /\ bytes = x \o y
        BY <2>4
      <3> HIDE DEF x, y
      <3>2. (out \o x) \o y = out \o (x \o y)
        BY <2>2, <3>1
      <3> QED
        BY <3>1, <3>2 DEF x, y
    <2> QED
      BY <1>7, <2>1, <2>3, <2>5
  <1>10. Whole(done, DigitBlockLen) \/ (err = "EOF" /\ buf' = << >>)
    BY <1>1, <1>4, BlockLengths, WholeConcat
  <1> HIDE DEF done
  <1> QED
    BY <1>5, <1>6, <1>7, <1>9, <1>10

LEMMA SameText ==
    ASSUME TypeOK, Located, ~retried' => ~retried,
           err' \in {"nil", "EOF"} => err \in {"nil", "EOF"},
           UNCHANGED <<full, seg, state, frame, held>>,
           \A b \in Seq(Char) : Decoded(b) /\ ~retried' /\ err' \in {"nil", "EOF"}
                                    => Decoded(b)',
           ~retried' /\ err' \in {"nil", "EOF"} /\ state = "header"
                => UNCHANGED <<buf, out, outbuf>>
    PROVE  Located'
  <1> SUFFICES ASSUME ~retried', err' \in {"nil", "EOF"}
               PROVE  /\ state = "header" => InHeader'
                      /\ state = "body" => InBody'
                      /\ state = "footer" => InFooter'
                      /\ state = "end" => InTrailer'
    BY DEF Located
  <1>1. /\ state = "header" => InHeader
        /\ state = "body" => InBody
        /\ state = "footer" => InFooter
        /\ state = "end" => InTrailer
    BY DEF Located
  <1>2. Pending(seg)' = Pending(seg)
    BY DEF Pending
  <1>3. CASE state = "header"
    BY <1>1, <1>2, <1>3 DEF InHeader
  <1>4. CASE state = "body"
    <2>1. frame' = << >> /\ held' = << >>
      BY <1>1, <1>4 DEF InBody
    <2>2. PICK h \in Seq(Char), b \in Seq(Char) :
            /\ NoPunct(h) /\ HeaderOK(h) /\ NoPunct(b) /\ AllValid(b)
            /\ full = h \o (<<Punct>> \o (b \o Pending(seg)))
            /\ Decoded(b)
      BY <1>1, <1>4 DEF InBody
    <2>3. full' = h \o (<<Punct>> \o (b \o Pending(seg)')) /\ Decoded(b)'
      BY <1>2, <2>2
    <2>4. InBody'
      BY <2>1, <2>2, <2>3 DEF InBody
    <2> QED
      BY <1>4, <2>4
  <1>5. CASE state = "footer"
    <2>1. PICK h \in Seq(Char), b \in Seq(Char) :
            /\ NoPunct(h) /\ HeaderOK(h) /\ NoPunct(b \o held) /\ AllValid(b)
            /\ full = h \o (<<Punct>> \o ((b \o held)
                        \o (<<Punct>> \o (frame \o Pending(seg)))))
            /\ Decoded(b)
      BY <1>1, <1>5 DEF InFooter
    <2>2. /\ NoPunct(b \o held') /\ Decoded(b)'
          /\ full' = h \o (<<Punct>> \o ((b \o held')
                        \o (<<Punct>> \o (frame' \o Pending(seg)'))))
      BY <1>2, <2>1
    <2>3. NoPunct(frame')
      BY <1>1, <1>5 DEF InFooter
    <2>4. InFooter'
      BY <2>1, <2>2, <2>3 DEF InFooter
    <2> QED
      BY <1>5, <2>4
  <1>6. CASE state = "end"
    <2>1. PICK h \in Seq(Char), b \in Seq(Char), f \in Seq(Char), t \in Seq(Char) :
            /\ NoPunct(h) /\ HeaderOK(h) /\ NoPunct(b \o held) /\ AllValid(b)
            /\ NoPunct(f) /\ FooterOK(f)
            /\ full = h \o (<<Punct>> \o ((b \o held)
                        \o (<<Punct>> \o (f \o (<<Punct>> \o (t \o Pending(seg)))))))
            /\ Decoded(b)
      BY <1>1, <1>6 DEF InTrailer
    <2>2. /\ NoPunct(b \o held') /\ Decoded(b)'
          /\ full' = h \o (<<Punct>> \o ((b \o held')
                        \o (<<Punct>> \o (f \o (<<Punct>> \o (t \o Pending(seg)'))))))
      BY <1>2, <2>1
    <2>3. InTrailer'
      BY <2>1, <2>2 DEF InTrailer
    <2> QED
      BY <1>6, <2>3
  <1> QED
    BY <1>3, <1>4, <1>5, <1>6 DEF TypeOK

\* What the body has begun with, as far as the decoder has seen it.
LEMMA BodyBegins ==
    ASSUME TypeOK, Located, ~retried, err \in {"nil", "EOF"}, state # "header"
    PROVE  \E b, x \in Seq(Char) :
              /\ BodyOf(full) = b \o x /\ Decoded(b)
              /\ state = "end" => x = held
  <1>1. seg \in Segments /\ Pending(seg) \in Seq(Char) /\ held \in Seq(Char)
    BY PendingType DEF TypeOK
  <1>2. BeforePunct(Pending(seg)) \in Seq(Char)
    BY <1>1, CutHere
  <1>3. CASE state = "body"
    <2>1. PICK h \in Seq(Char), b \in Seq(Char) :
            /\ NoPunct(h) /\ NoPunct(b) /\ Decoded(b)
            /\ full = h \o (<<Punct>> \o (b \o Pending(seg)))
      BY <1>3 DEF Located, InBody
    <2>2. BodyOf(full) = b \o BeforePunct(Pending(seg))
      <3>1. full = OneSentence(h, b \o Pending(seg))
        BY <2>1 DEF OneSentence
      <3>2. NoPunct(h) /\ NoPunct(b)
        BY <2>1
      <3>3. BodyOf(OneSentence(h, b \o Pending(seg))) = b \o BeforePunct(Pending(seg))
        BY <1>1, <3>2, BodyParts
      <3> QED
        BY <3>1, <3>3
    <2> QED
      BY <1>2, <1>3, <2>1, <2>2
  <1>4. CASE state = "footer"
    <2>1. PICK h \in Seq(Char), b \in Seq(Char) :
            /\ NoPunct(h) /\ NoPunct(b \o held) /\ NoPunct(frame) /\ Decoded(b)
            /\ full = h \o (<<Punct>> \o ((b \o held)
                        \o (<<Punct>> \o (frame \o Pending(seg)))))
      BY <1>4 DEF Located, InFooter
    <2>2. b \o held \in Seq(Char) /\ frame \in Seq(Char)
      BY <1>1, ConcatProperties DEF TypeOK
    <2>3. BodyOf(full) = b \o held
      <3>1. full = TwoSentences(h, b \o held, frame \o Pending(seg))
        BY <2>1 DEF TwoSentences
      <3>2. NoPunct(h) /\ NoPunct(b \o held) /\ NoPunct(frame)
        BY <2>1
      <3>3. BodyOf(TwoSentences(h, b \o held, frame \o Pending(seg))) = b \o held
        <4> DEFINE c == b \o held
                   p == Pending(seg)
        <4>1. /\ p \in Seq(Char) /\ c \in Seq(Char) /\ frame \in Seq(Char)
              /\ NoPunct(c)
          BY <1>1, <2>2, <3>2
        <4> HIDE DEF c, p
        <4>2. frame \o p \in Seq(Char)
          BY <4>1
        <4>3. BodyOf(TwoSentences(h, c, frame \o p)) = c
          BY <3>2, <4>1, <4>2, FooterParts
        <4> QED
          BY <4>3 DEF c, p
      <3> QED
        BY <3>1, <3>3
    <2> QED
      BY <1>1, <1>4, <2>1, <2>3
  <1>5. CASE state = "end"
    <2>1. PICK h \in Seq(Char), b \in Seq(Char), f \in Seq(Char), t \in Seq(Char) :
            /\ NoPunct(h) /\ NoPunct(b \o held) /\ NoPunct(f) /\ Decoded(b)
            /\ full = h \o (<<Punct>> \o ((b \o held)
                        \o (<<Punct>> \o (f \o (<<Punct>> \o (t \o Pending(seg)))))))
      BY <1>5 DEF Located, InTrailer
    <2>2. b \o held \in Seq(Char)
      BY <1>1, ConcatProperties
    <2>3. <<Punct>> \o (t \o Pending(seg)) \in Seq(Char)
      BY <1>1, Chars, ConcatProperties
    <2>4. BodyOf(full) = b \o held
      <3>1. full = TwoSentences(h, b \o held,
                                f \o (<<Punct>> \o (t \o Pending(seg))))
        BY <2>1 DEF TwoSentences
      <3>2. NoPunct(h) /\ NoPunct(b \o held) /\ NoPunct(f)
        BY <2>1
      <3>3. BodyOf(TwoSentences(h, b \o held,
                                f \o (<<Punct>> \o (t \o Pending(seg))))) = b \o held
        <4> DEFINE c == b \o held
                   p == <<Punct>> \o (t \o Pending(seg))
        <4>1. p \in Seq(Char) /\ c \in Seq(Char) /\ NoPunct(c)
          BY <2>2, <2>3, <3>2
        <4> HIDE DEF c, p
        <4>2. f \o p \in Seq(Char)
          BY <4>1
        <4>3. BodyOf(TwoSentences(h, c, f \o p)) = c
          BY <3>2, <4>1, <4>2, FooterParts
        <4> QED
          BY <4>3 DEF c, p
      <3> QED
        BY <3>1, <3>3
    <2> QED
      BY <1>1, <1>5, <2>1, <2>4
  <1> QED
    BY <1>3, <1>4, <1>5 DEF TypeOK

LEMMA CallsKeep ==
    ASSUME IInv, GetHeaderCall \/ (\E n \in ReadSizes : ReadCall(n)) \/ ReturnError
    PROVE  IInv'
  <1>1. UNCHANGED <<full, source, hiccups, seg, state, frame, held, buf, err, retried>>
    BY DEF GetHeaderCall, ReadCall, ReturnError
  <1>2. \/ UNCHANGED <<out, outbuf>>
        \/ \E n \in Nat : /\ pc = "idle" /\ err = "nil" /\ UNCHANGED <<pc, verdict, size>>
                          /\ out' = out \o First(outbuf, n)
                          /\ outbuf' = Without(outbuf, n)
    BY ArmorReaderAssumption DEF GetHeaderCall, ReadCall, ReturnError
  <1>3. /\ out \in Seq(Byte) /\ outbuf \in Seq(Byte)
        /\ out' \in Seq(Byte) /\ outbuf' \in Seq(Byte)
        /\ out' \o outbuf' = out \o outbuf
    <2>1. out \in Seq(Byte) /\ outbuf \in Seq(Byte)
      BY DEF IInv, TypeOK, Byte, Digits
    <2>2. ASSUME NEW n \in Nat, out' = out \o First(outbuf, n), outbuf' = Without(outbuf, n)
          PROVE  /\ out' \in Seq(Byte) /\ outbuf' \in Seq(Byte)
                 /\ out' \o outbuf' = out \o outbuf
      <3> DEFINE x == First(outbuf, n)
                 y == Without(outbuf, n)
      <3>1. x \in Seq(Byte) /\ y \in Seq(Byte) /\ outbuf = x \o y
        BY <2>1, FirstAndRest
      <3>2. out' = out \o x /\ outbuf' = y
        BY <2>2
      <3> HIDE DEF x, y
      <3>3. (out \o x) \o y = out \o (x \o y)
        BY <2>1, <3>1
      <3> QED
        BY <2>1, <3>1, <3>2, <3>3, ConcatProperties
    <2> QED
      BY <1>2, <2>1, <2>2
  <1>4. TypeOK'
    <2>1. out' \in Seq(0 .. ByteBase - 1) /\ outbuf' \in Seq(0 .. ByteBase - 1)
      BY <1>3 DEF Byte, Digits
    <2>2. size' \in Nat
      BY ArmorReaderAssumption DEF GetHeaderCall, ReadCall, ReturnError, IInv, TypeOK
    <2>3. pc' \in {"idle", "getheader", "read"} /\ verdict' \in Error \union {"nil"}
      BY DEF GetHeaderCall, ReadCall, ReturnError, IInv, TypeOK
    <2> QED
      BY <1>1, <2>1, <2>2, <2>3 DEF IInv, TypeOK
  <1>5. Located'
    <2>1. Finished => Finished'
      BY <1>1 DEF Finished
    <2>2. \A b \in Seq(Char) : Decoded(b) => Decoded(b)'
      BY <1>1, <1>3, <2>1, DecodedSame
    <2>3. ~retried /\ err \in {"nil", "EOF"} /\ state = "header"
            => UNCHANGED <<buf, out, outbuf>>
      <3> SUFFICES ASSUME ~retried, err \in {"nil", "EOF"}, state = "header"
                   PROVE  UNCHANGED <<buf, out, outbuf>>
        OBVIOUS
      <3>1. out = << >> /\ outbuf = << >>
        BY DEF IInv, Located, InHeader
      <3>2. out' \o outbuf' = << >>
        BY <1>3, <3>1
      <3>3. out' = << >> /\ outbuf' = << >>
        BY <1>3, <3>2
      <3> QED
        BY <1>1, <3>1, <3>3
    <2> QED
      BY <1>1, <2>2, <2>3, SameText DEF IInv
  <1>6. BorrowedInCall'
    <2>1. CASE GetHeaderCall
      BY <1>1, <2>1 DEF GetHeaderCall, IInv, BorrowedInCall
    <2>2. CASE \E n \in ReadSizes : ReadCall(n)
      BY <1>1, <2>2 DEF ReadCall, IInv, BorrowedInCall, Emptied
    <2>3. CASE ReturnError
      BY <1>1, <2>3 DEF ReturnError, IInv, BorrowedInCall, Emptied
    <2> QED
      BY <2>1, <2>2, <2>3
  <1>7. Fits'
    BY <1>1 DEF IInv, Fits
  <1>8. Told'
    BY <1>1 DEF GetHeaderCall, ReadCall, ReturnError, IInv, Told
  <1>9. Delivered'
    <2>1. (pc = "read" => outbuf = << >>)'
      BY DEF GetHeaderCall, ReadCall, ReturnError, IInv, Delivered
    <2>2. (pc # "read" /\ err = "EOF" => buf = << >> /\ outbuf = << >>)'
      BY <1>1, <1>2 DEF GetHeaderCall, ReadCall, ReturnError, IInv, Delivered
    <2>3. (~retried => IsPrefix(out \o outbuf, Body))'
      BY <1>1, <1>3 DEF IInv, Delivered, Body
    <2> QED
      BY <2>1, <2>2, <2>3 DEF Delivered
  <1> QED
    BY <1>1, <1>4, <1>5, <1>6, <1>7, <1>8, <1>9
    DEF IInv, SegmentOK, NoPunct, EOFAtEnd, Emptied

LEMMA ReturnBytesKeeps ==
    ASSUME IInv, ReturnBytes
    PROVE  IInv'
  <1> DEFINE part == First(buf, Decodable)
             bytes == Decode(part).bytes
  <1>1. /\ UNCHANGED <<full, source, hiccups, seg, state, frame, held, size, retried>>
        /\ pc' = "idle" /\ pc = "read"
        /\ err' = IF Decode(part).ok THEN "nil" ELSE "InvalidLength"
        /\ out' = out \o First(bytes, size) /\ outbuf' = Without(bytes, size)
        /\ verdict' = IF ~Decode(part).ok THEN "InvalidLength"
                      ELSE IF First(bytes, size) = << >> /\ size # 0 THEN "EOF"
                      ELSE verdict
    BY DEF ReturnBytes
  <1>2. err = "EOF" \/ (err = "nil" /\ ~Filling)
    BY DEF ReturnBytes
  <1>3. /\ buf \in Seq(Digit) /\ part \in Seq(Digit) /\ buf' \in Seq(Digit)
        /\ part # << >> /\ buf = part \o buf' /\ Len(buf') <= Len(buf)
        /\ err = "EOF" => buf' = << >>
    BY DecodablePart
  <1>4. bytes \in Seq(Byte) /\ (Decode(part).ok => bytes # << >>)
    BY <1>3, CodecType, DecodeSome
  <1>5. \A b \in Seq(Char) : Decoded(b) =>
            \E done \in Seq(Digit) :
              /\ DigitsIn(b) = done \o buf' /\ Decode(done).ok = Decode(part).ok
              /\ out' \o outbuf' = Decode(done).bytes
              /\ Whole(done, DigitBlockLen) \/ (err = "EOF" /\ buf' = << >>)
    BY DecodedPart
  <1> HIDE DEF part, bytes
  <1>6. /\ First(bytes, size) \in Seq(Byte) /\ Without(bytes, size) \in Seq(Byte)
        /\ bytes # << >> /\ size # 0 => First(bytes, size) # << >>
    <2>1. size \in Nat /\ Len(bytes) \in Nat
      BY <1>4, LenProperties DEF IInv, TypeOK
    <2>2. /\ First(bytes, size) \in Seq(Byte) /\ Without(bytes, size) \in Seq(Byte)
          /\ Len(First(bytes, size)) = Min2(size, Len(bytes))
      BY <1>4, <2>1, FirstAndRest
    <2>3. bytes # << >> => Len(bytes) # 0
      BY <1>4, EmptySeq
    <2>4. bytes # << >> /\ size # 0 => Min2(size, Len(bytes)) # 0
      BY <2>1, <2>3 DEF Min2
    <2>5. Len(<< >>) = 0
      OBVIOUS
    <2> QED
      BY <2>2, <2>4, <2>5
  <1>7. Told'
    <2>1. verdict = "nil"
      BY <1>1 DEF IInv, Told
    <2>2. verdict' = err'
      BY <1>1, <1>4, <1>6, <2>1
    <2> QED
      BY <1>1, <2>2 DEF Told
  <1>8. TypeOK'
    <2>1. out' \in Seq(0 .. ByteBase - 1) /\ outbuf' \in Seq(0 .. ByteBase - 1)
      <3>1. out \in Seq(Byte) /\ Byte = 0 .. ByteBase - 1
        BY DEF IInv, TypeOK, Byte, Digits
      <3>2. out' \in Seq(Byte)
        BY <1>1, <1>6, <3>1, ConcatProperties
      <3> QED
        BY <1>1, <1>6, <3>1, <3>2
    <2>2. buf' \in Seq(0 .. Base - 1)
      BY <1>3 DEF Digit, Digits
    <2>3. Len(buf') <= BufLen
      <3>1. Len(buf) <= BufLen /\ Len(buf) \in Nat /\ Len(buf') \in Nat /\ BufLen \in Nat
        BY <1>3, LenProperties, ArmorReaderAssumption DEF IInv, TypeOK
      <3> QED
        BY <1>3, <3>1
    <2>4. err' \in Error \union {"nil"} /\ verdict' = err' /\ pc' = "idle"
      BY <1>1, <1>7 DEF Error, Told
    <2> QED
      BY <1>1, <2>1, <2>2, <2>3, <2>4 DEF IInv, TypeOK
  <1>9. EOFAtEnd'
    BY <1>1 DEF EOFAtEnd
  <1>10. ~retried' /\ err' \in {"nil", "EOF"} => Decode(part).ok
    BY <1>1
  <1>11. ASSUME NEW b \in Seq(Char), Decoded(b), Decode(part).ok
         PROVE  Decoded(b)'
    <2>1. PICK done \in Seq(Digit) :
              /\ DigitsIn(b) = done \o buf' /\ Decode(done).ok = Decode(part).ok
              /\ out' \o outbuf' = Decode(done).bytes
              /\ Whole(done, DigitBlockLen) \/ (err = "EOF" /\ buf' = << >>)
      BY <1>5, <1>11
    <2>2. Handed(b, done)'
      BY <1>11, <2>1 DEF Handed
    <2>3. err = "EOF" /\ buf' = << >> => Finished'
      BY <1>1 DEF IInv, EOFAtEnd, Finished
    <2> QED
      BY <2>1, <2>2, <2>3 DEF Decoded
  <1>12. Located'
    <2>1. ~retried /\ err \in {"nil", "EOF"} /\ state = "header" => FALSE
      <3> SUFFICES ASSUME ~retried, err \in {"nil", "EOF"}, state = "header"
                   PROVE  FALSE
        OBVIOUS
      <3>1. buf = << >>
        BY DEF IInv, Located, InHeader
      <3>2. buf # << >>
        BY <1>3
      <3> QED
        BY <3>1, <3>2
    <2>2. \A b \in Seq(Char) : Decoded(b) /\ ~retried' /\ err' \in {"nil", "EOF"}
                                    => Decoded(b)'
      BY <1>10, <1>11
    <2>3. ~retried' => ~retried
      BY <1>1
    <2>4. err \in {"nil", "EOF"}
      BY <1>2
    <2> QED
      BY <1>1, <2>1, <2>2, <2>3, <2>4, SameText DEF IInv
  <1>13. BorrowedInCall'
    <2>1. seg.borrowed => Emptied(seg)
      BY <1>1, <1>2 DEF IInv, EOFAtEnd, BorrowedInCall, Filling
    <2> QED
      BY <1>1, <2>1 DEF IInv, BorrowedInCall, Emptied
  <1>14. Fits'
    <2>1. /\ Len(buf) + Len(held) <= BufLen /\ held' = held /\ held \in Seq(Char)
          /\ BufLen \in Nat
      BY <1>1, ArmorReaderAssumption DEF IInv, Fits, TypeOK
    <2>2. Len(buf) \in Nat /\ Len(buf') \in Nat /\ Len(held) \in Nat
      BY <1>3, <2>1, LenProperties
    <2> QED
      BY <1>1, <1>3, <2>1, <2>2 DEF IInv, Fits
  <1>15. Delivered'
    <2>1. err' # "EOF" /\ pc' # "read"
      BY <1>1
    <2>2. ASSUME ~retried' PROVE IsPrefix(out' \o outbuf', Body')
      <3>1. ~retried /\ err \in {"nil", "EOF"} /\ Body' = Body
        BY <1>1, <1>2, <2>2 DEF Body
      <3>2. state # "header"
        <4> SUFFICES ASSUME state = "header" PROVE FALSE
          OBVIOUS
        <4>1. buf = << >>
          BY <3>1 DEF IInv, Located, InHeader
        <4>2. buf # << >>
          BY <1>3
        <4> QED
          BY <4>1, <4>2
      <3>3. PICK b \in Seq(Char), x \in Seq(Char) :
              /\ BodyOf(full) = b \o x /\ Decoded(b)
              /\ state = "end" => x = held
        BY <3>1, <3>2, BodyBegins DEF IInv
      <3>4. PICK done \in Seq(Digit) :
              /\ DigitsIn(b) = done \o buf'
              /\ out' \o outbuf' = Decode(done).bytes
              /\ Whole(done, DigitBlockLen) \/ (err = "EOF" /\ buf' = << >>)
        BY <1>5, <3>3
      <3> DEFINE y == buf' \o DigitsIn(x)
      <3>5. DigitsIn(x) \in Seq(Digit) /\ y \in Seq(Digit)
        BY <1>3, DigitsInType, ConcatProperties
      <3>6. DigitsIn(BodyOf(full)) = done \o y
        <4>1. DigitsIn(b \o x) = DigitsIn(b) \o DigitsIn(x)
          BY DigitsInConcat
        <4>2. (done \o buf') \o DigitsIn(x) = done \o (buf' \o DigitsIn(x))
          <5>1. buf' \in Seq(Digit) /\ DigitsIn(x) \in Seq(Digit)
            BY <1>3, <3>5
          <5> QED
            BY <5>1
        <4> QED
          BY <3>3, <3>4, <4>1, <4>2
      <3>7. CASE Whole(done, DigitBlockLen)
        <4> HIDE DEF y
        <4>3. Decode(done \o y).bytes = Decode(done).bytes \o Decode(y).bytes
          BY <3>5, <3>7, DecodeConcat
        <4>1. Body = Decode(done).bytes \o Decode(y).bytes
          BY <3>6, <4>3 DEF Body
        <4>2. Decode(done).bytes \in Seq(Byte) /\ Decode(y).bytes \in Seq(Byte)
          BY <3>5, CodecType
        <4> QED
          BY <3>1, <3>4, <4>1, <4>2, PrefixOfConcat
      <3>8. CASE err = "EOF" /\ buf' = << >>
        <4>1. x = << >>
          BY <3>3, <3>8 DEF IInv, EOFAtEnd
        <4>2. y = << >>
          BY <3>8, <4>1, DigitsInOne
        <4>3. Body = Decode(done).bytes
          BY <3>6, <4>2, ConcatEmptySeq DEF Body
        <4>4. \A s \in Seq(Byte) : IsPrefix(s, s)
          BY DEF IsPrefix
        <4> QED
          BY <3>1, <3>4, <4>3, <4>4, CodecType
      <3> QED
        BY <3>4, <3>7, <3>8
    <2> QED
      BY <2>1, <2>2 DEF Delivered
  <1>16. SegmentOK(seg)'
    BY <1>1 DEF IInv, SegmentOK, NoPunct
  <1> QED
    BY <1>7, <1>8, <1>9, <1>12, <1>13, <1>14, <1>15, <1>16 DEF IInv

LEMMA TakeKeeps ==
    ASSUME IInv, NEW n, NEW own, NEW r, GoodResult(r, n, own), Take(r)
    PROVE  /\ full' = full /\ source' = source /\ seg' = r.seg /\ seg' \in Segments
           /\ hiccups' \in 0 .. MaxHiccups /\ SegmentOK(seg)'
           /\ Pending(seg)' = Pending(r.seg) /\ Body' = Body
  <1>1. full' = full /\ source' = source /\ seg' = r.seg
    BY DEF Take
  <1>2. r.seg \in Segments /\ SegmentOK(r.seg)
    BY DEF GoodResult
  <1>3. hiccups' = hiccups \/ (hiccups' = hiccups + 1 /\ NoData(r))
    BY DEF Take, NoData
  <1>4. hiccups \in 0 .. MaxHiccups /\ MaxHiccups \in Nat
    BY ArmorReaderAssumption DEF IInv, TypeOK
  <1>5. NoData(r) => hiccups < MaxHiccups
    BY DEF GoodResult
  <1>6. hiccups' \in 0 .. MaxHiccups
    BY <1>3, <1>4, <1>5
  <1>7. Pending(seg)' = Pending(r.seg) /\ Body' = Body /\ SegmentOK(seg)'
    BY <1>1, <1>2 DEF Pending, Body, SegmentOK, NoPunct
  <1> QED
    BY <1>1, <1>2, <1>6, <1>7

\* Steps in which nothing is decoded or returned.
LEMMA DeliveredSame ==
    ASSUME IInv, ~retried' => ~retried, Body' = Body, UNCHANGED <<out, outbuf>>,
           pc' = "read" => pc = "read",
           pc' # "read" /\ err' = "EOF" => pc # "read" /\ err = "EOF" /\ UNCHANGED buf
    PROVE  Delivered'
  <1>1. (pc = "read" => outbuf = << >>)'
    BY DEF IInv, Delivered
  <1>2. (pc # "read" /\ err = "EOF" => buf = << >> /\ outbuf = << >>)'
    BY DEF IInv, Delivered
  <1>3. (~retried => IsPrefix(out \o outbuf, Body))'
    BY DEF IInv, Delivered
  <1> QED
    BY <1>1, <1>2, <1>3 DEF Delivered

LEMMA ScanHeaderKeeps ==
    ASSUME IInv, NEW n, NEW r, GoodResult(r, n, TRUE), ScanHeader(r)
    PROVE  IInv'
  <1>0. /\ full' = full /\ source' = source /\ seg' = r.seg /\ seg' \in Segments
        /\ hiccups' \in 0 .. MaxHiccups /\ SegmentOK(seg)'
        /\ Pending(seg)' = Pending(r.seg) /\ Body' = Body
    BY TakeKeeps DEF ScanHeader
  <1>1. /\ state = "header" /\ seg' = r.seg /\ full' = full
        /\ UNCHANGED <<held, buf, outbuf, size, out, verdict>>
        /\ frame' = IF Scanned(r) = "more" THEN frame \o r.data ELSE << >>
    BY DEF ScanHeader, Take, Scan
  <1>2. /\ Scanned(r) = "more" => r.err = "nil"
        /\ Scanned(r) = "found" <=> r.err = "Punctuated"
        /\ Scanned(r) # "more" => FrameError(r) \in Error \ {"EOF"}
    BY ScannedWhat
  <1>3. \/ /\ Scanned(r) = "more"
           /\ UNCHANGED <<state, err, retried>>
        \/ /\ Scanned(r) = "found" /\ HeaderOK(frame \o r.data)
           /\ state' = "body" /\ UNCHANGED <<err, retried>>
        \/ /\ Scanned(r) # "more" /\ state' = state
           /\ \/ retried' = TRUE /\ err' = err
              \/ err' = FrameError(r) /\ retried' = retried
    BY DEF ScanHeader
  <1>4. /\ ~seg.borrowed /\ err # "EOF"
        /\ r.seg.borrowed = FALSE
    BY <1>1 DEF IInv, BorrowedInCall, EOFAtEnd, GoodResult, Segments
  <1>5. frame' \in Seq(Char)
    BY <1>1, ConcatProperties, EmptySeq DEF GoodResult, IInv, TypeOK
  <1>6. TypeOK'
    <2>1. pc' \in {"idle", "getheader", "read"}
      BY DEF ScanHeader, IInv, TypeOK
    <2>2. err' \in Error \union {"nil"} /\ state' \in {"header", "body", "footer", "end"}
      BY <1>1, <1>2, <1>3 DEF IInv, TypeOK
    <2>3. retried' \in BOOLEAN
      BY <1>3 DEF IInv, TypeOK
    <2> QED
      BY <1>0, <1>1, <1>5, <2>1, <2>2, <2>3 DEF IInv, TypeOK
  <1>7. ASSUME ~retried', err' \in {"nil", "EOF"}
        PROVE  /\ state' = "header" => InHeader'
               /\ state' = "body" => InBody'
               /\ state' \in {"header", "body"}
    <2>1. err' = err /\ retried' = retried
      BY <1>2, <1>3, <1>7 DEF Error
    <2>4. ~retried /\ err = "nil" /\ InHeader
      BY <1>1, <1>4, <1>7, <2>1 DEF IInv, Located
    <2>2. CASE Scanned(r) = "more"
      <3>1. /\ NoPunct(frame \o r.data)
            /\ frame \o Pending(seg) = (frame \o r.data) \o Pending(r.seg)
        BY <1>2, <2>4, <2>2, GatheredMore DEF IInv, TypeOK, InHeader
      <3>2. state' = "header" /\ frame' = frame \o r.data
        BY <1>1, <1>3, <2>2
      <3>3. InHeader'
        BY <1>0, <1>1, <2>4, <3>1, <3>2 DEF InHeader
      <3> QED
        BY <3>2, <3>3
    <2>3. CASE Scanned(r) # "more"
      <3>1. /\ state' = "body" /\ frame' = << >> /\ Scanned(r) = "found"
            /\ HeaderOK(frame \o r.data)
        <4>1. ~(Scanned(r) # "more" /\ (retried' = TRUE \/ err' = FrameError(r)))
          BY <1>2, <1>7, <2>3 DEF Error
        <4> QED
          BY <1>1, <1>3, <2>3, <4>1
      <3> DEFINE h == frame \o r.data
                 p == Pending(r.seg)
      <3>2. /\ h \in Seq(Char) /\ NoPunct(h)
            /\ full = h \o (<<Punct>> \o p)
        BY <1>2, <2>4, <3>1, GatheredAll DEF IInv, TypeOK, InHeader
      <3>3. << >> \o p = p /\ << >> \in Seq(Char)
        BY PendingType, ConcatEmptySeq DEF GoodResult
      <3>4. NoPunct(<< >>) /\ AllValid(<< >>)
        BY DEF NoPunct, AllValid
      <3>5. Pending(seg)' = p
        BY <1>0
      <3>6. held = << >>
        BY <2>4 DEF InHeader
      <3>7. Decoded(<< >>)'
        <4>1. Decoded(<< >>) /\ (Finished => Finished')
          BY <1>1, <2>4, DecodedNone DEF InHeader, Finished
        <4> QED
          BY <1>1, <3>3, <4>1, DecodedSame
      <3>8. HeaderOK(h)
        BY <3>1
      <3> HIDE DEF h, p
      <3>9. full' = h \o (<<Punct>> \o (<< >> \o Pending(seg)'))
        BY <1>1, <3>2, <3>3, <3>5
      <3>10. InBody'
        BY <1>1, <3>1, <3>2, <3>3, <3>4, <3>6, <3>7, <3>8, <3>9 DEF InBody
      <3> QED
        BY <3>1, <3>10
    <2> QED
      BY <2>2, <2>3
  <1>8. Located'
    BY <1>7 DEF Located
  <1>9. EOFAtEnd' /\ BorrowedInCall'
    BY <1>1, <1>2, <1>3, <1>4 DEF EOFAtEnd, BorrowedInCall
  <1>10. Fits'
    BY <1>1 DEF IInv, Fits
  <1>11. Told' /\ (pc' = "read" => pc = "read")
         /\ (pc' # "read" /\ err' # "nil" => pc # "read" /\ err' = err)
    <2>1. CASE pc = "read"
      BY <1>1, <2>1 DEF ScanHeader, IInv, Told
    <2>2. CASE pc # "read"
      BY <1>1, <2>2 DEF ScanHeader, Filling, IInv, Told
    <2> QED
      BY <2>1, <2>2
  <1>12. ~retried' => ~retried
    BY <1>3
  <1>13. Delivered'
    BY <1>0, <1>1, <1>11, <1>12, DeliveredSame
  <1> QED
    BY <1>0, <1>6, <1>8, <1>9, <1>10, <1>11, <1>13 DEF IInv

LEMMA ReadBodyKeeps ==
    ASSUME IInv, NEW n \in Nat, n = Wanted, NEW r, GoodResult(r, n, FALSE),
           ReadBody(r)
    PROVE  IInv'
  <1>0. /\ full' = full /\ source' = source /\ seg' = r.seg /\ seg' \in Segments
        /\ hiccups' \in 0 .. MaxHiccups /\ SegmentOK(seg)'
        /\ Pending(seg)' = Pending(r.seg) /\ Body' = Body
    BY TakeKeeps DEF ReadBody
  <1>1. /\ pc = "read" /\ Len(buf) < DigitBlockLen /\ err = "nil"
        /\ state = "body" /\ seg' = r.seg
        /\ UNCHANGED <<full, frame, pc, retried, outbuf, size, out, verdict>>
    BY DEF ReadBody, Filling, Take
  <1>2. \/ /\ r.err = "Punctuated" /\ state' = "footer" /\ held' = r.data
           /\ UNCHANGED <<buf, err>>
        \/ /\ r.err = "nil" /\ UNCHANGED <<state, held>>
           /\ \/ /\ err' = "nil" /\ AllValid(r.data)
                 /\ \/ DigitsIn(r.data) = << >> /\ UNCHANGED buf
                    \/ buf' = buf \o DigitsIn(r.data)
              \/ err' = "Corrupt" /\ UNCHANGED buf
        \/ /\ r.err \in {"EOF", "Source"} /\ UNCHANGED <<state, held, buf>>
           /\ err' \in {"UnexpectedEOF", "Source"}
    BY DEF ReadBody, GoodResult, Filtered, BodyError
  <1>3. r.data \in Seq(Char) /\ r.seg \in Segments /\ SegmentOK(r.seg)
    BY DEF GoodResult
  <1>4. /\ buf \in Seq(Digit) /\ DigitsIn(r.data) \in Seq(Digit)
        /\ Len(buf) \in Nat /\ Len(r.data) \in Nat
        /\ Len(DigitsIn(r.data)) \in Nat /\ Len(DigitsIn(r.data)) <= Len(r.data)
    BY <1>3, LenProperties, DigitsInType, DigitsInLength DEF IInv, TypeOK, Digit, Digits
  <1>5. buf' = buf \/ buf' = buf \o DigitsIn(r.data)
    BY <1>2
  <1>10. Len(buf) + Len(r.data) <= BufLen
    <2>1. n + Len(buf) <= BufLen
      <3> DEFINE most == Max2((size \div BlockLen) * DigitBlockLen, DigitBlockLen)
      <3>1. size \in Nat /\ BlockLen \in Nat \ {0} /\ DigitBlockLen \in Nat
        BY Bases, BlockLengths DEF IInv, TypeOK
      <3>2. size \div BlockLen \in Nat
        BY <3>1, DivProperties
      <3>3. most \in Nat
        BY <3>1, <3>2 DEF Max2
      <3>4. n = Min2(most, BufLen) - Len(buf)
        BY DEF Wanted
      <3> HIDE DEF most
      <3>5. Min2(most, BufLen) \in Nat /\ Min2(most, BufLen) <= BufLen /\ BufLen \in Nat
        BY <3>3, ArmorReaderAssumption DEF Min2
      <3> QED
        BY <1>4, <3>4, <3>5
    <2>2. Len(r.data) <= n
      BY DEF GoodResult
    <2> QED
      BY <1>4, <2>1, <2>2, ArmorReaderAssumption
  <1>11. buf' \in Seq(Digit) /\ Len(buf') \in Nat /\ Len(buf') + Len(held') <= BufLen
    <2>1. held = << >> /\ Len(held) = 0
      BY <1>1 DEF IInv, Fits
    <2>2. CASE r.err = "Punctuated"
      BY <1>2, <1>4, <1>10, <2>2
    <2>3. CASE r.err # "Punctuated"
      <3>1. held' = << >> /\ Len(held') = 0
        BY <1>2, <2>1, <2>3
      <3>2. CASE buf' = buf
        BY <1>4, <1>10, <3>1, <3>2, ArmorReaderAssumption
      <3>3. CASE buf' = buf \o DigitsIn(r.data)
        <4>1. /\ buf' \in Seq(Digit)
              /\ Len(buf') = Len(buf) + Len(DigitsIn(r.data))
          BY <1>4, <3>3, ConcatProperties
        <4> QED
          BY <1>4, <1>10, <3>1, <4>1, ArmorReaderAssumption
      <3> QED
        BY <1>5, <3>2, <3>3
    <2> QED
      BY <2>2, <2>3
  <1>6. EOFAtEnd'
    BY <1>1, <1>2 DEF EOFAtEnd
  <1>7. BorrowedInCall'
    <2>1. seg.borrowed = FALSE
      BY <1>1 DEF IInv, TypeOK, BorrowedInCall, Segments
    <2>2. r.seg.borrowed => r.err = "Punctuated"
      BY <2>1 DEF GoodResult
    <2> QED
      BY <1>1, <1>2, <2>2 DEF BorrowedInCall
  <1>8. ASSUME ~retried', err' \in {"nil", "EOF"}
        PROVE  \/ state' = "body" /\ InBody'
               \/ state' = "footer" /\ InFooter'
    <2>1. InBody
      BY <1>1, <1>8 DEF IInv, Located
    <2>2. PICK h \in Seq(Char), b \in Seq(Char) :
            /\ NoPunct(h) /\ HeaderOK(h) /\ NoPunct(b) /\ AllValid(b)
            /\ full = h \o (<<Punct>> \o (b \o Pending(seg)))
            /\ Decoded(b)
      BY <2>1 DEF InBody
    <2>3. /\ frame = << >> /\ held = << >> /\ seg \in Segments
          /\ Pending(seg)' = Pending(r.seg)
      BY <1>0, <2>1 DEF InBody, IInv, TypeOK
    <2>4. CASE r.err = "nil"
      <3>1. /\ state' = "body" /\ held' = << >> /\ frame' = << >>
            /\ AllValid(r.data)
            /\ \/ DigitsIn(r.data) = << >> /\ UNCHANGED buf
               \/ buf' = buf \o DigitsIn(r.data)
        BY <1>1, <1>2, <1>8, <2>3, <2>4
      <3> DEFINE c == b \o r.data
      <3>2. /\ c \in Seq(Char) /\ NoPunct(c)
            /\ b \o Pending(seg) = c \o Pending(r.seg)
        BY <2>2, <2>3, <2>4, GatheredMore
      <3>3. AllValid(c)
        BY <1>3, <2>2, <3>1, AllValidConcat
      <3>6. Decoded(c)'
        <4>1. buf' = buf \o DigitsIn(r.data)
          BY <1>4, <3>1, ConcatEmptySeq
        <4>2. ~Finished
          BY <1>1 DEF Finished
        <4> QED
          BY <1>1, <1>3, <2>2, <4>1, <4>2, DecodedMore DEF IInv
      <3> HIDE DEF c
      <3>4. full' = h \o (<<Punct>> \o (c \o Pending(seg)'))
        BY <1>1, <2>2, <2>3, <3>2
      <3>5. InBody'
        BY <2>2, <3>1, <3>2, <3>3, <3>4, <3>6 DEF InBody
      <3> QED
        BY <3>1, <3>5
    <2>5. CASE r.err = "Punctuated"
      <3>1. state' = "footer" /\ held' = r.data /\ frame' = << >> /\ buf' = buf
        BY <1>1, <1>2, <2>3, <2>5
      <3>2. /\ NoPunct(b \o r.data)
            /\ b \o Pending(seg) = (b \o r.data) \o (<<Punct>> \o Pending(r.seg))
        BY <2>2, <2>3, <2>5, GatheredAll
      <3>3. << >> \o Pending(r.seg) = Pending(r.seg) /\ NoPunct(<< >>)
        BY <1>3, PendingType, ConcatEmptySeq DEF NoPunct
      <3>4. full' = h \o (<<Punct>> \o ((b \o held')
                        \o (<<Punct>> \o (frame' \o Pending(seg)'))))
        BY <1>1, <2>2, <2>3, <3>1, <3>2, <3>3
      <3>6. Decoded(b)'
        <4>1. ~Finished
          BY <1>1 DEF Finished
        <4> QED
          BY <1>1, <2>2, <3>1, <4>1, DecodedSame
      <3>5. InFooter'
        BY <2>2, <3>1, <3>2, <3>3, <3>4, <3>6 DEF InFooter
      <3> QED
        BY <3>1, <3>5
    <2> QED
      BY <1>2, <1>8, <2>4, <2>5
  <1>9. Located'
    BY <1>8 DEF Located
  <1>12. TypeOK'
    <2>1. err' \in Error \union {"nil"} /\ state' \in {"header", "body", "footer", "end"}
      BY <1>1, <1>2 DEF Error
    <2>2. held' \in Seq(Char)
      BY <1>2, <1>3 DEF IInv, TypeOK
    <2>3. buf' \in Seq(0 .. Base - 1)
      BY <1>11 DEF Digit, Digits
    <2>4. Len(buf') <= BufLen
      BY <1>11, <2>2, LenProperties, ArmorReaderAssumption
    <2> QED
      BY <1>0, <1>1, <2>1, <2>2, <2>3, <2>4 DEF IInv, TypeOK
  <1>13. Fits'
    BY <1>1, <1>2, <1>11 DEF IInv, Fits
  <1>14. Told'
    BY <1>1 DEF IInv, Told
  <1>15. Delivered'
    BY <1>0, <1>1, DeliveredSame
  <1> QED
    BY <1>0, <1>6, <1>7, <1>9, <1>12, <1>13, <1>14, <1>15 DEF IInv

LEMMA ScanFooterKeeps ==
    ASSUME IInv, NEW n, NEW r, GoodResult(r, n, TRUE), ScanFooter(r)
    PROVE  IInv'
  <1>0. /\ full' = full /\ source' = source /\ seg' = r.seg /\ seg' \in Segments
        /\ hiccups' \in 0 .. MaxHiccups /\ SegmentOK(seg)'
        /\ Pending(seg)' = Pending(r.seg) /\ Body' = Body
    BY TakeKeeps DEF ScanFooter
  <1>1. /\ pc = "read" /\ Len(buf) < DigitBlockLen /\ err = "nil"
        /\ state = "footer" /\ seg' = r.seg
        /\ UNCHANGED <<full, buf, pc, retried, outbuf, size, out, verdict>>
        /\ frame' = IF Scanned(r) = "more" THEN frame \o r.data ELSE << >>
    BY DEF ScanFooter, Filling, Take, Scan
  <1>2. \/ Scanned(r) = "more" /\ UNCHANGED <<state, held, err>>
        \/ /\ Scanned(r) = "found" /\ FooterOK(frame \o r.data)
           /\ state' = "end" /\ UNCHANGED <<held, err>>
        \/ /\ Scanned(r) # "more" /\ err' = FrameError(r)
           /\ held' = << >> /\ UNCHANGED state
    BY DEF ScanFooter
  <1>3. /\ Scanned(r) = "more" => r.err = "nil"
        /\ Scanned(r) = "found" <=> r.err = "Punctuated"
        /\ Scanned(r) # "more" => FrameError(r) \in Error \ {"EOF"}
    BY ScannedWhat
  <1>4. r.data \in Seq(Char) /\ r.seg \in Segments /\ SegmentOK(r.seg)
    BY DEF GoodResult
  <1>5. frame' \in Seq(Char) /\ held' \in Seq(Char)
    BY <1>1, <1>2, <1>4, ConcatProperties, EmptySeq DEF IInv, TypeOK
  <1>6. TypeOK'
    <2>1. err' \in Error \union {"nil"} /\ state' \in {"header", "body", "footer", "end"}
      BY <1>1, <1>2, <1>3 DEF Error
    <2> QED
      BY <1>0, <1>1, <1>5, <2>1 DEF IInv, TypeOK
  <1>7. Fits'
    <2>1. held' = held \/ Len(held') = 0
      BY <1>2
    <2>2. Len(buf) \in Nat /\ Len(held) \in Nat /\ BufLen \in Nat
      BY LenProperties, ArmorReaderAssumption DEF IInv, TypeOK
    <2>3. Len(buf') + Len(held') <= BufLen
      BY <1>1, <2>1, <2>2 DEF IInv, Fits
    <2> QED
      BY <1>1, <1>2, <2>3 DEF IInv, Fits
  <1>8. EOFAtEnd'
    BY <1>1, <1>2, <1>3 DEF EOFAtEnd
  <1>9. BorrowedInCall'
    BY <1>1, <1>2, <1>3 DEF BorrowedInCall, Error
  <1>10. ASSUME ~retried', err' \in {"nil", "EOF"}
         PROVE  \/ state' = "footer" /\ InFooter'
                \/ state' = "end" /\ InTrailer'
    <2>1. InFooter
      BY <1>1, <1>10 DEF IInv, Located
    <2>2. PICK h \in Seq(Char), b \in Seq(Char) :
            /\ NoPunct(h) /\ HeaderOK(h) /\ NoPunct(b \o held) /\ AllValid(b)
            /\ full = h \o (<<Punct>> \o ((b \o held)
                        \o (<<Punct>> \o (frame \o Pending(seg)))))
            /\ Decoded(b)
      BY <2>1 DEF InFooter
    <2>6. Decoded(b)'
      <3>1. ~Finished
        BY <1>1 DEF Finished
      <3> QED
        BY <1>1, <2>2, <3>1, DecodedSame
    <2>3. /\ NoPunct(frame) /\ frame \in Seq(Char) /\ seg \in Segments
          /\ Pending(seg)' = Pending(r.seg)
      BY <1>0, <2>1 DEF InFooter, IInv, TypeOK
    <2>4. CASE Scanned(r) = "more"
      <3>1. /\ state' = "footer" /\ held' = held /\ frame' = frame \o r.data
            /\ r.err = "nil"
        BY <1>1, <1>2, <1>3, <2>4
      <3>2. /\ NoPunct(frame')
            /\ frame \o Pending(seg) = frame' \o Pending(r.seg)
        BY <2>3, <3>1, GatheredMore
      <3>3. full' = h \o (<<Punct>> \o ((b \o held')
                        \o (<<Punct>> \o (frame' \o Pending(seg)'))))
        BY <1>1, <2>2, <2>3, <3>1, <3>2
      <3>4. InFooter'
        BY <2>2, <2>6, <3>1, <3>2, <3>3 DEF InFooter
      <3> QED
        BY <3>1, <3>4
    <2>5. CASE Scanned(r) # "more"
      <3>1. err' # FrameError(r)
        BY <1>3, <1>10, <2>5 DEF Error
      <3>2. /\ state' = "end" /\ held' = held /\ FooterOK(frame \o r.data)
            /\ r.err = "Punctuated"
        BY <1>2, <1>3, <2>5, <3>1
      <3> DEFINE f == frame \o r.data
                 p == Pending(r.seg)
      <3>3. /\ f \in Seq(Char) /\ NoPunct(f)
            /\ frame \o Pending(seg) = f \o (<<Punct>> \o p)
        BY <2>3, <3>2, GatheredAll
      <3>4. << >> \in Seq(Char) /\ p = << >> \o p /\ FooterOK(f)
        BY <1>4, <3>2, PendingType, ConcatEmptySeq
      <3>7. p = Pending(seg)'
        BY <1>0
      <3> HIDE DEF f, p
      <3>5. full' = h \o (<<Punct>> \o ((b \o held')
                        \o (<<Punct>> \o (f \o (<<Punct>> \o (<< >> \o Pending(seg)'))))))
        BY <1>1, <2>2, <3>2, <3>3, <3>4, <3>7
      <3>6. InTrailer'
        BY <2>2, <2>6, <3>2, <3>3, <3>4, <3>5 DEF InTrailer
      <3> QED
        BY <3>2, <3>6
    <2> QED
      BY <2>4, <2>5
  <1>11. Located'
    BY <1>10 DEF Located
  <1>12. Told'
    BY <1>1 DEF IInv, Told
  <1>13. Delivered'
    BY <1>0, <1>1, DeliveredSame
  <1> QED
    BY <1>0, <1>6, <1>7, <1>8, <1>9, <1>11, <1>12, <1>13 DEF IInv

LEMMA ReadTrailerKeeps ==
    ASSUME IInv, NEW n, NEW r, GoodResult(r, n, TRUE), ReadTrailer(r)
    PROVE  IInv'
  <1>0. /\ full' = full /\ source' = source /\ seg' = r.seg /\ seg' \in Segments
        /\ hiccups' \in 0 .. MaxHiccups /\ SegmentOK(seg)'
        /\ Pending(seg)' = Pending(r.seg) /\ Body' = Body
    BY TakeKeeps DEF ReadTrailer
  <1> DEFINE e == IF TrailerError(r) = "EOF" /\ held # << >>
                  THEN "nil" ELSE TrailerError(r)
  <1>1. /\ pc = "read" /\ Len(buf) < DigitBlockLen /\ err = "nil"
        /\ state = "end" /\ seg' = r.seg
        /\ UNCHANGED <<full, state, frame, pc, retried, outbuf, size, out, verdict>>
    BY DEF ReadTrailer, Filling, Take
  <1>2. /\ r.data \in Seq(Char) /\ r.seg \in Segments /\ SegmentOK(r.seg)
        /\ TrailerError(r) \in {"nil", "EOF", "Source", "Punctuated", "TrailingGarbage"}
        /\ TrailerError(r) = "EOF" => Emptied(r.seg)
    BY DEF GoodResult, TrailerError
  <1>3. \/ TrailerError(r) = "nil" /\ UNCHANGED <<held, buf, err>>
        \/ TrailerError(r) # "nil" /\ held' = << >> /\ Filtered(held, e)
    BY DEF ReadTrailer
  <1> HIDE DEF e
  <1>4. TrailerError(r) # "nil" =>
            \/ err' = "Corrupt" /\ buf' = buf
            \/ /\ AllValid(held) /\ err' = e
               /\ \/ DigitsIn(held) = << >> /\ buf' = buf
                  \/ buf' = buf \o DigitsIn(held)
            \/ /\ AllValid(held) /\ held # << >> /\ err' = "nil" /\ buf' = buf
               /\ DigitsIn(held) = << >>
    BY <1>3 DEF Filtered
  <1>5. /\ e \in {"nil", "EOF", "Source", "Punctuated", "TrailingGarbage"}
        /\ TrailerError(r) # "nil" /\ e = "nil" => Emptied(r.seg)
        /\ e = "EOF" => Emptied(r.seg)
    BY <1>2 DEF e
  <1>12. /\ buf \in Seq(Digit) /\ Len(buf) \in Nat /\ held \in Seq(Char)
         /\ Len(held) \in Nat /\ DigitsIn(held) \in Seq(Digit)
         /\ Len(DigitsIn(held)) \in Nat /\ Len(DigitsIn(held)) <= Len(held)
         /\ Len(buf) + Len(held) <= BufLen /\ BufLen \in Nat
    BY LenProperties, DigitsInType, DigitsInLength, ArmorReaderAssumption
    DEF IInv, Fits, TypeOK, Digit, Digits
  <1>13. /\ buf' \in Seq(Digit) /\ Len(buf') \in Nat /\ held' \in Seq(Char)
         /\ Len(held') \in Nat /\ Len(buf') + Len(held') <= BufLen
    <2>1. CASE buf' = buf /\ held' = held
      BY <1>12, <2>1
    <2>2. CASE buf' = buf /\ held' = << >>
      BY <1>12, <2>2
    <2>3. CASE buf' = buf \o DigitsIn(held) /\ held' = << >>
      <3>1. /\ buf' \in Seq(Digit)
            /\ Len(buf') = Len(buf) + Len(DigitsIn(held)) /\ Len(held') = 0
        BY <1>12, <2>3, ConcatProperties
      <3> QED
        BY <1>12, <2>3, <3>1
    <2> QED
      BY <1>3, <1>4, <2>1, <2>2, <2>3
  <1>6. TypeOK'
    <2>1. err' \in Error \union {"nil"}
      BY <1>1, <1>3, <1>4, <1>5 DEF Error
    <2>2. buf' \in Seq(0 .. Base - 1)
      BY <1>13 DEF Digit, Digits
    <2>3. Len(buf') <= BufLen
      BY <1>12, <1>13
    <2> QED
      BY <1>0, <1>1, <1>13, <2>1, <2>2, <2>3 DEF IInv, TypeOK
  <1>7. Fits'
    BY <1>1, <1>13 DEF Fits
  <1>8. EOFAtEnd'
    BY <1>1, <1>3, <1>4, <1>5 DEF EOFAtEnd, Emptied
  <1>9. BorrowedInCall'
    BY <1>1, <1>3, <1>4, <1>5 DEF BorrowedInCall, Emptied
  <1>10. ASSUME ~retried', err' \in {"nil", "EOF"}
         PROVE  InTrailer'
    <2>1. InTrailer
      BY <1>1, <1>10 DEF IInv, Located
    <2>2. PICK h \in Seq(Char), b \in Seq(Char), f \in Seq(Char), t \in Seq(Char) :
            /\ NoPunct(h) /\ HeaderOK(h) /\ NoPunct(b \o held) /\ AllValid(b)
            /\ NoPunct(f) /\ FooterOK(f)
            /\ full = h \o (<<Punct>> \o ((b \o held)
                        \o (<<Punct>> \o (f \o (<<Punct>> \o (t \o Pending(seg)))))))
            /\ Decoded(b)
      BY <2>1 DEF InTrailer
    <2> DEFINE u == t \o (r.data \o Mark(r.err = "Punctuated"))
    <2>3. u \in Seq(Char) /\ t \o Pending(seg) = u \o Pending(seg)'
      <3> DEFINE m == Mark(r.err = "Punctuated")
                 p == Pending(r.seg)
                 d == r.data
      <3>1. /\ m \in Seq(Char) /\ p \in Seq(Char) /\ d \in Seq(Char)
            /\ Pending(seg) = d \o (m \o p)
        BY <1>2, MarkType, PendingType DEF GoodResult
      <3> HIDE DEF m, p, d
      <3>3. t \o (d \o m) \in Seq(Char) /\ d \o m \in Seq(Char)
        BY <3>1, ConcatProperties
      <3>2. t \o (d \o (m \o p)) = (t \o (d \o m)) \o p
        <4>0. m \in Seq(Char) /\ p \in Seq(Char) /\ d \in Seq(Char)
          BY <3>1
        <4>1. d \o (m \o p) = (d \o m) \o p
          BY <4>0, Regroup
        <4> DEFINE x == d \o m
        <4>3. x \in Seq(Char)
          BY <3>3
        <4> HIDE DEF x
        <4>2. (t \o x) \o p = t \o (x \o p)
          BY <4>0, <4>3
        <4> QED
          BY <4>1, <4>2 DEF x
      <3> QED
        BY <1>0, <3>1, <3>2, <3>3 DEF m, p, d
    <2> HIDE DEF u
    <2>4. CASE held' = held /\ buf' = buf
      <3>1. Decoded(b)'
        <4>1. Finished => Finished'
          BY <1>1, <2>4 DEF Finished
        <4> QED
          BY <1>1, <2>2, <2>4, <4>1, DecodedSame
      <3>2. NoPunct(b \o held') /\ full' = h \o (<<Punct>> \o ((b \o held')
                        \o (<<Punct>> \o (f \o (<<Punct>> \o (u \o Pending(seg)'))))))
        BY <1>1, <2>2, <2>3, <2>4
      <3> QED
        BY <2>2, <2>3, <3>1, <3>2 DEF InTrailer
    <2>5. CASE held' = << >> /\ AllValid(held) /\ buf' = buf \o DigitsIn(held)
      <3>6. b \o held \in Seq(Char)
        BY <1>12, ConcatProperties
      <3>7. PICK c \in Seq(Char) : c = b \o held
        BY <3>6
      <3>1. c \o << >> = c
        BY ConcatEmptySeq
      <3>2. AllValid(c)
        BY <1>12, <2>2, <2>5, <3>7, AllValidConcat
      <3>3. NoPunct(c) /\ full = h \o (<<Punct>> \o (c
                        \o (<<Punct>> \o (f \o (<<Punct>> \o (t \o Pending(seg)))))))
        BY <2>2, <3>7
      <3>4. Decoded(c)'
        <4>1. CASE Finished
          <5>1. held = << >> /\ buf = << >>
            BY <4>1 DEF Finished
          <5>2. c = b /\ buf' = buf
            BY <2>5, <3>7, <5>1, DigitsInOne, ConcatEmptySeq
          <5>3. Finished => Finished'
            BY <1>1, <2>5, <5>2 DEF Finished
          <5>4. Decoded(b)'
            BY <1>1, <2>2, <5>2, <5>3, DecodedSame
          <5> QED
            BY <5>2, <5>4
        <4>2. CASE ~Finished
          BY <1>1, <1>12, <2>2, <2>5, <3>7, <4>2, DecodedMore DEF IInv
        <4> QED
          BY <4>1, <4>2
      <3>5. NoPunct(c \o held') /\ full' = h \o (<<Punct>> \o ((c \o held')
                        \o (<<Punct>> \o (f \o (<<Punct>> \o (u \o Pending(seg)'))))))
        BY <1>1, <2>3, <2>5, <3>1, <3>3
      <3> QED
        BY <2>2, <2>3, <3>1, <3>2, <3>4, <3>5 DEF InTrailer
    <2>6. buf \o << >> = buf
      BY <1>12, ConcatEmptySeq
    <2> QED
      BY <1>3, <1>4, <1>10, <2>4, <2>5, <2>6
  <1>11. Located'
    BY <1>1, <1>10 DEF Located
  <1>14. Told'
    BY <1>1 DEF IInv, Told
  <1>15. Delivered'
    BY <1>0, <1>1, DeliveredSame
  <1> QED
    BY <1>0, <1>6, <1>7, <1>8, <1>9, <1>11, <1>14, <1>15 DEF IInv

LEMMA StutterKeeps ==
    ASSUME IInv, UNCHANGED vars
    PROVE  IInv'
  <1>1. UNCHANGED <<full, source, hiccups, seg, state, frame, held, buf, outbuf,
                    err, pc, size, out, verdict, retried>>
    BY DEF vars
  <1>2. Located'
    <2>1. Finished => Finished'
      BY <1>1 DEF Finished
    <2>2. \A b \in Seq(Char) : Decoded(b) => Decoded(b)'
      BY <1>1, <2>1, DecodedSame
    <2> QED
      BY <1>1, <2>2, SameText DEF IInv
  <1>3. TypeOK' /\ Fits' /\ Told'
    BY <1>1 DEF IInv, TypeOK, Fits, Told
  <1>4. Delivered'
    BY <1>1 DEF IInv, Delivered, Body
  <1> QED
    BY <1>1, <1>2, <1>3, <1>4
    DEF IInv, SegmentOK, NoPunct, EOFAtEnd, BorrowedInCall, Emptied

LEMMA Inductive ==
    ASSUME IInv, [Next]_vars
    PROVE  IInv'
  <1>1. seg \in Segments /\ SegmentOK(seg) /\ ScanLen \in Nat \ {0} /\ BufLen \in Nat
    BY ArmorReaderAssumption DEF IInv, TypeOK
  <1>2. CASE GetHeaderCall \/ (\E n \in ReadSizes : ReadCall(n)) \/ ReturnError
    BY <1>2, CallsKeep
  <1>3. CASE ReturnBytes
    BY <1>3, ReturnBytesKeeps
  <1>4. ASSUME NEW r \in PunctuatedReads(ScanLen, TRUE),
               ScanHeader(r) \/ ScanFooter(r) \/ ReadTrailer(r)
        PROVE  IInv'
    <2>1. GoodResult(r, ScanLen, TRUE)
      BY <1>1, ReadResult
    <2> QED
      BY <1>4, <2>1, ScanHeaderKeeps, ScanFooterKeeps, ReadTrailerKeeps
  <1>5. ASSUME NEW n \in 1 .. BufLen, n = Wanted,
               NEW r \in PunctuatedReads(n, FALSE), ReadBody(r)
        PROVE  IInv'
    <2>1. n \in Nat \ {0}
      BY <1>1
    <2>2. GoodResult(r, n, FALSE)
      BY <1>1, <2>1, ReadResult
    <2> QED
      BY <1>5, <2>1, <2>2, ReadBodyKeeps
  <1>6. CASE UNCHANGED vars
    BY <1>6, StutterKeeps
  <1> QED
    BY <1>2, <1>3, <1>4, <1>5, <1>6 DEF Next, Step

LEMMA Invariant == Spec => []IInv
  <1>1. Init => IInv
    BY InitInv
  <1>2. IInv /\ [Next]_vars => IInv'
    BY Inductive
  <1> QED
    BY <1>1, <1>2, PTL DEF Spec

-----------------------------------------------------------------------------
(* The theorems.                                                           *)

\* The parts of a text whose footer was found.
LEMMA TrailerParts ==
    ASSUME TypeOK, InTrailer
    PROVE  \E b, t \in Seq(Char) :
              /\ Framed(full) /\ HeaderOK(HeaderOf(full)) /\ FooterOK(FooterOf(full))
              /\ BodyOf(full) = b \o held /\ AllValid(b) /\ Decoded(b)
              /\ TrailerOf(full) = t \o Pending(seg)
  <1>1. Pending(seg) \in Seq(Char) /\ held \in Seq(Char)
    BY PendingType DEF TypeOK
  <1>2. PICK h \in Seq(Char), b \in Seq(Char), f \in Seq(Char), t \in Seq(Char) :
          /\ NoPunct(h) /\ HeaderOK(h) /\ NoPunct(b \o held) /\ AllValid(b)
          /\ NoPunct(f) /\ FooterOK(f)
          /\ full = h \o (<<Punct>> \o ((b \o held)
                      \o (<<Punct>> \o (f \o (<<Punct>> \o (t \o Pending(seg)))))))
          /\ Decoded(b)
    BY DEF InTrailer
  <1> DEFINE c == b \o held
             p == t \o Pending(seg)
  <1>3. c \in Seq(Char) /\ NoPunct(c) /\ p \in Seq(Char) /\ NoPunct(h) /\ NoPunct(f)
    BY <1>1, <1>2
  <1>4. full = ThreeSentences(h, c, f, p)
    BY <1>2 DEF ThreeSentences
  <1> HIDE DEF c, p
  <1>5. /\ HeaderOf(full) = h /\ BodyOf(full) = c /\ FooterOf(full) = f
        /\ Framed(full) /\ TrailerOf(full) = p
    BY <1>3, <1>4, FramedParts
  <1> QED
    BY <1>2, <1>5 DEF c, p

\* The variables stay in their types.
THEOREM TypeCorrect == Spec => []TypeOK
  <1>1. IInv => TypeOK
    BY DEF IInv
  <1> QED
    BY <1>1, Invariant, PTL

\* punctuatedReader never keeps a slice of a caller's buffer over the end of a
\* call, whatever the sizes of the buffers and the reads of the source.
THEOREM BorrowedIsReturned == Spec => []BorrowedNeverKept
  <1>1. IInv => BorrowedNeverKept
    BY DEF IInv, BorrowedInCall, BorrowedNeverKept, Emptied
  <1> QED
    BY <1>1, Invariant, PTL

\* The decoder is told io.EOF only behind a right header, a body of digits and
\* white space, and a right footer, whatever the text and however it is cut.
THEOREM EOFBehindFrames == Spec => []FramesBeforeEOF
  <1>1. IInv => FramesBeforeEOF
    <2> SUFFICES ASSUME IInv, err = "EOF", ~retried
                 PROVE  /\ Framed(full) /\ HeaderOK(HeaderOf(full))
                        /\ AllValid(BodyOf(full)) /\ FooterOK(FooterOf(full))
      BY DEF FramesBeforeEOF
    <2>1. TypeOK /\ InTrailer /\ held = << >>
      BY DEF IInv, Located, EOFAtEnd
    <2>2. PICK b \in Seq(Char) :
            /\ Framed(full) /\ HeaderOK(HeaderOf(full)) /\ FooterOK(FooterOf(full))
            /\ BodyOf(full) = b \o held /\ AllValid(b)
      BY <2>1, TrailerParts
    <2>3. b \o << >> = b
      BY ConcatEmptySeq
    <2> QED
      BY <2>1, <2>2, <2>3
  <1> QED
    BY <1>1, Invariant, PTL

\* The bytes returned are the first ones of what the digits of the body stand
\* for, whatever the text and however the source and the caller cut it.
THEOREM PrefixReturned == Spec => []BodyPrefix
  <1>1. IInv => BodyPrefix
    <2> SUFFICES ASSUME IInv, ~retried PROVE IsPrefix(out, Body)
      BY DEF BodyPrefix
    <2>1. out \in Seq(Byte) /\ outbuf \in Seq(Byte) /\ full \in Seq(Char)
      BY DEF IInv, TypeOK, Byte, Digits
    <2>2. Body \in Seq(Byte)
      <3>1. BodyOf(full) \in Seq(Char)
        BY <2>1, CutHere DEF BodyOf
      <3> QED
        BY <3>1, DigitsInType, CodecType DEF Body
    <2>3. IsPrefix(out, out \o outbuf) /\ IsPrefix(out \o outbuf, Body)
      BY <2>1, PrefixOfConcat DEF IInv, Delivered
    <2> QED
      BY <2>1, <2>2, <2>3 DEF IsPrefix
  <1> QED
    BY <1>1, Invariant, PTL

\* io.EOF means that header, body and footer were all right, and that every
\* byte that the body stands for has been returned.
THEOREM EOFMeansAll == Spec => []AcceptedMessage
  <1>1. IInv => AcceptedMessage
    <2> SUFFICES ASSUME IInv, verdict = "EOF", ~retried
                 PROVE  GoodMessage(full) /\ out = Body
      BY DEF AcceptedMessage
    <2>1. pc # "read" /\ err = "EOF"
      BY DEF IInv, Told
    <2>2. /\ TypeOK /\ InTrailer /\ held = << >> /\ buf = << >> /\ outbuf = << >>
      BY <2>1 DEF IInv, Located, EOFAtEnd, Delivered
    <2>3. PICK b \in Seq(Char) :
            /\ Framed(full) /\ HeaderOK(HeaderOf(full)) /\ FooterOK(FooterOf(full))
            /\ BodyOf(full) = b \o held /\ AllValid(b) /\ Decoded(b)
      BY <2>2, TrailerParts
    <2>4. PICK done \in Seq(Digit) : Handed(b, done)
      BY <2>3 DEF Decoded
    <2>5. b \o << >> = b /\ done \o << >> = done /\ out \o << >> = out
      BY <2>2, ConcatEmptySeq DEF TypeOK
    <2>6. BodyOf(full) = b /\ DigitsIn(b) = done /\ out = Decode(done).bytes
          /\ Decode(done).ok
      BY <2>2, <2>3, <2>4, <2>5 DEF Handed
    <2> QED
      BY <2>3, <2>6 DEF GoodMessage, Body
  <1> QED
    BY <1>1, Invariant, PTL

\* Once decoder.Read has returned an error, no later call of it, nor one of
\* GetHeader or GetBrand, returns any byte or another error.
THEOREM ErrorIsKept == Spec => VerdictIsFinal
  <1>1. IInv /\ [Next]_vars => [verdict # "nil" => UNCHANGED <<verdict, out>>]_vars
    <2> SUFFICES ASSUME IInv, Next, verdict # "nil"
                 PROVE  UNCHANGED <<verdict, out>>
      OBVIOUS
    <2>1. pc # "read" /\ err = verdict
      BY DEF IInv, Told
    <2>2. CASE GetHeaderCall
      BY <2>2 DEF GetHeaderCall
    <2>3. ASSUME NEW n \in ReadSizes, ReadCall(n) PROVE UNCHANGED <<verdict, out>>
      BY <2>1, <2>3 DEF ReadCall
    <2>4. ~Filling /\ ~ReturnError /\ ~ReturnBytes
      BY <2>1 DEF Filling, ReturnError, ReturnBytes
    <2>5. ASSUME NEW r, ScanHeader(r) \/ ScanFooter(r) \/ ReadTrailer(r) \/ ReadBody(r)
          PROVE  UNCHANGED <<verdict, out>>
      BY <2>5 DEF ScanHeader, ScanFooter, ReadTrailer, ReadBody
    <2> QED
      BY <2>2, <2>3, <2>4, <2>5 DEF Next, Step
  <1> QED
    BY <1>1, Invariant, PTL DEF Spec, VerdictIsFinal

-----------------------------------------------------------------------------
(* A right text is accepted.                                               *)

\* The text and its source give no reason to refuse it.
Harmless ==
    /\ source = "plain" /\ hiccups = 0
    /\ GoodMessage(full) /\ AllValid(TrailerOf(full))
    /\ Len(HeaderOf(full)) < FrameLim /\ Len(FooterOf(full)) < FrameLim

\* The error that decoder.Read returns is decoder.err, so this is enough.
NotRefused == Harmless => err \in {"nil", "EOF"} /\ ~retried

\* A Read of a source that never fails brings something of what is pending.
LEMMA HarmlessResult ==
    ASSUME IInv, Harmless, NEW n, NEW own, NEW r, GoodResult(r, n, own), Take(r),
           hiccups' = 0
    PROVE  /\ r.err \in {"nil", "EOF", "Punctuated"}
           /\ r.err = "nil" => r.data # << >>
           /\ r.err = "EOF" => Pending(seg) = << >>
  <1>1. ~NoData(r)
    BY DEF NoData, Take, Harmless
  <1> QED
    BY <1>1 DEF GoodResult, NoData, Harmless

\* The sentence that x begins and what is pending ends is found, if it is short.
LEMMA HarmlessScan ==
    ASSUME IInv, Harmless, NEW n, NEW own, NEW r, GoodResult(r, n, own), Take(r),
           hiccups' = 0, NoPunct(frame), HasPunct(Pending(seg)),
           Len(BeforePunct(frame \o Pending(seg))) < FrameLim
    PROVE  \/ Scanned(r) = "more"
           \/ /\ Scanned(r) = "found"
              /\ frame \o r.data = BeforePunct(frame \o Pending(seg))
  <1>1. /\ seg \in Segments /\ frame \in Seq(Char) /\ Pending(seg) \in Seq(Char)
        /\ r.data \in Seq(Char) /\ r.seg \in Segments /\ Pending(r.seg) \in Seq(Char)
    BY PendingType DEF IInv, TypeOK, GoodResult
  <1>2. /\ r.err \in {"nil", "EOF", "Punctuated"}
        /\ r.err = "nil" => r.data # << >>
        /\ r.err = "EOF" => Pending(seg) = << >>
    BY HarmlessResult
  <1>3. Pending(seg) # << >>
    <2>1. << >> \in Seq(Char) /\ NoPunct(<< >>)
      BY DEF NoPunct
    <2>2. ~HasPunct(<< >>)
      BY <2>1, CutNowhere
    <2> QED
      BY <2>2
  <1>4. CASE r.err = "nil"
    <2> DEFINE x == frame \o r.data
               p == Pending(r.seg)
    <2>1. x \in Seq(Char) /\ NoPunct(x) /\ frame \o Pending(seg) = x \o p
      BY <1>1, <1>4, GatheredMore
    <2>2. p \in Seq(Char) /\ BeforePunct(p) \in Seq(Char)
      BY <1>1, CutHere
    <2>3. Len(x) = Len(frame) + Len(r.data)
      BY <1>1
    <2> HIDE DEF x, p
    <2>4. BeforePunct(x \o p) = x \o BeforePunct(p)
      BY <2>1, <2>2, CutLater
    <2>5. Len(x \o BeforePunct(p)) >= Len(x)
      BY <2>1, <2>2
    <2>6. Len(x) < FrameLim
      <3>1. Len(x \o BeforePunct(p)) < FrameLim
        BY <2>1, <2>4
      <3>2. /\ Len(x) \in Nat /\ Len(x \o BeforePunct(p)) \in Nat
            /\ FrameLim \in Nat
        BY <2>1, <2>2, ArmorReaderAssumption
      <3> QED
        BY <2>5, <3>1, <3>2
    <2>7. ~(Len(frame) + Len(r.data) >= FrameLim)
      <3>1. Len(x) \in Nat /\ FrameLim \in Nat
        BY <2>1, ArmorReaderAssumption
      <3>2. ~(Len(x) >= FrameLim)
        BY <2>6, <3>1
      <3> QED
        BY <2>3, <3>2
    <2> QED
      BY <1>2, <1>4, <2>7 DEF Scanned
  <1>5. CASE r.err = "Punctuated"
    <2> DEFINE x == frame \o r.data
               p == Pending(r.seg)
    <2>1. x \in Seq(Char) /\ NoPunct(x) /\ frame \o Pending(seg) = x \o (<<Punct>> \o p)
      BY <1>1, <1>5, GatheredAll
    <2>2. p \in Seq(Char)
      BY <1>1
    <2> HIDE DEF x, p
    <2>3. BeforePunct(x \o (<<Punct>> \o p)) = x
      BY <2>1, <2>2, CutThere
    <2>4. x = BeforePunct(frame \o Pending(seg))
      BY <2>1, <2>3
    <2>5. Scanned(r) = "found"
      BY <1>5 DEF Scanned
    <2> QED
      BY <2>4, <2>5 DEF x
  <1> QED
    BY <1>2, <1>3, <1>4, <1>5

LEMMA ScanHeaderAccepts ==
    ASSUME IInv, Harmless, NEW n, NEW own, NEW r, GoodResult(r, n, own),
           ScanHeader(r), hiccups' = 0, err \in {"nil", "EOF"}, ~retried
    PROVE  err' \in {"nil", "EOF"} /\ ~retried'
  <1>1. state = "header" /\ Take(r) /\ InHeader
    BY DEF ScanHeader, IInv, Located
  <1>2. NoPunct(frame) /\ full = frame \o Pending(seg)
    BY <1>1 DEF InHeader
  <1>3. full \in Seq(Char) /\ frame \in Seq(Char) /\ Pending(seg) \in Seq(Char)
    BY PendingType DEF IInv, TypeOK
  <1>4. HasPunct(full)
    BY <1>3, FramedThrough DEF Harmless, GoodMessage
  <1>5. HasPunct(Pending(seg))
    <2> DEFINE p == Pending(seg)
    <2>1. p \in Seq(Char) /\ HasPunct(frame \o p)
      BY <1>2, <1>3, <1>4
    <2> HIDE DEF p
    <2>2. HasPunct(p)
      BY <1>2, <1>3, <2>1, CutLater
    <2> QED
      BY <2>2 DEF p
  <1>6. Len(BeforePunct(frame \o Pending(seg))) < FrameLim
    BY <1>2 DEF Harmless, HeaderOf
  <1>7. \/ Scanned(r) = "more"
        \/ Scanned(r) = "found" /\ frame \o r.data = BeforePunct(frame \o Pending(seg))
    BY <1>1, <1>2, <1>5, <1>6, HarmlessScan
  <1>8. \/ Scanned(r) = "more"
        \/ Scanned(r) = "found" /\ HeaderOK(frame \o r.data)
    BY <1>2, <1>7 DEF Harmless, GoodMessage, HeaderOf
  <1> QED
    BY <1>8 DEF ScanHeader

LEMMA ScanFooterAccepts ==
    ASSUME IInv, Harmless, NEW n, NEW own, NEW r, GoodResult(r, n, own),
           ScanFooter(r), hiccups' = 0, err \in {"nil", "EOF"}, ~retried
    PROVE  err' \in {"nil", "EOF"} /\ ~retried'
  <1>1. state = "footer" /\ Take(r) /\ InFooter
    BY DEF ScanFooter, IInv, Located
  <1>2. PICK h \in Seq(Char), b \in Seq(Char) :
            /\ NoPunct(h) /\ NoPunct(b \o held)
            /\ full = h \o (<<Punct>> \o ((b \o held)
                        \o (<<Punct>> \o (frame \o Pending(seg)))))
    BY <1>1 DEF InFooter
  <1> DEFINE c == b \o held
             p == Pending(seg)
  <1>3. /\ full \in Seq(Char) /\ frame \in Seq(Char) /\ p \in Seq(Char)
        /\ c \in Seq(Char) /\ NoPunct(c) /\ NoPunct(h) /\ NoPunct(frame)
        /\ full = TwoSentences(h, c, frame \o p)
    BY <1>1, <1>2, PendingType, ConcatProperties
       DEF IInv, TypeOK, InFooter, TwoSentences
  <1> HIDE DEF c, p
  <1>4. frame \o p \in Seq(Char)
    BY <1>3
  <1>5. FooterOf(full) = BeforePunct(frame \o p) /\ Framed(full) = HasPunct(frame \o p)
    BY <1>3, <1>4, FooterParts
  <1>6. HasPunct(p)
    <2>1. HasPunct(frame \o p)
      BY <1>5 DEF Harmless, GoodMessage
    <2> QED
      BY <1>3, <2>1, CutLater
  <1>7. Len(BeforePunct(frame \o p)) < FrameLim
    BY <1>5 DEF Harmless
  <1>8. \/ Scanned(r) = "more"
        \/ Scanned(r) = "found" /\ frame \o r.data = BeforePunct(frame \o Pending(seg))
    BY <1>1, <1>3, <1>6, <1>7, HarmlessScan DEF p
  <1>9. \/ Scanned(r) = "more"
        \/ Scanned(r) = "found" /\ FooterOK(frame \o r.data)
    BY <1>5, <1>8 DEF Harmless, GoodMessage, p
  <1> QED
    BY <1>9 DEF ScanFooter

LEMMA ReadBodyAccepts ==
    ASSUME IInv, Harmless, NEW n, NEW own, NEW r, GoodResult(r, n, own),
           ReadBody(r), hiccups' = 0, err \in {"nil", "EOF"}, ~retried
    PROVE  err' \in {"nil", "EOF"} /\ ~retried'
  <1>1. state = "body" /\ Take(r) /\ InBody /\ err = "nil" /\ retried' = retried
    BY DEF ReadBody, Filling, IInv, Located
  <1>2. PICK h \in Seq(Char), b \in Seq(Char) :
            /\ NoPunct(h) /\ NoPunct(b) /\ AllValid(b)
            /\ full = h \o (<<Punct>> \o (b \o Pending(seg)))
    BY <1>1 DEF InBody
  <1> DEFINE p == Pending(seg)
  <1>3. /\ seg \in Segments /\ full \in Seq(Char) /\ p \in Seq(Char)
        /\ r.data \in Seq(Char) /\ r.seg \in Segments /\ Pending(r.seg) \in Seq(Char)
    BY PendingType DEF IInv, TypeOK, GoodResult
  <1> HIDE DEF p
  <1>4. BodyOf(full) = b \o BeforePunct(p) /\ HasPunct(p)
    <2>1. full = OneSentence(h, b \o p) /\ NoPunct(h) /\ NoPunct(b)
      BY <1>2 DEF OneSentence, p
    <2>2. /\ BodyOf(OneSentence(h, b \o p)) = b \o BeforePunct(p)
          /\ HasPunct(AfterPunct(OneSentence(h, b \o p))) <=> HasPunct(p)
      BY <1>3, <2>1, BodyParts
    <2>3. HasPunct(AfterPunct(full))
      BY <1>3, FramedThrough DEF Harmless, GoodMessage
    <2> QED
      BY <2>1, <2>2, <2>3
  <1>5. p # << >>
    <2>1. << >> \in Seq(Char) /\ NoPunct(<< >>)
      BY DEF NoPunct
    <2>2. ~HasPunct(<< >>)
      BY <2>1, CutNowhere
    <2> QED
      BY <1>4, <2>2
  <1>6. r.err \in {"nil", "Punctuated"}
    BY <1>1, <1>5, HarmlessResult DEF p
  <1>7. CASE r.err = "nil"
    <2> DEFINE d == r.data
               q == Pending(r.seg)
    <2>1. d \in Seq(Char) /\ q \in Seq(Char) /\ NoPunct(d) /\ p = d \o q
      <3>1. << >> \in Seq(Char) /\ NoPunct(<< >>)
        BY DEF NoPunct
      <3>2. << >> \o Pending(seg) = (<< >> \o r.data) \o Pending(r.seg)
        BY <1>3, <1>7, <3>1, GatheredMore
      <3>3. << >> \o Pending(seg) = Pending(seg) /\ << >> \o r.data = r.data
        BY <1>3, ConcatEmptySeq DEF p
      <3> QED
        BY <1>3, <1>7, <3>2, <3>3 DEF GoodResult, p
    <2> HIDE DEF d, q
    <2>2. BeforePunct(p) = d \o BeforePunct(q) /\ BeforePunct(q) \in Seq(Char)
      BY <2>1, CutLater, CutHere
    <2>3. AllValid(b \o BeforePunct(p))
      BY <1>4 DEF Harmless, GoodMessage
    <2>4. BeforePunct(p) \in Seq(Char)
      BY <1>3, CutHere
    <2>5. AllValid(BeforePunct(p))
      BY <2>3, <2>4, AllValidConcat
    <2>6. AllValid(d)
      BY <2>1, <2>2, <2>5, AllValidConcat
    <2>7. Filtered(r.data, "nil")
      BY <1>7 DEF ReadBody
    <2> QED
      BY <1>1, <2>6, <2>7 DEF Filtered, d
  <1>8. CASE r.err = "Punctuated"
    BY <1>1, <1>8 DEF ReadBody
  <1> QED
    BY <1>6, <1>7, <1>8

LEMMA ReadTrailerAccepts ==
    ASSUME IInv, Harmless, NEW n, NEW own, NEW r, GoodResult(r, n, own),
           ReadTrailer(r), hiccups' = 0, err \in {"nil", "EOF"}, ~retried
    PROVE  err' \in {"nil", "EOF"} /\ ~retried'
  <1>1. /\ TypeOK /\ state = "end" /\ Take(r) /\ InTrailer /\ err = "nil"
        /\ retried' = retried
    BY DEF ReadTrailer, Filling, IInv, Located
  <1>2. PICK b \in Seq(Char), t \in Seq(Char) :
            BodyOf(full) = b \o held /\ TrailerOf(full) = t \o Pending(seg)
    BY <1>1, TrailerParts
  <1>3. /\ seg \in Segments /\ held \in Seq(Char) /\ Pending(seg) \in Seq(Char)
        /\ r.data \in Seq(Char) /\ r.seg \in Segments /\ Pending(r.seg) \in Seq(Char)
    BY PendingType DEF IInv, TypeOK, GoodResult
  <1>4. AllValid(held) /\ AllValid(Pending(seg))
    <2>1. AllValid(b \o held) /\ AllValid(t \o Pending(seg))
      BY <1>2 DEF Harmless, GoodMessage
    <2>2. AllValid(held)
      BY <1>3, <2>1, AllValidConcat
    <2>3. AllValid(Pending(seg))
      <3> DEFINE p == Pending(seg)
      <3>1. p \in Seq(Char) /\ AllValid(t \o p)
        BY <1>3, <2>1
      <3> HIDE DEF p
      <3>2. AllValid(p)
        BY <3>1, AllValidConcat
      <3> QED
        BY <3>2 DEF p
    <2> QED
      BY <2>2, <2>3
  <1>5. /\ r.err \in {"nil", "EOF", "Punctuated"}
        /\ r.err = "nil" => r.data # << >>
    BY <1>1, HarmlessResult
  <1> DEFINE d == r.data
             e == Mark(r.err = "Punctuated")
             q == Pending(r.seg)
  <1>6. /\ d \in Seq(Char) /\ e \in Seq(Char) /\ q \in Seq(Char)
        /\ AllValid(d \o (e \o q))
    BY <1>3, <1>4, MarkType DEF GoodResult
  <1>7. AllValid(d) /\ AllValid(e)
    <2> HIDE DEF d, e, q
    <2>1. e \o q \in Seq(Char)
      BY <1>6
    <2>2. AllValid(d) /\ AllValid(e \o q)
      BY <1>6, <2>1, AllValidConcat
    <2> QED
      BY <1>6, <2>2, AllValidConcat
  <1>8. r.err # "Punctuated"
    <2> SUFFICES ASSUME r.err = "Punctuated" PROVE FALSE
      OBVIOUS
    <2>1. e = <<Punct>>
      BY DEF Mark
    <2>2. e[1] = Punct /\ 1 \in DOMAIN e
      BY <2>1
    <2>3. NoPunct(e)
      BY <1>7, ValidIsNoPunct
    <2> QED
      BY <2>2, <2>3 DEF NoPunct
  <1>9. TrailerError(r) \in {"nil", "EOF"}
    BY <1>5, <1>7, <1>8 DEF TrailerError
  <1>10. CASE TrailerError(r) = "nil"
    BY <1>1, <1>10 DEF ReadTrailer
  <1>11. CASE TrailerError(r) = "EOF"
    <2>1. \E x \in {"nil", "EOF"} : Filtered(held, x)
      BY <1>11 DEF ReadTrailer
    <2> QED
      BY <1>1, <1>4, <2>1 DEF Filtered
  <1> QED
    BY <1>9, <1>10, <1>11

LEMMA ReturnBytesAccepts ==
    ASSUME IInv, Harmless, ReturnBytes, err \in {"nil", "EOF"}, ~retried
    PROVE  err' \in {"nil", "EOF"} /\ ~retried'
  <1> DEFINE part == First(buf, Decodable)
  <1>1. /\ part \in Seq(Digit)
        /\ (err = "nil" /\ Whole(part, DigitBlockLen)) \/ (err = "EOF" /\ buf' = << >>)
    BY DecodablePart
  <1>2. Decode(part).ok
    <2> HIDE DEF part
    <2>1. CASE Whole(part, DigitBlockLen)
      <3>1. << >> \in Seq(Digit)
        OBVIOUS
      <3> QED
        BY <1>1, <2>1, <3>1, DecodeConcat
    <2>2. CASE err = "EOF" /\ buf' = << >>
      <3>1. TypeOK /\ Located /\ state = "end" /\ held = << >>
        BY <2>2 DEF IInv, EOFAtEnd
      <3>2. PICK b \in Seq(Char) : BodyOf(full) = b \o held /\ Decoded(b)
        BY <3>1, TrailerParts DEF Located
      <3>3. b \o << >> = b /\ BodyOf(full) = b
        BY <3>1, <3>2, ConcatEmptySeq
      <3>4. PICK done \in Seq(Digit) :
                DigitsIn(b) = done \o buf' /\ Decode(done).ok = Decode(part).ok
        BY <3>2, DecodedPart DEF part
      <3>5. done \o << >> = done
        BY ConcatEmptySeq
      <3>6. DigitsIn(BodyOf(full)) = done
        BY <2>2, <3>3, <3>4, <3>5
      <3> QED
        BY <3>4, <3>6 DEF Harmless, GoodMessage
    <2> QED
      BY <1>1, <2>1, <2>2
  <1>3. err' = "nil" /\ retried' = retried
    BY <1>2 DEF ReturnBytes
  <1> QED
    BY <1>3

LEMMA NeverRefused == Spec => [](IInv /\ NotRefused)
  <1>1. Init => NotRefused
    BY DEF Init, NotRefused
  <1>2. IInv /\ NotRefused /\ [Next]_vars => NotRefused'
    <2> SUFFICES ASSUME IInv, NotRefused, [Next]_vars, Harmless'
                 PROVE  err' \in {"nil", "EOF"} /\ ~retried'
      BY DEF NotRefused
    <2>1. seg \in Segments /\ SegmentOK(seg) /\ ScanLen \in Nat \ {0} /\ BufLen \in Nat
          /\ hiccups \in Nat
      BY ArmorReaderAssumption DEF IInv, TypeOK
    <2>2. UNCHANGED <<full, source>> /\ hiccups' \in {hiccups, hiccups + 1}
      BY DEF Next, Step, GetHeaderCall, ReadCall, ScanHeader, ScanFooter,
             ReadTrailer, ReadBody, ReturnError, ReturnBytes, Take, vars
    <2>3. hiccups = 0 /\ hiccups' = 0
      BY <2>1, <2>2 DEF Harmless
    <2>4. Harmless
      BY <2>2, <2>3 DEF Harmless
    <2>5. err \in {"nil", "EOF"} /\ ~retried
      BY <2>4 DEF NotRefused
    <2>6. CASE GetHeaderCall \/ (\E n \in ReadSizes : ReadCall(n)) \/ ReturnError
      BY <2>5, <2>6 DEF GetHeaderCall, ReadCall, ReturnError
    <2>7. CASE ReturnBytes
      BY <2>4, <2>5, <2>7, ReturnBytesAccepts
    <2>8. ASSUME NEW r \in PunctuatedReads(ScanLen, TRUE),
                 ScanHeader(r) \/ ScanFooter(r) \/ ReadTrailer(r)
          PROVE  err' \in {"nil", "EOF"} /\ ~retried'
      <3>1. GoodResult(r, ScanLen, TRUE)
        BY <2>1, ReadResult
      <3> QED
        BY <2>3, <2>4, <2>5, <2>8, <3>1, ScanHeaderAccepts, ScanFooterAccepts,
           ReadTrailerAccepts
    <2>9. ASSUME NEW n \in 1 .. BufLen, NEW r \in PunctuatedReads(n, FALSE),
                 ReadBody(r)
          PROVE  err' \in {"nil", "EOF"} /\ ~retried'
      <3>1. n \in Nat \ {0}
        BY <2>1
      <3>2. GoodResult(r, n, FALSE)
        BY <2>1, <3>1, ReadResult
      <3> QED
        BY <2>3, <2>4, <2>5, <2>9, <3>2, ReadBodyAccepts
    <2>10. CASE UNCHANGED vars
      BY <2>5, <2>10 DEF vars
    <2> QED
      BY <2>6, <2>7, <2>8, <2>9, <2>10 DEF Next, Step
  <1> QED
    BY <1>1, <1>2, Invariant, PTL DEF Spec

\* A text whose frames, body and trailer are right, and whose source does not
\* fail, is never refused, however the source and the caller cut it.
THEOREM RightTextAccepted == Spec => []NoFalseAlarm
  <1>1. IInv /\ NotRefused => NoFalseAlarm
    <2> SUFFICES ASSUME IInv, NotRefused, Harmless
                 PROVE  err \in {"nil", "EOF"} /\ verdict \in {"nil", "EOF"} /\ ~retried
      BY DEF NoFalseAlarm, Harmless
    <2> QED
      BY DEF IInv, Told, NotRefused
  <1> QED
    BY <1>1, NeverRefused, PTL
=============================================================================
