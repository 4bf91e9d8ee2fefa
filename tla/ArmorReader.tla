----------------------------- MODULE ArmorReader -----------------------------
(***************************************************************************)
(* The stack of readers that removes the armor: punctuatedReader           *)
(* (punctuated_reader.go) under framedDecoderStream (armor.go) under       *)
(* filteringReader and decoder (encoding/basex/stream.go), over any        *)
(* io.Reader.                                                              *)
(*                                                                         *)
(* Every action but the beginning and the end of a call is one Read of the *)
(* punctuatedReader with what the readers above make of its result.        *)
(***************************************************************************)
EXTENDS ArmorFormat

CONSTANTS Texts,        \* what the source may hold
          Sources,      \* how it reports its end: "plain" or "dataEOF"
          ReadSizes,    \* the lengths of the buffers passed to decoder.Read
          ScanLen,      \* 4096: the buffers for frames and for the trailer
          BufLen,       \* len(decoder.buf)
          FrameLim,     \* framedDecoderStream.frameLim
          MaxHiccups    \* bound on source reads of no data before its end

ASSUME ArmorReaderAssumption ==
    /\ Texts \subseteq Seq(Char)
    /\ Sources \subseteq {"plain", "dataEOF"}
    /\ ReadSizes \subseteq Nat
    /\ ScanLen \in Nat \ {0} /\ FrameLim \in Nat /\ MaxHiccups \in Nat
    /\ BufLen \in Nat /\ BufLen >= DigitBlockLen

VARIABLES full,         \* the whole text of the source
          source,       \* how it reports its end
          hiccups,      \* source reads of no data so far
          seg,          \* the state of punctuatedReader and its source
          state,        \* framedDecoderStream.state
          frame,        \* what ReadUntilPunctuation has gathered
          held,         \* body bytes of a framed Read that has met the footer
          buf,          \* decoder.buf[:nbuf]: digits not yet decoded
          outbuf,       \* decoder.out: bytes decoded, not yet returned
          err,          \* decoder.err
          pc, size,     \* the call in progress and its len(p)
          out,          \* history: bytes returned
          verdict,      \* history: the last error returned by Read
          retried       \* history: a GetHeader or GetBrand has failed

vars == <<full, source, hiccups, seg, state, frame, held, buf, outbuf, err,
          pc, size, out, verdict, retried>>

Min2(m, n) == IF m < n THEN m ELSE n
Max2(m, n) == IF m < n THEN n ELSE m

First(s, n) == SubSeq(s, 1, Min2(n, Len(s)))
Without(s, n) == SubSeq(s, Min2(n, Len(s)) + 1, Len(s))

Error == {"EOF", "UnexpectedEOF", "Source", "Punctuated", "Overflow",
          "BadFrame", "TrailingGarbage", "Corrupt", "InvalidLength"}

\* this = thisSegment, next = nextSegment, punct: errThisSegment is
\* ErrPunctuated, borrowed: next is a slice of the buffer of decoder.Read.
Segments == [rest : Seq(Char), this : Seq(Char), next : Seq(Char),
             punct : BOOLEAN, borrowed : BOOLEAN]

TypeOK ==
    /\ full \in Seq(Char) /\ source \in Sources /\ hiccups \in 0 .. MaxHiccups
    /\ seg \in Segments
    /\ state \in {"header", "body", "footer", "end"}
    /\ frame \in Seq(Char) /\ held \in Seq(Char)
    /\ buf \in Seq(0 .. Base - 1) /\ Len(buf) <= BufLen
    /\ outbuf \in Seq(0 .. ByteBase - 1)
    /\ err \in Error \union {"nil"}
    /\ pc \in {"idle", "getheader", "read"} /\ size \in Nat
    /\ out \in Seq(0 .. ByteBase - 1)
    /\ verdict \in Error \union {"nil"}
    /\ retried \in BOOLEAN

Init ==
    /\ full \in Texts /\ source \in Sources /\ hiccups = 0
    /\ seg = [rest |-> full, this |-> << >>, next |-> << >>,
              punct |-> FALSE, borrowed |-> FALSE]
    /\ state = "header" /\ frame = << >> /\ held = << >>
    /\ buf = << >> /\ outbuf = << >> /\ err = "nil"
    /\ pc = "idle" /\ size = 0
    /\ out = << >> /\ verdict = "nil" /\ retried = FALSE

-----------------------------------------------------------------------------
\* punctuatedReader.Read into a buffer of n bytes: the results it can have.

\* Mutant of Copied: what does not fit into the buffer is forgotten.
CopiedOnce(segment, n, ended, sg) ==
    [data |-> First(segment, n),
     err  |-> IF ended THEN "Punctuated" ELSE "nil",
     seg  |-> [sg EXCEPT !.this = << >>, !.punct = FALSE]]

\* A segment is copied, as far as it fits; ended says that a punctuation
\* follows it, which is reported together with the last of its bytes.
Copied(segment, n, ended, sg) ==
    [data |-> First(segment, n),
     err  |-> IF ended /\ Len(segment) <= n THEN "Punctuated" ELSE "nil",
     seg  |-> [sg EXCEPT !.this = Without(segment, n),
                         !.punct = ended /\ Len(segment) > n]]

\* Data from the source is searched; what follows a punctuation is kept where
\* it is, in the buffer the source has filled.
Searched(got, n, own) ==
    Copied(BeforePunct(got), n, HasPunct(got),
           [seg EXCEPT !.rest = Without(seg.rest, Len(got)),
                       !.next = AfterPunct(got),
                       !.borrowed = ~own /\ AfterPunct(got) # << >>])

\* Data that comes with an error is passed on as it is.
Unsearched(got, e) ==
    [data |-> got, err |-> e,
     seg  |-> [seg EXCEPT !.rest = Without(seg.rest, Len(got))]]

SourceReads(n, own) ==
    LET pieces == { First(seg.rest, k) : k \in 1 .. Min2(n, Len(seg.rest)) }
        last(got) == source = "dataEOF" /\ Len(got) = Len(seg.rest)
    IN  { Searched(got, n, own) : got \in { p \in pieces : ~last(p) } }
          \union { Unsearched(got, "EOF") : got \in { p \in pieces : last(p) } }
          \union IF seg.rest = << >> THEN { Unsearched(<< >>, "EOF") } ELSE {}

\* An io.Reader may return (0, nil), and may fail and go on later.
Hiccups == IF hiccups < MaxHiccups
           THEN { Unsearched(<< >>, "nil"), Unsearched(<< >>, "Source") }
           ELSE {}

\* own: the buffer is not that of decoder.Read.
PunctuatedReads(n, own) ==
    IF seg.this # << >> THEN { Copied(seg.this, n, seg.punct, seg) }
    ELSE IF seg.next # << >>
    THEN { Copied(BeforePunct(seg.next), n, HasPunct(seg.next),
                  [seg EXCEPT !.next = AfterPunct(seg.next)]) }
    ELSE SourceReads(n, own) \union Hiccups

\* The result r of such a Read takes place.
Take(r) ==
    /\ seg' = r.seg
    /\ hiccups' = IF r.data = << >> /\ r.err \in {"nil", "Source"}
                  THEN hiccups + 1 ELSE hiccups
    /\ UNCHANGED <<full, source>>

-----------------------------------------------------------------------------
\* The beginning of a call.

\* GetHeader and GetBrand load the header; once it is loaded they only look.
GetHeaderCall ==
    /\ pc = "idle" /\ state = "header"
    /\ pc' = "getheader"
    /\ UNCHANGED <<full, source, hiccups, seg, state, frame, held, buf, outbuf,
                   err, size, out, verdict, retried>>

\* decoder.Read: a kept error, decoded bytes left over, or more to decode.
ReadCall(n) ==
    /\ pc = "idle"
    /\ IF err # "nil"
       THEN verdict' = err /\ UNCHANGED <<outbuf, pc, size, out>>
       ELSE IF outbuf # << >>
       THEN /\ out' = out \o First(outbuf, n)
            /\ outbuf' = Without(outbuf, n)
            /\ UNCHANGED <<pc, size, verdict>>
       ELSE /\ pc' = "read" /\ size' = n
            /\ UNCHANGED <<outbuf, out, verdict>>
    /\ UNCHANGED <<full, source, hiccups, seg, state, frame, held, buf, err,
                   retried>>

\* decoder.Read goes on reading until it has a block of digits.
Filling == pc = "read" /\ Len(buf) < DigitBlockLen /\ err = "nil"

\* Mutant of Wanted: the digits that are there already are not counted.
WantedFromStart == Min2(Max2((size \div BlockLen) * DigitBlockLen, DigitBlockLen), BufLen)

Wanted == Min2(Max2((size \div BlockLen) * DigitBlockLen, DigitBlockLen), BufLen)
            - Len(buf)

\* What framedDecoderStream.Read returned goes through the filteringReader: it
\* reads again, whatever the error, if nothing but white space has come.
Filtered(data, e) ==
    \/ ~AllValid(data) /\ err' = "Corrupt" /\ UNCHANGED buf
    \/ /\ AllValid(data) /\ DigitsIn(data) = << >>
       /\ err' = IF data = << >> THEN e ELSE "nil"
       /\ UNCHANGED buf
    \/ /\ AllValid(data) /\ DigitsIn(data) # << >>
       /\ buf' = buf \o DigitsIn(data) /\ err' = e

-----------------------------------------------------------------------------
\* framedDecoderStream.Read and loadHeader.

\* Mutant of Scanned: the end of the source is not the end of the loop.
ScannedPastEOF(r) ==
    IF r.err = "Punctuated" THEN "found"
    ELSE IF r.err = "Source" THEN "Source"
    ELSE IF Len(frame) + Len(r.data) >= FrameLim THEN "Overflow" ELSE "more"

\* One iteration of ReadUntilPunctuation.
Scanned(r) ==
    CASE r.err = "Punctuated" -> "found"
      [] r.err = "EOF"        -> "UnexpectedEOF"
      [] r.err = "Source"     -> "Source"
      [] r.err = "nil"        ->
            IF Len(frame) + Len(r.data) >= FrameLim THEN "Overflow"
            ELSE IF r.data = << >> THEN "UnexpectedEOF" ELSE "more"

Scan(r) == frame' = IF Scanned(r) = "more" THEN frame \o r.data ELSE << >>

\* The error of a frame that was not found or is not the right one.
FrameError(r) == IF Scanned(r) = "found" THEN "BadFrame" ELSE Scanned(r)

ScanHeader(r) ==
    /\ state = "header" /\ (Filling \/ pc = "getheader")
    /\ Take(r) /\ Scan(r)
    /\ \/ /\ Scanned(r) = "more"
          /\ UNCHANGED <<state, err, pc, retried>>
       \/ /\ Scanned(r) = "found" /\ HeaderOK(frame \o r.data)
          /\ state' = "body"
          /\ pc' = IF pc = "getheader" THEN "idle" ELSE pc
          /\ UNCHANGED <<err, retried>>
       \/ /\ Scanned(r) # "more"
          /\ ~(Scanned(r) = "found" /\ HeaderOK(frame \o r.data))
          /\ IF pc = "getheader"
             THEN pc' = "idle" /\ retried' = TRUE /\ UNCHANGED err
             ELSE err' = FrameError(r) /\ UNCHANGED <<pc, retried>>
          /\ UNCHANGED state
    /\ UNCHANGED <<held, buf, outbuf, size, out, verdict>>

\* Mutant of BodyError: the end of the source is passed on.
BodyErrorAsRead(r) == r.err

\* The source must not end before the punctuation.
BodyError(r) == IF r.err = "EOF" THEN "UnexpectedEOF" ELSE r.err

\* Mutant of ReadBody: what was read is returned before the footer is.
ReadBodyFirst(r) ==
    /\ Filling /\ state = "body"
    /\ Take(r)
    /\ state' = IF r.err = "Punctuated" THEN "footer" ELSE state
    /\ Filtered(r.data, IF r.err = "Punctuated" THEN "nil" ELSE BodyError(r))
    /\ UNCHANGED <<held, frame, outbuf, pc, size, out, verdict, retried>>

ReadBody(r) ==
    /\ Filling /\ state = "body"
    /\ Take(r)
    /\ CASE r.err = "Punctuated" ->
                /\ state' = "footer" /\ held' = r.data
                /\ UNCHANGED <<buf, err>>
         [] r.err = "nil" ->
                Filtered(r.data, "nil") /\ UNCHANGED <<state, held>>
         [] OTHER ->
                /\ err' = BodyError(r)
                /\ UNCHANGED <<state, held, buf>>
    /\ UNCHANGED <<frame, outbuf, pc, size, out, verdict, retried>>

ScanFooter(r) ==
    /\ Filling /\ state = "footer"
    /\ Take(r) /\ Scan(r)
    /\ \/ Scanned(r) = "more" /\ UNCHANGED <<state, held, err>>
       \/ /\ Scanned(r) = "found" /\ FooterOK(frame \o r.data)
          /\ state' = "end"
          /\ UNCHANGED <<held, err>>
       \/ /\ Scanned(r) # "more"
          /\ ~(Scanned(r) = "found" /\ FooterOK(frame \o r.data))
          /\ err' = FrameError(r) /\ held' = << >>
          /\ UNCHANGED state
    /\ UNCHANGED <<buf, outbuf, pc, size, out, verdict, retried>>

\* One iteration of consumeUntilEOF; its error does not hide what is held.
TrailerError(r) ==
    IF r.err # "nil" THEN r.err
    ELSE IF r.data = << >> THEN "EOF"
    ELSE IF ~AllValid(r.data) THEN "TrailingGarbage" ELSE "nil"

ReadTrailer(r) ==
    /\ Filling /\ state = "end"
    /\ Take(r)
    /\ IF TrailerError(r) = "nil" THEN UNCHANGED <<held, buf, err>>
       ELSE /\ Filtered(held, IF TrailerError(r) = "EOF" /\ held # << >>
                              THEN "nil" ELSE TrailerError(r))
            /\ held' = << >>
    /\ UNCHANGED <<state, frame, outbuf, pc, size, out, verdict, retried>>

-----------------------------------------------------------------------------
\* The end of decoder.Read.

\* Mutant of ReturnError: d.err is cleared.
ReturnErrorOnce ==
    /\ pc = "read"
    /\ err # "nil" /\ (err = "EOF" => buf = << >>)
    /\ pc' = "idle" /\ verdict' = err /\ err' = "nil"
    /\ UNCHANGED <<full, source, hiccups, seg, state, frame, held, buf, outbuf,
                   size, out, retried>>

ReturnError ==
    /\ pc = "read"
    /\ err # "nil" /\ (err = "EOF" => buf = << >>)
    /\ pc' = "idle" /\ verdict' = err
    /\ UNCHANGED <<full, source, hiccups, seg, state, frame, held, buf, outbuf,
                   err, size, out, retried>>

\* Mutant of Decodable: the end of the digits is not waited for.
EverythingDecodable == Len(buf)

\* Mutant of Decodable: a short block at the end is left behind.
WholeBlocksDecodable == (Len(buf) \div DigitBlockLen) * DigitBlockLen

\* Whole blocks, unless these are the last digits.
Decodable == IF err = "EOF" THEN Len(buf)
             ELSE (Len(buf) \div DigitBlockLen) * DigitBlockLen

ReturnBytes ==
    /\ pc = "read"
    /\ IF err = "EOF" THEN buf # << >> ELSE err = "nil" /\ ~Filling
    /\ LET decoded == Decode(First(buf, Decodable))
           given   == First(decoded.bytes, size)
       IN  /\ out' = out \o given
           /\ outbuf' = Without(decoded.bytes, size)
           /\ err' = IF decoded.ok THEN "nil" ELSE "InvalidLength"
           /\ verdict' = IF ~decoded.ok THEN "InvalidLength"
                         ELSE IF given = << >> /\ size # 0 THEN "EOF" ELSE verdict
    /\ buf' = Without(buf, Decodable)
    /\ pc' = "idle"
    /\ UNCHANGED <<full, source, hiccups, seg, state, frame, held, size, retried>>

-----------------------------------------------------------------------------

Step ==
    \/ \E r \in PunctuatedReads(ScanLen, TRUE) :
            ScanHeader(r) \/ ScanFooter(r) \/ ReadTrailer(r)
    \/ \E n \in 1 .. BufLen :     \* the length of d.buf[d.nbuf:nn]
        n = Wanted /\ \E r \in PunctuatedReads(n, FALSE) : ReadBody(r)
    \/ ReturnError \/ ReturnBytes

Next == GetHeaderCall \/ (\E n \in ReadSizes : ReadCall(n)) \/ Step

Spec == Init /\ [][Next]_vars

\* A call goes on, and the caller reads until it has an error; it may ask for
\* the header in between, but not instead.
FairSpec ==
    /\ Spec
    /\ WF_vars(Step)
    /\ SF_vars(\E n \in ReadSizes \ {0} : ReadCall(n))

-----------------------------------------------------------------------------
(* Properties.                                                             *)

Body == Decode(DigitsIn(BodyOf(full))).bytes

\* However the source cuts the text into reads, what the decoder has returned
\* is a prefix of the bytes of the body: no digit is lost, doubled or moved
\* between thisSegment, nextSegment, the caller's buffer and decoder.buf.
BodyPrefix == ~retried => IsPrefix(out, Body)

\* io.EOF means that header, body and footer were all there and all right, and
\* that every byte of the body has been returned, though decoder.Read returns
\* bytes before the frames are checked.
AcceptedMessage ==
    verdict = "EOF" /\ ~retried => GoodMessage(full) /\ out = Body

\* The end of the source becomes the end of the body only behind a footer: all
\* three sentences were ended, the two frames were the right ones, and the body
\* held no foreign character, however the text was cut into reads.
FramesBeforeEOF ==
    err = "EOF" /\ ~retried =>
        /\ Framed(full) /\ HeaderOK(HeaderOf(full))
        /\ AllValid(BodyOf(full)) /\ FooterOK(FooterOf(full))

\* Nothing but the text decides: a good message is never refused because of
\* the way its source or its reader cut it.
NoFalseAlarm ==
    /\ source = "plain" /\ hiccups = 0
    /\ GoodMessage(full) /\ AllValid(TrailerOf(full))
    /\ Len(HeaderOf(full)) < FrameLim /\ Len(FooterOf(full)) < FrameLim
    => err \in {"nil", "EOF"} /\ verdict \in {"nil", "EOF"} /\ ~retried

\* punctuatedReader may keep a slice of the buffer of the reader above, but no
\* call returns to the caller, who may reuse it, while it still needs it.
BorrowedNeverKept ==
    pc = "idle" /\ err = "nil" /\ seg.borrowed
        => seg.this = << >> /\ seg.next = << >>

\* Once decoder.Read has returned an error, no Read returns anything else.
VerdictIsFinal == [][verdict # "nil" => UNCHANGED <<verdict, out>>]_vars

\* Every reader gets an answer: no loop of the four readers spins for ever.
Answered == <>(verdict # "nil")

-----------------------------------------------------------------------------
(* What comments of the code claim, and the code does not do.              *)

\* "consume the stream until we hit an EOF. For all data we consume, make sure
\* that it's a valid byte" (armor.go:253): a message that is accepted is
\* followed by nothing but digits and white space.  filteringReader drops the
\* error when the last piece of the body was white space.
TrailerChecked ==
    verdict = "EOF" /\ hiccups = 0 /\ ~retried => AllValid(TrailerOf(full))

\* "reads until it hits a usual error OR until it hits a punctuation
\* character" (punctuated_reader.go:12): a good message is not refused for
\* punctuation that the source handed out.  Read does not search the data
\* that comes together with io.EOF.
PunctuationSeen ==
    GoodMessage(full) /\ TrailerOf(full) = << >> /\ hiccups = 0
        => verdict \in {"nil", "EOF"}
=============================================================================
