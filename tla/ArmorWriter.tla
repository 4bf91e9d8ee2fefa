----------------------------- MODULE ArmorWriter -----------------------------
(***************************************************************************)
(* The stream that puts the armor on: encoder (encoding/basex/stream.go)   *)
(* under armorEncoderStream (armor.go), over an io.Writer that may fail.   *)
(* Its caller is in ArmoredStream.                                         *)
(***************************************************************************)
EXTENDS ArmorFormat

CONSTANT MaxFailures    \* bound on failing writes of the io.Writer

ASSUME MaxFailuresAssumption == MaxFailures \in Nat

VARIABLES written,      \* history: the bytes passed to Write so far
          waiting,      \* encoder.buf[:nbuf]: less than a block of bytes
          digits,       \* armorEncoderStream.buf: digits without a place yet
          text,         \* what has reached the io.Writer
          pc,           \* "idle", "write" or "close"
          failures,
          result,       \* history: how the last call ended, "none", "ok", "err"
          closed,       \* history: Close has been called
          resumed       \* history: a call came after an error or after Close

armorVars == <<written, waiting, digits, text, pc, failures, result, closed,
               resumed>>

ArmorTypeOK ==
    /\ written \in Seq(0 .. ByteBase - 1)
    /\ waiting \in Seq(0 .. ByteBase - 1) /\ Len(waiting) < BlockLen
    /\ digits \in Seq(0 .. Base - 1)
    /\ text \in Seq(Char)
    /\ pc \in {"idle", "write", "close"}
    /\ failures \in 0 .. MaxFailures
    /\ result \in {"none", "ok", "err"}
    /\ closed \in BOOLEAN /\ resumed \in BOOLEAN

\* newArmorEncoderStream has written the header.
ArmorInit ==
    /\ written = << >> /\ waiting = << >> /\ digits = << >>
    /\ text = Header \o <<Punct, Skip>>
    /\ pc = "idle" /\ failures = 0
    /\ result = "none" /\ closed = FALSE /\ resumed = FALSE

-----------------------------------------------------------------------------
\* encoder.Write: its leading fringe completes the block that waits; only if
\* that is full there are large interior chunks and a trailing fringe.

First(s, n) == SubSeq(s, 1, IF n < Len(s) THEN n ELSE Len(s))
Without(s, n) == SubSeq(s, n + 1, Len(s))

LeadingLen(p) ==
    IF waiting = << >> THEN 0
    ELSE IF Len(p) < BlockLen - Len(waiting) THEN Len(p)
    ELSE BlockLen - Len(waiting)

\* Mutant of InteriorLen: the last whole block is left for later.
InteriorLessABlock(q) ==
    IF Len(q) = 0 THEN 0 ELSE ((Len(q) - 1) \div BlockLen) * BlockLen

InteriorLen(q) == (Len(q) \div BlockLen) * BlockLen

Encoded(p) ==
    LET block == waiting \o First(p, LeadingLen(p))
        rest  == Without(p, LeadingLen(p))
        n     == InteriorLen(rest)
    IN  IF waiting # << >> /\ Len(block) < BlockLen
        THEN [digits |-> << >>, left |-> block]
        ELSE [digits |-> Encode(block) \o Encode(First(rest, n)),
              left   |-> Without(rest, n)]

Call ==
    /\ pc = "idle"
    /\ resumed' = (resumed \/ closed \/ result = "err")
    /\ UNCHANGED <<text, failures, result>>

WriteCall(p) ==
    /\ Call
    /\ written' = written \o p
    /\ waiting' = Encoded(p).left
    /\ digits' = digits \o Encoded(p).digits
    /\ pc' = "write"
    /\ UNCHANGED closed

\* encoder.Close encodes what waits.
CloseCall ==
    /\ Call
    /\ digits' = digits \o Encode(waiting)
    /\ waiting' = << >>
    /\ pc' = "close" /\ closed' = TRUE
    /\ UNCHANGED written

-----------------------------------------------------------------------------
\* A write of the io.Writer fails when a part of s has reached it, and the
\* call returns the error.  Nothing remembers it.
EmitFails(s) ==
    /\ failures < MaxFailures /\ failures' = failures + 1
    /\ \E n \in 0 .. Len(s) : text' = text \o First(s, n)
    /\ pc' = "idle" /\ result' = "err"

\* Mutant of HasWord: the buffer is emptied, the last word before it is full.
HasSomething == digits # << >>

HasWord == Len(digits) > BytesPerWord

\* spaceAndOutputBuffer: a word and the space after it.  The digits are taken
\* from the buffer before they are written.
PutWord ==
    /\ pc \in {"write", "close"} /\ HasWord
    /\ LET word == Append(First(digits, BytesPerWord), Skip)
       IN  \/ text' = text \o word /\ UNCHANGED <<pc, failures, result>>
           \/ EmitFails(word)
    /\ digits' = Without(digits, BytesPerWord)
    /\ UNCHANGED <<written, waiting, closed, resumed>>

WriteReturns ==
    /\ pc = "write" /\ ~HasWord
    /\ pc' = "idle" /\ result' = "ok"
    /\ UNCHANGED <<written, waiting, digits, text, failures, closed, resumed>>

\* Mutant of LastWord: no space after a last word that is full.
LastWordUnspaced == digits

LastWord == IF Len(digits) = BytesPerWord THEN Append(digits, Skip) ELSE digits

\* The last word, still in the buffer afterwards, and the footer.
CloseReturns ==
    /\ pc = "close" /\ ~HasWord
    /\ LET ending == LastWord \o <<Punct, Skip>> \o Footer \o <<Punct, Skip>>
       IN  \/ /\ text' = text \o ending
              /\ pc' = "idle" /\ result' = "ok"
              /\ UNCHANGED failures
           \/ EmitFails(ending)
    /\ UNCHANGED <<written, waiting, digits, closed, resumed>>

-----------------------------------------------------------------------------

ArmorGoesOn == PutWord \/ WriteReturns \/ CloseReturns

-----------------------------------------------------------------------------
(* Properties.                                                             *)

\* However the caller cuts its bytes into calls of Write, a Close that returns
\* nil leaves the text that armoring them all at once gives.
TextComplete ==
    closed /\ result = "ok" /\ ~resumed /\ pc = "idle"
        => text = ArmorSeal(written)

\* At any time, after a failed write too, what the io.Writer has received is
\* the beginning of that text: nothing is written that more bytes, or the
\* Close, would have put differently.
TextIsPrefix == ~resumed => IsPrefix(text, ArmorSeal(written))
=============================================================================
