------------------------------- MODULE Classify -------------------------------
(***************************************************************************)
(* Recognising a message by its beginning (classify_and_decrypt.go), and   *)
(* the armor frames that decoders then parse (frame.go).                   *)
(*                                                                         *)
(* A text is a sequence of pieces: halves of the words of frames and       *)
(* brands, white space, punctuation, "d" for some digits of the body, and  *)
(* "-" for any other byte.  No piece begins another one, so that words are *)
(* equal, or one begins another, exactly if their pieces do.               *)
(***************************************************************************)
EXTENDS Naturals, FiniteSets, SequencesExt

CONSTANTS Brands,       \* words, << >> for none
          Strays,       \* pieces that may get into a text
          Gaps,         \* runs of white space that may get into a text
          MaxFrameLength, MaxBrandLength,   \* 512 and 128 bytes (frame.go)
          BinaryLens,   \* lengths of binary streams
          Sizes,        \* sizes of the bufio.Reader
          MaxFailures   \* bound on source reads that fail

Space == " "
Dot == "."
Piece == {"BE", "GIN", "SALT", "PACK", "ENCR", "YPTED", "MESS", "AGE", "SIGN",
          "ED", "DETA", "CHED", "ATURE", "BR", "d", Space, Dot, "-"}

ASSUME ClassifyAssumption ==
    /\ Brands \subseteq Seq(Piece \ {Space, Dot, "-"}) /\ Strays \subseteq Piece
    /\ Gaps \subseteq Seq({Space}) /\ MaxFrameLength \in Nat /\ MaxBrandLength \in Nat
    /\ BinaryLens \subseteq Nat /\ Sizes \subseteq Nat /\ MaxFailures \in Nat

VARIABLES input,        \* what the source holds
          size,         \* size of the buffer
          got,          \* how many pieces of it are in the buffer
          failures,
          pc,           \* "armored", "binary" or "done": the Peek under way
          answer,       \* what ClassifyStream returns
          decoder       \* what ClassifyEncryptedStreamAndMakeDecoder makes

vars == <<input, size, got, failures, pc, answer, decoder>>

MessageTypes == {"encryption", "signcryption", "attached", "detached"}

\* Halves of words are taken to have four bytes, a piece of the body fifteen.
Bytes(text) ==
    LET Count(pieces) == Cardinality({ i \in DOMAIN text : text[i] \in pieces })
    IN  Count({Space, Dot, "-"}) + 15 * Count({"d"})
            + 4 * Count(Piece \ {Space, Dot, "-", "d"})

-----------------------------------------------------------------------------
\* Frames.

\* Up to the first of the stops, or all of it.
Before(text, stops) ==
    SubSeq(text, 1, SelectInSeq(Append(text, CHOOSE p \in stops : TRUE),
                                LAMBDA p : p \in stops) - 1)

\* One more piece, behind another one.
AddPiece(words, before, piece) ==
    IF piece = Space THEN words
    ELSE IF before = Space THEN Append(words, <<piece>>)
    ELSE [words EXCEPT ![Len(words)] = Append(@, piece)]

\* What regexps and strings.Split take a text for: runs of anything but space.
WordsOf(text) ==
    LET words[n \in 0 .. Len(text)] ==
            IF n = 0 THEN << >>
            ELSE AddPiece(words[n - 1], IF n = 1 THEN Space ELSE text[n - 1], text[n])
    IN  words[Len(text)]

\* Up to the punctuation, and after it.
Sentence(text) == Before(text, {Dot})
AfterDot(text) == SubSeq(text, Len(Sentence(text)) + 2, Len(text))

BeginWord == <<"BE", "GIN">>
FormatWord == <<"SALT", "PACK">>

\* Signcrypted messages have the frame of encrypted ones.
StringForType(type) ==
    CASE type \in {"encryption", "signcryption"} ->
            <<<<"ENCR", "YPTED">>, <<"MESS", "AGE">>>>
      [] type = "attached" -> <<<<"SIGN", "ED">>, <<"MESS", "AGE">>>>
      [] type = "detached" -> <<<<"DETA", "CHED">>, <<"SIGN", "ATURE">>>>

MakeFrame(type, brand) ==
    <<BeginWord>> \o (IF brand = << >> THEN << >> ELSE <<brand>>)
        \o <<FormatWord>> \o StringForType(type)

\* The brand of a frame of this type, "bad" if it is none: what the regular
\* expression of the classification and parseFrame look for alike.
FrameBrand(sentence, type) ==
    LET words == WordsOf(sentence)
        n == Len(words)
    IN  IF /\ n \in {4, 5} /\ words[1] = BeginWord
           /\ SubSeq(words, n - 1, n) = StringForType(type)
           /\ words[n - 2] = FormatWord
        THEN IF n = 5 THEN words[2] ELSE << >>
        ELSE <<"bad">>

\* toASCII takes the white space around a frame away.
Trimmed(sentence) ==
    LET solid == { i \in DOMAIN sentence : sentence[i] # Space }
    IN  IF solid = {} THEN << >> ELSE SubSeq(sentence, Min(solid), Max(solid))

\* Only parseFrame has limits; makeFrame and the regular expression have none.
TooLong(sentence, brand) ==
    \/ Bytes(Trimmed(sentence)) > MaxFrameLength
    \/ Bytes(brand) > MaxBrandLength

ParseFrame(sentence, type) ==
    LET brand == FrameBrand(sentence, type)
    IN  IF TooLong(sentence, brand) THEN <<"bad">> ELSE brand

-----------------------------------------------------------------------------
\* The beginning of the first packet: lengths of the bin and array tags, 0 for
\* other bytes; whether the name is "saltpack"; the type, "other" for unknown.

Garbage == [bin |-> 0, array |-> 0, name |-> FALSE, type |-> "other"]

BinaryHeaders ==
    [bin : {0, 2, 3, 5}, array : {0, 1, 3, 5}, name : BOOLEAN,
     type : MessageTypes \union {"other"}]

\* What our own encoder writes: no tag longer than needed.
OwnHeader(type) == [bin |-> 2, array |-> 1, name |-> TRUE, type |-> type]

MinLengthToIdentifyBinary == 23

\* A name has 9 bytes, a version 3, a type 1.
IsSaltpackBinarySlice(h, n) ==
    IF n < MinLengthToIdentifyBinary THEN "short"
    ELSE IF /\ h.bin # 0 /\ h.array # 0 /\ h.name /\ h.type # "other"
            /\ h.bin + h.array + 9 + 3 + 1 <= n
         THEN h.type
    ELSE "not"

-----------------------------------------------------------------------------
\* Armored texts.

BlockDigits == 43

\* Space among digits is passed over.
DigitsIn(body) ==
    FlattenSeq([i \in DOMAIN body |-> IF body[i] = Space THEN << >> ELSE <<body[i]>>])

\* The first block is the one that was written only if all its digits are; a
\* part of it decodes to something else.
DecodedHeader(in, digits) ==
    IF \E i \in DOMAIN digits :
        digits[i] # "d" /\ Bytes(SubSeq(digits, 1, i - 1)) < BlockDigits
    THEN in.damaged
    ELSE IF Bytes(digits) < BlockDigits THEN Garbage ELSE in.header

\* Mutant of FullBlock: what is there is taken for a short block.
AnyBlock(digits) == digits # << >>

\* 43 digits make a block of 32 bytes.
FullBlock(digits) == Bytes(digits) >= BlockDigits

\* Mutant of FrameFits: any frame will do for any header.
AnyFrame(type, frame) == TRUE

FrameFits(type, frame) == StringForType(type) = StringForType(frame)

Plain(text) == \A i \in DOMAIN text : text[i] \notin {Dot, "-"}

\* The words are the beginning of those of the frame.
Begins(words, frame) ==
    words = << >> \/
        /\ Len(words) <= Len(frame)
        /\ Front(words) = SubSeq(frame, 1, Len(words) - 1)
        /\ IsPrefix(Last(words), frame[Len(words)])

Joins(words) ==
    \E type \in MessageTypes : Begins(words, MakeFrame(type, << >>))

\* Mutant of FrameBegins: as if there were no brands.
FrameBeginsUnbranded(words) == Joins(words)

\* With the second word, and without it: it may be a brand.
FrameBegins(words) == Joins(words) \/ Joins(RemoveAt(words, 2))

\* No header yet: is it the beginning of one?
HeaderToCome(text) ==
    LET words == WordsOf(text)
    IN  /\ Plain(text) /\ Len(words) <= 5
        /\ CASE Len(words) <= 1 -> Begins(words, <<BeginWord>>)
             [] Len(words) = 2  -> words[1] = BeginWord
             [] OTHER -> FrameBegins(words)

NoAnswer(why) == [type |-> why, brand |-> << >>]

\* The brand is part of the regular expression: letters and digits.
IsSaltpackArmoredPrefix(in, text) ==
    LET sentence == Sentence(text)
        frames == { t \in MessageTypes :
                        /\ Dot \in Range(text) /\ Plain(sentence)
                        /\ FrameBrand(sentence, t) # <<"bad">> }
        digits == DigitsIn(Before(AfterDot(text), {Dot, "-"}))
        type == IsSaltpackBinarySlice(DecodedHeader(in, digits), 32)
    IN  IF frames = {}
        THEN NoAnswer(IF HeaderToCome(text) THEN "short" ELSE "not")
        ELSE IF ~FullBlock(digits) THEN NoAnswer("short")
        ELSE IF type \notin MessageTypes
                \/ \A t \in frames : ~FrameFits(type, t)
             THEN NoAnswer("not")
        ELSE [type |-> type,
              brand |-> FrameBrand(sentence, CHOOSE t \in frames : TRUE)]

-----------------------------------------------------------------------------
\* Streams.

\* Words, a space between every two.
Spaced(words) ==
    FlattenSeq([i \in DOMAIN words |->
        words[i] \o IF i < Len(words) THEN <<Space>> ELSE << >>])

\* The text of an armored message up to its second punctuation.
ArmoredText(type, brand) ==
    Spaced(MakeFrame(type, brand)) \o <<Dot, Space, "d", "d", Space, "d", "d", Dot>>

\* One piece is lost, replaced or new, a gap is new, or the text is cut off.
Altered(text) ==
    { RemoveAt(text, i) : i \in DOMAIN text }
        \union { [text EXCEPT ![i] = p] : i \in DOMAIN text, p \in Strays }
        \union { InsertAt(text, i, p) : i \in DOMAIN text, p \in Strays }
        \union { SubSeq(text, 1, i) \o gap \o SubSeq(text, i + 1, Len(text)) :
                    i \in DOMAIN text, gap \in Gaps }
        \union { SubSeq(text, 1, i) : i \in 0 .. Len(text) }

ArmoredInputs ==
    LET Input(t, b, h, d, text) ==
            [armored |-> TRUE, text |-> text, header |-> h, damaged |-> d,
             type |-> h.type, brand |-> b,
             genuine |-> /\ StringForType(h.type) = StringForType(t)
                         /\ WordsOf(text) = WordsOf(ArmoredText(t, b))]
    IN  UNION { { Input(t, b, OwnHeader(own), Garbage, ArmoredText(t, b)) :
                        own \in MessageTypes }
                    \union { Input(t, b, OwnHeader(t), d, text) :
                                d \in {Garbage, OwnHeader(t)},
                                text \in Altered(ArmoredText(t, b)) } :
                t \in {"encryption", "attached", "detached"}, b \in Brands }

BinaryInputs ==
    { [armored |-> FALSE, text |-> [i \in 1 .. n |-> "-"], header |-> h,
       damaged |-> Garbage, type |-> h.type, brand |-> << >>,
       genuine |-> /\ h.name /\ h.bin # 0 /\ h.array # 0 /\ h.type # "other"
                   /\ n >= MinLengthToIdentifyBinary] :
        n \in BinaryLens, h \in BinaryHeaders }

PrefixOf(n) == SubSeq(input.text, 1, n)
Prefix == PrefixOf(got)

BinaryPrefix == IF input.armored THEN Garbage ELSE input.header

\* What a caller who holds the first n pieces as a slice is told.
ArmoredSlice(n) == IsSaltpackArmoredPrefix(input, PrefixOf(n)).type
BinarySlice(n) == IsSaltpackBinarySlice(BinaryPrefix, Bytes(PrefixOf(n)))

Init ==
    /\ input \in ArmoredInputs \union BinaryInputs
    /\ size \in Sizes /\ got = 0 /\ failures = 0
    /\ pc = "armored" /\ answer = [armored |-> FALSE, type |-> "none", brand |-> << >>]
    /\ decoder = "none"

\* Peek(n) has what it wants, or its buffer is full.
Enough(n) ==
    \/ Bytes(Prefix) >= n
    \/ got < Len(input.text) /\ Bytes(PrefixOf(got + 1)) > size

Wanted == IF pc = "armored" THEN size ELSE MinLengthToIdentifyBinary

Fill ==
    /\ pc # "done" /\ ~Enough(Wanted) /\ got < Len(input.text)
    /\ got' = got + 1
    /\ UNCHANGED <<input, size, failures, pc, answer, decoder>>

\* A Peek that is not satisfied ends with the source, or with an error of it,
\* which bufio.Reader returns once.
PeekEnds(err) ==
    /\ CASE err = "nil" -> Enough(Wanted)
         [] err = "EOF" -> ~Enough(Wanted) /\ got = Len(input.text)
         [] OTHER -> ~Enough(Wanted) /\ failures < MaxFailures
    /\ failures' = IF err = "source" THEN failures + 1 ELSE failures
    /\ UNCHANGED <<input, size, got>>

\* Mutant of DecoderFor: the other types are not told apart.
SomeDecoder(type) == IF type = "encryption" THEN "decrypt" ELSE "signcrypt open"

\* The others are ErrWrongMessageType.
DecoderFor(type) ==
    CASE type = "encryption" -> "decrypt"
      [] type = "signcryption" -> "signcrypt open"
      [] OTHER -> "none"

Answers(armored, a) ==
    /\ pc' = "done"
    /\ answer' = [armored |-> armored, type |-> a.type, brand |-> a.brand]
    /\ decoder' = IF a.type \in MessageTypes THEN DecoderFor(a.type) ELSE "none"

IsSaltpackArmored(err) ==
    LET a == IF err = "source" \/ got = 0 THEN NoAnswer(err)
             ELSE IsSaltpackArmoredPrefix(input, Prefix)
    IN  /\ pc = "armored" /\ PeekEnds(err)
        /\ IF a.type \in MessageTypes \/ a.type = "short"
           THEN Answers(a.type # "short", a)
           ELSE pc' = "binary" /\ UNCHANGED <<answer, decoder>>

\* Peek reports a buffer that is too small before anything else.
IsSaltpackBinary(err) ==
    /\ pc = "binary" /\ PeekEnds(err)
    /\ Answers(FALSE, NoAnswer(
            IF size < MinLengthToIdentifyBinary THEN "short"
            ELSE IF err # "nil" THEN err
            ELSE IsSaltpackBinarySlice(BinaryPrefix, MinLengthToIdentifyBinary)))

Next ==
    \/ Fill
    \/ \E err \in {"nil", "EOF", "source"} :
        IsSaltpackArmored(err) \/ IsSaltpackBinary(err)

Spec == Init /\ [][Next]_vars

-----------------------------------------------------------------------------
(* Properties.                                                             *)

\* ClassifyStream says "armored" and a brand only with a type.
TypeOK ==
    /\ got \in 0 .. Len(input.text) /\ Bytes(Prefix) <= size
    /\ failures \in 0 .. MaxFailures
    /\ pc \in {"armored", "binary", "done"}
    /\ answer.type \in MessageTypes \union {"none", "short", "not", "EOF", "source"}
    /\ answer.armored \/ answer.brand # << >> => answer.type \in MessageTypes
    /\ decoder \in {"none", "decrypt", "signcrypt open"}
    /\ decoder # "none" => answer.type \in {"encryption", "signcryption"}

\* What is said of the beginning of a stream, for either kind of message, is
\* not taken back when more of it is seen: ErrShortSliceOrBuffer is the only
\* answer to ask again after.  Every input, good or bad.
AnswerStands ==
    [][/\ ArmoredSlice(got) \in {"short", ArmoredSlice(got')}
       /\ BinarySlice(got) \in {"short", BinarySlice(got')}
      ]_vars

\* No beginning of a message of ours is denied or taken for another type,
\* wherever it is cut, whatever its brand and white space, even a brand that is
\* itself a word of frames; and the whole of it is recognised, if the buffer is
\* large enough and the source does not fail.
NeverDenied ==
    input.genuine =>
        /\ IF input.armored THEN ArmoredSlice(got) \in {"short", input.type}
           ELSE BinarySlice(got) \in {"short", input.type}
        /\ pc = "done" /\ failures = 0 =>
            \/ answer = [armored |-> input.armored, type |-> input.type,
                         brand |-> input.brand]
            \/ answer.type = "short" /\ size < Bytes(input.text)

\* If an armored stream gets a decoder, that decoder finds the frame it wants,
\* with the brand that the classification has found, good or bad as the text may
\* be: the regular expression of one and parseFrame of the other agree, but for
\* frames and brands that are over parseFrame's limits.  Those are classified,
\* and the decoder that is made refuses them.
RightDecoder ==
    decoder # "none" /\ answer.armored =>
        LET type == IF decoder = "decrypt" THEN "encryption" ELSE "signcryption"
            sentence == Sentence(input.text)
        IN  ParseFrame(sentence, type) =
                IF TooLong(sentence, answer.brand) THEN <<"bad">> ELSE answer.brand
=============================================================================
