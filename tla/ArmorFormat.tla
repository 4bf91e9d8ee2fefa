----------------------------- MODULE ArmorFormat -----------------------------
(***************************************************************************)
(* The armored text of a message (armor.go, armor62.go): a header frame, a *)
(* body of base X digits in words, and a footer frame, each ended by a     *)
(* punctuation character.                                                  *)
(*                                                                         *)
(* A character is a digit of the alphabet (0 .. Base-1), one that is       *)
(* skipped (white space and '>'), the punctuation, or a foreign one.       *)
(***************************************************************************)
EXTENDS BaseX

CONSTANTS Header,           \* the frame texts the encoder writes, and the
          Footer,           \*   only ones the checkers accept
          BytesPerWord      \* Armor62Params.BytesPerWord

ASSUME BytesPerWordAssumption == BytesPerWord \in Nat \ {0}

Skip  == Base
Punct == Base + 1
Bad   == Base + 2
Char  == 0 .. Base + 2

IsDigit(c) == c < Base

\* Encoding.IsValidByte
IsValidByte(c) == c <= Skip

DigitsIn(s) ==
    FlattenSeq([i \in DOMAIN s |-> IF IsDigit(s[i]) THEN <<s[i]>> ELSE << >>])

AllValid(s) == \A i \in DOMAIN s : IsValidByte(s[i])

\* makeFrame joins words with spaces.  The brand among them is a word of digits
\* too: nothing checks it, it is up to the caller.
ASSUME FrameAssumption ==
    /\ Header \in Seq(Char) /\ AllValid(Header)
    /\ Footer \in Seq(Char) /\ AllValid(Footer)

\* In a frame, a digit stands for a word (BEGIN, the brand, ...).  toASCII and
\* the HeaderChecker want the right words, whatever the space between them.
HeaderOK(h) == AllValid(h) /\ DigitsIn(h) = DigitsIn(Header)

\* toASCII and the FrameChecker, for a header that has passed.
FooterOK(f) == AllValid(f) /\ DigitsIn(f) = DigitsIn(Footer)

-----------------------------------------------------------------------------
\* A text is cut at its punctuation.

PunctAt(s) == SelectInSeq(s, LAMBDA c : c = Punct)

HasPunct(s) == PunctAt(s) # 0

BeforePunct(s) == IF HasPunct(s) THEN SubSeq(s, 1, PunctAt(s) - 1) ELSE s

AfterPunct(s) ==
    IF HasPunct(s) THEN SubSeq(s, PunctAt(s) + 1, Len(s)) ELSE << >>

HeaderOf(text)  == BeforePunct(text)
BodyOf(text)    == BeforePunct(AfterPunct(text))
FooterOf(text)  == BeforePunct(AfterPunct(AfterPunct(text)))
TrailerOf(text) == AfterPunct(AfterPunct(AfterPunct(text)))

\* All three sentences are ended.
Framed(text) == HasPunct(AfterPunct(AfterPunct(text)))

\* Nothing about the text is wrong, up to the end of the footer.
GoodMessage(text) ==
    /\ Framed(text)
    /\ HeaderOK(HeaderOf(text))
    /\ AllValid(BodyOf(text)) /\ Decode(DigitsIn(BodyOf(text))).ok
    /\ FooterOK(FooterOf(text))

-----------------------------------------------------------------------------
\* What the encoder makes of a byte string.

SpacedWords(digits) ==
    LET words == BlocksOf(digits, BytesPerWord)
    IN  FlattenSeq([i \in DOMAIN words |->
            IF Len(words[i]) = BytesPerWord THEN Append(words[i], Skip)
                                            ELSE words[i]])

ArmorSeal(bytes) ==
    Header \o <<Punct, Skip>> \o SpacedWords(Encode(bytes))
        \o <<Punct, Skip>> \o Footer \o <<Punct, Skip>>
=============================================================================
