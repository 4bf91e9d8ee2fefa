-------------------------------- MODULE BaseX --------------------------------
(***************************************************************************)
(* The block codec under the armor (encoding/basex/encoding.go): blocks of *)
(* BlockLen bytes become blocks of digits in some base, big-endian, and    *)
(* only the last block of a stream may be shorter.                         *)
(***************************************************************************)
EXTENDS Naturals, SequencesExt

CONSTANTS ByteBase,     \* the number of values of a byte
          Base,         \* the length of the alphabet
          BlockLen      \* base256BlockLen

\* Every digit of the alphabet is a byte of its own (decodeMap), and the
\* logarithm to the base must not be 0.
ASSUME BaseAssumption ==
    /\ ByteBase \in Nat \ {0, 1}
    /\ Base \in 2 .. ByteBase
    /\ BlockLen \in Nat \ {0}

-----------------------------------------------------------------------------
\* b to the power of n.
Power(b, n) ==
    LET power[i \in Nat] == IF i = 0 THEN 1 ELSE b * power[i - 1]
    IN  power[n]

-----------------------------------------------------------------------------
\* Lengths.  The code takes ceilings and floors of n * log(ByteBase, Base).

\* The least number of digits that can tell n bytes apart.
DigitsFor(n) ==
    CHOOSE k \in 0 .. n * ByteBase :
        /\ Power(Base, k) >= Power(ByteBase, n)
        /\ \A j \in 0 .. k - 1 : Power(Base, j) < Power(ByteBase, n)

\* The greatest number of bytes that n digits can tell apart.
BytesIn(n) ==
    CHOOSE k \in 0 .. n * Base :
        /\ Power(ByteBase, k) <= Power(Base, n)
        /\ Power(ByteBase, k + 1) > Power(Base, n)

\* baseXBlockLen
DigitBlockLen == DigitsFor(BlockLen)

EncodedLen(n) == (n \div BlockLen) * DigitBlockLen + DigitsFor(n % BlockLen)

\* A full block has BlockLen bytes, even if its digits could hold more.
DecodedLen(n) == (n \div DigitBlockLen) * BlockLen + BytesIn(n % DigitBlockLen)

\* A shorter encoding would not have done.
IsValidEncodingLength(n) == n = DigitBlockLen \/ BytesIn(n) # BytesIn(n - 1)

-----------------------------------------------------------------------------
\* Numbers and their digits, most significant first.

ValueOf(digits, base) ==
    LET value[i \in 0 .. Len(digits)] ==
            IF i = 0 THEN 0 ELSE value[i - 1] * base + digits[i]
    IN  value[Len(digits)]

DigitsOf(value, base, len) ==
    [i \in 1 .. len |-> (value \div Power(base, len - i)) % base]

\* big.Int.Bytes: without leading zeros.
MinimalBytes(value) ==
    LET len == CHOOSE k \in 0 .. value :
                    /\ value < Power(ByteBase, k)
                    /\ k = 0 \/ value >= Power(ByteBase, k - 1)
    IN  DigitsOf(value, ByteBase, len)

-----------------------------------------------------------------------------

EncodeBlock(bytes) ==
    DigitsOf(ValueOf(bytes, ByteBase), Base, EncodedLen(Len(bytes)))

\* A value too large for the block loses its low-order bytes, silently.
DecodeBlock(digits) ==
    LET raw == MinimalBytes(ValueOf(digits, Base))
        len == DecodedLen(Len(digits))
    IN  IF Len(raw) < len
        THEN [i \in 1 .. len - Len(raw) |-> 0] \o raw
        ELSE SubSeq(raw, 1, len)

\* The blocks of n elements that s consists of, the last one perhaps shorter.
BlocksOf(s, n) ==
    [i \in 1 .. (Len(s) + n - 1) \div n |->
        SubSeq(s, (i - 1) * n + 1, IF i * n < Len(s) THEN i * n ELSE Len(s))]

Encode(bytes) ==
    LET blocks == BlocksOf(bytes, BlockLen)
    IN  FlattenSeq([i \in DOMAIN blocks |-> EncodeBlock(blocks[i])])

\* Decode returns what it could decode, and whether all of it was decoded.
Decode(digits) ==
    LET blocks   == BlocksOf(digits, DigitBlockLen)
        Valid(i) == IsValidEncodingLength(Len(blocks[i]))
    IN  [bytes |-> FlattenSeq([i \in DOMAIN blocks |->
                        IF Valid(i) THEN DecodeBlock(blocks[i]) ELSE << >>]),
         ok    |-> \A i \in DOMAIN blocks : Valid(i)]
=============================================================================
