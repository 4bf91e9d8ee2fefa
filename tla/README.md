# TLA+ models of saltpack

TLA+ specifications of the Go implementation of saltpack (`src/`), the TLC
configurations that check them on small instances, and TLAPS proofs about the
core. Every definition is translated from the source; `PROJECT.json` gives the
lines of each.

## 1. The system

saltpack is a library. Nothing in it runs by itself: a caller creates a stream
on top of an `io.Writer` or `io.Reader` and calls `Write`, `Close` or `Read`.
What makes it hard is therefore not threads but

- *call sequences*: calls after an error, calls after `Close`, buffers of any
  length, readers stacked on readers that return data and errors together;
- *what is in between*: a sender and a receiver are joined by bytes that may be
  lost, doubled, reordered, spliced, cut or altered, and the receiver has to
  hand out plaintext before it has seen the end;
- *positions*: block numbers, places in a header and nonces are not sent but
  counted, on both sides.

| component | state | operations | what makes it correct |
|---|---|---|---|
| sealing streams (`encrypt.go`, `sign_stream.go`, `signcrypt_seal.go`) | `buffer`, `numBlocks`/`seqno`, `err` | `Write`, `Close`, one block at a time | no byte is lost or doubled between calls and blocks; exactly one final block, the last; the sanity checks that panic never fire for a proper caller |
| opening streams (`chunk_reader.go`, `decrypt.go`, `verify_stream.go`, `signcrypt_open.go`) | `seqno`, `prevChunk`, `prevErr` | `Read` over `getNextChunk` and `assertEndOfStream` | a prefix of what was sealed whatever the faults; `io.EOF` only for a whole message; an error is final |
| headers and keys (`init` and `processHeader` of encryption and signcryption) | receivers and their places, keyring, `MessageKeyInfo` | building, validating, searching the header, the first packet | a receiver finds its key wherever it is; nobody else does; `MessageKeyInfo` is true; no nonce is used twice |
| headers of signed messages, detached signatures (`sign_stream.go`, `verify.go`) | sender, nonce, a running hash | `Write`, `Close`; verifying either kind | what is accepted, the signer wrote, in one stream and in this order; nothing genuine is refused |
| armor writer (`armor.go`, `encoding/basex/stream.go`) | bytes and digits that wait for a block or a word | `Write`, `Close` | the text does not depend on how the bytes were cut into calls |
| armor reader (`punctuated_reader.go`, `armor.go`, `encoding/basex/stream.go`) | kept segments, frame state, undecoded digits, kept error | `Read`, `GetHeader`, `GetBrand` | the result does not depend on how the text was cut into reads; `io.EOF` means all frames were right |
| base X codec (`encoding/basex/encoding.go`) | none | block lengths, encode, decode | decoding inverts encoding |
| streams in armor (`closeForwarder`, `armor62_*.go`) | two streams | create, `Write`, `Close` both | a text has its whole frame only around a whole message |
| classification (`classify_and_decrypt.go`) | what a `bufio.Reader` holds | `IsSaltpack*`, `ClassifyStream`, `ClassifyEncryptedStreamAndMakeDecoder` | no answer that more bytes would change; no message denied; the decoder accepts the frame |
| random numbers, shuffle (`rand.go`) | none | `csprngUint32n`, `csprngShuffle` | every order of the receivers equally often |
| basic keyring (`basic/`) | maps of keys | lookup, import | - |

**How they interact.** A sealing stream writes packets to an `io.Writer`; in
the armored variants that is an armor writer (through `closeForwarder`). The
receiver's decoder reads from an `io.Reader`, which may be an armor reader:
`decoder` over `filteringReader` over `framedDecoderStream` over
`punctuatedReader`, each calling the next one's `Read` and passing on data and
error *together*; that pairing is where the findings on armor come from. The
keys of a stream come from the header, through the keyring and the resolver of
the caller (callbacks). The header's hash goes into every packet, which is how
an altered header shows in the first packet and not before.

`PROJECT.json` lists under *hazards* each place that a test would hardly reach,
with the properties that cover it.

## 2. The modules

| module | what it is |
|---|---|
| `ChunkFormat` | modes, versions and packets; what a packet's authentication covers; the checks that sender and receiver share (`checkChunkState`, `encryptionBlockNumber.check`) |
| `Wire` | external: packets between the streams, and the faults |
| `SealStream` | the three senders |
| `OpenStream` | the three receivers, under `chunkReader` |
| `SaltpackTransfer` | the composition of the three, its properties, fairness and refinement mapping |
| `MessageDelivery` | the abstract specification: texts are let out, a prefix of one is delivered, io.EOF only for a finished one |
| `SaltpackTransfer_proofs` | the TLAPS proofs: types; the inductive invariant and safety; no false alarms; refinement |
| `KeyFormat` | symbolic boxes, derived keys and nonces |
| `Shuffle` | `csprngUint32n` and `csprngShuffle`, as functions of the words drawn |
| `MessageKeys` | one header, from the sender to a receiver with any keyring; shuffles with `Shuffle` |
| `MessageKeys_proofs` | the TLAPS proofs of all its safety properties, and of what the shuffle does |
| `SignedMessages` | attached and detached signatures: several signers and streams, and one verifier |
| `SignedMessages_proofs` | the TLAPS proofs of all its properties |
| `BaseX` | the codec, as functions |
| `ArmorFormat` | characters, frames, the armored text of some bytes |
| `ArmorFormat_proofs` | the TLAPS proofs about both: decoding and reading give back what was encoded and armored |
| `ArmorReader` | the four readers |
| `ArmorReader_proofs` | the TLAPS proofs of all their safety properties |
| `ArmorWriter` | the two writers of the armor, as actions for a caller to be composed with |
| `ArmoredStream` | a message stream on an `ArmorWriter`, under a `closeForwarder` |
| `ArmoredStream_proofs` | the TLAPS proofs of all the properties of both |
| `Classify` | the classification of a stream by its beginning, and the parsing of frames |
| `Classify_proofs` | the TLAPS proofs of its types, of `AnswerStands`, `RightDecoder` and `NeverDenied`, and that a text is classified by its words |
| `InductionFacts` | lemmas that several proofs rest on: induction, functions defined by recursion, sequences of sequences, division |
| `MC*` | the values of constants that a `.cfg` cannot write |

Definitions commented "Mutant of X" are X with a mistake a programmer might
make. Nothing uses them in the specifications; put in the place of X, each
makes one of the properties fail, which shows that the property looks at that
code.

### Sealing and opening streams

*State.* `buffer`, `numBlocks` and `err` are the fields of the three sending
structs; `sealPc` says which loop of `Write` or `Close` the caller is in.
`seqno`, `prevChunk` and `prevErr` are those of `msgpackStream` and
`chunkReader`; `openPc` and `room` are the local state of `Read`. `written`,
`sealed`, `out`, `verdict`, `failed`, `retried`, `closes` and `reused` are history
variables, read by no guard but the bounds and the ends of the callers' work
(`EndOfOutput`, and `closes` and `failed` in the fairness).

`sealed` has every packet that was written whole, with its number and a text that
may end with it. It is a set, for a number may have two packets: `Encode` may fail
with all of its packet written (see below), the number is then not counted, and a
caller who goes on seals another block with it. `TextsUpTo(n)` are the texts that
the first `n` blocks make up, one unless a caller went on (`retried`).

*Actions.* `WriteCall` and `CloseCall` begin a call. Every block is then one
step: `BlockSealed`, or one of the ways out (`BlockPanics`, `BlockOverflows`,
`SignFails`, `EncodeFails`). So blocks reach the wire while the receiver is
already reading. The order of the code is kept: the block leaves the buffer
before it is sealed, `numBlocks` advances only after a successful encode, and
`err` is set by `Write` of the two encrypting streams only. `EncodeFails` may have
written nothing, a piece of the packet or all of it: an `io.Writer` may take every
byte and return an error all the same, as `armorEncoderStream.Write` does
(`armor.go:45`) when the encoder has the bytes and a word cannot be written. The
MessagePack encoder may itself refuse to work after an error; the code does not
rely on that, and neither does the model. `ReadCall` begins a
`Read`; every iteration of its loop is one of `CopyOut`, `ReturnError` and the
six outcomes of `getNextChunk`; the read behind the final packet is
`EndOfStream` or `TrailingObject`.

*Abstractions.* A packet is `[chunk, flag, auth, whole]`. `auth` is what its
tag, MAC or signature covers (`BlockBinding`): the header, the block number,
the chunk and, where the version covers it, the final flag; a packet is accepted
exactly if this is what the receiver computes for its own count. Cryptography
is ideal, which is an assumption and not a result. A torn packet
(`whole = FALSE`) gives a decoder error. The block number of the two encrypting
modes is checked against `MaxBlockNumber` (2^64-1 in the code); the `seqno` of
signing is checked nowhere in the code and would wrap after 2^64 packets, which
is not modelled. `faults` bounds the faults of wire, encoder and signer
together.

### Headers and keys

A behaviour is: the sender checks its receivers, shuffles them with the words
that the random source gives, or is refused them, and writes a header
(`NewStream`; `asked` are the receivers it was called with); it may be altered once (`AlterHeader`); a receiver
validates it (`ReadHeader`), looks for its key (`TryVisibleReceivers`,
`NoVisibleReceiver`, `TryHiddenReceivers`, one secret key a step in any order,
`TryBoxSecretKeys`, `TrySharedSymmetricKeys`), reads the sender (`ReadSender`)
and meets the first packet (`ReadPacket`). A box is a record of the key, the
nonce and the content, and opens with the same key and nonce only; a shared key
is the unordered pair of its two ends; a nonce is its constant string with the
index that the version puts in. The header hash is the header. Left out: keys or
boxes of a wrong length; keyrings that return nil from
`ImportBoxEphemeralKey`; resolvers that fail or return too few keys; packets
with fewer authenticators than the header has receivers. `PacketAuthentic` for
signcryption stands for the signature over the header hash.

### Signed messages

Any number of streams of any signers, attached and detached, may be open at the
same time. `SignBlock` is a block of an attached stream with its two sanity
checks as guards (how text is cut into blocks, and failing signers, are in
`SealStream`); `DetachedWrite` and `DetachedClose` are the calls of a detached
stream, which may go on after a `Close`. The verifier is given a header, as it
was or altered in one place (`OpenHeader`), and then any signatures that have
been made with any texts and flags (`VerifyDetached`, `GetNextChunk`). A
signature is the record of the key and what was signed, `AttachedSignatureInput`
or `DetachedSignatureInput`. In version 2 the final byte and the chunk run into
each other in what is hashed, and the model keeps it so: that no byte of a chunk
is taken for the flag is for the fixed place and the version in the header hash.
A version that the code panics on ends the verifier in `"panic"`.

### Armor

A text is a sequence of digits, white space (`Skip`), punctuation (`Punct`) and
a byte that is neither (`Bad`). Spaces, newlines and `>` are the same to every
reader, so words per line are left out. A frame is compared as words; the length
limits of `parseFrame` and the brand are left out (they are in `Classify`). A block
of digits with a value too large for its bytes is not refused by `decodeBlock`,
which copies the first bytes of the value and cuts off the rest; `DecodeBlock` does
the same.

`ArmorReader`: `seg` is `punctuatedReader` (`this`, `next`, the pending
`ErrPunctuated`) with what its source still holds; `state`, `frame` and `held`
are `framedDecoderStream`; `buf`, `outbuf` and `err` are `decoder`. An action is
one `Read` of `punctuatedReader` with all that the readers above make of its
result: `PunctuatedReads` are the results it can have for every way the source
may cut its data, and `ScanHeader`, `ReadBody`, `ScanFooter`, `ReadTrailer`
what becomes of them. A source may return its last bytes together with
`io.EOF`, may return `(0, nil)` and may fail once and go on. `borrowed` tells
that `nextSegment` is a slice of the caller's buffer. A caller whose
`GetHeader` or `GetBrand` has failed may go on; the header is then looked for
in the next sentence. The properties leave such callers out (`retried`).

`ArmorWriter`: `waiting` is the fringe of `encoder`, `digits` the buffer of
`armorEncoderStream`; `PutWord` is a turn of the loop that writes a word. The
`io.Writer` may fail after any part of what it was given. The code remembers no
error, so the properties leave out callers that go on after one (`resumed`). It
has no specification of its own: its caller is in `ArmoredStream`.

`ArmoredStream`: the message stream is reduced to the packets it writes: a header
when it is made, any number of blocks in a `Write` or a `Close`, the final one in
`Close`. The encoder hands a packet to the armor in pieces (`PassOn`), each of
them a `Write` of `ArmorWriter` that runs to its end (`ArmorStep`,
`ArmorReturns`). `toClose` is what the loop of `closeForwarder.Close` has left.
Either stream may fail in any step (`MessageFails`, or the armor's writer), which
ends the call and, in a constructor, the stream (`Fails`). A caller may go on
after an error or after `Close`; `misused` tells, and the two properties of this
module leave such callers out, as neither stream remembers that it was closed.

### Classification

`input` is what a source holds: an armored text as a sequence of pieces (halves
of the words of a frame, white space, punctuation, digits of the body, other
bytes), or a binary message as its length and what the tags of its header say.
`Fill` is a read of the source inside `Peek`, `IsSaltpackArmored` and
`IsSaltpackBinary` are the ends of the two `Peek`s with what is decided then;
`ArmoredSlice` and `BinarySlice` are what a caller who holds the same bytes as a
slice is told. The regular expressions appear as what they mean: the words before
the first punctuation are those of a frame (`FrameBrand`, restricted to letters
and digits by `Plain`), or can be the beginning of one (`HeaderToCome`).
`ParseFrame` looks for the same words with `parseFrame`'s two limits on top
(`TooLong`), on what `toASCII` has left of the header: the white space around it
does not count, that within does. `>` is white space in the model (`TrimSpace` does
not take it away; the model has none at the ends that would make the difference),
and the limit of 8192 bytes on what is searched for a punctuation is in
`ArmorReader`. The
first 43 digits decode to the header written, to anything (`damaged`) if one of
them was changed, and to something else if there are fewer.

Four things that the module shows and no property forbids: headers and brands over
the limits are recognised, unlike what the description of the format says
(`specs/saltpack_armor.md:267`), and `makeFrame` writes such brands; a body too short to
hold a block is answered with `ErrShortSliceOrBuffer` also if punctuation behind
it tells that it will never be longer; brands with other characters than letters
and digits, which `parseFrame` accepts, are denied; and if the source fails
during the first `Peek`, the second one decides, so that an armored stream is
called no saltpack message. Not modelled: `Peek` of a whole buffer waits for a
live connection to fill it or to end, however short the message is
(`classify_and_decrypt.go:118`); and version numbers above 127, whose longer
encoding the 23 bytes leave no room for behind the longest tags.


## 3. What is checked

| run | configuration | what it shows |
|---|---|---|
| `transfer_one_fault` | `MCTransfer.cfg` | all five mode/version pairs, one fault of the wire, the encoder or the signer: `IInv` (the types are part of it) and every safety property of the transfer, and that it implements `MessageDelivery` |
| `transfer_two_faults` | `MCTransferFaults.cfg` | two faults that might help each other, and liveness: a reader that goes on gets an answer, and without a fault the message |
| `armor_reader` | `MCArmorReader.cfg` | what the four readers return, for every way to cut the text |
| `armored_stream` | `MCArmoredStream.cfg` | the text, for every way to cut packets into writes, with failures of either stream and callers who go on: complete after a `Close`, and framed only around a whole message |
| `message_keys` | `MCMessageKeys.cfg` | every list of up to three receivers, every word drawn by the shuffle, every keyring, one alteration |
| `signed_messages` | `MCSignedMessages.cfg` | two streams of two signers, mixed up and altered on the way to a verifier |
| `classify` | `MCClassify.cfg` | good and damaged beginnings of streams, with headers over and under the limits, cut everywhere, with one failure of the source |
| `packet_limit`, `second_close`, `armor_trailer`, `armor_data_with_eof`, `anon_receivers` | `MCPacketLimit`, `MCSecondClose`, `MCArmorTrailer`, `MCArmorDataEOF`, `MCAnonReceivers` | the findings below |

Types, safety, action properties and the refinement are proved as well, for every
value of the constants; liveness is not (section 5).

**Bounds, and why they are enough.**

- *Transfer.* Three byte values, blocks of two bytes, writes of one and three
  bytes, at most four bytes written: the empty message, part of a block, exactly
  one, one and a part, and two blocks, the cases between which the code
  distinguishes (`buffer.Len() > blockSize`, `== 0`, `<=`). Two values would not
  tell a repeated byte from a swapped one. Buffers of 0, 1 and 3 bytes: smaller
  than a chunk, larger, and empty. `MaxCloses = 2` reaches calls after `Close`.
  `MaxBlockNumber` is 3 (2 with two faults), and with blocks of one byte both
  ends reach it, also in the liveness properties. The faults change one packet, or
  two neighbours, at a time. One fault is enough for two packets with one number:
  an `Encode` that fails with its packet written, and a caller who goes on. The
  run with one fault has about 1.4 million distinct states; that with two, where a
  damaged or foreign chunk is empty (which ends a message in version 1), blocks
  have one byte and there is one `Close`, 0.7 million.
- *Armor.* Bytes of two bits and three digits, blocks of two bytes and three
  digits, because that is the smallest pair of bases in which a block has room
  to spare, as 32 bytes in 43 digits of base 62 have. Buffers of 0, 1 and 4
  bytes, a decoder buffer that is not a multiple of a block, a scan buffer that
  holds several frames, and a frame limit within reach. The texts are all the
  ways to put together good and bad bodies, footers and trailers.
- *Armored streams.* Packets that fill part of a block, one, and one and a half,
  so that every alignment occurs; four packets make a header, a block written
  before `Close`, one written by it, and the final one; four calls reach a
  `Write` and a `Close` after a failed `Close`; two failures let one hit the
  message and one the armor.
- *Signed messages.* Two streams are the least between which anything can be
  mixed up, two blocks the least with an order; the bytes are 0 and 1, like the
  final byte. Three versions, one of them unknown. The run has the signers finish
  before the verifier starts (`SignersFirst`): no step of theirs looks at the
  verifier and nothing they made goes away, so every behaviour has one in this
  order with the same steps; the proofs do without it.
- *Classification.* Brands: none, an ordinary one, `BEGIN`, `SALTPACK`, and one
  that begins like a word of the frame, and one that is too long. One piece of a
  text is lost, replaced or added, a gap of nine spaces comes in, or its end is cut
  off. The limits of 512 and 128 bytes are scaled to 48 and 8, so that the gap makes
  a header too long if it has a brand and not if it has none. Buffers of 16 bytes (the least that `bufio` makes;
  fewer than the 23 that are needed), 90 (between a frame and its first block)
  and 4096; binary streams just below, at and above 23 bytes.
- *Keys.* Words of three bits: 8 is divisible by 2 and not by 3, so that the
  shuffle of three must draw again and the one of two never. Three keys, so that a message may have a visible, a hidden and an
  unrelated key; one symmetric key, two identifiers; all alterations of one
  place of the header. Keys and identifiers are symmetric: no definition tells
  them apart but by equality, the `CHOOSE`s that range over places in the
  header use their order, and the `CHOOSE` of a secret key in
  `TryBoxSecretKeys` has one candidate, because derived keys differ.

`CHECK_DEADLOCK FALSE` is given where the system ends: `MessageKeys` (one header
is processed), `SignedMessages` and `Classify` (one answer is given) and
`ArmoredStream` (the bound on calls). In the transfer and in
the armor reader the caller can always call `Read`, and deadlock is checked.

**Fairness.** The code blocks nowhere but in the caller's `io.Writer` and
`io.Reader`, so a call that has begun goes on: weak fairness on `SealBlock`,
`ReadStep` and `Step`. That callers close a stream that has not failed, close
their output and read on until they have an error is what every all-at-once
function of the repository and `io.ReadAll` do: weak fairness on the first
`CloseCall` and on `ReadCall` with a buffer that is not empty
(no fairness on empty ones: `Read` with an empty buffer may return nothing for
ever), strong fairness on `EndOfOutput`, which a caller that repeated a failing
`Close` for ever would disable again and again; no function of the repository
repeats one. In `ArmorReader` `ReadCall` has strong fairness, because a caller may
ask for the header in between, which disables `ReadCall` again and again
without being an excuse never to read. Nothing is assumed of the faults.

**The properties of the transfer.**

- `OutputIsPrefix`: what `Read` has given out is a prefix of a text that the blocks
  written make up, each behind one with the number before; and of what was passed
  to `Write`, if the caller stopped at the first error.
- `NumberUsedOnce`: no two packets have one block number, and so one nonce, if the
  caller stopped at the first error. (If it goes on, the packet of a failed `Encode`
  may be out, and the next block gets its number: `signAttachedStream` keeps no
  error, and `Close` of no stream looks at one. The reader then gets the text of
  the packet that comes first, and cannot tell. The condition `~retried` is needed.)
- `CleanEOF`: `io.EOF` only after all plaintext up to a block sealed by `Close`,
  which may have failed with that block written.
- `CompleteMessage`: if the caller stopped at the first error and at `Close`,
  `io.EOF` means exactly the bytes written, and `Close` has returned nil, or an
  error with all of the message written. (A caller that goes on after a
  failed `Write` can end the stream without the lost block.)
- `NoPanic`, `NoFalseAlarm`, `VerdictIsFinal`: see the module.
- `Refinement`: the above as a step-by-step promise.

**The properties of the others.**

- `ArmorReader`: what `Read` gives out is a prefix of what the text decodes to
  (`BodyPrefix`), `io.EOF` only for a good text (`AcceptedMessage`), and never told
  to the decoder before the footer has been checked (`FramesBeforeEOF`), no error for
  a good one (`NoFalseAlarm`), no slice of a caller's buffer is kept beyond the call that
  lent it (`BorrowedNeverKept`), and a verdict is final and comes.
- `ArmoredStream`: `TextComplete` and `TextIsPrefix` say that the armor's text
  depends on the bytes only and not on how they came; `StreamComplete` that a
  `Close` that returned nil leaves the armored text of a whole message;
  `CompleteWhenFramed` that a text with all of its frame holds a whole message
  also after failures, so that no reader takes half a message for one.
- `MessageKeys`: a receiver gets the key (`ReceiverGetsThrough`), nobody else
  (`OnlyReceivers`), and is told the truth about both ends (`InfoIsTrue`); no
  key and nonce seal two contents (`NonceUsedOnce`); the words that a shuffle
  accepts give every order of the receivers the same number of times
  (`EveryOrderEquallyOften`), so that places tell nothing about receivers.
- `SignedMessages`: `DetachedAuthentic` and `AttachedAuthentic`: whatever is
  accepted, the signer named by the header wrote, in the one stream with that
  header, from its first block on; `NoFalseAlarm` is the converse.
- `Classify`: `AnswerStands`, an answer other than `ErrShortSliceOrBuffer` is not
  changed by more bytes; `NeverDenied`, no beginning of a message is taken for
  anything else; `RightDecoder`, a decoder that is made finds the frame it wants
  with the brand that was reported, or refuses it for `parseFrame`'s limits and
  nothing else.

`TrailingObject` may report `io.EOF` for a torn object behind the final packet,
because `assertEndOfStream` passes the decoder's error on; the plaintext is
whole all the same, and `CleanEOF` shows it.

## 4. Findings

Each is a run in which TLC finds the property violated.

1. `packet_limit`: `encryptionBlockNumber.check` lets 2^64-1 packets through,
   one more than the comment on `ErrPacketOverflow`; the text of the error names
   2^32.
2. `second_close`: `signcryptBlock` leaves the signature out of the overhead it
   passes to `assertEncodedChunkState`, so the assertion cannot see an empty
   chunk. A second `Close` writes an empty packet that no receiver accepts and
   returns nil, where the version 2 streams of the other two modes panic. (Those
   of version 1 end with an empty block by rule, and a second `Close` writes
   another one.)
3. `armor_trailer`: `filteringReader` drops an error that comes with nothing but
   white space. If the last piece of the body is white space, the verdict on
   the trailer is lost and the next read goes on behind the bad byte.
4. `armor_data_with_eof`: `punctuatedReader` does not search data that comes
   with `io.EOF`; a good text from such a source is refused.
5. `anon_receivers`: `NumAnonReceivers` is counted only if no named receiver was
   found, unlike what the comment on `MessageKeyInfo` says.

## 5. What is proved

For every value of the constants that satisfies the named assumptions
(`BlockSize` and `MaxBlockNumber` positive, `Payload`, `OtherChunks` and
`ReadSizes` of the right type), any number of faults, any message length:

- `TypeCorrect`: `Spec => []TypeOK`;
- `Invariance`: `Spec => []IInv`;
- `NumbersUsedOnce`, `PrefixDelivered`, `CleanEOFReported`, `MessageComplete`,
  `PanicFree`: `Spec => []` of `NumberUsedOnce`, `OutputIsPrefix`, `CleanEOF`,
  `CompleteMessage`, `NoPanic`;
- `VerdictStays`: `Spec => VerdictIsFinal`;
- `NothingRefused`: `Spec => []NoFalseAlarm`;
- `ImplementsDelivery`: `Spec => Refinement`, that is, the streams and the wire
  implement `MessageDelivery`.

And of `SignedMessages`, for any signers, versions, validators and chunks of the
right type and any number of streams: `TypeCorrect`, `DetachedIsAuthentic`,
`AttachedIsAuthentic` and `NothingRefusedWrongly`, that is `Spec => []` of
`TypeOK`, `DetachedAuthentic`, `AttachedAuthentic` and `NoFalseAlarm`.

Of `BaseX` and `ArmorFormat`, for any base and block lengths in which a block of
bytes fits into a block of digits, any frames and any bytes: `CodecRoundTrip`,
`Decode(Encode(x))` is `x` without an error, and `ArmorRoundTrip`, the armored text of
`x` is a good message and its body stands for `x`. They assume of the two frames that
they hold no punctuation and nothing but digits and white space (`FrameAssumption`).
`makeFrame` gives such frames if the brand is one word of letters and numbers; the
brand is up to the caller, the code does not look at it, and with a period in it the
armored text is not one that the reader accepts.

Of `ArmorReader`, for any texts, frames, buffer sizes and sources of the right type:
`TypeCorrect`, `BorrowedIsReturned`, `EOFBehindFrames`, `PrefixReturned`,
`EOFMeansAll` and `RightTextAccepted`, that is `Spec => []` of `TypeOK`,
`BorrowedNeverKept`, `FramesBeforeEOF`, `BodyPrefix`, `AcceptedMessage` and
`NoFalseAlarm`; and `ErrorIsKept`: `Spec => VerdictIsFinal`.

Of `ArmoredStream`, for packets of any bytes, any cuts and any number of failures of
the `io.Writer`: `StreamTypeCorrect`, `TextPrefix`, `TextWhole`, `StreamIsComplete`
and `FramedIsComplete`, that is `Spec => []` of `TypeOK`, `TextIsPrefix`,
`TextComplete`, `StreamComplete` and `CompleteWhenFramed`.

Of `MessageKeys`, for any keys, rings and resolvers, any number of receivers up to
`MaxReceiverCount` and any alteration that `AlteredHeaders` has: `TypeCorrect`,
`EveryReceiverGetsThrough`, `OnlyReceiversOpen`, `InfoIsAlwaysTrue`,
`NoNonceUsedTwice` and `OrdersEquallyOften`, that is `Spec => []` of `TypeOK`,
`ReceiverGetsThrough`, `OnlyReceivers`, `InfoIsTrue`, `NonceUsedOnce` and
`EveryOrderEquallyOften`. `KeysAssumption` says that keys are finitely many, that the
ephemeral key is none of the callers' keys, that a caller's identifier is not one that
is derived from a key (a hash), and that there are no more receivers than values of a
word (2^32-1 and 2^32 in the code). Of the shuffle by itself, for words of any size:
`ShuffleOrders`, the result has the elements of the list, each in one place, and
`OrdersAsOften`, if the elements are distinct every order has as many ways to come
about as every other.

None of these properties is inductive. `OutputIsPrefix` speaks of the sender's
texts and the receiver's output only; to know that the next chunk fits, one has
to know that the packet accepted is one with the number `seqno - 1`
(`ReceivedInOrder`), for which every packet on the wire that is bound to this
message must be bound like one of the sealed blocks (`WireGenuine`, which all
faults preserve, because none of them can make a binding), and each block must be
bound to its number and hold just the text by which it goes on from *every* text
that may be in front of it (`SealedInOrder`): if a number has been used twice, the
receiver may hold either text when the next block comes. `NumberUsedOnce` needs that
a number is free again only after a call that failed (`NumbersLeft`).
`CompleteMessage` needs in addition that, until a caller goes on after an error or a
`Close`, a final block ends all that was written (`OneFinalBlock`), that what is
sealed is a beginning of that, and that until something
fails text and buffer together are what was written (`NothingLost`). `NoPanic`
needs what the loops know of the length of the buffer (`BufferInv`): that after
a `Write` the buffer is empty only if no block was sealed is why a last empty
block is number 0 in version 2. `VerdictIsFinal` needs `VerdictDrained`.

`SaltpackTransfer_proofs` has in its first part the types and the lemmas on
`buffer.Next`; the second has one lemma for what a new sealed block changes and
what it leaves, then the sender's actions, the wire's, the receiver's, and the
theorems. The third adds a second
invariant, `Faultless`: while there is no fault, the wire holds exactly the
blocks sealed and not yet received, in order, and every block is one that
`checkDecodedChunkState` lets through; the latter needs `BufferInv`, because
`signcryptBlock` does not assert it. The last part maps the steps: a call of the
sender's caller to `Call`; a block that is written to `Send`, with the texts that it
ends, whether `Encode` fails or not; `CopyOut` to `Deliver`; the first
`ReturnError` to `Accept` or `Reject`; everything else to a stutter. That what
`CopyOut` gives out has been let out, that what `Accept` accepts is finished, and that
a careful caller's texts are prefixes of what it gave, comes from `IInv`.

In `SignedMessages_proofs` the invariant says that headers are distinct, each by
its nonce (`HeadersDistinct`); that every signature is over its stream's header,
the block's number, chunk and flag (`Signed`); that what an attached verifier has
released is the beginning of the one stream with its header (`ReadFromOne`); and
why something was refused (`RefusedFor`). The properties are not inductive
without them: that the next chunk continues the *same* stream as those before it
follows from the header in the signature and the distinctness of headers, and
that it is the *next* chunk from the number in it. The lemma that two attached
inputs with the same header are equal only for the same chunk and flag
needs that the version is fixed by the header; the string at the front keeps the
two kinds of signature apart. `StreamsGrow`, streams only ever get longer, carries the verifier's part
over the steps of the signers.

In `MessageKeys_proofs` the invariant says that the header read is the one written, or
that with one alteration (`Sent`); that the box that was opened is one of some receiver
whose key the ring or the resolver has, and is in the receiver's own place if nothing was altered
(`FoundOK`); what each field of `MessageKeyInfo` was taken from (`InfoOK`); that the keys
tried so far open no hidden box (`TriedInVain`); and that what was accepted was bound to
the header (`Accepted`). `ReceiverGetsThrough` is not inductive because it speaks of the
refusal only: that no box of the receiver is passed over has to be known in each step of
the search, and so has the *place* of the receiver in the header, by which nonces are
computed. `OnlyReceivers` needs that whatever was altered, every box in the header that opens at all
was sealed for a receiver (`HeaderRead`, by cases on the alterations), and `InfoIsTrue`
that the first packet is bound to the header's hash. For
`EveryOrderEquallyOften`, a word is accepted for a number exactly if it lies in an
interval whose length does not depend on the number (`AcceptedWords`: all the rejected
words are at its edge); the list above a place depends on the words for
these places only and is left alone by the turns that follow (`SameAbove`,
`PlacesDone`), so that two draws give the same order exactly if they give the same
numbers (`OneWayToAnOrder`), and every order has such numbers (`EveryOrderReached`). The
ways to an order are then a product of intervals of the same lengths for every
order (`ClassBox`, `BoxSize`).

The proofs about the armor and the shuffle rest on `InductionFacts`, those about the
armor on `ArmorFormat_proofs` too. What `Encode` and
`Decode` compute for every input needs induction over data. The library's induction
theorems cannot be used, because they take an operator as a parameter; its theorem
that `Nat` is well founded can. With it a set of numbers that is not empty has a least
one (`LeastNat`), from which come induction over a *set* of numbers or of sequences
(`NatInduct` and its relatives) and, by it, that a function defined by recursion
exists (`Recursion`). `ArmorFormat_proofs` then goes up the definitions: a number and its
digits; one block and its decoding, which no shorter block of bytes has the length of;
sequences of blocks, where whole blocks may be encoded one by one (the reason why the
writer may be called in any cuts); the same for blanking out a text and for the spaces
behind every `BytesPerWord` digits; and the frames, of which the first two
punctuations are the ones that the writer put there.

In `ArmorReader_proofs` a first part is about one read of `punctuatedReader`
(`ReadResult`): `thisSegment`, its pending punctuation, `nextSegment` and the source
together are what is still to come of the text (`Pending`), and a read takes its
data, with or without a punctuation, off the front of that. The invariant then says
where in the text the readers are: the header, the body and the footer seen so far,
each without a punctuation in it, and `Pending` behind them (`Located`); that the
digits of the body seen so far are the blocks decoded, whose bytes are `out` and
`outbuf`, and `buf` behind them (`Decoded`); that
`decoder.err` is `io.EOF` only at the very end (`EOFAtEnd`); that a slice of
the decoder's buffer is kept only within a call that has not got a block of digits
yet (`BorrowedInCall`), which is why `BorrowedNeverKept` needs the footer to be read
before the last piece of the body is handed on; that this slice fits behind `buf`
(`Fits`); and that what `decoder` keeps as its error is what the caller was told
(`Told`). `BodyPrefix` has a part of its own (`Delivered`), for it must survive an
error, when there is nothing more to say of where the readers are: bytes are decoded
in whole blocks only, or at the end of the body, and decoding the blocks of a
beginning gives a beginning. `NoFalseAlarm` has a second invariant (`NotRefused`)
on top, that nothing has been refused yet: every read brings something or is at the
end, and what was seen of the body is a beginning of digits that decode.

In `ArmoredStream_proofs` the writer's part of the invariant says that the text is
what the blocks encoded so far make, with `waiting` still to be encoded (`Open`) and
`digits` still to be put (`Laid`), and that a writer that has failed has left the
beginning of the text that would have come (`Target`, `ArmorInv`). The stream's part
says that what was written and what is on its way are the packets sealed
(`Underway`), what a finished call has left (`Over`), and that the end of the armor is
behind the last packet (`AllIn`). Neither part is inductive without the other:
`ArmorInv` says nothing of a writer that is called after an error, and that
`closeForwarder` makes no such call is in the stream's part. `CompleteWhenFramed` says
in addition that a text with a whole frame is the whole armored text, because a
proper beginning of it has one punctuation less.

In `Classify_proofs` the words of a text are followed as it grows by one piece: they stay
as they are, the last one gets longer, or a new one begins (`WordsGrow`). So words that
begin a frame have begun one before, with the second word taken for a brand or not
(`ToComeBack`), and a text that cannot become a frame never turns out to be one
(`FrameCame`); behind the dot, a full block of digits stays the block that it is
(`DecodedStands`). Together they are `SaidStands`, from which `AnswerStands` follows.
`RightDecoder` needs that the beginning of a text has the sentence of the whole once it
has a dot (`SentenceOfWhole`), and that all the types that a sentence may be a frame of
are read alike (`FramesAgree`).

`NeverDenied` is about texts with the words of one of ours, whatever their white space.
That white space does not matter is a theorem of its own, `SaidOfWords`: texts with the
same words have the same digits (`WordsTogether`), the first dot cuts their words at the
same place (`SentenceCuts`, `CutOnce`), and what is behind it has the same digits, for
the front that both have can be taken off (`SameBody`). What is left is the text that
the encoder writes: its words are those of the frame (`SpacedIs`), its digits make a
whole first block, and the header in it is found (`WholeSaid`). A beginning of it is
told to be too short or to be the message, going backwards from the whole
(`SaidOfPrefix`). Of the `Peek`s, two facts are carried along: what has been answered
(`Told`), and that an armored message is looked at as a binary one only if the buffer
cannot hold its first piece, so that the next answer asks for more (`Small`). Binary
messages need the arithmetic of `isSaltpackBinarySlice`: with the longest tags the type
ends at byte 23, exactly where the slice does (`GenuineBinary`).

**Only model-checked**: liveness (`Delivered`, `Answered` of the streams, and that of
`ArmorReader`), which is out of reach of TLAPS.

## 6. What is not modelled

- *Message readers on an armor reader.* Each is modelled by itself; that the
  armor reader may return data and an error together, and what `msgpackStream`
  makes of that, is not. An abstract armor ("a text is accepted or refused, and
  its body handed out in pieces") that `ArmorReader` implements for the texts that the
  findings leave out would be the way to compose them.
- *Long-lived keyrings.* `basic.Keyring` is a map; import and generation of keys
  are insertions into it. `GenerateSigningKey` does not do the import that its
  comment (`basic/key.go:167`) speaks of. `LookupSigningPublicKey` knows every
  key; `SignedMessages` has keyrings that do not.
- *More than 2^31-1 receivers.* `csprngShuffle` panics (`rand.go:117`), though
  `checkEncryptReceivers` lets up to 2^32-1 pass (`common.go:20`).
- *Failing random sources*, other than in the shuffle; keys, boxes and hashes of
  a wrong length; headers that do not decode.
- The MessagePack codec and NaCl (third-party), the all-at-once functions (they
  call the streams), declarations of errors and constants.

The limit of `ReadUntilPunctuation` is looked at once per read, so that a frame
may exceed it by a buffer; that `decodeBlock` accepts digits too large for a
block is modelled, with no property about it. The constructors of signing streams
accept any version, and an attached stream of an unknown one panics at its first
block, after its header has been written.
