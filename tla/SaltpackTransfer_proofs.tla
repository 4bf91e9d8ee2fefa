---------------------- MODULE SaltpackTransfer_proofs ----------------------
(***************************************************************************)
(* Proofs about SaltpackTransfer, for every block size, payload, number of *)
(* faults and read size: type correctness; the inductive invariant and the *)
(* safety properties that follow from it; that without a fault nothing is  *)
(* refused; and that the streams and the wire implement MessageDelivery.   *)
(***************************************************************************)
EXTENDS SaltpackTransfer, SequenceTheorems, TLAPS

-----------------------------------------------------------------------------
(* Packets and what they are bound to.                                     *)

\* The record a packet is bound to is well formed, and so is the packet.
LEMMA BindingType ==
    ASSUME NEW k \in Kind, NEW h \in Header, NEW n \in Nat, NEW c \in Chunk,
           NEW f \in BOOLEAN
    PROVE  BlockBinding(k, h, n, c, f) \in Binding
  <1>1. k.mode \in {"encrypt", "sign", "signcrypt"} /\ k.version \in {1, 2}
    BY DEF Kind
  <1>2. CASE k.mode = "encrypt"
    BY <1>1, <1>2 DEF BlockBinding, ComputePayloadHash, CoveredFlag, Binding,
       Nonce, NonceForChunkSecretBox
  <1>3. CASE k.mode = "sign"
    BY <1>1, <1>3 DEF BlockBinding, AttachedSignatureInput, CoveredFlag,
       Binding, Nonce
  <1>4. CASE k.mode = "signcrypt"
    BY <1>1, <1>4 DEF BlockBinding, ComputeSigncryptionSignatureInput, Binding,
       Nonce, NonceForChunkSigncryption
  <1> QED
    BY <1>1, <1>2, <1>3, <1>4

LEMMA MakePacketType ==
    ASSUME NEW k \in Kind, NEW h \in Header, NEW n \in Nat, NEW c \in Chunk,
           NEW f \in BOOLEAN
    PROVE  MakePacket(k, h, n, c, f) \in Packet
  BY BindingType DEF MakePacket, Packet

\* Equal bindings have equal numbers, chunks and header hashes, and from
\* version 2 on equal final flags.
LEMMA BindingInjective ==
    ASSUME NEW k \in Kind, NEW n \in Nat, NEW m \in Nat, NEW c, NEW d,
           NEW g, NEW h, NEW e \in BOOLEAN, NEW f \in BOOLEAN,
           BlockBinding(k, g, n, c, e) = BlockBinding(k, h, m, d, f)
    PROVE  n = m /\ c = d /\ g = h /\ (k.version # 1 => e = f)
  <1>1. k.mode \in {"encrypt", "sign", "signcrypt"} /\ k.version \in {1, 2}
    BY DEF Kind
  <1>2. CASE k.mode = "encrypt"
    BY <1>1, <1>2 DEF BlockBinding, ComputePayloadHash, CoveredFlag,
       NonceForChunkSecretBox
  <1>3. CASE k.mode = "sign"
    BY <1>1, <1>3 DEF BlockBinding, AttachedSignatureInput, CoveredFlag
  <1>4. CASE k.mode = "signcrypt"
    BY <1>1, <1>4 DEF BlockBinding, ComputeSigncryptionSignatureInput,
       NonceForChunkSigncryption
  <1> QED
    BY <1>1, <1>2, <1>3, <1>4

-----------------------------------------------------------------------------
(* Sequences.                                                              *)

\* Cutting a sequence in two loses nothing.
LEMMA CutSequence ==
    ASSUME NEW S, NEW s \in Seq(S), NEW n \in 0 .. Len(s)
    PROVE  /\ SubSeq(s, 1, n) \in Seq(S)
           /\ SubSeq(s, n+1, Len(s)) \in Seq(S)
           /\ Len(SubSeq(s, 1, n)) = n
           /\ Len(SubSeq(s, n+1, Len(s))) = Len(s) - n
           /\ SubSeq(s, 1, n) \o SubSeq(s, n+1, Len(s)) = s
  <1>1. \A i \in 1 .. Len(s) : s[i] \in S
    BY ElementOfSeq
  <1>2. SubSeq(s, 1, n) \in Seq(S) /\ Len(SubSeq(s, 1, n)) = n
    BY <1>1, SubSeqProperties, LenProperties
  <1>3. /\ SubSeq(s, n+1, Len(s)) \in Seq(S)
        /\ Len(SubSeq(s, n+1, Len(s))) = Len(s) - n
    BY <1>1, SubSeqProperties, LenProperties
  <1>4. SubSeq(s, 1, n) \o SubSeq(s, n+1, Len(s)) = SubSeq(s, 1, Len(s))
    <2>1. /\ 1 \in 1 .. Len(s) + 1
          /\ n \in 1 - 1 .. Len(s)
          /\ Len(s) \in n .. Len(s)
      BY LenProperties
    <2> QED
      BY <2>1, ConcatAdjacentSubSeq
  <1>5. SubSeq(s, 1, Len(s)) = s
    BY SubSeqFull
  <1> QED
    BY <1>2, <1>3, <1>4, <1>5

\* A sequence is a prefix of its extensions.
LEMMA PrefixOfConcat ==
    ASSUME NEW S, NEW s \in Seq(S), NEW t \in Seq(S)
    PROVE  IsPrefix(s, s \o t)
  BY DEF IsPrefix

LEMMA PrefixTransitive ==
    ASSUME NEW S, NEW s \in Seq(S), NEW t \in Seq(S), NEW u \in Seq(S),
           IsPrefix(s, t), IsPrefix(t, u)
    PROVE  IsPrefix(s, u)
  BY DEF IsPrefix

-----------------------------------------------------------------------------
(* The sender's next chunk.                                                *)

\* buffer.Next splits the buffer: no byte is lost or doubled.
LEMMA NextBlock ==
    ASSUME SealTypeOK
    PROVE  /\ NextLen \in 0 .. Len(buffer)
           /\ NextLen <= BlockSize
           /\ NextChunk \in Seq(Byte) /\ Len(NextChunk) = NextLen
           /\ Rest \in Seq(Byte) /\ Len(Rest) = Len(buffer) - NextLen
           /\ NextChunk \o Rest = buffer
  <1>1. buffer \in Seq(Byte) /\ Len(buffer) \in Nat
    BY LenProperties DEF SealTypeOK
  <1>2. NextLen \in 0 .. Len(buffer) /\ NextLen <= BlockSize
    BY <1>1, BlockSizeAssumption DEF NextLen
  <1> QED
    BY <1>1, <1>2, CutSequence DEF NextChunk, Rest

LEMMA NextPacketType ==
    ASSUME TypeOK
    PROVE  NextPacket \in Packet
  <1>1. NextChunk \in Chunk
    BY NextBlock DEF TypeOK, Chunk
  <1> QED
    BY <1>1, MakePacketType
    DEF TypeOK, WireTypeOK, SealTypeOK, NextPacket, Header, IsFinal

LEMMA TextsType ==
    ASSUME SealTypeOK
    PROVE  /\ Texts \subseteq Seq(Byte)
           /\ \A n : TextsUpTo(n) \subseteq Seq(Byte)
  <1>1. \A b \in sealed : b.upto \in Seq(Byte)
    BY DEF SealTypeOK, SealedBlock
  <1>2. << >> \in Seq(Byte)
    BY EmptySeq
  <1> QED
    BY <1>1, <1>2 DEF Texts, TextsUpTo

\* The block that the next packet makes behind a text.
BlockAfter(t) ==
    [num |-> numBlocks, packet |-> NextPacket, upto |-> t \o NextChunk]

\* Writing a packet adds a block behind every text that the blocks before it
\* make up, and no other.
LEMMA BlocksAdded ==
    ASSUME PacketWritten
    PROVE  /\ sealed \subseteq sealed'
           /\ \A t \in TextsUpTo(numBlocks) : BlockAfter(t) \in sealed'
           /\ \A b \in sealed' : \/ b \in sealed
                                 \/ \E t \in TextsUpTo(numBlocks) : b = BlockAfter(t)
           /\ \A t : /\ BlockAfter(t).num = numBlocks
                     /\ BlockAfter(t).packet = NextPacket
                     /\ BlockAfter(t).upto = t \o NextChunk
  BY DEF PacketWritten, BlockAfter

\* Two such blocks differ in their texts only.
LEMMA BlocksAlike ==
    ASSUME NEW t, NEW u
    PROVE  [BlockAfter(t) EXCEPT !.upto = u \o NextChunk] = BlockAfter(u)
  <1>1. \A x, y : [[num |-> numBlocks, packet |-> NextPacket, upto |-> x]
                      EXCEPT !.upto = y]
                   = [num |-> numBlocks, packet |-> NextPacket, upto |-> y]
    OBVIOUS
  <1> QED
    BY <1>1, Zenon DEF BlockAfter

LEMMA PacketWrittenType ==
    ASSUME TypeOK, PacketWritten
    PROVE  wire' \in Seq(Packet) /\ sealed' \subseteq SealedBlock
  <1>1. NextPacket \in Packet /\ NextChunk \in Seq(Byte)
    BY NextPacketType, NextBlock DEF TypeOK
  <1>2. wire' \in Seq(Packet)
    BY <1>1, AppendProperties DEF PacketWritten, TypeOK, WireTypeOK
  <1>3. numBlocks \in Nat /\ sealed \subseteq SealedBlock
    BY DEF TypeOK, SealTypeOK
  <1>4. ASSUME NEW t \in TextsUpTo(numBlocks)
        PROVE  BlockAfter(t) \in SealedBlock
    <2>1. t \in Seq(Byte)
      BY <1>4, TextsType DEF TypeOK
    <2>2. t \o NextChunk \in Seq(Byte)
      BY <1>1, <2>1, ConcatProperties
    <2> QED
      BY <1>1, <1>3, <2>2 DEF BlockAfter, SealedBlock
  <1> QED
    BY <1>2, <1>3, <1>4, BlocksAdded

-----------------------------------------------------------------------------
(* Type correctness.                                                       *)

\* Every step of the sender keeps the types.
LEMMA SealStepType ==
    ASSUME TypeOK, SealNext, UNCHANGED openVars
    PROVE  TypeOK'
  <1> USE DEF TypeOK, WireTypeOK, SealTypeOK, OpenTypeOK, openVars
  <1>1. ASSUME NEW p \in Payload, WriteCall(p)
        PROVE  TypeOK'
    <2>1. buffer \o p \in Seq(Byte) /\ written \o p \in Seq(Byte)
      BY PayloadAssumption, ConcatProperties
    <2> QED
      BY <1>1, <2>1 DEF WriteCall, wireVars
  <1>2. CASE CloseCall
    BY <1>2 DEF CloseCall, wireVars
  <1>3. CASE BlockPanics
    BY <1>3, NextBlock DEF BlockPanics, Panic, wireVars
  <1>4. CASE BlockOverflows
    BY <1>4, NextBlock DEF BlockOverflows, BlockError, wireVars
  <1>5. CASE SignFails
    BY <1>5, NextBlock DEF SignFails, BlockError
  <1>6. CASE EncodeFails
    <2> DEFINE torn == [NextPacket EXCEPT !.whole = FALSE]
    <2>1. torn \in Packet
      BY NextPacketType DEF Packet
    <2>2. Append(wire, torn) \in Seq(Packet)
      BY <2>1, AppendProperties
    <2>3. Rest \in Seq(Byte)
      BY NextBlock
    <2>4. /\ \/ faults' = faults
             \/ faults' = faults + 1
          /\ \/ UNCHANGED <<wire, sealed>>
             \/ wire' = Append(wire, torn) /\ sealed' = sealed
             \/ PacketWritten
      BY <1>6 DEF EncodeFails
    <2> HIDE DEF torn
    <2>5. wire' \in Seq(Packet) /\ sealed' \subseteq SealedBlock
      BY <2>2, <2>4, PacketWrittenType
    <2>6. faults' \in Nat
      BY <2>4
    <2>7. BlockError /\ UNCHANGED <<kind, eof>>
      BY <1>6 DEF EncodeFails
    <2> QED
      BY <2>3, <2>5, <2>6, <2>7 DEF BlockError
  <1>7. CASE BlockSealed
    <2>1. Rest \in Seq(Byte)
      BY NextBlock
    <2>2. wire' \in Seq(Packet) /\ sealed' \subseteq SealedBlock
      BY <1>7, PacketWrittenType DEF BlockSealed
    <2>3. AfterBlock \in {"idle", "writing", "closing", "panicked"}
      BY DEF AfterBlock
    <2>4. numBlocks' \in Nat /\ closes' \in Nat
      BY <1>7 DEF BlockSealed, NextNumber
    <2> QED
      BY <1>7, <2>1, <2>2, <2>3, <2>4 DEF BlockSealed
  <1>8. CASE EndOfOutput
    BY <1>8 DEF EndOfOutput, sealVars
  <1> QED
    BY <1>1, <1>2, <1>3, <1>4, <1>5, <1>6, <1>7, <1>8 DEF SealNext, SealBlock

\* Every step of the receiver keeps the types.
LEMMA OpenStepType ==
    ASSUME TypeOK, OpenNext, UNCHANGED sealVars
    PROVE  TypeOK'
  <1> USE DEF TypeOK, WireTypeOK, SealTypeOK, OpenTypeOK, sealVars, Result, Error
  <1>1. ASSUME NEW n \in ReadSizes, ReadCall(n)
        PROVE  TypeOK'
    BY <1>1, ReadSizesAssumption DEF ReadCall, wireVars
  <1>2. CASE CopyOut
    <2>1. Len(prevChunk) \in Nat
      BY LenProperties
    <2>2. CopyLen \in 0 .. Len(prevChunk) /\ CopyLen <= room
      BY <2>1 DEF CopyLen
    <2>3. /\ SubSeq(prevChunk, 1, CopyLen) \in Seq(Byte)
          /\ SubSeq(prevChunk, CopyLen + 1, Len(prevChunk)) \in Seq(Byte)
      BY <2>2, CutSequence
    <2>4. out \o SubSeq(prevChunk, 1, CopyLen) \in Seq(Byte)
      <3>1. out \in Seq(Byte)
        OBVIOUS
      <3> QED
        BY <2>3, <3>1, ConcatProperties, Zenon
    <2>5. room - CopyLen \in Nat
      BY <2>1, <2>2
    <2>6. out' \in Seq(Byte) /\ prevChunk' \in Seq(Byte) /\ room' \in Nat
      BY <1>2, <2>3, <2>4, <2>5, Zenon DEF CopyOut
    <2>7. /\ openPc' \in {"idle", "reading"}
          /\ UNCHANGED <<seqno, prevErr, verdict, wireVars>>
      BY <1>2, Zenon DEF CopyOut
    <2> QED
      BY <2>6, <2>7 DEF wireVars
  <1>3. CASE ReturnError
    BY <1>3 DEF ReturnError, wireVars
  <1>4. CASE FetchEOF
    BY <1>4 DEF FetchEOF, ChunkError, PrematureEOF, wireVars
  <1>5. wire # << >> => Tail(wire) \in Seq(Packet) /\ Head(wire) \in Packet
    BY HeadTailProperties
  <1>6. CASE FetchUndecodable
    BY <1>5, <1>6 DEF FetchUndecodable, Receive, ChunkError, PrematureEOF
  <1>7. CASE FetchRefused
    BY <1>5, <1>7 DEF FetchRefused, Decoded, Receive, ChunkError
  <1>8. CASE FetchEmptyBlock
    BY <1>5, <1>8 DEF FetchEmptyBlock, Accepted, Decoded, Receive, ChunkError
  <1>9. CASE FetchChunk
    BY <1>5, <1>9 DEF FetchChunk, Accepted, Decoded, Receive, Packet, Chunk
  <1>10. CASE EndOfStream
    BY <1>10 DEF EndOfStream, wireVars
  <1>11. CASE TrailingObject
    BY <1>5, <1>11 DEF TrailingObject, Receive
  <1> QED
    BY <1>1, <1>2, <1>3, <1>4, <1>6, <1>7, <1>8, <1>9, <1>10, <1>11
    DEF OpenNext, ReadStep

-----------------------------------------------------------------------------
(* What the faults of the wire make of a sequence.  They are stated for any *)
(* set S, to be used for Packet and for GenuinePacket.                      *)

LEMMA PiecesType ==
    ASSUME NEW S, NEW s \in Seq(S), NEW i \in 1 .. Len(s) + 1
    PROVE  /\ SubSeq(s, 1, i-1) \in Seq(S)
           /\ SubSeq(s, i, Len(s)) \in Seq(S)
           /\ SubSeq(s, i+1, Len(s)) \in Seq(S)
  <1>1. Len(s) \in Nat /\ i \in Nat
    BY LenProperties
  <1>2. \A j \in 1 .. Len(s) : s[j] \in S
    BY ElementOfSeq
  <1>3. /\ \A j \in 1 .. i-1 : s[j] \in S
        /\ \A j \in i .. Len(s) : s[j] \in S
        /\ \A j \in i+1 .. Len(s) : s[j] \in S
    BY <1>1, <1>2
  <1>4. 1 \in Int /\ i-1 \in Int /\ i \in Int /\ i+1 \in Int /\ Len(s) \in Int
    BY <1>1
  <1>5. SubSeq(s, 1, i-1) \in Seq(S)
    BY <1>3, <1>4, SubSeqProperties
  <1>6. SubSeq(s, i, Len(s)) \in Seq(S)
    BY <1>3, <1>4, SubSeqProperties
  <1>7. SubSeq(s, i+1, Len(s)) \in Seq(S)
    BY <1>3, <1>4, SubSeqProperties
  <1> QED
    BY <1>5, <1>6, <1>7

LEMMA RemoveAtType ==
    ASSUME NEW S, NEW s \in Seq(S), NEW i \in 1 .. Len(s)
    PROVE  RemoveAt(s, i) \in Seq(S)
  <1>1. i \in 1 .. Len(s) + 1
    BY LenProperties
  <1> QED
    BY <1>1, PiecesType, ConcatProperties DEF RemoveAt

LEMMA InsertAtType ==
    ASSUME NEW S, NEW s \in Seq(S), NEW i \in 1 .. Len(s) + 1, NEW p \in S
    PROVE  InsertAt(s, i, p) \in Seq(S)
  <1>1. <<p>> \in Seq(S)
    OBVIOUS
  <1>2. SubSeq(s, 1, i-1) \o <<p>> \in Seq(S)
    BY <1>1, PiecesType, ConcatProperties
  <1> QED
    BY <1>2, PiecesType, ConcatProperties DEF InsertAt

LEMMA SwapType ==
    ASSUME NEW S, NEW s \in Seq(S), NEW i \in 1 .. Len(s) - 1
    PROVE  [s EXCEPT ![i] = s[i+1], ![i+1] = s[i]] \in Seq(S)
  <1>1. Len(s) \in Nat /\ i \in 1 .. Len(s) /\ i+1 \in 1 .. Len(s)
    BY LenProperties
  <1>2. s[i] \in S /\ s[i+1] \in S
    BY <1>1, ElementOfSeq
  <1> DEFINE t == [s EXCEPT ![i] = s[i+1]]
  <1>3. t \in Seq(S) /\ Len(t) = Len(s)
    BY <1>1, <1>2, ExceptSeq
  <1>4. [t EXCEPT ![i+1] = s[i]] \in Seq(S)
    BY <1>1, <1>2, <1>3, ExceptSeq
  <1> QED
    BY <1>4

\* A fault keeps every packet of the wire in a set S that holds the foreign
\* packets and is closed under damage to a packet.
LEMMA FaultKeeps ==
    ASSUME NEW S, wire \in Seq(S), WireFault, ForeignPacket \subseteq S,
           \A p \in S : [p EXCEPT !.flag = ~@] \in S,
           \A p \in S, c \in OtherChunks : [p EXCEPT !.chunk = c] \in S,
           \A p \in S : [p EXCEPT !.auth.hdr = "damaged"] \in S,
           \A p \in S : [p EXCEPT !.whole = FALSE] \in S
    PROVE  wire' \in Seq(S)
  <1>0. \A i \in 1 .. Len(wire) : wire[i] \in S
    BY ElementOfSeq
  <1>1. CASE Drop
    BY <1>1, RemoveAtType DEF Drop
  <1>2. CASE Duplicate
    <2>1. PICK i \in 1 .. Len(wire) : wire' = InsertAt(wire, i, wire[i])
      BY <1>2 DEF Duplicate
    <2>2. i \in 1 .. Len(wire) + 1 /\ wire[i] \in S
      BY <1>0, LenProperties
    <2> QED
      BY <2>1, <2>2, InsertAtType
  <1>3. CASE Swap
    BY <1>3, SwapType DEF Swap
  <1>4. CASE Splice
    BY <1>4, InsertAtType DEF Splice
  <1>5. CASE FlipFlag
    <2>1. PICK i \in 1 .. Len(wire) : wire' = [wire EXCEPT ![i].flag = ~@]
      BY <1>5 DEF FlipFlag
    <2>2. wire' = [wire EXCEPT ![i] = [wire[i] EXCEPT !.flag = ~@]]
      BY <2>1
    <2> QED
      BY <1>0, <2>2, ExceptSeq
  <1>6. CASE Damage
    <2>1. PICK i \in 1 .. Len(wire) :
            \/ \E c \in OtherChunks : wire' = [wire EXCEPT ![i].chunk = c]
            \/ wire' = [wire EXCEPT ![i].auth.hdr = "damaged"]
      BY <1>6 DEF Damage
    <2>2. CASE \E c \in OtherChunks : wire' = [wire EXCEPT ![i].chunk = c]
      <3>1. PICK c \in OtherChunks : wire' = [wire EXCEPT ![i].chunk = c]
        BY <2>2
      <3>2. wire' = [wire EXCEPT ![i] = [wire[i] EXCEPT !.chunk = c]]
        BY <3>1
      <3> QED
        BY <1>0, <3>2, ExceptSeq
    <2>3. CASE wire' = [wire EXCEPT ![i].auth.hdr = "damaged"]
      <3>1. wire' = [wire EXCEPT ![i] = [wire[i] EXCEPT !.auth.hdr = "damaged"]]
        BY <2>3
      <3> QED
        BY <1>0, <3>1, ExceptSeq
    <2> QED
      BY <2>1, <2>2, <2>3
  <1>7. CASE Truncate
    <2>1. PICK k \in 0 .. Len(wire) :
            \/ wire' = SubSeq(wire, 1, k)
            \/ /\ k > 0
               /\ wire' = [SubSeq(wire, 1, k) EXCEPT ![k].whole = FALSE]
      BY <1>7 DEF Truncate
    <2> DEFINE t == SubSeq(wire, 1, k)
    <2>2. t \in Seq(S) /\ Len(t) = k
      BY CutSequence
    <2>3. CASE k > 0 /\ wire' = [t EXCEPT ![k].whole = FALSE]
      <3>1. wire' = [t EXCEPT ![k] = [t[k] EXCEPT !.whole = FALSE]]
        BY <2>3
      <3>2. k \in 1 .. Len(t) /\ t[k] \in S
        BY <2>2, <2>3, ElementOfSeq
      <3> HIDE DEF t
      <3> QED
        BY <2>2, <3>1, <3>2, ExceptSeq
    <2> QED
      BY <2>1, <2>2, <2>3
  <1> QED
    BY <1>1, <1>2, <1>3, <1>4, <1>5, <1>6, <1>7 DEF WireFault

LEMMA ForeignPacketType ==
    ASSUME kind \in Kind
    PROVE  \A p \in ForeignPacket : p \in Packet /\ p.auth.hdr = "other"
  <1> TAKE p \in ForeignPacket
  <1>1. PICK n \in 0 .. MaxBlockNumber - 1, c \in OtherChunks, f \in BOOLEAN :
            p = MakePacket(kind, "other", n, c, f)
    BY DEF ForeignPacket
  <1>2. n \in Nat /\ c \in Chunk /\ "other" \in Header
    BY MaxBlockNumberAssumption, OtherChunksAssumption DEF Header
  <1>3. p \in Packet
    BY <1>1, <1>2, MakePacketType
  <1>4. p.auth = BlockBinding(kind, "other", n, c, f)
    BY <1>1 DEF MakePacket
  <1>5. kind.mode \in {"encrypt", "sign", "signcrypt"}
    BY DEF Kind
  <1>6. BlockBinding(kind, "other", n, c, f).hdr = "other"
    BY <1>5 DEF BlockBinding, ComputePayloadHash, AttachedSignatureInput,
       ComputeSigncryptionSignatureInput
  <1> QED
    BY <1>3, <1>4, <1>6

LEMMA DamagedPacketType ==
    /\ \A p \in Packet : [p EXCEPT !.flag = ~@] \in Packet
    /\ \A p \in Packet, c \in OtherChunks : [p EXCEPT !.chunk = c] \in Packet
    /\ \A p \in Packet : [p EXCEPT !.auth.hdr = "damaged"] \in Packet
    /\ \A p \in Packet : [p EXCEPT !.whole = FALSE] \in Packet
  <1>1. ASSUME NEW p \in Packet
        PROVE  [p EXCEPT !.auth.hdr = "damaged"] \in Packet
    <2>1. [p.auth EXCEPT !.hdr = "damaged"] \in Binding
      BY DEF Packet, Binding, Header
    <2> QED
      BY <2>1 DEF Packet
  <1> QED
    BY <1>1, OtherChunksAssumption DEF Packet

\* Every fault of the wire keeps the types.
LEMMA WireStepType ==
    ASSUME TypeOK, WireFault, UNCHANGED <<sealVars, openVars>>
    PROVE  TypeOK'
  <1>1. wire \in Seq(Packet) /\ kind \in Kind
    BY DEF TypeOK, WireTypeOK
  <1>2. ForeignPacket \subseteq Packet
    BY <1>1, ForeignPacketType
  <1>3. wire' \in Seq(Packet)
    BY <1>1, <1>2, DamagedPacketType, FaultKeeps
  <1>4. Fault /\ eof' \in BOOLEAN
    BY DEF WireFault, Drop, Duplicate, Swap, Splice, FlipFlag, Damage, Truncate,
       TypeOK, WireTypeOK
  <1> QED
    BY <1>3, <1>4 DEF Fault, TypeOK, WireTypeOK, SealTypeOK, OpenTypeOK,
       sealVars, openVars

LEMMA InitType == Init => TypeOK
  <1> SUFFICES ASSUME Init
               PROVE  TypeOK
    OBVIOUS
  <1>1. WireTypeOK
    BY EmptySeq DEF Init, WireInit, WireTypeOK
  <1>2. SealTypeOK
    BY EmptySeq DEF Init, SealInit, SealTypeOK
  <1>3. OpenTypeOK
    BY EmptySeq DEF Init, OpenInit, OpenTypeOK, Result
  <1> QED
    BY <1>1, <1>2, <1>3 DEF TypeOK

LEMMA StutterType ==
    ASSUME TypeOK, UNCHANGED vars
    PROVE  TypeOK'
  BY DEF TypeOK, WireTypeOK, SealTypeOK, OpenTypeOK, vars, wireVars, sealVars,
     openVars

LEMMA StepType ==
    ASSUME TypeOK, [Next]_vars
    PROVE  TypeOK'
  BY SealStepType, OpenStepType, WireStepType, StutterType DEF Next

\* The variables of the two streams and of the wire keep their types.
THEOREM TypeCorrect == Spec => []TypeOK
  <1>1. TypeOK /\ [Next]_vars => TypeOK'
    BY StepType
  <1> QED
    BY InitType, <1>1, PTL DEF Spec

-----------------------------------------------------------------------------
(* What depends on the sealed blocks, when they do not change and when one *)
(* is added.                                                               *)

LEMMA SealedKept ==
    ASSUME UNCHANGED <<kind, sealed>>
    PROVE  /\ \A n : TextsUpTo(n)' = TextsUpTo(n)
           /\ Texts' = Texts
           /\ FinalBlocks' = FinalBlocks
           /\ GenuinePacket' = GenuinePacket
  BY DEF TextsUpTo, Texts, FinalBlocks, GenuinePacket

\* A packet written adds to the texts, but not to those that end before it.
LEMMA TextsGrow ==
    ASSUME TypeOK, PacketWritten
    PROVE  /\ Texts \subseteq Texts'
           /\ \A n : TextsUpTo(n) \subseteq TextsUpTo(n)'
           /\ \A n \in 0 .. numBlocks : TextsUpTo(n)' = TextsUpTo(n)
           /\ \A n : n = numBlocks + 1 =>
                    \A t \in TextsUpTo(numBlocks) :
                            t \o NextChunk \in TextsUpTo(n)'
  <1>1. sealed \subseteq sealed'
    BY BlocksAdded
  <1>2. numBlocks \in Nat
    BY DEF TypeOK, SealTypeOK
  <1>3. Texts \subseteq Texts'
    BY <1>1 DEF Texts
  <1>4. \A n : TextsUpTo(n) \subseteq TextsUpTo(n)'
    BY <1>1 DEF TextsUpTo
  <1>5. ASSUME NEW n \in 0 .. numBlocks
        PROVE  TextsUpTo(n)' \subseteq TextsUpTo(n)
    <2>1. CASE n = 0
      BY <2>1 DEF TextsUpTo
    <2>2. CASE n # 0
      <3>1. n - 1 # numBlocks
        BY <1>2
      <3>2. \A b \in sealed' : b.num = n - 1 => b \in sealed
        BY <3>1, BlocksAdded
      <3> QED
        BY <2>2, <3>2 DEF TextsUpTo
    <2> QED
      BY <2>1, <2>2
  <1>6. ASSUME NEW n, n = numBlocks + 1, NEW t \in TextsUpTo(numBlocks)
        PROVE  t \o NextChunk \in TextsUpTo(n)'
    <2>1. BlockAfter(t) \in sealed' /\ BlockAfter(t).num = n - 1 /\ n # 0
      BY <1>2, <1>6, BlocksAdded
    <2>2. BlockAfter(t).upto = t \o NextChunk
      BY BlocksAdded
    <2> QED
      BY <2>1, <2>2 DEF TextsUpTo
  <1> QED
    BY <1>3, <1>4, <1>5, <1>6

\* The receiver will take a block for final exactly if Close sealed it as one.
LEMMA NextPacketFinal ==
    ASSUME TypeOK, BlockReadOK
    PROVE  PacketIsFinal(kind, NextPacket) = IsFinal
  <1>1. kind \in Kind
    BY DEF TypeOK, WireTypeOK
  <1>2. NextPacket.chunk = NextChunk /\ NextPacket.flag = (kind.version = 2 /\ IsFinal)
    BY DEF NextPacket, MakePacket
  <1>3. CASE kind.version = 1
    <2>1. kind.mode # "signcrypt"
      BY <1>1, <1>3 DEF Kind
    <2> QED
      BY <1>2, <1>3, <2>1 DEF BlockReadOK, CheckBlockRead, PacketIsFinal, IsFinal
  <1>4. CASE kind.version = 2
    BY <1>2, <1>4 DEF PacketIsFinal, IsFinal
  <1> QED
    BY <1>1, <1>3, <1>4 DEF Kind

\* A sequence over a set is one over a larger set.
LEMMA SeqMonotone ==
    ASSUME NEW S, NEW T, S \subseteq T, NEW s \in Seq(S)
    PROVE  s \in Seq(T)
  OBVIOUS

\* A packet written later never turns a genuine packet into another.
LEMMA GenuineGrows ==
    ASSUME TypeOK, SealedInOrder, PacketWritten
    PROVE  GenuinePacket \subseteq GenuinePacket' /\ NextPacket \in GenuinePacket'
  <1>1. sealed \subseteq sealed'
    BY BlocksAdded
  <1>2. GenuinePacket \subseteq GenuinePacket'
    BY <1>1 DEF GenuinePacket
  <1>3. PICK t : t \in TextsUpTo(numBlocks)
    BY DEF SealedInOrder
  <1>4. BlockAfter(t) \in sealed' /\ BlockAfter(t).packet = NextPacket
    BY <1>3, BlocksAdded
  <1>5. \E b \in sealed' : NextPacket.auth = b.packet.auth
    BY <1>4
  <1> QED
    BY <1>2, <1>5, NextPacketType DEF GenuinePacket

\* What is on the wire stays genuine when a packet is written.
LEMMA WireGrows ==
    ASSUME TypeOK, SealedInOrder, WireGenuine, PacketWritten
    PROVE  WireGenuine'
  <1>1. GenuinePacket \subseteq GenuinePacket' /\ NextPacket \in GenuinePacket'
    BY GenuineGrows
  <1>2. wire \in Seq(GenuinePacket) /\ wire' = Append(wire, NextPacket)
    BY DEF WireGenuine, PacketWritten
  <1>3. wire \in Seq(GenuinePacket')
    BY <1>1, <1>2, SeqMonotone
  <1> HIDE DEF GenuinePacket
  <1>4. Append(wire, NextPacket) \in Seq(GenuinePacket')
    BY <1>1, <1>3, AppendProperties
  <1> QED
    BY <1>2, <1>4 DEF WireGenuine

-----------------------------------------------------------------------------
(* The sender's steps.                                                     *)

\* While a block is being sealed no call has failed before, and no Close has
\* returned nil, unless the caller has gone on after it.
LEMMA NotStoppedYet ==
    ASSUME TypeOK, NumbersLeft, OneFinalBlock, Sealing
    PROVE  /\ ~retried => ~failed /\ \A b \in sealed : b.num < numBlocks
           /\ ~reused => closes = 0
           /\ ~reused /\ ~retried => FinalBlocks = {}
  <1>1. sealPc # "idle"
    BY DEF Sealing
  <1>2. ~retried => ~failed /\ \A b \in sealed : b.num < numBlocks
    BY <1>1 DEF NumbersLeft
  <1>3. ~reused => closes = 0
    BY <1>1 DEF OneFinalBlock, TypeOK, SealTypeOK
  <1>4. ~reused /\ ~retried => FinalBlocks = {}
    BY <1>2, <1>3 DEF OneFinalBlock
  <1> QED
    BY <1>2, <1>3, <1>4

\* What a call that starts makes of the callers' mistakes.
LEMMA CallUnlessMistaken ==
    ASSUME TypeOK, NumbersLeft, OneFinalBlock, sealPc = "idle",
           UNCHANGED <<kind, sealed, numBlocks, failed, closes>>,
           retried' = (retried \/ failed), reused' = (reused \/ closes > 0)
    PROVE  /\ ~reused' => ~reused /\ closes = 0
           /\ ~retried' => ~retried /\ ~failed
           /\ NumbersLeft' /\ OneFinalBlock'
  <1>1. ~reused' => ~reused /\ closes = 0
    <2>1. ~(closes > 0) => closes = 0
      BY DEF TypeOK, SealTypeOK
    <2>2. ~reused' => ~reused /\ ~(closes > 0)
      OBVIOUS
    <2> QED
      BY <2>1, <2>2
  <1>2. ~retried' => ~retried /\ ~failed
    OBVIOUS
  <1>3. NumbersLeft'
    BY <1>2 DEF NumbersLeft
  <1>4. FinalBlocks' = FinalBlocks
    BY SealedKept
  <1>5. ~reused' /\ ~retried' => FinalBlocks = {}
    BY <1>1, <1>2 DEF OneFinalBlock
  <1>6. OneFinalBlock'
    BY <1>1, <1>4, <1>5 DEF OneFinalBlock
  <1> QED
    BY <1>1, <1>2, <1>3, <1>6

\* For a caller that has made no mistake the sanity checks of a block pass.
LEMMA ChecksPass ==
    ASSUME TypeOK, BufferInv, Sealing, ~failed, ~reused
    PROVE  BlockReadOK /\ EncodedChunkStateOK
  <1>1. /\ NextLen \in 0 .. Len(buffer) /\ NextLen <= BlockSize
        /\ Len(NextChunk) = NextLen /\ NextChunk \in Seq(Byte)
        /\ Len(Rest) = Len(buffer) - NextLen /\ Rest \in Seq(Byte)
    BY NextBlock DEF TypeOK
  <1>2. Len(buffer) \in Nat /\ BlockSize \in Nat /\ BlockSize > 0
    BY LenProperties, BlockSizeAssumption DEF TypeOK, SealTypeOK
  <1>3. NextLen = IF Len(buffer) < BlockSize THEN Len(buffer) ELSE BlockSize
    BY DEF NextLen
  <1>4. /\ Rest = << >> <=> Len(Rest) = 0
        /\ NextChunk = << >> <=> NextLen = 0
        /\ buffer = << >> <=> Len(buffer) = 0
    BY <1>1, EmptySeq DEF TypeOK, SealTypeOK
  <1>5. kind.version \in {1, 2} /\ (kind.mode = "signcrypt" => kind.version = 2)
    BY DEF TypeOK, WireTypeOK, Kind
  <1>6. NextLen < BlockSize => Rest = << >>
    BY <1>1, <1>2, <1>3, <1>4
  <1>10. AssertedLength(kind.mode, NextLen) = 0 =>
            NextLen = 0 /\ kind.mode # "signcrypt"
    BY <1>1, <1>2 DEF AssertedLength, SignatureSize
  <1>11. NextLen # 0 => AssertedLength(kind.mode, NextLen) # 0
    BY <1>10
  <1>12. kind.mode # "signcrypt" => AssertedLength(kind.mode, NextLen) = NextLen
    BY DEF AssertedLength
  <1>13. ASSUME NextLen # 0, ~IsFinal
        PROVE  BlockReadOK /\ EncodedChunkStateOK
    <2>1. BlockReadOK
      BY <1>1, <1>4, <1>6, <1>13 DEF BlockReadOK, CheckBlockRead, SigncryptBlockRead
    <2>2. EncodedChunkStateOK
      BY <1>11, <1>13 DEF EncodedChunkStateOK, BadChunkState, IsFinal
    <2> QED
      BY <2>1, <2>2
  <1>7. CASE sealPc = "writing"
    <2>1. Len(buffer) > BlockSize /\ ~IsFinal
      BY <1>7 DEF BufferInv, IsFinal
    <2>2. NextLen = BlockSize /\ NextLen # 0
      BY <1>2, <1>3, <2>1
    <2> QED
      BY <1>13, <2>1, <2>2
  <1>8. CASE sealPc = "flushing"
    <2>1. kind.version = 1 /\ Len(buffer) \in 1 .. BlockSize /\ ~IsFinal
      BY <1>8 DEF BufferInv, IsFinal
    <2>2. NextLen # 0
      BY <1>2, <1>3, <2>1
    <2> QED
      BY <1>13, <2>1, <2>2
  <1>9. CASE sealPc = "closing"
    <2>1. IsFinal /\ Len(buffer) <= BlockSize
      BY <1>9 DEF BufferInv, IsFinal
    <2>2. NextLen = Len(buffer) /\ Rest = << >>
      BY <1>1, <1>2, <1>3, <1>4, <2>1
    <2>3. IF kind.version = 1 THEN NextLen = 0 ELSE numBlocks = 0 \/ NextLen # 0
      BY <1>4, <1>9, <2>2 DEF BufferInv
    <2>4. BlockReadOK
      BY <1>1, <1>4, <2>1, <2>2, <2>3
      DEF BlockReadOK, CheckBlockRead, SigncryptBlockRead
    <2> DEFINE n == AssertedLength(kind.mode, NextLen)
    <2>5. kind.version = 1 => n = 0
      BY <1>5, <1>12, <2>3
    <2>6. kind.version # 1 => numBlocks = 0 \/ n # 0
      BY <1>11, <2>3
    <2> HIDE DEF n
    <2>7. ~BadChunkState(kind.version, n, numBlocks, IsFinal)
      BY <2>1, <2>5, <2>6 DEF BadChunkState
    <2>8. EncodedChunkStateOK
      BY <2>7 DEF EncodedChunkStateOK, n
    <2> QED
      BY <2>4, <2>8
  <1> QED
    BY <1>7, <1>8, <1>9 DEF Sealing

\* What a sender's step that writes no whole packet leaves of the invariant.
LEMMA NothingSealed ==
    ASSUME IInv, UNCHANGED <<kind, sealed, numBlocks>>, UNCHANGED openVars
    PROVE  /\ SealedInOrder' /\ ReceivedInOrder' /\ VerdictDrained'
           /\ FinalBlocks' = FinalBlocks /\ GenuinePacket' = GenuinePacket
           /\ Texts' = Texts /\ \A n : TextsUpTo(n)' = TextsUpTo(n)
  <1>1. /\ \A n : TextsUpTo(n)' = TextsUpTo(n)
        /\ Texts' = Texts /\ FinalBlocks' = FinalBlocks
        /\ GenuinePacket' = GenuinePacket
    BY SealedKept
  <1>2. SealedInOrder'
    BY <1>1 DEF IInv, SealedInOrder
  <1>3. ReceivedInOrder' /\ VerdictDrained'
    BY <1>1 DEF IInv, ReceivedInOrder, VerdictDrained, Received, openVars
  <1> QED
    BY <1>1, <1>2, <1>3

\* Starting a call.
LEMMA WriteCallStep ==
    ASSUME IInv, NEW p \in Payload, WriteCall(p), UNCHANGED openVars
    PROVE  IInv'
  <1> USE DEF IInv
  <1>1. TypeOK'
    BY SealStepType DEF SealNext
  <1>2. /\ UNCHANGED <<kind, sealed, numBlocks, closes, failed, wire>>
        /\ sealPc = "idle" /\ buffer' = buffer \o p /\ written' = written \o p
        /\ retried' = (retried \/ failed) /\ reused' = (reused \/ closes > 0)
    BY DEF WriteCall, wireVars
  <1>3. /\ SealedInOrder' /\ ReceivedInOrder' /\ VerdictDrained'
        /\ GenuinePacket' = GenuinePacket
        /\ Texts' = Texts /\ \A n : TextsUpTo(n)' = TextsUpTo(n)
    BY <1>2, NothingSealed
  <1>4. p \in Seq(Byte) /\ buffer \in Seq(Byte) /\ written \in Seq(Byte)
    BY PayloadAssumption DEF TypeOK, SealTypeOK
  <1>5. NothingLost'
    <2>1. ASSUME ~failed, NEW t \in TextsUpTo(numBlocks)
          PROVE  t \o buffer' = written'
      <3>1. t \o buffer = written
        BY <1>2, <2>1 DEF NothingLost
      <3>2. t \in Seq(Byte)
        BY TextsType DEF TypeOK
      <3>3. (t \o buffer) \o p = t \o (buffer \o p)
        BY <1>4, <3>2, ConcatAssociative
      <3> QED
        BY <1>2, <3>1, <3>3
    <2>2. ASSUME ~retried, NEW t \in Texts
          PROVE  IsPrefix(t, written')
      <3>1. t \in Seq(Byte) /\ IsPrefix(t, written)
        BY <2>2, TextsType DEF NothingLost, TypeOK
      <3>2. IsPrefix(written, written') /\ written' \in Seq(Byte)
        BY <1>2, <1>4, PrefixOfConcat, ConcatProperties
      <3> QED
        BY <1>4, <3>1, <3>2, PrefixTransitive
    <2> QED
      BY <1>2, <1>3, <2>1, <2>2 DEF NothingLost
  <1>6. /\ ~reused' => ~reused /\ closes = 0
        /\ ~retried' => ~retried /\ ~failed
        /\ NumbersLeft' /\ OneFinalBlock'
    BY <1>2, CallUnlessMistaken
  <1>7. NumberUsedOnce'
    BY <1>2, <1>6 DEF NumberUsedOnce
  <1>8. BufferInv'
    <2>2. /\ Len(buffer') = Len(buffer) + Len(p) /\ buffer' \in Seq(Byte)
          /\ Len(buffer) \in Nat /\ Len(p) \in Nat /\ BlockSize \in Nat
      BY <1>2, <1>4, ConcatProperties, LenProperties, BlockSizeAssumption
    <2>3. buffer # << >> => buffer' # << >>
      BY <1>4, <2>2, EmptySeq
    <2>4. sealPc' = (IF Len(buffer') > BlockSize THEN "writing" ELSE "idle")
      BY DEF WriteCall, HoldsMoreThanABlock
    <2> QED
      BY <1>2, <1>6, <2>2, <2>3, <2>4 DEF BufferInv
  <1>9. WireGenuine'
    BY <1>2, <1>3 DEF WireGenuine
  <1> QED
    BY <1>1, <1>3, <1>5, <1>6, <1>7, <1>8, <1>9

LEMMA CloseCallStep ==
    ASSUME IInv, CloseCall, UNCHANGED openVars
    PROVE  IInv'
  <1> USE DEF IInv
  <1>1. TypeOK'
    BY SealStepType DEF SealNext
  <1>2. /\ UNCHANGED <<kind, sealed, numBlocks, closes, failed, wire, buffer, written>>
        /\ sealPc = "idle"
        /\ retried' = (retried \/ failed) /\ reused' = (reused \/ closes > 0)
    BY DEF CloseCall, wireVars
  <1>3. /\ SealedInOrder' /\ ReceivedInOrder' /\ VerdictDrained'
        /\ GenuinePacket' = GenuinePacket
        /\ Texts' = Texts /\ \A n : TextsUpTo(n)' = TextsUpTo(n)
    BY <1>2, NothingSealed
  <1>5. NothingLost'
    BY <1>2, <1>3 DEF NothingLost
  <1>6. /\ ~reused' => ~reused /\ closes = 0
        /\ ~retried' => ~retried /\ ~failed
        /\ NumbersLeft' /\ OneFinalBlock'
    BY <1>2, CallUnlessMistaken
  <1>7. NumberUsedOnce'
    BY <1>2, <1>6 DEF NumberUsedOnce
  <1>8. BufferInv'
    <2>1. buffer # << >> => Len(buffer) # 0 /\ Len(buffer) \in Nat
      BY EmptySeq, LenProperties DEF TypeOK, SealTypeOK
    <2>2. BlockSize \in Nat /\ kind.version \in {1, 2}
      BY BlockSizeAssumption DEF TypeOK, WireTypeOK, Kind
    <2>3. sealPc' = (IF kind.version = 1 /\ buffer # << >>
                     THEN "flushing" ELSE "closing")
      BY DEF CloseCall
    <2> QED
      BY <1>2, <1>6, <2>1, <2>2, <2>3 DEF BufferInv
  <1>9. WireGenuine'
    BY <1>2, <1>3 DEF WireGenuine
  <1> QED
    BY <1>1, <1>3, <1>5, <1>6, <1>7, <1>8, <1>9

\* A panic is the fault of a caller that has gone on after an error or a Close.
LEMMA BlockPanicsStep ==
    ASSUME IInv, BlockPanics, UNCHANGED openVars
    PROVE  IInv'
  <1> USE DEF IInv
  <1>1. TypeOK'
    BY SealStepType DEF SealNext, SealBlock
  <1>2. /\ UNCHANGED <<kind, sealed, numBlocks, closes, failed, retried, reused,
                       wire, written>>
        /\ sealPc' = "panicked" /\ Sealing
    BY DEF BlockPanics, Panic, wireVars
  <1>3. failed \/ reused
    BY ChecksPass DEF BlockPanics
  <1>4. /\ ~retried => ~failed
        /\ ~reused => closes = 0
        /\ ~reused /\ ~retried => FinalBlocks = {}
    BY <1>2, NotStoppedYet
  <1>5. OneFinalBlock'
    BY <1>2, <1>4, NothingSealed DEF OneFinalBlock
  <1>6. BufferInv' /\ NothingLost'
    BY <1>2, <1>3, NothingSealed DEF BufferInv, NothingLost
  <1>7. NumbersLeft' /\ NumberUsedOnce'
    BY <1>2, <1>4 DEF NumbersLeft, NumberUsedOnce
  <1>8. WireGenuine'
    BY <1>2, NothingSealed DEF WireGenuine
  <1> QED
    BY <1>1, <1>2, <1>5, <1>6, <1>7, <1>8, NothingSealed

\* An error return with no whole packet written.
LEMMA BlockErrorStep ==
    ASSUME IInv, BlockError, UNCHANGED <<kind, sealed>>, UNCHANGED openVars,
           TypeOK', wire' \in Seq(GenuinePacket)
    PROVE  IInv'
  <1> USE DEF IInv
  <1>1. /\ UNCHANGED <<kind, sealed, numBlocks, closes, retried, reused, written>>
        /\ failed' = TRUE /\ sealPc' = "idle" /\ Sealing
    BY DEF BlockError
  <1>2. /\ ~reused => closes = 0
        /\ ~reused /\ ~retried => FinalBlocks = {}
    BY <1>1, NotStoppedYet
  <1>3. OneFinalBlock'
    BY <1>1, <1>2, NothingSealed DEF OneFinalBlock
  <1>4. BufferInv' /\ NothingLost'
    BY <1>1, NothingSealed DEF BufferInv, NothingLost
  <1>5. NumbersLeft' /\ NumberUsedOnce'
    BY <1>1 DEF NumbersLeft, NumberUsedOnce
  <1>6. WireGenuine'
    BY <1>1, NothingSealed DEF WireGenuine
  <1> QED
    BY <1>1, <1>3, <1>4, <1>5, <1>6, NothingSealed

LEMMA BlockFailsStep ==
    ASSUME IInv, BlockOverflows \/ SignFails \/ EncodeFails, sealed' = sealed,
           \/ wire' = wire
           \/ wire' = Append(wire, [NextPacket EXCEPT !.whole = FALSE]),
           UNCHANGED openVars
    PROVE  IInv'
  <1>1. TypeOK'
    BY SealStepType DEF SealNext, SealBlock, IInv
  <1>2. BlockError /\ kind' = kind
    BY DEF BlockOverflows, SignFails, EncodeFails, wireVars
  <1>3. wire \in Seq(GenuinePacket)
    BY DEF IInv, WireGenuine
  <1> DEFINE torn == [NextPacket EXCEPT !.whole = FALSE]
  <1>4. torn \in GenuinePacket
    <2>1. NextPacket \in Packet
      BY NextPacketType DEF IInv
    <2>2. torn \in Packet /\ torn.whole = FALSE
      BY <2>1 DEF Packet
    <2> QED
      BY <2>2 DEF GenuinePacket
  <1>5. wire' = wire \/ wire' = Append(wire, torn)
    OBVIOUS
  <1> HIDE DEF torn
  <1>6. wire' \in Seq(GenuinePacket)
    BY <1>3, <1>4, <1>5, AppendProperties
  <1> QED
    BY <1>1, <1>2, <1>6, BlockErrorStep

-----------------------------------------------------------------------------
(* Writing a packet, whether Encode then succeeds or fails.                *)

\* The block of the next packet is bound and numbered as it has to be.
LEMMA SealedInOrderStep ==
    ASSUME TypeOK, SealedInOrder, BlockReadOK, PacketWritten, kind' = kind,
           numBlocks' = numBlocks \/ numBlocks' = numBlocks + 1
    PROVE  SealedInOrder'
  <1>1. numBlocks \in Nat /\ sealed \subseteq SealedBlock
    BY DEF TypeOK, SealTypeOK
  <1>2. /\ NextPacket.auth = BlockBinding(kind, "own", numBlocks, NextChunk, IsFinal)
        /\ NextPacket.chunk = NextChunk
        /\ PacketIsFinal(kind, NextPacket) = IsFinal
    BY NextPacketFinal DEF NextPacket, MakePacket
  <1>3. TextsUpTo(numBlocks)' # {}
    <2>1. PICK t : t \in TextsUpTo(numBlocks)
      BY DEF SealedInOrder
    <2>2. /\ \A n \in 0 .. numBlocks : TextsUpTo(n)' = TextsUpTo(n)
          /\ \A n : n = numBlocks + 1 => t \o NextChunk \in TextsUpTo(n)'
      BY <2>1, TextsGrow
    <2>3. CASE numBlocks' = numBlocks
      <3>1. \A n : n = numBlocks => TextsUpTo(n)' = TextsUpTo(n)
        BY <1>1, <2>2
      <3> QED
        BY <2>1, <2>3, <3>1 DEF TextsUpTo
    <2>4. CASE numBlocks' = numBlocks + 1
      BY <2>2, <2>4 DEF TextsUpTo
    <2> QED
      BY <2>3, <2>4
  <1>4. ASSUME NEW b \in sealed'
        PROVE  /\ b.num <= numBlocks /\ b.num \in Nat
               /\ b.packet.auth = BlockBinding(kind, "own", b.num, b.packet.chunk,
                                               PacketIsFinal(kind, b.packet))
               /\ \E t \in TextsUpTo(b.num)' : b.upto = t \o b.packet.chunk
               /\ \A t \in TextsUpTo(b.num)' :
                     [b EXCEPT !.upto = t \o b.packet.chunk] \in sealed'
    <2>1. CASE b \in sealed
      <3>1. /\ b.num <= numBlocks /\ b.num \in Nat
            /\ b.packet.auth = BlockBinding(kind, "own", b.num, b.packet.chunk,
                                            PacketIsFinal(kind, b.packet))
            /\ \E t \in TextsUpTo(b.num) : b.upto = t \o b.packet.chunk
            /\ \A t \in TextsUpTo(b.num) :
                  [b EXCEPT !.upto = t \o b.packet.chunk] \in sealed
        BY <1>1, <2>1 DEF SealedInOrder, SealedBlock
      <3>2. b.num \in 0 .. numBlocks
        BY <1>1, <3>1
      <3>3. TextsUpTo(b.num)' = TextsUpTo(b.num)
        BY <3>2, TextsGrow
      <3> QED
        BY <3>1, <3>3, BlocksAdded
    <2>2. CASE \E t \in TextsUpTo(numBlocks) : b = BlockAfter(t)
      <3>1. PICK t \in TextsUpTo(numBlocks) : b = BlockAfter(t)
        BY <2>2
      <3>2. /\ b.num = numBlocks /\ b.packet = NextPacket
            /\ b.upto = t \o NextChunk
        BY <3>1, BlocksAdded
      <3>3. numBlocks \in 0 .. numBlocks
        BY <1>1
      <3>4. TextsUpTo(b.num)' = TextsUpTo(numBlocks)
        BY <3>2, <3>3, TextsGrow
      <3>5. ASSUME NEW u \in TextsUpTo(numBlocks)
            PROVE  [b EXCEPT !.upto = u \o b.packet.chunk] \in sealed'
        <4>1. [b EXCEPT !.upto = u \o NextChunk] = BlockAfter(u)
          BY <3>1, BlocksAlike
        <4>2. b.packet.chunk = NextChunk /\ BlockAfter(u) \in sealed'
          BY <1>2, <3>2, BlocksAdded
        <4> QED
          BY <4>1, <4>2
      <3>6. b.packet.auth = BlockBinding(kind, "own", b.num, b.packet.chunk,
                                         PacketIsFinal(kind, b.packet))
        BY <1>2, <3>2
      <3>7. \E u \in TextsUpTo(numBlocks) : b.upto = u \o b.packet.chunk
        BY <1>2, <3>2
      <3>8. b.num <= numBlocks /\ b.num \in Nat
        BY <1>1, <3>2
      <3> QED
        BY <3>4, <3>5, <3>6, <3>7, <3>8
    <2> QED
      BY <2>1, <2>2, BlocksAdded
  <1>5. \A b \in sealed' : b.num <= numBlocks'
    BY <1>1, <1>4
  <1> QED
    BY <1>3, <1>4, <1>5 DEF SealedInOrder

\* What the receiver holds stays a text, and a final one if it was.
LEMMA ReceivedKept ==
    ASSUME TypeOK, SealedInOrder, ReceivedInOrder, VerdictDrained, PacketWritten,
           kind' = kind, UNCHANGED openVars
    PROVE  ReceivedInOrder' /\ VerdictDrained'
  <1>1. UNCHANGED <<prevErr, seqno, openPc, out, prevChunk, verdict>>
    BY DEF openVars
  <1>2. Received' = Received
    BY <1>1 DEF Received
  <1>3. /\ Texts \subseteq Texts'
        /\ \A n : TextsUpTo(n) \subseteq TextsUpTo(n)'
    BY TextsGrow
  <1>4. FinalBlocks \subseteq FinalBlocks'
    BY BlocksAdded DEF FinalBlocks
  <1>5. prevErr = "nil" => Received \in TextsUpTo(seqno - 1)'
    <2>1. prevErr = "nil" => Received \in TextsUpTo(seqno - 1)
      BY DEF ReceivedInOrder
    <2>2. \A n : n = seqno - 1 => TextsUpTo(seqno - 1)' = TextsUpTo(n)'
      BY <1>1 DEF TextsUpTo
    <2> QED
      BY <1>3, <2>1, <2>2
  <1>6. ReceivedInOrder'
    BY <1>1, <1>2, <1>3, <1>4, <1>5 DEF ReceivedInOrder
  <1> QED
    BY <1>1, <1>6 DEF VerdictDrained

\* The block of the next packet is the only one with its number, and its text
\* the only one that it can end, unless the caller has gone on after an error.
LEMMA NumberUsedOnceStep ==
    ASSUME TypeOK, NumbersLeft, NumberUsedOnce, OneFinalBlock, Sealing,
           PacketWritten, retried' = retried
    PROVE  NumberUsedOnce'
  <1> SUFFICES ASSUME ~retried, NEW b \in sealed', NEW c \in sealed', b.num = c.num
               PROVE  b = c
    BY DEF NumberUsedOnce
  <1>1. /\ \A d \in sealed : d.num < numBlocks
        /\ \A d, e \in sealed : d.num = e.num => d = e
    BY NotStoppedYet DEF NumberUsedOnce
  <1>2. numBlocks \in Nat /\ \A d \in sealed : d.num \in Nat
    BY DEF TypeOK, SealTypeOK, SealedBlock
  <1>3. \A t, u \in TextsUpTo(numBlocks) : t = u
    BY <1>1 DEF TextsUpTo
  <1>4. CASE b \in sealed /\ c \in sealed
    BY <1>1, <1>4
  <1>5. CASE b \notin sealed /\ c \notin sealed
    <2>1. PICK t \in TextsUpTo(numBlocks) : b = BlockAfter(t)
      BY <1>5, BlocksAdded
    <2>2. PICK u \in TextsUpTo(numBlocks) : c = BlockAfter(u)
      BY <1>5, BlocksAdded
    <2> QED
      BY <1>3, <2>1, <2>2
  <1>6. \A d \in sealed' \ sealed : d.num = numBlocks
    BY BlocksAdded
  <1> QED
    BY <1>1, <1>2, <1>4, <1>5, <1>6

\* The buffer after a block, and where the call goes on.
LEMMA BufferStep ==
    ASSUME TypeOK, BufferInv, NumbersLeft, OneFinalBlock, BlockSealed
    PROVE  BufferInv'
  <1> SUFFICES ASSUME ~failed, ~reused
               PROVE  BufferInv'
    BY DEF BufferInv, BlockSealed
  <1>1. /\ NextLen \in 0 .. Len(buffer) /\ NextLen <= BlockSize
        /\ Len(Rest) = Len(buffer) - NextLen /\ Rest \in Seq(Byte)
    BY NextBlock DEF TypeOK
  <1>2. /\ Len(buffer) \in Nat /\ BlockSize \in Nat /\ BlockSize > 0
        /\ closes = 0
    BY LenProperties, BlockSizeAssumption, NotStoppedYet
    DEF TypeOK, SealTypeOK, BlockSealed
  <1>3. NextLen = IF Len(buffer) < BlockSize THEN Len(buffer) ELSE BlockSize
    BY DEF NextLen
  <1>4. Rest = << >> <=> Len(Rest) = 0
    BY <1>1, EmptySeq
  <1>5. /\ buffer' = Rest /\ sealPc' = AfterBlock
        /\ closes' = closes + (IF IsFinal THEN 1 ELSE 0)
        /\ kind' = kind /\ Sealing
    BY DEF BlockSealed
  <1>6. CASE sealPc = "writing"
    <2>1. Len(buffer) > BlockSize
      BY <1>6 DEF BufferInv
    <2>2. Len(Rest) > 0 /\ closes' = 0
      BY <1>1, <1>2, <1>3, <1>5, <1>6, <2>1 DEF IsFinal
    <2>3. sealPc' = (IF Len(Rest) > BlockSize THEN "writing" ELSE "idle")
      BY <1>5, <1>6 DEF AfterBlock, HoldsMoreThanABlock
    <2> QED
      BY <1>1, <1>2, <1>4, <1>5, <2>2, <2>3 DEF BufferInv
  <1>7. CASE sealPc = "flushing"
    <2>1. kind.version = 1 /\ Len(buffer) \in 1 .. BlockSize
      BY <1>7 DEF BufferInv
    <2>2. Len(Rest) = 0
      BY <1>1, <1>2, <1>3, <2>1
    <2>3. sealPc' = "closing"
      BY <1>5, <1>7, <2>2 DEF AfterBlock
    <2> QED
      BY <1>2, <1>4, <1>5, <2>1, <2>2, <2>3 DEF BufferInv
  <1>8. CASE sealPc = "closing"
    <2>1. Len(buffer) <= BlockSize
      BY <1>8 DEF BufferInv
    <2>2. Len(Rest) = 0 /\ closes' = 1
      BY <1>1, <1>2, <1>3, <1>5, <1>8, <2>1 DEF IsFinal
    <2>3. sealPc' = "idle"
      BY <1>5, <1>8 DEF AfterBlock
    <2> QED
      BY <1>2, <1>5, <2>2, <2>3 DEF BufferInv
  <1> QED
    BY <1>5, <1>6, <1>7, <1>8 DEF Sealing

\* A final block empties the buffer.
LEMMA FinalEmptiesBuffer ==
    ASSUME TypeOK, BlockReadOK, IsFinal
    PROVE  Rest = << >>
  <1>1. kind.version = 1 => kind.mode # "signcrypt"
    BY DEF TypeOK, WireTypeOK, Kind
  <1>2. NextChunk = << >> => NextLen = 0
    BY NextBlock, EmptySeq DEF TypeOK
  <1> QED
    BY <1>1, <1>2, BlockSizeAssumption
    DEF BlockReadOK, SigncryptBlockRead, CheckBlockRead

\* Sealing a block moves its text from the buffer to what has been sealed.
LEMMA BlockMovesText ==
    ASSUME TypeOK, NEW t \in TextsUpTo(numBlocks)
    PROVE  /\ (t \o NextChunk) \o Rest = t \o buffer
           /\ t \o NextChunk \in Seq(Byte) /\ Rest \in Seq(Byte)
  <1>1. t \in Seq(Byte) /\ NextChunk \in Seq(Byte) /\ Rest \in Seq(Byte)
    BY TextsType, NextBlock DEF TypeOK
  <1>2. NextChunk \o Rest = buffer
    BY NextBlock DEF TypeOK
  <1>3. (t \o NextChunk) \o Rest = t \o (NextChunk \o Rest)
    BY <1>1, ConcatAssociative
  <1>4. t \o NextChunk \in Seq(Byte)
    BY <1>1, ConcatProperties
  <1> QED
    BY <1>1, <1>2, <1>3, <1>4

\* While the caller has stopped at every error, what is sealed with the next
\* block is a prefix of what was written, and all of it if the block is final.
LEMMA TextsStep ==
    ASSUME TypeOK, NothingLost, NumbersLeft, OneFinalBlock, Sealing, BlockReadOK,
           PacketWritten, ~retried, kind' = kind
    PROVE  /\ \A t \in TextsUpTo(numBlocks) : (t \o NextChunk) \o Rest = written
           /\ \A t \in Texts' : IsPrefix(t, written)
           /\ \A b \in FinalBlocks' : b \in FinalBlocks \/ b.upto = written
  <1>1. ~failed /\ sealPc # "panicked"
    BY NotStoppedYet DEF Sealing
  <1>2. \A t \in TextsUpTo(numBlocks) : (t \o NextChunk) \o Rest = written
    BY <1>1, BlockMovesText DEF NothingLost
  <1>3. ASSUME NEW t \in TextsUpTo(numBlocks)
        PROVE  IsPrefix(t \o NextChunk, written)
    BY <1>2, BlockMovesText, PrefixOfConcat
  <1>4. ASSUME NEW t \in Texts'
        PROVE  IsPrefix(t, written)
    <2>1. CASE t \in Texts
      BY <2>1 DEF NothingLost
    <2>2. CASE t \notin Texts
      <3>1. PICK b \in sealed' : b.upto = t /\ b \notin sealed
        BY <2>2 DEF Texts
      <3>2. PICK u \in TextsUpTo(numBlocks) : b = BlockAfter(u)
        BY <3>1, BlocksAdded
      <3> QED
        BY <1>3, <3>1, <3>2, BlocksAdded
    <2> QED
      BY <2>1, <2>2
  <1>5. ASSUME NEW b \in FinalBlocks', b \notin FinalBlocks
        PROVE  b.upto = written
    <2>1. b \in sealed' /\ b \notin sealed /\ PacketIsFinal(kind, b.packet)
      BY <1>5 DEF FinalBlocks
    <2>2. PICK u \in TextsUpTo(numBlocks) : b = BlockAfter(u)
      BY <2>1, BlocksAdded
    <2>3. b.packet = NextPacket /\ b.upto = u \o NextChunk
      BY <2>2, BlocksAdded
    <2>4. Rest = << >>
      BY <2>1, <2>3, NextPacketFinal, FinalEmptiesBuffer
    <2>5. (u \o NextChunk) \o << >> = u \o NextChunk
      BY BlockMovesText, ConcatEmptySeq
    <2> QED
      BY <1>2, <2>3, <2>4, <2>5
  <1> QED
    BY <1>2, <1>4, <1>5

\* Encode fails although it has written the whole packet: the number of the
\* block stays free, and the caller that stops has lost nothing before it.
LEMMA WrittenFailsStep ==
    ASSUME IInv, EncodeFails, PacketWritten, UNCHANGED openVars
    PROVE  IInv'
  <1> USE DEF IInv
  <1>1. TypeOK'
    BY SealStepType DEF SealNext, SealBlock
  <1>2. /\ UNCHANGED <<kind, numBlocks, closes, retried, reused, written>>
        /\ failed' = TRUE /\ sealPc' = "idle" /\ Sealing /\ BlockReadOK
    BY DEF EncodeFails, BlockError
  <1>3. SealedInOrder' /\ WireGenuine' /\ ReceivedInOrder' /\ VerdictDrained'
    BY <1>2, SealedInOrderStep, WireGrows, ReceivedKept
  <1>4. NumberUsedOnce' /\ NumbersLeft'
    BY <1>2, NumberUsedOnceStep DEF NumbersLeft
  <1>5. NothingLost'
    BY <1>2, TextsStep DEF NothingLost
  <1>6. OneFinalBlock'
    BY <1>2, NotStoppedYet, TextsStep DEF OneFinalBlock
  <1>7. BufferInv'
    BY <1>2 DEF BufferInv
  <1> QED
    BY <1>1, <1>3, <1>4, <1>5, <1>6, <1>7

LEMMA BlockSealedStep ==
    ASSUME IInv, BlockSealed, UNCHANGED openVars
    PROVE  IInv'
  <1> USE DEF IInv
  <1>1. TypeOK'
    BY SealStepType DEF SealNext, SealBlock
  <1>2. /\ Sealing /\ BlockReadOK /\ PacketWritten /\ numBlocks' = numBlocks + 1
        /\ buffer' = Rest /\ sealPc' = AfterBlock
        /\ closes' = closes + (IF IsFinal THEN 1 ELSE 0)
        /\ UNCHANGED <<kind, written, failed, retried, reused>>
    BY DEF BlockSealed, NextNumber
  <1>3. SealedInOrder' /\ WireGenuine' /\ ReceivedInOrder' /\ VerdictDrained'
    BY <1>2, SealedInOrderStep, WireGrows, ReceivedKept
  <1>4. numBlocks \in Nat /\ \A b \in sealed : b.num \in Nat /\ b.num <= numBlocks
    BY DEF TypeOK, SealTypeOK, SealedBlock, SealedInOrder
  <1>5. NumberUsedOnce' /\ NumbersLeft'
    <2>1. \A b \in sealed' : b.num < numBlocks'
      BY <1>2, <1>4, BlocksAdded
    <2>2. failed /\ ~retried => FALSE
      BY <1>2, NotStoppedYet
    <2> QED
      BY <1>2, <2>1, <2>2, NumberUsedOnceStep DEF NumbersLeft
  <1>6. NothingLost'
    <2>1. ~failed => ~retried
      BY DEF NumbersLeft
    <2>2. ASSUME ~retried, NEW t \in TextsUpTo(numBlocks)'
          PROVE  t \o Rest = written
      <3>1. PICK b \in sealed' : b.num = numBlocks /\ b.upto = t
        <4>1. numBlocks' # 0 /\ numBlocks' - 1 = numBlocks
          BY <1>2, <1>4
        <4> QED
          BY <2>2, <4>1 DEF TextsUpTo
      <3>2. b \notin sealed
        BY <1>2, <1>4, <2>2, <3>1, NotStoppedYet
      <3>3. PICK u \in TextsUpTo(numBlocks) : b = BlockAfter(u)
        BY <1>2, <3>2, BlocksAdded
      <3>4. t = u \o NextChunk
        BY <1>2, <3>1, <3>3, BlocksAdded
      <3> QED
        BY <1>2, <2>2, <3>4, TextsStep
    <2> QED
      BY <1>2, <2>1, <2>2, TextsStep DEF NothingLost
  <1>7. OneFinalBlock'
    <2> SUFFICES ASSUME ~reused
                 PROVE  OneFinalBlock'
      BY <1>2 DEF OneFinalBlock
    <2>1. closes = 0
      BY <1>2, NotStoppedYet
    <2>2. closes' > 0 => IsFinal /\ closes' = 1 /\ sealPc' = "idle"
      BY <1>2, <2>1 DEF IsFinal, AfterBlock
    <2>3. ASSUME ~retried, NEW b \in FinalBlocks'
          PROVE  b.upto = written /\ closes' = 1
      <3>1. b \notin FinalBlocks
        BY <1>2, <2>3, NotStoppedYet
      <3>2. b.upto = written
        BY <1>2, <2>3, <3>1, TextsStep
      <3>3. b \in sealed' /\ b \notin sealed /\ PacketIsFinal(kind, b.packet)
        BY <1>2, <3>1 DEF FinalBlocks
      <3>4. b.packet = NextPacket
        BY <1>2, <3>3, BlocksAdded
      <3>5. IsFinal
        BY <1>2, <3>3, <3>4, NextPacketFinal
      <3> QED
        BY <1>2, <2>1, <3>2, <3>5
    <2> QED
      BY <1>2, <2>2, <2>3 DEF OneFinalBlock
  <1>8. BufferInv'
    BY BufferStep
  <1> QED
    BY <1>1, <1>3, <1>5, <1>6, <1>7, <1>8

LEMMA EndOfOutputStep ==
    ASSUME IInv, EndOfOutput, UNCHANGED openVars
    PROVE  IInv'
  <1>1. TypeOK'
    BY SealStepType DEF SealNext, IInv
  <1>2. UNCHANGED <<sealVars, kind, wire>>
    BY DEF EndOfOutput
  <1>3. UNCHANGED <<kind, sealed, numBlocks>>
    BY <1>2 DEF sealVars
  <1>4. /\ SealedInOrder' /\ ReceivedInOrder' /\ VerdictDrained'
        /\ FinalBlocks' = FinalBlocks /\ GenuinePacket' = GenuinePacket
        /\ Texts' = Texts /\ \A n : TextsUpTo(n)' = TextsUpTo(n)
    BY <1>3, NothingSealed
  <1> QED
    BY <1>1, <1>2, <1>4
    DEF IInv, sealVars, NothingLost, NumbersLeft, NumberUsedOnce, OneFinalBlock,
        BufferInv, WireGenuine

LEMMA SealStep ==
    ASSUME IInv, SealNext, UNCHANGED openVars
    PROVE  IInv'
  <1>1. CASE BlockOverflows \/ SignFails
    BY <1>1, BlockFailsStep DEF BlockOverflows, SignFails, wireVars
  <1>2. CASE EncodeFails
    <2>1. CASE PacketWritten
      BY <1>2, <2>1, WrittenFailsStep
    <2>2. CASE /\ sealed' = sealed
               /\ \/ wire' = wire
                  \/ wire' = Append(wire, [NextPacket EXCEPT !.whole = FALSE])
      BY <1>2, <2>2, BlockFailsStep
    <2> QED
      BY <1>2, <2>1, <2>2 DEF EncodeFails
  <1> QED
    BY <1>1, <1>2, WriteCallStep, CloseCallStep, BlockPanicsStep,
       BlockSealedStep, EndOfOutputStep DEF SealNext, SealBlock

-----------------------------------------------------------------------------
(* The receiver's steps.                                                   *)

\* A step of the receiver or of the wire leaves the sender alone: what is
\* left to show is stated by the last three assumptions.
LEMMA SenderKept ==
    ASSUME IInv, UNCHANGED <<sealVars, kind>>, TypeOK',
           wire' \in Seq(GenuinePacket), ReceivedInOrder', VerdictDrained'
    PROVE  IInv'
  <1>1. /\ \A n : TextsUpTo(n)' = TextsUpTo(n)
        /\ Texts' = Texts /\ FinalBlocks' = FinalBlocks
        /\ GenuinePacket' = GenuinePacket
    BY SealedKept DEF sealVars
  <1>2. UNCHANGED <<buffer, numBlocks, sealPc, written, sealed, failed, retried,
                    closes, reused, kind>>
    BY DEF sealVars
  <1>3. SealedInOrder'
    BY <1>1, <1>2 DEF IInv, SealedInOrder
  <1>4. NothingLost'
    BY <1>1, <1>2 DEF IInv, NothingLost
  <1>5. OneFinalBlock' /\ BufferInv' /\ NumbersLeft' /\ NumberUsedOnce'
    BY <1>1, <1>2
    DEF IInv, OneFinalBlock, BufferInv, NumbersLeft, NumberUsedOnce
  <1>6. WireGenuine'
    BY <1>1 DEF WireGenuine
  <1> QED
    BY <1>3, <1>4, <1>5, <1>6 DEF IInv

\* The receiver keeps what it holds, and what it knows of it.
LEMMA HeldKept ==
    ASSUME IInv, UNCHANGED <<sealVars, kind, seqno, prevErr, verdict>>,
           Received' = Received, openPc' = openPc \/ openPc' \in {"idle", "reading"}
    PROVE  ReceivedInOrder'
  <1>1. /\ \A n : TextsUpTo(n)' = TextsUpTo(n)
        /\ Texts' = Texts /\ FinalBlocks' = FinalBlocks
    BY SealedKept DEF sealVars
  <1>2. TextsUpTo(seqno - 1)' = TextsUpTo(seqno - 1)
    BY <1>1 DEF TextsUpTo, sealVars
  <1> QED
    BY <1>1, <1>2 DEF IInv, ReceivedInOrder

LEMMA ReadCallStep ==
    ASSUME IInv, NEW n \in ReadSizes, ReadCall(n), UNCHANGED sealVars
    PROVE  IInv'
  <1>1. TypeOK'
    BY OpenStepType DEF OpenNext, IInv
  <1>2. /\ UNCHANGED <<kind, wire, seqno, prevChunk, prevErr, out, verdict>>
        /\ openPc' = "reading"
    BY DEF ReadCall, wireVars
  <1>3. ReceivedInOrder'
    BY <1>2, HeldKept DEF Received
  <1>4. VerdictDrained'
    BY <1>2 DEF IInv, VerdictDrained
  <1> QED
    BY <1>1, <1>2, <1>3, <1>4, SenderKept DEF IInv, WireGenuine

\* Copying moves bytes from the pending chunk to the caller.
LEMMA CopyMovesText ==
    ASSUME TypeOK, CopyOut
    PROVE  Received' = Received
  <1>1. Len(prevChunk) \in Nat /\ prevChunk \in Seq(Byte) /\ out \in Seq(Byte)
    BY LenProperties DEF TypeOK, OpenTypeOK
  <1>2. CopyLen \in 0 .. Len(prevChunk)
    BY <1>1 DEF CopyLen, TypeOK, OpenTypeOK
  <1> DEFINE front == SubSeq(prevChunk, 1, CopyLen)
             back  == SubSeq(prevChunk, CopyLen + 1, Len(prevChunk))
  <1>3. front \in Seq(Byte) /\ back \in Seq(Byte)
    BY <1>1, <1>2, CutSequence
  <1>4. front \o back = prevChunk
    BY <1>1, <1>2, CutSequence
  <1>5. out' = out \o front /\ prevChunk' = back
    BY DEF CopyOut
  <1> HIDE DEF front, back
  <1>6. \A s, t, u \in Seq(Byte) : (s \o t) \o u = s \o (t \o u)
    BY ConcatAssociative
  <1>7. (out \o front) \o back = out \o (front \o back)
    BY <1>1, <1>3, <1>6
  <1> QED
    BY <1>4, <1>5, <1>7 DEF Received

LEMMA CopyOutStep ==
    ASSUME IInv, CopyOut, UNCHANGED sealVars
    PROVE  IInv'
  <1>1. TypeOK'
    BY OpenStepType DEF OpenNext, ReadStep, IInv
  <1>2. /\ UNCHANGED <<kind, wire, seqno, prevErr, verdict>>
        /\ openPc' \in {"idle", "reading"} /\ prevChunk # << >>
    BY DEF CopyOut, wireVars
  <1>4. Received' = Received
    BY CopyMovesText DEF IInv
  <1>5. ReceivedInOrder'
    BY <1>2, <1>4, HeldKept
  <1>6. VerdictDrained'
    BY <1>2 DEF IInv, VerdictDrained
  <1> QED
    BY <1>1, <1>2, <1>5, <1>6, SenderKept DEF IInv, WireGenuine

LEMMA ReturnErrorStep ==
    ASSUME IInv, ReturnError, UNCHANGED sealVars
    PROVE  IInv'
  <1>1. TypeOK'
    BY OpenStepType DEF OpenNext, ReadStep, IInv
  <1>2. /\ UNCHANGED <<kind, wire, seqno, prevChunk, prevErr, out>>
        /\ openPc' = "idle" /\ prevChunk = << >> /\ verdict' = prevErr
    BY DEF ReturnError, wireVars
  <1>3. /\ Texts' = Texts /\ FinalBlocks' = FinalBlocks
        /\ \A n : TextsUpTo(n)' = TextsUpTo(n)
    BY <1>2, SealedKept DEF sealVars
  <1>4. ReceivedInOrder' /\ VerdictDrained'
    <2>1. TextsUpTo(seqno - 1)' = TextsUpTo(seqno - 1)
      BY <1>2, <1>3 DEF TextsUpTo, sealVars
    <2> QED
      BY <1>2, <1>3, <2>1
      DEF IInv, ReceivedInOrder, VerdictDrained, Received
  <1> QED
    BY <1>1, <1>2, <1>4, SenderKept DEF IInv, WireGenuine

\* A packet taken from the wire leaves genuine ones behind.
LEMMA ReceiveKeeps ==
    ASSUME WireGenuine, Receive
    PROVE  Head(wire) \in GenuinePacket /\ wire' \in Seq(GenuinePacket)
  <1>1. wire \in Seq(GenuinePacket) /\ wire # << >> /\ wire' = Tail(wire)
    BY DEF WireGenuine, Receive
  <1> QED
    BY <1>1, HeadTailProperties

\* getNextChunk returns an error.
LEMMA ChunkErrorStep ==
    ASSUME IInv, UNCHANGED <<sealVars, kind>>, TypeOK', NeedsChunk,
           NEW e \in Error, ChunkError(e), wire' \in Seq(GenuinePacket)
    PROVE  IInv'
  <1>1. /\ UNCHANGED <<openPc, prevChunk, out, verdict>>
        /\ prevErr' \notin {"nil", "EOF"}
        /\ openPc = "reading" /\ prevErr = "nil"
    BY DEF ChunkError, NeedsChunk, Error
  <1>2. Texts' = Texts
    BY SealedKept DEF sealVars
  <1>3. ReceivedInOrder'
    BY <1>1, <1>2 DEF IInv, ReceivedInOrder, Received
  <1>4. VerdictDrained'
    BY <1>1 DEF IInv, VerdictDrained
  <1> QED
    BY <1>3, <1>4, SenderKept

LEMMA FetchFailsStep ==
    ASSUME IInv, FetchEOF \/ FetchUndecodable \/ FetchRefused \/ FetchEmptyBlock,
           UNCHANGED sealVars
    PROVE  IInv'
  <1>1. TypeOK'
    BY OpenStepType DEF OpenNext, ReadStep, IInv
  <1>2. NeedsChunk /\ kind' = kind
    BY DEF FetchEOF, FetchUndecodable, FetchRefused, FetchEmptyBlock, Accepted,
       Decoded, Receive, wireVars
  <1>3. \E e \in Error : ChunkError(e)
    BY DEF FetchEOF, FetchUndecodable, FetchRefused, FetchEmptyBlock, Error,
       PrematureEOF
  <1>4. wire' = wire \/ Receive
    BY DEF FetchEOF, FetchUndecodable, FetchRefused, FetchEmptyBlock, Accepted,
       Decoded, wireVars
  <1>5. wire' \in Seq(GenuinePacket)
    BY <1>4, ReceiveKeeps DEF IInv, WireGenuine
  <1> QED
    BY <1>1, <1>2, <1>3, <1>5, ChunkErrorStep

\* The heart of the matter: a packet the receiver accepts carries the chunk and
\* the finality of a block that the sender has sealed with the next number.
LEMMA AcceptedIsNext ==
    ASSUME IInv, Accepted
    PROVE  \E b \in sealed :
              /\ b.num = seqno - 1
              /\ Head(wire).chunk = b.packet.chunk
              /\ PacketIsFinal(kind, Head(wire)) = PacketIsFinal(kind, b.packet)
  <1> DEFINE p == Head(wire)
             f == PacketIsFinal(kind, p)
  <1>1. p \in GenuinePacket /\ p.whole
    BY ReceiveKeeps DEF Accepted, Decoded, IInv
  <1>2. p.auth = BlockBinding(kind, "own", seqno - 1, p.chunk, f)
    BY DEF Accepted, BlockAuthentic, BlockNumber
  <1>3. kind \in Kind /\ seqno \in Nat \ {0} /\ p \in Packet
    BY <1>1 DEF IInv, TypeOK, WireTypeOK, OpenTypeOK, GenuinePacket
  <1>4. kind.mode \in {"encrypt", "sign", "signcrypt"} /\ kind.version \in {1, 2}
    BY <1>3 DEF Kind
  <1>5. f \in BOOLEAN
    BY <1>3 DEF PacketIsFinal, Packet
  <1> HIDE DEF p, f
  <1>6. BlockBinding(kind, "own", seqno - 1, p.chunk, f).hdr = "own"
    BY <1>4 DEF BlockBinding, ComputePayloadHash, AttachedSignatureInput,
       ComputeSigncryptionSignatureInput
  <1>7. PICK b \in sealed : p.auth = b.packet.auth
    BY <1>1, <1>2, <1>6 DEF GenuinePacket
  <1> DEFINE q == b.packet
             g == PacketIsFinal(kind, q)
  <1>8. q.auth = BlockBinding(kind, "own", b.num, q.chunk, g)
    BY DEF IInv, SealedInOrder
  <1>9. b.num \in Nat /\ q \in Packet
    BY DEF IInv, TypeOK, SealTypeOK, SealedBlock
  <1>10. g \in BOOLEAN
    BY <1>9 DEF PacketIsFinal, Packet
  <1>11. kind.version = 1 /\ p.chunk = q.chunk => f = g
    BY DEF PacketIsFinal, f
  <1> HIDE DEF q, g
  <1>12. BlockBinding(kind, "own", seqno - 1, p.chunk, f)
            = BlockBinding(kind, "own", b.num, q.chunk, g)
    BY <1>2, <1>7, <1>8 DEF q
  <1>13. seqno - 1 \in Nat
    BY <1>3
  <1>14. /\ seqno - 1 = b.num /\ p.chunk = q.chunk
         /\ kind.version # 1 => f = g
    BY <1>3, <1>5, <1>9, <1>10, <1>12, <1>13, BindingInjective
  <1>15. f = g
    BY <1>11, <1>14
  <1> QED
    BY <1>14, <1>15 DEF p, q, f, g

LEMMA FetchChunkStep ==
    ASSUME IInv, FetchChunk, UNCHANGED sealVars
    PROVE  IInv'
  <1> DEFINE p == Head(wire)
  <1>1. TypeOK'
    BY OpenStepType DEF OpenNext, ReadStep, IInv
  <1>2. /\ UNCHANGED <<kind, prevErr, out, verdict>>
        /\ prevErr = "nil" /\ prevChunk = << >>
        /\ prevChunk' = p.chunk /\ seqno' = seqno + 1
    BY DEF FetchChunk, Accepted, Decoded, NeedsChunk, Receive
  <1>3. wire' \in Seq(GenuinePacket)
    BY ReceiveKeeps DEF FetchChunk, Accepted, Decoded, IInv
  <1>4. /\ \A n : TextsUpTo(n)' = TextsUpTo(n)
        /\ Texts' = Texts /\ FinalBlocks' = FinalBlocks
    BY <1>2, SealedKept DEF sealVars
  <1>5. PICK b \in sealed :
          /\ b.num = seqno - 1 /\ p.chunk = b.packet.chunk
          /\ PacketIsFinal(kind, p) = PacketIsFinal(kind, b.packet)
    BY AcceptedIsNext DEF FetchChunk
  <1> DEFINE c == [b EXCEPT !.upto = out \o p.chunk]
  <1>6. /\ c \in sealed /\ c.num = seqno - 1 /\ c.packet = b.packet
        /\ Received' = c.upto
    <2>1. out \in Seq(Byte) /\ b \in SealedBlock
      BY <1>5 DEF IInv, TypeOK, OpenTypeOK, SealTypeOK
    <2>2. out \o << >> = out
      BY <2>1, ConcatEmptySeq
    <2>3. out \in TextsUpTo(seqno - 1)
      BY <1>2, <2>2 DEF IInv, ReceivedInOrder, Received
    <2>4. out \in TextsUpTo(b.num)
      BY <1>5, <2>3
    <2>5. [b EXCEPT !.upto = out \o b.packet.chunk] \in sealed
      BY <2>4 DEF IInv, SealedInOrder
    <2>6. \A x : /\ [b EXCEPT !.upto = x].num = b.num
                 /\ [b EXCEPT !.upto = x].packet = b.packet
                 /\ [b EXCEPT !.upto = x].upto = x
      BY <2>1 DEF SealedBlock
    <2> QED
      BY <1>2, <1>5, <2>5, <2>6 DEF Received
  <1> HIDE DEF c
  <1>7. openPc' # "panicked"
    <2>1. SUFFICES ASSUME ~PacketIsFinal(kind, p)
                   PROVE  p.chunk # << >>
      BY <1>2 DEF FetchChunk
    <2> DEFINE f == PacketIsFinal(kind, p)
    <2>2. ~BadChunkState(kind.version, Len(p.chunk), BlockNumber, f)
      BY DEF FetchChunk, DecodedChunkStateOK
    <2>3. ~f
      BY <2>1
    <2> HIDE DEF f
    <2>4. Len(p.chunk) # 0
      BY <2>2, <2>3 DEF BadChunkState
    <2> QED
      BY <2>4, EmptySeq
  <1>8. openPc' = "ending" => c \in FinalBlocks
    BY <1>5, <1>6, <1>7 DEF FetchChunk, FinalBlocks
  <1>9. seqno \in Nat \ {0} /\ seqno' - 1 = seqno /\ seqno' - 2 = seqno - 1
    BY <1>2 DEF IInv, TypeOK, OpenTypeOK
  <1>10. ReceivedInOrder'
    <2>1. TextsUpTo(seqno - 1)' = TextsUpTo(seqno)
      BY <1>9 DEF TextsUpTo, sealVars
    <2>2. TextsUpTo(seqno) = { d.upto : d \in { e \in sealed : e.num = seqno - 1 } }
      BY <1>9 DEF TextsUpTo
    <2>3. Received' \in TextsUpTo(seqno)
      BY <1>6, <2>2
    <2>4. Received' \in Texts
      BY <1>6 DEF Texts
    <2> QED
      BY <1>2, <1>4, <1>6, <1>7, <1>8, <1>9, <2>1, <2>3, <2>4 DEF ReceivedInOrder
  <1>11. VerdictDrained'
    BY <1>2 DEF IInv, VerdictDrained
  <1> QED
    BY <1>1, <1>2, <1>3, <1>10, <1>11, SenderKept

\* What follows the final packet decides the error that comes with it.
LEMMA EndingStep ==
    ASSUME IInv, EndOfStream \/ TrailingObject, UNCHANGED sealVars
    PROVE  IInv'
  <1>1. TypeOK'
    BY OpenStepType DEF OpenNext, ReadStep, IInv
  <1>2. /\ UNCHANGED <<kind, prevChunk, out, verdict>>
        /\ openPc = "ending" /\ openPc' = "reading"
        /\ prevErr' # "nil"
    BY DEF EndOfStream, TrailingObject, Receive, wireVars
  <1>3. wire' = wire \/ Receive
    BY DEF EndOfStream, TrailingObject, wireVars
  <1>4. wire' \in Seq(GenuinePacket)
    BY <1>3, ReceiveKeeps DEF IInv, WireGenuine
  <1>5. Texts' = Texts /\ FinalBlocks' = FinalBlocks
    BY <1>2, SealedKept DEF sealVars
  <1>6. /\ prevErr = "nil" /\ \E b \in FinalBlocks : b.upto = Received
        /\ Received \in Texts
    BY <1>2 DEF IInv, ReceivedInOrder
  <1>8. Received' = Received
    BY <1>2 DEF Received
  <1>9. ReceivedInOrder'
    BY <1>2, <1>5, <1>6, <1>8 DEF ReceivedInOrder
  <1>10. VerdictDrained'
    BY <1>2, <1>6 DEF IInv, VerdictDrained
  <1> QED
    BY <1>1, <1>2, <1>4, <1>9, <1>10, SenderKept

LEMMA OpenStep ==
    ASSUME IInv, OpenNext, UNCHANGED sealVars
    PROVE  IInv'
  BY ReadCallStep, CopyOutStep, ReturnErrorStep, FetchFailsStep, FetchChunkStep,
     EndingStep DEF OpenNext, ReadStep

-----------------------------------------------------------------------------
(* The faults of the wire.                                                 *)

\* Damage never yields a packet bound to this message that the sender has not
\* sealed.
LEMMA DamageKeepsGenuine ==
    /\ \A p \in GenuinePacket : [p EXCEPT !.flag = ~@] \in GenuinePacket
    /\ \A p \in GenuinePacket, c \in OtherChunks :
            [p EXCEPT !.chunk = c] \in GenuinePacket
    /\ \A p \in GenuinePacket :
            [p EXCEPT !.auth.hdr = "damaged"] \in GenuinePacket
    /\ \A p \in GenuinePacket : [p EXCEPT !.whole = FALSE] \in GenuinePacket
  <1>1. ASSUME NEW p \in GenuinePacket
        PROVE  /\ [p EXCEPT !.flag = ~@] \in GenuinePacket
               /\ \A c \in OtherChunks : [p EXCEPT !.chunk = c] \in GenuinePacket
    <2>1. /\ p \in Packet /\ [p EXCEPT !.flag = ~@] \in Packet
          /\ \A c \in OtherChunks : [p EXCEPT !.chunk = c] \in Packet
      BY DamagedPacketType DEF GenuinePacket
    <2>2. /\ [p EXCEPT !.flag = ~@].auth = p.auth
          /\ [p EXCEPT !.flag = ~@].whole = p.whole
          /\ \A c \in OtherChunks : /\ [p EXCEPT !.chunk = c].auth = p.auth
                                     /\ [p EXCEPT !.chunk = c].whole = p.whole
      BY <2>1 DEF Packet
    <2> QED
      BY <2>1, <2>2 DEF GenuinePacket
  <1>2. ASSUME NEW p \in GenuinePacket
        PROVE  [p EXCEPT !.whole = FALSE] \in GenuinePacket
    <2>1. p \in Packet /\ [p EXCEPT !.whole = FALSE] \in Packet
      BY DamagedPacketType DEF GenuinePacket
    <2>2. ~[p EXCEPT !.whole = FALSE].whole
      BY <2>1 DEF Packet
    <2> QED
      BY <2>1, <2>2 DEF GenuinePacket
  <1>3. ASSUME NEW p \in GenuinePacket
        PROVE  [p EXCEPT !.auth.hdr = "damaged"] \in GenuinePacket
    <2> DEFINE q == [p EXCEPT !.auth.hdr = "damaged"]
    <2>1. p \in Packet /\ q \in Packet
      BY DamagedPacketType DEF GenuinePacket
    <2>2. q.auth.hdr = "damaged"
      BY <2>1 DEF Packet, Binding
    <2> HIDE DEF q
    <2>3. q \in GenuinePacket
      BY <2>1, <2>2 DEF GenuinePacket
    <2> QED
      BY <2>3 DEF q
  <1> QED
    BY <1>1, <1>2, <1>3

LEMMA WireStep ==
    ASSUME IInv, WireFault, UNCHANGED <<sealVars, openVars>>
    PROVE  IInv'
  <1>1. TypeOK'
    BY WireStepType DEF IInv
  <1>2. kind' = kind
    BY DEF WireFault, Drop, Duplicate, Swap, Splice, FlipFlag, Damage, Truncate,
       Fault
  <1>3. ForeignPacket \subseteq GenuinePacket
    BY ForeignPacketType DEF IInv, TypeOK, WireTypeOK, GenuinePacket
  <1>4. wire \in Seq(GenuinePacket)
    BY DEF IInv, WireGenuine
  <1>5. wire' \in Seq(GenuinePacket)
    BY <1>3, <1>4, DamageKeepsGenuine, FaultKeeps
  <1>6. UNCHANGED <<seqno, prevErr, verdict, openPc, out, prevChunk>>
    BY DEF openVars
  <1>7. ReceivedInOrder' /\ VerdictDrained'
    BY <1>2, <1>6, HeldKept DEF IInv, VerdictDrained, Received
  <1> QED
    BY <1>1, <1>2, <1>5, <1>7, SenderKept

-----------------------------------------------------------------------------
(* The theorems.                                                           *)

LEMMA InitIInv == Init => IInv
  <1> SUFFICES ASSUME Init
               PROVE  IInv
    OBVIOUS
  <1> USE DEF Init, WireInit, SealInit, OpenInit
  <1>1. TypeOK
    BY InitType
  <1>2. sealed = {} /\ numBlocks = 0 /\ out \o prevChunk = << >>
    OBVIOUS
  <1>3. Texts = {<< >>} /\ TextsUpTo(0) = {<< >>}
    BY <1>2 DEF Texts, TextsUpTo
  <1>4. FinalBlocks = {}
    BY <1>2 DEF FinalBlocks
  <1>5. SealedInOrder
    BY <1>2, <1>3 DEF SealedInOrder
  <1>6. NothingLost
    <2>1. << >> \o << >> = << >> /\ IsPrefix(<< >>, << >>)
      BY DEF IsPrefix
    <2> QED
      BY <1>2, <1>3, <2>1 DEF NothingLost
  <1>7. OneFinalBlock /\ NumbersLeft /\ NumberUsedOnce
    BY <1>2, <1>4 DEF OneFinalBlock, NumbersLeft, NumberUsedOnce
  <1>8. BufferInv
    BY BlockSizeAssumption DEF BufferInv
  <1>9. WireGenuine
    BY EmptySeq DEF WireGenuine
  <1>10. ReceivedInOrder
    BY <1>2, <1>3 DEF ReceivedInOrder, Received
  <1>11. VerdictDrained
    BY DEF VerdictDrained
  <1> QED
    BY <1>1, <1>5, <1>6, <1>7, <1>8, <1>9, <1>10, <1>11 DEF IInv

LEMMA StepIInv ==
    ASSUME IInv, [Next]_vars
    PROVE  IInv'
  <1>1. CASE UNCHANGED vars
    <2>1. TypeOK' /\ UNCHANGED <<sealVars, openVars, kind, wire>>
      BY <1>1, StutterType DEF IInv, vars, wireVars
    <2>2. UNCHANGED <<seqno, prevErr, verdict, openPc, out, prevChunk>>
      BY <2>1 DEF openVars
    <2>3. ReceivedInOrder' /\ VerdictDrained'
      BY <2>1, <2>2, HeldKept DEF IInv, VerdictDrained, Received
    <2> QED
      BY <2>1, <2>3, SenderKept DEF IInv, WireGenuine
  <1> QED
    BY <1>1, SealStep, OpenStep, WireStep DEF Next

\* The invariant of sender, wire and receiver holds in every reachable state,
\* for every block size, payload, number of faults and read size, and whether a
\* call fails before, within or after the writing of a packet.
THEOREM Invariance == Spec => []IInv
  <1>1. IInv /\ [Next]_vars => IInv'
    BY StepIInv
  <1> QED
    BY InitIInv, <1>1, PTL DEF Spec

\* What the caller has been given is a prefix of what has been received.
LEMMA OutInReceived ==
    ASSUME TypeOK
    PROVE  IsPrefix(out, Received) /\ Received \in Seq(Byte)
  <1>1. out \in Seq(Byte) /\ prevChunk \in Seq(Byte)
    BY DEF TypeOK, OpenTypeOK
  <1> QED
    BY <1>1, PrefixOfConcat, ConcatProperties DEF Received

LEMMA OutputFollows ==
    ASSUME IInv
    PROVE  OutputIsPrefix
  <1>1. Received \in Texts
    BY DEF IInv, ReceivedInOrder
  <1>2. out \in Seq(Byte) /\ IsPrefix(out, Received) /\ Received \in Seq(Byte)
    BY OutInReceived DEF IInv, TypeOK, OpenTypeOK
  <1>3. ASSUME ~retried
        PROVE  IsPrefix(out, written)
    <2>1. IsPrefix(Received, written)
      BY <1>1, <1>3 DEF IInv, NothingLost
    <2>2. written \in Seq(Byte)
      BY DEF IInv, TypeOK, SealTypeOK
    <2> QED
      BY <1>2, <2>1, <2>2, PrefixTransitive
  <1> QED
    BY <1>1, <1>2, <1>3 DEF OutputIsPrefix

LEMMA CleanEOFFollows ==
    ASSUME IInv
    PROVE  CleanEOF
  <1> SUFFICES ASSUME verdict = "EOF"
               PROVE  \E b \in FinalBlocks : out = b.upto
    BY DEF CleanEOF
  <1>1. prevErr = "EOF" /\ prevChunk = << >>
    BY DEF IInv, VerdictDrained
  <1>2. PICK b \in FinalBlocks : b.upto = Received
    BY <1>1 DEF IInv, ReceivedInOrder
  <1>3. out \in Seq(Byte)
    BY DEF IInv, TypeOK, OpenTypeOK
  <1>4. Received = out
    BY <1>1, <1>3, ConcatEmptySeq DEF Received
  <1> QED
    BY <1>2, <1>4

LEMMA CompleteMessageFollows ==
    ASSUME IInv
    PROVE  CompleteMessage
  <1> SUFFICES ASSUME verdict = "EOF", ~retried, ~reused
               PROVE  out = written /\ (closes = 1 \/ failed)
    BY DEF CompleteMessage
  <1>1. PICK b \in FinalBlocks : out = b.upto
    BY CleanEOFFollows DEF CleanEOF
  <1> QED
    BY <1>1 DEF IInv, OneFinalBlock

LEMMA NoPanicFollows ==
    ASSUME IInv
    PROVE  NoPanic
  BY DEF IInv, BufferInv, ReceivedInOrder, NoPanic

\* However packets are lost, repeated, reordered, spliced, cut or damaged, and
\* whichever calls of the sender fail, with nothing, a piece or all of their
\* packet written, the caller of Read gets a prefix of a text that the blocks
\* sealed make up; and of what was passed to Write, if the sender's caller
\* makes no call after an error.
THEOREM PrefixDelivered == Spec => []OutputIsPrefix
  BY Invariance, OutputFollows, PTL

\* A caller that stops at the first error never has two packets written under
\* one number, and so under one nonce.
THEOREM NumbersUsedOnce == Spec => []NumberUsedOnce
  <1>1. IInv => NumberUsedOnce
    BY DEF IInv
  <1> QED
    BY Invariance, <1>1, PTL

\* io.EOF means that all the text up to a block sealed by Close was given out.
THEOREM CleanEOFReported == Spec => []CleanEOF
  BY Invariance, CleanEOFFollows, PTL

\* If the sender's caller stops at the first error and at Close, io.EOF means
\* the whole message: every byte that was passed to Write.
THEOREM MessageComplete == Spec => []CompleteMessage
  BY Invariance, CompleteMessageFollows, PTL

\* No sanity check of a sender fires unless its caller has gone on after an
\* error or a Close, and that of chunkReader.Read never does.
THEOREM PanicFree == Spec => []NoPanic
  BY Invariance, NoPanicFollows, PTL

\* After an error no Read returns another one, or another byte.
THEOREM VerdictStays == Spec => VerdictIsFinal
  <1>1. IInv /\ [Next]_vars => [verdict # "nil" => UNCHANGED <<verdict, out>>]_vars
    <2> SUFFICES ASSUME IInv, Next, verdict # "nil"
                 PROVE  UNCHANGED <<verdict, out>>
      OBVIOUS
    <2>1. verdict = prevErr /\ prevChunk = << >> /\ prevErr # "nil"
      BY DEF IInv, VerdictDrained
    <2>2. openPc # "ending"
      BY <2>1 DEF IInv, ReceivedInOrder
    <2>3. ASSUME OpenNext
          PROVE  UNCHANGED <<verdict, out>>
      <3>1. ~NeedsChunk
        BY <2>1 DEF NeedsChunk
      <3>2. CASE ReturnError
        BY <2>1, <3>2 DEF ReturnError
      <3>3. CASE \E n \in ReadSizes : ReadCall(n)
        BY <3>3 DEF ReadCall
      <3> QED
        BY <2>1, <2>2, <2>3, <3>1, <3>2, <3>3
        DEF OpenNext, ReadStep, CopyOut, FetchEOF, FetchUndecodable,
            FetchRefused, FetchEmptyBlock, FetchChunk, Accepted, Decoded,
            EndOfStream, TrailingObject
    <2> QED
      BY <2>3 DEF Next, openVars
  <1> QED
    BY Invariance, <1>1, PTL DEF Spec, VerdictIsFinal

-----------------------------------------------------------------------------
(* Without a fault the receiver refuses nothing.  The invariant adds to    *)
(* the one above what is on a wire without faults: exactly the blocks      *)
(* sealed and not yet received, each fit for the receiver.                 *)

\* The wire holds the blocks from number seqno-1 on, in order.
WireInOrder ==
    prevErr = "nil" =>
        /\ Len(wire) = numBlocks - (seqno - 1)
        /\ \A j \in 1 .. Len(wire) :
              \E b \in sealed : b.num = seqno - 2 + j /\ wire[j] = b.packet

\* Block number n is one that getNextChunk lets through.
Acceptable(p, n) ==
    /\ p.whole
    /\ ~Overflows(kind, n)
    /\ ~BadChunkState(kind.version, Len(p.chunk), n, PacketIsFinal(kind, p))

SealedAcceptable == \A b \in sealed : Acceptable(b.packet, b.num)

\* No block follows a final one.
FinalLast ==
    /\ closes = 0 => FinalBlocks = {}
    /\ \A b \in FinalBlocks : b.num = numBlocks - 1

\* After a call that failed without a fault nothing more can be sealed.
FailedForGood == failed => eof \/ Overflows(kind, numBlocks)

NoAlarm == prevErr \in {"nil", "EOF", "UnexpectedEOF"}

Faultless ==
    faults = 0 /\ ~reused =>
        /\ WireInOrder /\ SealedAcceptable /\ FinalLast
        /\ FailedForGood /\ NoAlarm

-----------------------------------------------------------------------------
(* The sender.                                                             *)

\* The chunk that a caller without mistakes has sealed is one that
\* checkChunkState lets through, though signcryptBlock measures another length.
LEMMA NextChunkGood ==
    ASSUME TypeOK, BufferInv, Sealing, ~failed, ~reused
    PROVE  ~BadChunkState(kind.version, NextLen, numBlocks, IsFinal)
  <1>1. /\ NextLen \in 0 .. Len(buffer)
        /\ NextLen = IF Len(buffer) < BlockSize THEN Len(buffer) ELSE BlockSize
        /\ Len(buffer) \in Nat /\ BlockSize \in Nat /\ BlockSize > 0
        /\ buffer = << >> <=> Len(buffer) = 0
    BY NextBlock, LenProperties, EmptySeq, BlockSizeAssumption
    DEF TypeOK, SealTypeOK, NextLen
  <1>2. CASE sealPc = "writing"
    <2>1. NextLen # 0 /\ ~IsFinal
      BY <1>1, <1>2 DEF BufferInv, IsFinal
    <2> QED
      BY <2>1 DEF BadChunkState, IsFinal
  <1>3. CASE sealPc = "flushing"
    <2>1. NextLen # 0 /\ ~IsFinal
      BY <1>1, <1>3 DEF BufferInv, IsFinal
    <2> QED
      BY <2>1 DEF BadChunkState, IsFinal
  <1>4. CASE sealPc = "closing"
    <2>1. Len(buffer) <= BlockSize /\ IsFinal
      BY <1>4 DEF BufferInv, IsFinal
    <2>2. NextLen = Len(buffer)
      BY <1>1, <2>1
    <2>3. IF kind.version = 1 THEN NextLen = 0 ELSE numBlocks = 0 \/ NextLen # 0
      BY <1>1, <1>4, <2>2 DEF BufferInv
    <2> QED
      BY <2>1, <2>3 DEF BadChunkState
  <1> QED
    BY <1>2, <1>3, <1>4 DEF Sealing

LEMMA NextPacketAcceptable ==
    ASSUME IInv, BlockSealed, ~failed, ~reused
    PROVE  Acceptable(NextPacket, numBlocks)
  <1>1. TypeOK /\ BufferInv /\ Sealing /\ BlockReadOK
    BY DEF IInv, BlockSealed
  <1>2. PacketIsFinal(kind, NextPacket) = IsFinal
    BY <1>1, NextPacketFinal
  <1>3. NextPacket.whole /\ NextPacket.chunk = NextChunk
    BY DEF NextPacket, MakePacket
  <1>4. Len(NextChunk) = NextLen
    BY <1>1, NextBlock DEF TypeOK
  <1>5. ~Overflows(kind, numBlocks)
    BY DEF BlockSealed
  <1> QED
    BY <1>1, <1>2, <1>3, <1>4, <1>5, NextChunkGood DEF Acceptable

\* A new block goes to the end of the wire.
LEMMA BlockSealedInOrder ==
    ASSUME IInv, WireInOrder, BlockSealed, UNCHANGED openVars
    PROVE  WireInOrder'
  <1> SUFFICES ASSUME prevErr = "nil"
               PROVE  /\ Len(wire') = numBlocks' - (seqno - 1)
                      /\ \A j \in 1 .. Len(wire') : \E b \in sealed' :
                            b.num = seqno - 2 + j /\ wire'[j] = b.packet
    BY DEF WireInOrder, openVars
  <1>1. /\ TypeOK /\ PacketWritten /\ numBlocks' = numBlocks + 1
        /\ wire' = Append(wire, NextPacket)
    BY DEF BlockSealed, PacketWritten, NextNumber, IInv
  <1>2. wire \in Seq(Packet) /\ seqno \in Nat \ {0} /\ numBlocks \in Nat
    BY <1>1 DEF TypeOK, WireTypeOK, OpenTypeOK, SealTypeOK
  <1>3. /\ Len(wire) = numBlocks - (seqno - 1)
        /\ \A j \in 1 .. Len(wire) :
              \E b \in sealed : b.num = seqno - 2 + j /\ wire[j] = b.packet
    BY DEF WireInOrder
  <1>4. NextPacket \in Packet
    BY <1>1, NextPacketType
  <1>5. /\ Len(wire') = Len(wire) + 1 /\ Len(wire) \in Nat
        /\ \A j \in 1 .. Len(wire) : wire'[j] = wire[j]
        /\ wire'[Len(wire) + 1] = NextPacket
    BY <1>1, <1>2, <1>4
  <1>6. sealed \subseteq sealed'
    BY <1>1, BlocksAdded
  <1>7. PICK b \in sealed' : b.num = numBlocks /\ b.packet = NextPacket
    <2>1. PICK t : t \in TextsUpTo(numBlocks)
      BY DEF IInv, SealedInOrder
    <2> QED
      BY <1>1, <2>1, BlocksAdded
  <1>8. ASSUME NEW j \in 1 .. Len(wire) + 1
        PROVE  \E c \in sealed' : c.num = seqno - 2 + j /\ wire'[j] = c.packet
    <2>1. CASE j \in 1 .. Len(wire)
      BY <1>3, <1>5, <1>6, <2>1
    <2>2. CASE j = Len(wire) + 1
      <3>1. seqno - 2 + j = numBlocks
        BY <1>2, <1>3, <1>5, <2>2
      <3> QED
        BY <1>5, <1>7, <2>2, <3>1
    <2> QED
      BY <1>5, <2>1, <2>2
  <1>9. Len(wire') = numBlocks' - (seqno - 1)
    BY <1>1, <1>2, <1>3, <1>5
  <1> QED
    BY <1>5, <1>8, <1>9

LEMMA BlockSealedFaultless ==
    ASSUME IInv, Faultless, BlockSealed, UNCHANGED openVars
    PROVE  Faultless'
  <1> SUFFICES ASSUME faults' = 0, ~reused'
               PROVE  (/\ WireInOrder /\ SealedAcceptable /\ FinalLast
                       /\ FailedForGood /\ NoAlarm)'
    BY DEF Faultless
  <1>1. /\ faults = 0 /\ ~reused /\ kind' = kind /\ failed' = failed
        /\ Sealing /\ BlockReadOK /\ PacketWritten /\ numBlocks' = numBlocks + 1
        /\ closes' = closes + (IF IsFinal THEN 1 ELSE 0)
    BY DEF BlockSealed, NextNumber
  <1>2. WireInOrder /\ SealedAcceptable /\ FinalLast /\ FailedForGood /\ NoAlarm
    BY <1>1 DEF Faultless
  <1>3. ~failed
    BY <1>2 DEF FailedForGood, BlockSealed
  <1>4. /\ TypeOK /\ numBlocks \in Nat /\ closes = 0
    BY <1>1, NotStoppedYet DEF IInv, TypeOK, SealTypeOK
  <1>5. \A b \in sealed' \ sealed : b.num = numBlocks /\ b.packet = NextPacket
    BY <1>1, BlocksAdded
  <1>6. SealedAcceptable'
    <2>1. Acceptable(NextPacket, numBlocks)
      BY <1>1, <1>3, NextPacketAcceptable
    <2>2. \A b \in sealed' : Acceptable(b.packet, b.num)
      BY <1>2, <1>5, <2>1 DEF SealedAcceptable
    <2>3. \A q, n : Acceptable(q, n)' = Acceptable(q, n)
      BY <1>1 DEF Acceptable
    <2> QED
      BY <1>1, <2>2 DEF SealedAcceptable, Acceptable
  <1>7. FinalLast'
    <2>1. FinalBlocks = {}
      BY <1>2, <1>4 DEF FinalLast
    <2>2. ASSUME NEW b \in FinalBlocks'
          PROVE  b.num = numBlocks /\ IsFinal
      <3>1. b \in sealed' /\ PacketIsFinal(kind, b.packet) /\ b \notin sealed
        BY <1>1, <2>1 DEF FinalBlocks
      <3>2. b.num = numBlocks /\ b.packet = NextPacket
        BY <1>5, <3>1
      <3> QED
        BY <1>1, <1>4, <3>1, <3>2, NextPacketFinal
    <2>3. closes' = 0 => ~IsFinal
      BY <1>1, <1>4
    <2> QED
      BY <1>1, <1>4, <2>2, <2>3 DEF FinalLast
  <1>8. WireInOrder'
    BY <1>2, BlockSealedInOrder
  <1>9. FailedForGood' /\ NoAlarm'
    BY <1>1, <1>2, <1>3 DEF FailedForGood, NoAlarm, openVars
  <1> QED
    BY <1>6, <1>7, <1>8, <1>9

\* A step that leaves wire, blocks and receiver alone.
LEMMA NothingSealedFaultless ==
    ASSUME Faultless,
           UNCHANGED <<kind, sealed, wire, seqno, prevErr, numBlocks, closes>>,
           reused => reused', faults' = 0 => faults = 0,
           faults' = 0 /\ ~reused' /\ FailedForGood => FailedForGood'
    PROVE  Faultless'
  BY DEF Faultless, WireInOrder, SealedAcceptable, Acceptable, FinalLast,
     FinalBlocks, NoAlarm

LEMMA SealFaultless ==
    ASSUME IInv, Faultless, SealNext, UNCHANGED openVars
    PROVE  Faultless'
  <1>1. CASE BlockSealed
    BY <1>1, BlockSealedFaultless
  <1>2. ASSUME NEW p \in Payload, WriteCall(p)
        PROVE  Faultless'
    BY <1>2, NothingSealedFaultless DEF WriteCall, wireVars, openVars, FailedForGood
  <1>3. CASE CloseCall
    BY <1>3, NothingSealedFaultless DEF CloseCall, wireVars, openVars, FailedForGood
  <1>4. CASE BlockPanics
    BY <1>4, NothingSealedFaultless
    DEF BlockPanics, Panic, wireVars, openVars, FailedForGood
  <1>5. CASE EndOfOutput
    BY <1>5, NothingSealedFaultless DEF EndOfOutput, sealVars, openVars, FailedForGood
  <1>6. CASE BlockOverflows
    <2>1. /\ UNCHANGED <<kind, sealed, wire, seqno, prevErr, reused, faults,
                         numBlocks, closes>>
          /\ Overflows(kind, numBlocks)
      BY <1>6 DEF BlockOverflows, BlockError, wireVars, openVars
    <2>2. FailedForGood'
      BY <2>1 DEF FailedForGood
    <2> QED
      BY <2>1, <2>2, NothingSealedFaultless
  <1>7. CASE SignFails
    <2>1. faults \in Nat /\ faults' = faults + 1
      BY <1>7 DEF SignFails, IInv, TypeOK, WireTypeOK
    <2> QED
      BY <2>1 DEF Faultless
  <1>8. CASE EncodeFails
    <2>1. CASE eof /\ UNCHANGED <<wire, sealed, faults>>
      <3>1. /\ UNCHANGED <<kind, sealed, wire, seqno, prevErr, reused, faults,
                           numBlocks, closes>>
            /\ eof'
        BY <1>8, <2>1 DEF EncodeFails, BlockError, openVars
      <3> QED
        BY <3>1, NothingSealedFaultless DEF FailedForGood
    <2>2. CASE faults' = faults + 1
      <3>1. faults \in Nat
        BY DEF IInv, TypeOK, WireTypeOK
      <3> QED
        BY <2>2, <3>1 DEF Faultless
    <2> QED
      BY <1>8, <2>1, <2>2 DEF EncodeFails
  <1> QED
    BY <1>1, <1>2, <1>3, <1>4, <1>5, <1>6, <1>7, <1>8 DEF SealNext, SealBlock

-----------------------------------------------------------------------------
(* The receiver.                                                           *)

\* The packet at the head of the wire is the block the receiver waits for.
LEMMA HeadIsNext ==
    ASSUME IInv, WireInOrder, SealedAcceptable, prevErr = "nil", wire # << >>
    PROVE  /\ seqno - 1 < numBlocks
           /\ Acceptable(Head(wire), BlockNumber)
           /\ BlockAuthentic(Head(wire))
  <1>1. /\ wire \in Seq(Packet) /\ seqno \in Nat \ {0} /\ numBlocks \in Nat
    BY DEF IInv, TypeOK, WireTypeOK, OpenTypeOK, SealTypeOK
  <1>2. Len(wire) \in Nat /\ Len(wire) # 0 /\ Head(wire) = wire[1]
    BY <1>1, EmptySeq, HeadTailProperties, LenProperties
  <1>3. 1 \in 1 .. Len(wire) /\ seqno - 2 + 1 = seqno - 1
    BY <1>1, <1>2
  <1>4. PICK b \in sealed : b.num = seqno - 1 /\ Head(wire) = b.packet
    BY <1>2, <1>3 DEF WireInOrder
  <1>5. Acceptable(Head(wire), BlockNumber)
    BY <1>4 DEF SealedAcceptable, BlockNumber
  <1>6. BlockAuthentic(Head(wire))
    BY <1>4 DEF IInv, SealedInOrder, BlockAuthentic, BlockNumber
  <1>7. seqno - 1 < numBlocks
    BY <1>1, <1>2 DEF WireInOrder
  <1> QED
    BY <1>5, <1>6, <1>7

\* Reading a block moves the receiver's count along with the wire.
LEMMA ReceiveInOrder ==
    ASSUME IInv, WireInOrder, prevErr = "nil", Receive, seqno' = seqno + 1,
           UNCHANGED <<sealed, numBlocks>>
    PROVE  WireInOrder'
  <1>1. /\ wire \in Seq(Packet) /\ seqno \in Nat \ {0} /\ numBlocks \in Nat
    BY DEF IInv, TypeOK, WireTypeOK, OpenTypeOK, SealTypeOK
  <1>2. /\ Len(wire') = Len(wire) - 1 /\ Len(wire) \in Nat
        /\ \A j \in 1 .. Len(wire') : wire'[j] = wire[j + 1]
    BY <1>1, HeadTailProperties, LenProperties DEF Receive
  <1>3. /\ Len(wire) = numBlocks - (seqno - 1)
        /\ \A j \in 1 .. Len(wire) :
              \E b \in sealed : b.num = seqno - 2 + j /\ wire[j] = b.packet
    BY DEF WireInOrder
  <1>4. Len(wire') = numBlocks' - (seqno' - 1)
    BY <1>1, <1>2, <1>3
  <1>5. ASSUME NEW j \in 1 .. Len(wire')
        PROVE  \E b \in sealed' : b.num = seqno' - 2 + j /\ wire'[j] = b.packet
    <2>1. j + 1 \in 1 .. Len(wire) /\ seqno - 2 + (j + 1) = seqno' - 2 + j
      BY <1>1, <1>2
    <2>2. PICK b \in sealed : b.num = seqno - 2 + (j + 1) /\ wire[j + 1] = b.packet
      BY <1>3, <2>1
    <2> QED
      BY <1>2, <2>1, <2>2
  <1> QED
    BY <1>4, <1>5 DEF WireInOrder

LEMMA OpenFaultless ==
    ASSUME IInv, Faultless, OpenNext, UNCHANGED sealVars
    PROVE  Faultless'
  <1> SUFFICES ASSUME faults' = 0, ~reused'
               PROVE  (/\ WireInOrder /\ SealedAcceptable /\ FinalLast
                       /\ FailedForGood /\ NoAlarm)'
    BY DEF Faultless
  <1>1. UNCHANGED <<kind, eof, faults, sealed, reused, failed, numBlocks, closes>>
    BY DEF OpenNext, ReadCall, ReadStep, CopyOut, ReturnError, FetchEOF,
       FetchUndecodable, FetchRefused, FetchEmptyBlock, FetchChunk, Accepted,
       Decoded, Receive, EndOfStream, TrailingObject, wireVars, sealVars
  <1>2. WireInOrder /\ SealedAcceptable /\ FinalLast /\ FailedForGood /\ NoAlarm
    BY <1>1 DEF Faultless
  <1>3. SealedAcceptable' /\ FailedForGood' /\ FinalLast'
    BY <1>1, <1>2
    DEF SealedAcceptable, Acceptable, FailedForGood, FinalLast, FinalBlocks
  <1>4. CASE (\E n \in ReadSizes : ReadCall(n)) \/ CopyOut \/ ReturnError
    <2>1. UNCHANGED <<wire, seqno, prevErr>>
      BY <1>4 DEF ReadCall, CopyOut, ReturnError, wireVars
    <2> QED
      BY <1>1, <1>2, <1>3, <2>1 DEF WireInOrder, NoAlarm
  <1>5. CASE FetchEOF \/ EndOfStream
    <2>1. prevErr' \in {"EOF", "UnexpectedEOF"}
      BY <1>5 DEF FetchEOF, EndOfStream, ChunkError, PrematureEOF
    <2> QED
      BY <1>3, <2>1 DEF WireInOrder, NoAlarm
  <1>6. CASE FetchUndecodable \/ FetchRefused \/ FetchEmptyBlock
    <2>1. prevErr = "nil" /\ wire # << >>
      BY <1>6 DEF FetchUndecodable, FetchRefused, FetchEmptyBlock, Accepted,
         Decoded, Receive, NeedsChunk
    <2>2. Acceptable(Head(wire), BlockNumber) /\ BlockAuthentic(Head(wire))
      BY <1>2, <2>1, HeadIsNext
    <2> QED
      BY <1>6, <2>2 DEF FetchUndecodable, FetchRefused, FetchEmptyBlock,
         Acceptable, DecodedChunkStateOK
  <1>7. CASE FetchChunk
    <2>1. /\ prevErr = "nil" /\ Receive /\ seqno' = seqno + 1
          /\ prevErr' = prevErr
      BY <1>7 DEF FetchChunk, Accepted, Decoded, NeedsChunk
    <2>2. WireInOrder'
      BY <1>1, <1>2, <2>1, ReceiveInOrder
    <2> QED
      BY <1>2, <1>3, <2>1, <2>2 DEF NoAlarm
  <1>8. CASE TrailingObject
    <2>1. /\ prevErr = "nil" /\ wire # << >>
          /\ \E b \in FinalBlocks : b.num = seqno - 2
      BY <1>8 DEF TrailingObject, Receive, IInv, ReceivedInOrder
    <2>2. seqno - 2 = numBlocks - 1
      BY <1>2, <2>1 DEF FinalLast
    <2>3. seqno - 1 < numBlocks
      BY <1>2, <2>1, HeadIsNext
    <2>4. seqno \in Nat /\ numBlocks \in Nat
      BY DEF IInv, TypeOK, OpenTypeOK, SealTypeOK
    <2> QED
      BY <2>2, <2>3, <2>4
  <1> QED
    BY <1>4, <1>5, <1>6, <1>7, <1>8 DEF OpenNext, ReadStep

-----------------------------------------------------------------------------
(* The theorem.                                                            *)

LEMMA InitFaultless == Init => Faultless
  <1> SUFFICES ASSUME Init
               PROVE  Faultless
    OBVIOUS
  <1>1. /\ sealed = {} /\ wire = << >> /\ seqno = 1 /\ numBlocks = 0
        /\ prevErr = "nil" /\ ~failed
    BY DEF Init, WireInit, SealInit, OpenInit
  <1>2. Len(wire) = 0 /\ numBlocks - (seqno - 1) = 0 /\ FinalBlocks = {}
    BY <1>1 DEF FinalBlocks
  <1> QED
    BY <1>1, <1>2
    DEF Faultless, WireInOrder, SealedAcceptable, FinalLast, FailedForGood, NoAlarm

LEMMA StepFaultless ==
    ASSUME IInv, Faultless, [Next]_vars
    PROVE  Faultless'
  <1>1. CASE WireFault
    <2>1. faults \in Nat /\ faults' = faults + 1
      BY <1>1 DEF WireFault, Drop, Duplicate, Swap, Splice, FlipFlag, Damage,
         Truncate, Fault, IInv, TypeOK, WireTypeOK
    <2> QED
      BY <2>1 DEF Faultless
  <1>2. CASE UNCHANGED vars
    BY <1>2, NothingSealedFaultless
    DEF vars, sealVars, openVars, wireVars, FailedForGood
  <1> QED
    BY <1>1, <1>2, SealFaultless, OpenFaultless DEF Next

\* Without a fault, and unless the caller goes on after Close, the receiver
\* never refuses a packet of this sender: the checks of getNextChunk accept
\* what those of the senders let through, at every block number.
THEOREM NothingRefused == Spec => []NoFalseAlarm
  <1>1. IInv /\ Faultless /\ [Next]_vars => Faultless'
    BY StepFaultless
  <1>2. Faultless => NoFalseAlarm
    BY DEF Faultless, NoAlarm, NoFalseAlarm
  <1> QED
    BY Invariance, InitFaultless, <1>1, <1>2, PTL DEF Spec

-----------------------------------------------------------------------------
(* SaltpackTransfer implements MessageDelivery: a call of Write or Close   *)
(* is a Call; a packet written whole, whether Encode then succeeds or not, *)
(* is a Send; a copy to the caller is a Deliver; the return of an error is *)
(* an Accept or a Reject; all else is a stutter.                           *)

\* The two ends of MessageDelivery, as the streams implement them.
Finished == { b.upto : b \in FinalBlocks }
Verdict == IF verdict = "nil" THEN "open"
           ELSE IF verdict = "EOF" THEN "EOF" ELSE "error"

delivery == <<written, ~retried, Texts, Finished, out, Verdict>>

\* MessageDelivery's prefix is that of the streams.
LEMMA DeliveryPrefix ==
    ASSUME NEW s, NEW t, IsPrefix(s, t)
    PROVE  Delivery!IsPrefix(s, t)
  BY DEF IsPrefix, Delivery!IsPrefix

LEMMA InitDelivery == Init => Delivery!Init
  <1> SUFFICES ASSUME Init
               PROVE  Delivery!Init
    OBVIOUS
  <1>1. /\ sealed = {} /\ out = << >> /\ verdict = "nil"
        /\ written = << >> /\ retried = FALSE
    BY DEF Init, SealInit, OpenInit
  <1>2. Texts = {<< >>} /\ FinalBlocks = {}
    BY <1>1 DEF Texts, FinalBlocks
  <1> QED
    BY <1>1, <1>2 DEF Delivery!Init

\* Steps that neither begin a call, nor write a packet, nor give something out.
LEMMA NothingShown ==
    ASSUME UNCHANGED <<kind, sealed, written, retried, out, verdict>>
    PROVE  UNCHANGED delivery
  <1>1. Texts' = Texts /\ FinalBlocks' = FinalBlocks
    BY SealedKept
  <1>2. Finished' = Finished /\ Verdict' = Verdict
    BY <1>1 DEF Finished, Verdict
  <1> QED
    BY <1>1, <1>2 DEF delivery

\* A call of Write or of Close.
LEMMA CallDelivery ==
    ASSUME IInv, UNCHANGED <<kind, sealed>>, UNCHANGED openVars,
           NEW p \in Seq(Byte), written' = written \o p,
           retried' = (retried \/ failed)
    PROVE  Delivery!Next
  <1>1. UNCHANGED <<Texts, Finished, out, Verdict>>
    BY SealedKept DEF Finished, Verdict, openVars
  <1>2. written \in Seq(Byte) /\ failed \in BOOLEAN /\ retried \in BOOLEAN
    BY DEF IInv, TypeOK, SealTypeOK
  <1>3. written' \in Seq(Byte) /\ IsPrefix(written, written')
    BY <1>2, ConcatProperties, PrefixOfConcat
  <1>4. Delivery!IsPrefix(written, written')
    BY <1>3, DeliveryPrefix
  <1>5. (~retried') \in BOOLEAN /\ (~retried' => ~retried)
    BY <1>2
  <1>6. Delivery!Call
    BY <1>1, <1>3, <1>4, <1>5 DEF Delivery!Call, Finished, Verdict
  <1> QED
    BY <1>6 DEF Delivery!Next

\* A packet is written whole, as one of the steps of a call.
LEMMA PacketDelivery ==
    ASSUME IInv, Sealing, BlockReadOK, PacketWritten,
           UNCHANGED <<kind, written, retried>>, UNCHANGED openVars
    PROVE  Delivery!Next
  <1>1. TypeOK /\ NextChunk \in Seq(Byte)
    BY NextBlock DEF IInv, TypeOK
  <1>2. Texts \subseteq Texts' /\ Texts \subseteq Seq(Byte)
    BY <1>1, TextsGrow, TextsType DEF TypeOK
  <1>3. ASSUME NEW t \in Texts'
        PROVE  t \in Seq(Byte) /\ \E s \in Texts : Delivery!IsPrefix(s, t)
    <2>1. CASE t \in Texts
      <3>1. t \in Seq(Byte) /\ IsPrefix(t, t)
        <4>1. t \in Seq(Byte) /\ t \o << >> = t
          BY <1>2, <2>1, ConcatEmptySeq
        <4> QED
          BY <4>1, EmptySeq, PrefixOfConcat
      <3> QED
        BY <2>1, <3>1, DeliveryPrefix
    <2>2. CASE t \notin Texts
      <3>1. PICK b \in sealed' : b.upto = t /\ b \notin sealed
        BY <2>2 DEF Texts
      <3>2. PICK u \in TextsUpTo(numBlocks) : b = BlockAfter(u)
        BY <3>1, BlocksAdded
      <3>3. t = u \o NextChunk
        BY <3>1, <3>2, BlocksAdded
      <3>4. u \in Texts
        BY DEF Texts, TextsUpTo
      <3>5. u \in Seq(Byte)
        BY <1>2, <3>4
      <3>6. t \in Seq(Byte) /\ IsPrefix(u, t)
        BY <1>1, <3>3, <3>5, ConcatProperties, PrefixOfConcat
      <3> QED
        BY <3>4, <3>6, DeliveryPrefix
    <2> QED
      BY <2>1, <2>2
  <1>4. FinalBlocks \subseteq FinalBlocks' /\ FinalBlocks' \subseteq sealed'
    BY BlocksAdded DEF FinalBlocks
  <1>5. Finished \subseteq Finished' /\ Finished' \subseteq Finished \union Texts'
    BY <1>4 DEF Finished, Texts
  <1>6. ASSUME ~retried
        PROVE  /\ \A t \in Texts' : Delivery!IsPrefix(t, written)
               /\ Finished' \subseteq Finished \union {written}
    <2>1. /\ \A t \in Texts' : IsPrefix(t, written)
          /\ \A b \in FinalBlocks' : b \in FinalBlocks \/ b.upto = written
      BY <1>6, TextsStep DEF IInv
    <2>2. Finished' \subseteq Finished \union {written}
      BY <2>1 DEF Finished
    <2> QED
      BY <2>1, <2>2, DeliveryPrefix
  <1>7. UNCHANGED <<out, Verdict>>
    BY DEF openVars, Verdict
  <1>8. Delivery!Send
    BY <1>2, <1>3, <1>5, <1>6, <1>7 DEF Delivery!Send, Finished, Verdict
  <1> QED
    BY <1>8 DEF Delivery!Next

LEMMA SealDelivery ==
    ASSUME IInv, SealNext, UNCHANGED openVars
    PROVE  Delivery!Next \/ UNCHANGED delivery
  <1>1. ASSUME NEW p \in Payload, WriteCall(p)
        PROVE  Delivery!Next
    <2>1. /\ UNCHANGED <<kind, sealed>> /\ written' = written \o p
          /\ retried' = (retried \/ failed)
      BY <1>1 DEF WriteCall, wireVars
    <2>2. p \in Seq(Byte)
      BY PayloadAssumption
    <2> QED
      BY <2>1, <2>2, CallDelivery
  <1>2. CASE CloseCall
    <2>1. /\ UNCHANGED <<kind, sealed, written>>
          /\ retried' = (retried \/ failed)
      BY <1>2 DEF CloseCall, wireVars
    <2>2. written \o << >> = written /\ << >> \in Seq(Byte)
      BY ConcatEmptySeq, EmptySeq DEF IInv, TypeOK, SealTypeOK
    <2> QED
      BY <2>1, <2>2, CallDelivery
  <1>3. CASE BlockSealed
    <2>1. /\ Sealing /\ BlockReadOK /\ PacketWritten
          /\ UNCHANGED <<kind, written, retried>>
      BY <1>3 DEF BlockSealed
    <2> QED
      BY <2>1, PacketDelivery
  <1>4. CASE EncodeFails
    <2>1. /\ Sealing /\ BlockReadOK /\ UNCHANGED <<kind, written, retried>>
          /\ sealed' = sealed \/ PacketWritten
      BY <1>4 DEF EncodeFails, BlockError
    <2> QED
      BY <2>1, PacketDelivery, NothingShown DEF openVars
  <1>5. CASE BlockPanics \/ BlockOverflows \/ SignFails \/ EndOfOutput
    <2>1. UNCHANGED <<kind, sealed, written, retried>>
      BY <1>5 DEF BlockPanics, Panic, BlockOverflows, SignFails, BlockError,
         EndOfOutput, wireVars, sealVars
    <2> QED
      BY <2>1, NothingShown DEF openVars
  <1> QED
    BY <1>1, <1>2, <1>3, <1>4, <1>5 DEF SealNext, SealBlock

LEMMA OutputAlways == IInv => OutputIsPrefix
  BY OutputFollows

\* What CopyOut gives out is the next piece of what was received.
LEMMA CopyDelivery ==
    ASSUME IInv, CopyOut, UNCHANGED sealVars
    PROVE  Delivery!Next
  <1>1. UNCHANGED <<kind, sealed, written, retried, verdict>>
    BY DEF CopyOut, wireVars, sealVars
  <1>2. verdict = "nil"
    BY DEF IInv, VerdictDrained, CopyOut
  <1>3. IInv'
    BY CopyOutStep
  <1>4. \E t \in Texts : IsPrefix(out', t)
    <2>1. OutputIsPrefix'
      BY <1>3, OutputAlways, PTL
    <2> QED
      BY <1>1, <2>1, SealedKept DEF OutputIsPrefix
  <1>5. IsPrefix(out, out')
    <2>1. out \in Seq(Byte) /\ prevChunk \in Seq(Byte) /\ room \in Nat
      BY DEF IInv, TypeOK, OpenTypeOK
    <2>2. CopyLen \in 0 .. Len(prevChunk)
      BY <2>1, LenProperties DEF CopyLen
    <2>3. SubSeq(prevChunk, 1, CopyLen) \in Seq(Byte)
      BY <2>1, <2>2, CutSequence
    <2>4. out' = out \o SubSeq(prevChunk, 1, CopyLen)
      BY DEF CopyOut
    <2> QED
      BY <2>1, <2>3, <2>4, PrefixOfConcat
  <1> QED
    <2>1. UNCHANGED <<Texts, Finished, Verdict>>
      BY <1>1, SealedKept DEF Finished, Verdict
    <2>2. Delivery!IsPrefix(out, out') /\ \E t \in Texts : Delivery!IsPrefix(out', t)
      BY <1>4, <1>5, DeliveryPrefix
    <2>3. Delivery!Deliver
      BY <1>1, <1>2, <2>1, <2>2 DEF Delivery!Deliver, Finished, Verdict
    <2> QED
      BY <2>3 DEF Delivery!Next

\* The error that came with the last chunk is the verdict, once and for all.
LEMMA ErrorDelivery ==
    ASSUME IInv, ReturnError, UNCHANGED sealVars
    PROVE  Delivery!Next \/ UNCHANGED delivery
  <1>1. /\ UNCHANGED <<kind, sealed, written, retried, out>>
        /\ verdict' = prevErr /\ prevErr # "nil" /\ prevChunk = << >>
    BY DEF ReturnError, wireVars, sealVars
  <1>2. UNCHANGED <<written, retried, Texts, Finished, out>>
    BY <1>1, SealedKept DEF Finished
  <1>3. CASE verdict # "nil"
    <2>1. verdict' = verdict
      BY <1>1, <1>3 DEF IInv, VerdictDrained
    <2> QED
      BY <1>1, <2>1, NothingShown
  <1>4. CASE verdict = "nil" /\ prevErr = "EOF"
    <2>1. Verdict = "open" /\ Verdict' = "EOF"
      BY <1>1, <1>4 DEF Verdict
    <2>2. out \in Finished
      <3>1. out \o << >> = out
        BY ConcatEmptySeq DEF IInv, TypeOK, OpenTypeOK
      <3>2. Received = out
        BY <1>1, <3>1 DEF Received
      <3> QED
        BY <1>4, <3>2 DEF IInv, ReceivedInOrder, Finished
    <2> QED
      BY <1>2, <2>1, <2>2 DEF Delivery!Next, Delivery!Accept, Finished, Verdict
  <1>5. CASE verdict = "nil" /\ prevErr # "EOF"
    <2>1. Verdict = "open" /\ Verdict' = "error"
      BY <1>1, <1>5 DEF Verdict
    <2> QED
      BY <1>2, <2>1 DEF Delivery!Next, Delivery!Reject, Finished, Verdict
  <1> QED
    BY <1>3, <1>4, <1>5

LEMMA OpenDelivery ==
    ASSUME IInv, OpenNext, UNCHANGED sealVars
    PROVE  Delivery!Next \/ UNCHANGED delivery
  <1>1. CASE CopyOut
    BY <1>1, CopyDelivery
  <1>2. CASE ReturnError
    BY <1>2, ErrorDelivery
  <1>3. ASSUME ~CopyOut, ~ReturnError
        PROVE  UNCHANGED <<kind, sealed, written, retried, out, verdict>>
    BY <1>3 DEF OpenNext, ReadStep, ReadCall, FetchEOF, FetchUndecodable,
       FetchRefused, FetchEmptyBlock, FetchChunk, Accepted, Decoded, Receive,
       ChunkError, EndOfStream, TrailingObject, wireVars, sealVars
  <1> QED
    BY <1>1, <1>2, <1>3, NothingShown

LEMMA StepDelivery ==
    ASSUME IInv, [Next]_vars
    PROVE  [Delivery!Next]_delivery
  <1>1. CASE SealNext /\ UNCHANGED openVars
    BY <1>1, SealDelivery
  <1>2. CASE OpenNext /\ UNCHANGED sealVars
    BY <1>2, OpenDelivery
  <1>3. CASE WireFault /\ UNCHANGED <<sealVars, openVars>>
    <2>1. UNCHANGED <<kind, sealed, written, retried, out, verdict>>
      BY <1>3 DEF WireFault, Drop, Duplicate, Swap, Splice, FlipFlag, Damage,
         Truncate, Fault, sealVars, openVars
    <2> QED
      BY <2>1, NothingShown
  <1>4. CASE UNCHANGED vars
    <2>1. UNCHANGED <<kind, sealed, written, retried, out, verdict>>
      BY <1>4 DEF vars, sealVars, openVars, wireVars
    <2> QED
      BY <2>1, NothingShown
  <1> QED
    BY <1>1, <1>2, <1>3, <1>4 DEF Next

\* The streams and the wire implement MessageDelivery: what is given out is, at
\* every step, a prefix of a text that whole packets make up, and there is one
\* verdict, io.EOF only for a text with a final block behind it.  As long as the
\* sender's caller makes no call after an error, the text is what was passed to
\* Write, even if the Encode of a packet fails after writing all of it.
THEOREM ImplementsDelivery == Spec => Refinement
  <1>1. Init => Delivery!Init
    BY InitDelivery
  <1>2. IInv /\ [Next]_vars => [Delivery!Next]_(Delivery!vars)
    BY StepDelivery DEF delivery, Delivery!vars, Finished, Verdict
  <1> QED
    BY Invariance, <1>1, <1>2, PTL DEF Spec, Refinement, Delivery!Spec
=============================================================================
