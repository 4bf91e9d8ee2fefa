------------------------- MODULE SignedMessages_proofs -------------------------
(***************************************************************************)
(* Proofs about SignedMessages: what a verifier accepts, one signer wrote, *)
(* for any number of signers, streams, versions and chunks.                *)
(***************************************************************************)
EXTENDS SignedMessages, SequenceTheorems, TLAPS

-----------------------------------------------------------------------------
(* The inductive invariant.                                                *)

\* A header is the header of one stream.
HeadersDistinct == \A i \in DOMAIN streams : streams[i].header.nonce = i

\* What stream s signs as its nth packet p.
InputOf(s, n, p) ==
    IF s.header.type = "attached"
    THEN AttachedSignatureInput(s.header, n - 1, p.chunk, p.final)
    ELSE DetachedSignatureInput(s.header, p.chunk)

\* Every signature is over its header, number, chunk and flag.
Signed ==
    \A i \in DOMAIN streams : \A n \in DOMAIN streams[i].out :
        streams[i].out[n].sig =
            Sign(streams[i].header.sender,
                 InputOf(streams[i], n, streams[i].out[n]))

\* s wrote the chunks cs first, and if closed is TRUE the last of them last.
Wrote(s, cs, closed) ==
    /\ Len(cs) <= Len(s.out)
    /\ \A n \in DOMAIN cs : cs[n] = s.out[n].chunk
    /\ closed => s.out[Len(cs)].final

AfterHeader == pc \in {"reading", "trailer", "eof", "trailing garbage",
                       "unexpected eof", "panic"}

\* The attached verifier holds the first chunks of the stream with its header.
ReadFromOne ==
    /\ AfterHeader => mode = "attached"
    /\ mode = "attached" /\ pc # "failed" =>
        /\ header \in Header /\ header.type = "attached"
        /\ header.sender \in known /\ Len(presented) = Len(released)
    /\ mode = "attached" /\ released # << >> =>
        /\ header \in Header /\ header.sender \in known
        /\ \E i \in DOMAIN streams :
            /\ streams[i].header = header
            /\ Wrote(streams[i], released, pc \in {"trailer", "eof"})

DetachedRead ==
    /\ pc = "idle" => mode = "none" /\ presented = << >> /\ released = << >>
    /\ pc \in {"signature", "verified"} =>
        /\ mode = "detached" /\ header \in Header /\ header.type = "detached"
    /\ pc = "signature" => presented = << >>

\* Why a packet or a header was refused.
RefusedFor ==
    pc = "failed" =>
        IF presented = << >>
        THEN \/ header.version \notin accepts \/ header.type # mode
             \/ mode = "attached" /\ header.sender \notin known
        ELSE IF mode = "attached"
        THEN LET p == Last(presented)
             IN  ~ /\ Verify(header.sender,
                        AttachedSignatureInput(header, Len(presented) - 1,
                                               p.chunk, p.final), p.sig)
                   /\ ChunkStateOK(header.version, p.chunk, Len(presented) - 1,
                                   p.final)
        ELSE /\ mode = "detached" /\ Len(presented) = 1
             /\ ~ /\ header.sender \in known
                  /\ Verify(header.sender,
                        DetachedSignatureInput(header, presented[1].chunk),
                        presented[1].sig)

IInv ==
    /\ TypeOK /\ HeadersDistinct /\ Signed /\ ReadFromOne /\ DetachedRead
    /\ DetachedAuthentic /\ RefusedFor

-----------------------------------------------------------------------------
(* Type correctness.                                                       *)

\* What TypeOK says of a stream.
LEMMA Typed ==
    ASSUME TypeOK
    PROVE  /\ streams \in Seq(Stream) /\ BlocksOK /\ VerifierTypeOK
           /\ \A i \in DOMAIN streams :
                /\ streams[i] \in Stream /\ streams[i].header \in Header
                /\ streams[i].hashed \in Seq(Nat)
                /\ streams[i].out \in Seq(Packet)
  <1>1. streams \in Seq(Stream) /\ BlocksOK /\ VerifierTypeOK
    BY DEF TypeOK
  <1>2. \A i \in DOMAIN streams : streams[i] \in Stream
    BY <1>1
  <1> QED
    BY <1>1, <1>2 DEF Stream

\* What is signed and the signature are well formed.
LEMMA SignType ==
    ASSUME NEW h \in Header, NEW n \in Nat, NEW c \in Seq(Nat),
           NEW f \in BOOLEAN
    PROVE  /\ Sign(h.sender, AttachedSignatureInput(h, n, c, f))
                \in [by : Signers, input : SignatureInput]
           /\ Sign(h.sender, DetachedSignatureInput(h, c))
                \in [by : Signers, input : SignatureInput]
  <1>1. h.sender \in Signers
    BY DEF Header
  <1>2. <<IF f THEN 1 ELSE 0>> \o c \in Seq(Nat)
    OBVIOUS
  <1>3. AttachedSignatureInput(h, n, c, f) \in SignatureInput
    BY <1>2 DEF AttachedSignatureInput, SignatureInput
  <1>4. DetachedSignatureInput(h, c) \in SignatureInput
    BY DEF DetachedSignatureInput, SignatureInput
  <1> QED
    BY <1>1, <1>3, <1>4 DEF Sign

\* A signature that was made is well formed, and so is a text.
LEMMA ArrivingType ==
    ASSUME TypeOK
    PROVE  /\ Signatures \subseteq [by : Signers, input : SignatureInput]
           /\ Texts \subseteq Seq(Nat)
           /\ Headers \subseteq Header
           /\ \A h \in Headers : AlteredHeaders(h) \subseteq Header
  <1>1. \A i \in DOMAIN streams : streams[i] \in Stream
    BY DEF TypeOK
  <1>2. \A i \in DOMAIN streams : \A n \in DOMAIN streams[i].out :
            streams[i].out[n] \in Packet
    BY <1>1 DEF Stream
  <1>3. Signatures \subseteq [by : Signers, input : SignatureInput]
    BY <1>2 DEF Signatures, Packet
  <1>4. Texts \subseteq Seq(Nat)
    BY <1>1, SignedAssumption DEF Texts, Stream
  <1>5. Headers \subseteq Header
    BY <1>1 DEF Headers, Stream
  <1>6. \A h \in Header : AlteredHeaders(h) \subseteq Header
    BY DEF AlteredHeaders, Header
  <1> QED
    BY <1>3, <1>4, <1>5, <1>6

\* A packet p put at the end of the ith stream leaves the others, and the
\* packets that were there, as they are.
LEMMA AppendedOut ==
    ASSUME TypeOK, NEW i \in DOMAIN streams, NEW p \in Packet,
           streams' = [streams EXCEPT ![i].out = Append(@, p)]
    PROVE  /\ streams' \in Seq(Stream) /\ DOMAIN streams' = DOMAIN streams
           /\ \A j \in DOMAIN streams :
                /\ streams'[j].header = streams[j].header
                /\ streams'[j].hashed = streams[j].hashed
                /\ j # i => streams'[j] = streams[j]
           /\ streams'[i].out = Append(streams[i].out, p)
  <1>1. streams \in Seq(Stream) /\ streams[i] \in Stream
    BY DEF TypeOK
  <1>2. streams[i].out \in Seq(Packet)
    BY <1>1 DEF Stream
  <1>3. Append(streams[i].out, p) \in Seq(Packet)
    BY <1>2
  <1>4. [streams[i] EXCEPT !.out = Append(@, p)] \in Stream
    BY <1>1, <1>3 DEF Stream
  <1>5. streams' = [streams EXCEPT ![i] = [streams[i] EXCEPT !.out = Append(@, p)]]
    OBVIOUS
  <1>6. streams' \in Seq(Stream)
    BY <1>1, <1>4, <1>5
  <1>7. \A j \in DOMAIN streams : streams[j] \in Stream
    BY <1>1
  <1> QED
    BY <1>1, <1>5, <1>6, <1>7 DEF Stream

\* The same for a new stream, and for a detached Write.
LEMMA NewStreamGrows ==
    ASSUME TypeOK, NEW k \in Signers, NEW v \in Versions, NEW t \in Modes,
           NewSignStream(k, v, t)
    PROVE  /\ streams' \in Seq(Stream) /\ Len(streams') = Len(streams) + 1
           /\ \A j \in DOMAIN streams : streams'[j] = streams[j]
           /\ streams'[Len(streams')].out = << >>
           /\ streams'[Len(streams')].header.nonce = Len(streams')
  <1>1. NewSignatureHeader(v, k, t) \in Header
    BY DEF NewSignatureHeader, Header, NewSigNonce, TypeOK
  <1>2. [header |-> NewSignatureHeader(v, k, t), hashed |-> << >>,
         out |-> << >>] \in Stream
    BY <1>1 DEF Stream
  <1> QED
    BY <1>2 DEF NewSignStream, TypeOK, NewSignatureHeader, NewSigNonce

LEMMA WriteGrows ==
    ASSUME TypeOK, NEW i \in DOMAIN streams, NEW p \in Chunks,
           DetachedWrite(i, p)
    PROVE  /\ streams' \in Seq(Stream) /\ DOMAIN streams' = DOMAIN streams
           /\ \A j \in DOMAIN streams :
                /\ streams'[j].header = streams[j].header
                /\ streams'[j].out = streams[j].out
  <1>1. streams \in Seq(Stream) /\ streams[i] \in Stream
    BY DEF TypeOK
  <1>2. streams[i].hashed \o p \in Seq(Nat)
    BY <1>1, SignedAssumption DEF Stream
  <1>3. [streams[i] EXCEPT !.hashed = @ \o p] \in Stream
    BY <1>1, <1>2 DEF Stream
  <1>4. streams' = [streams EXCEPT ![i] = [streams[i] EXCEPT !.hashed = @ \o p]]
    BY DEF DetachedWrite
  <1>5. \A j \in DOMAIN streams : streams[j] \in Stream
    BY <1>1
  <1> QED
    BY <1>1, <1>3, <1>4, <1>5 DEF Stream

\* A step of SignBlock or DetachedClose: the ith stream gets packet p.
AddsPacket(i, p) ==
    /\ p.sig = Sign(streams[i].header.sender,
                    InputOf(streams[i], Len(streams[i].out) + 1, p))
    /\ streams[i].header.type = "attached" =>
            ChunkStateOK(streams[i].header.version, p.chunk,
                         Len(streams[i].out), p.final)
    /\ streams' = [streams EXCEPT ![i].out = Append(@, p)]

LEMMA SignBlockAdds ==
    ASSUME TypeOK, NEW i \in DOMAIN streams, NEW c \in Chunks,
           NEW f \in BOOLEAN, SignBlock(i, c, f)
    PROVE  \E p \in Packet : AddsPacket(i, p)
  <1> DEFINE s == streams[i]
             p == [sig   |-> Sign(s.header.sender,
                               AttachedSignatureInput(s.header, Len(s.out), c, f)),
                   chunk |-> c, final |-> f]
  <1>1. s.header \in Header /\ s.out \in Seq(Packet) /\ c \in Seq(Nat)
    BY Typed, SignedAssumption
  <1>2. Len(s.out) \in Nat /\ (Len(s.out) + 1) - 1 = Len(s.out)
    BY <1>1
  <1>3. p \in Packet
    BY <1>1, <1>2, SignType DEF Packet
  <1>4. /\ s.header.type = "attached"
        /\ ChunkStateOK(s.header.version, c, Len(s.out), f)
        /\ streams' = [streams EXCEPT ![i].out = Append(@, p)]
    BY DEF SignBlock, Writing, AssertEncodedChunkState
  <1>5. AddsPacket(i, p)
    BY <1>2, <1>4 DEF AddsPacket, InputOf
  <1> QED
    BY <1>3, <1>5

LEMMA DetachedCloseAdds ==
    ASSUME TypeOK, NEW i \in DOMAIN streams, DetachedClose(i)
    PROVE  \E p \in Packet : AddsPacket(i, p)
  <1> DEFINE s == streams[i]
             p == [sig   |-> Sign(s.header.sender,
                               DetachedSignatureInput(s.header, s.hashed)),
                   chunk |-> s.hashed, final |-> TRUE]
  <1>1. s.header \in Header /\ s.hashed \in Seq(Nat)
    BY Typed
  <1>2. p \in Packet
    BY <1>1, SignType DEF Packet
  <1>3. /\ s.header.type = "detached"
        /\ streams' = [streams EXCEPT ![i].out = Append(@, p)]
    BY DEF DetachedClose, Writing
  <1>4. AddsPacket(i, p)
    BY <1>3 DEF AddsPacket, InputOf
  <1> QED
    BY <1>2, <1>4

\* A step of a signer: a new stream, more text, or one more packet.
LEMMA SignerSteps ==
    ASSUME TypeOK, Next
    PROVE  \/ UNCHANGED streams
           \/ /\ UNCHANGED verifierVars
              /\ \/ \E k \in Signers, v \in Versions, t \in Modes :
                        NewSignStream(k, v, t)
                 \/ \E i \in DOMAIN streams : \E p \in Chunks :
                        DetachedWrite(i, p)
                 \/ \E i \in DOMAIN streams : \E p \in Packet : AddsPacket(i, p)
  <1>1. CASE \E k \in Signers, v \in Versions, t \in Modes : NewSignStream(k, v, t)
    BY <1>1 DEF NewSignStream
  <1>2. CASE \E i \in DOMAIN streams : \E p \in Chunks : DetachedWrite(i, p)
    BY <1>2 DEF DetachedWrite, Writing
  <1>3. CASE \E i \in DOMAIN streams : \E c \in Chunks, f \in BOOLEAN :
                SignBlock(i, c, f)
    <2>1. UNCHANGED verifierVars
      BY <1>3 DEF SignBlock, Writing
    <2> QED
      BY <1>3, <2>1, SignBlockAdds
  <1>4. CASE \E i \in DOMAIN streams : DetachedClose(i)
    <2>1. UNCHANGED verifierVars
      BY <1>4 DEF DetachedClose, Writing
    <2> QED
      BY <1>4, <2>1, DetachedCloseAdds
  <1>5. CASE UNCHANGED streams
    BY <1>5
  <1> QED
    BY <1>1, <1>2, <1>3, <1>4, <1>5
       DEF Next, OpenHeader, VerifyDetached, GetNextChunk, EndOfBlocks, Reading

\* What has been signed stays.
StreamsGrow ==
    \A i \in DOMAIN streams :
        /\ i \in DOMAIN streams' /\ streams'[i].header = streams[i].header
        /\ Len(streams[i].out) <= Len(streams'[i].out)
        /\ \A n \in DOMAIN streams[i].out :
            streams'[i].out[n] = streams[i].out[n]

\* The packets of a stream that gets one more.
LEMMA OneMore ==
    ASSUME NEW out \in Seq(Packet), NEW p \in Packet
    PROVE  /\ Len(out) <= Len(Append(out, p))
           /\ \A n \in DOMAIN out : Append(out, p)[n] = out[n]
           /\ \A n \in DOMAIN Append(out, p) :
                \/ n \in DOMAIN out /\ Append(out, p)[n] = out[n]
                \/ n = Len(out) + 1 /\ Append(out, p)[n] = p
  OBVIOUS

LEMMA Growing ==
    ASSUME TypeOK, Next
    PROVE  StreamsGrow /\ streams' \in Seq(Stream)
  <1>0. /\ streams \in Seq(Stream)
        /\ \A i \in DOMAIN streams : streams[i].out \in Seq(Packet)
    BY Typed
  <1>1. CASE UNCHANGED streams
    BY <1>0, <1>1 DEF StreamsGrow
  <1>2. ASSUME NEW k \in Signers, NEW v \in Versions, NEW t \in Modes,
               NewSignStream(k, v, t)
        PROVE  StreamsGrow /\ streams' \in Seq(Stream)
    <2>1. /\ streams' \in Seq(Stream) /\ Len(streams') = Len(streams) + 1
          /\ \A j \in DOMAIN streams : streams'[j] = streams[j]
      BY <1>2, NewStreamGrows
    <2> QED
      BY <1>0, <2>1 DEF StreamsGrow
  <1>3. ASSUME NEW i \in DOMAIN streams, NEW p \in Chunks, DetachedWrite(i, p)
        PROVE  StreamsGrow /\ streams' \in Seq(Stream)
    <2>1. /\ streams' \in Seq(Stream) /\ DOMAIN streams' = DOMAIN streams
          /\ \A j \in DOMAIN streams :
                /\ streams'[j].header = streams[j].header
                /\ streams'[j].out = streams[j].out
      BY <1>3, WriteGrows
    <2> QED
      BY <1>0, <2>1 DEF StreamsGrow
  <1>4. ASSUME NEW i \in DOMAIN streams, NEW p \in Packet, AddsPacket(i, p)
        PROVE  StreamsGrow /\ streams' \in Seq(Stream)
    <2>1. /\ streams' \in Seq(Stream) /\ DOMAIN streams' = DOMAIN streams
          /\ \A j \in DOMAIN streams :
                /\ streams'[j].header = streams[j].header
                /\ j # i => streams'[j] = streams[j]
          /\ streams'[i].out = Append(streams[i].out, p)
      BY <1>4, AppendedOut DEF AddsPacket
    <2>2. /\ Len(streams[i].out) <= Len(streams'[i].out)
          /\ \A n \in DOMAIN streams[i].out :
                streams'[i].out[n] = streams[i].out[n]
      BY <1>0, <2>1, OneMore
    <2>3. ASSUME NEW j \in DOMAIN streams
          PROVE  /\ j \in DOMAIN streams'
                 /\ streams'[j].header = streams[j].header
                 /\ Len(streams[j].out) <= Len(streams'[j].out)
                 /\ \A n \in DOMAIN streams[j].out :
                        streams'[j].out[n] = streams[j].out[n]
      <3>1. CASE j = i
        BY <2>1, <2>2, <3>1
      <3>2. CASE j # i
        <4>1. streams'[j] = streams[j] /\ Len(streams[j].out) \in Nat
          BY <1>0, <2>1, <3>2
        <4> QED
          BY <2>1, <4>1
      <3> QED
        BY <3>1, <3>2
    <2> QED
      BY <2>1, <2>3 DEF StreamsGrow
  <1> QED
    BY <1>1, <1>2, <1>3, <1>4, SignerSteps

LEMMA BlocksStayOK ==
    ASSUME TypeOK, Next
    PROVE  BlocksOK'
  <1>0. /\ BlocksOK /\ streams \in Seq(Stream)
        /\ \A i \in DOMAIN streams : streams[i].out \in Seq(Packet)
    BY Typed
  <1>1. CASE UNCHANGED streams
    BY <1>0, <1>1 DEF BlocksOK
  <1>2. ASSUME NEW k \in Signers, NEW v \in Versions, NEW t \in Modes,
               NewSignStream(k, v, t)
        PROVE  BlocksOK'
    <2>1. /\ streams' \in Seq(Stream) /\ Len(streams') = Len(streams) + 1
          /\ \A j \in DOMAIN streams : streams'[j] = streams[j]
          /\ streams'[Len(streams')].out = << >>
      BY <1>2, NewStreamGrows
    <2>2. \A i \in DOMAIN streams' : i \in DOMAIN streams \/ i = Len(streams')
      BY <1>0, <2>1
    <2> QED
      BY <1>0, <2>1, <2>2 DEF BlocksOK
  <1>3. ASSUME NEW i \in DOMAIN streams, NEW p \in Chunks, DetachedWrite(i, p)
        PROVE  BlocksOK'
    BY <1>0, <1>3, WriteGrows DEF BlocksOK
  <1>4. ASSUME NEW i \in DOMAIN streams, NEW p \in Packet, AddsPacket(i, p)
        PROVE  BlocksOK'
    <2>1. /\ DOMAIN streams' = DOMAIN streams
          /\ \A j \in DOMAIN streams :
                /\ streams'[j].header = streams[j].header
                /\ j # i => streams'[j] = streams[j]
          /\ streams'[i].out = Append(streams[i].out, p)
      BY <1>4, AppendedOut DEF AddsPacket
    <2>2. \A n \in DOMAIN streams'[i].out :
            \/ n \in DOMAIN streams[i].out /\ streams'[i].out[n] = streams[i].out[n]
            \/ n = Len(streams[i].out) + 1 /\ streams'[i].out[n] = p
      BY <1>0, <2>1, OneMore
    <2>3. SUFFICES ASSUME NEW j \in DOMAIN streams', NEW n \in DOMAIN streams'[j].out,
                          streams'[j].header.type = "attached"
                   PROVE  ChunkStateOK(streams'[j].header.version,
                            streams'[j].out[n].chunk, n - 1, streams'[j].out[n].final)
      BY DEF BlocksOK
    <2>4. CASE j # i
      BY <1>0, <2>1, <2>3, <2>4 DEF BlocksOK
    <2>5. CASE j = i /\ n \in DOMAIN streams[i].out
                     /\ streams'[i].out[n] = streams[i].out[n]
      BY <1>0, <2>1, <2>3, <2>5 DEF BlocksOK
    <2>6. CASE j = i /\ n = Len(streams[i].out) + 1 /\ streams'[i].out[n] = p
      <3>1. n - 1 = Len(streams[i].out)
        BY <1>0, <2>6
      <3> QED
        BY <1>4, <2>1, <2>3, <2>6, <3>1 DEF AddsPacket
    <2> QED
      BY <2>2, <2>4, <2>5, <2>6
  <1> QED
    BY <1>1, <1>2, <1>3, <1>4, SignerSteps

LEMMA AppendType ==
    ASSUME NEW S, NEW s \in Seq(S), NEW e \in S
    PROVE  /\ Append(s, e) \in Seq(S) /\ <<e>> \in Seq(S)
           /\ Len(Append(s, e)) = Len(s) + 1 /\ Append(s, e) # << >>
           /\ Last(Append(s, e)) = e
  BY DEF Last

LEMMA TypeStays ==
    ASSUME TypeOK, [Next]_vars
    PROVE  TypeOK'
  <1>0. VerifierTypeOK /\ streams \in Seq(Stream)
    BY Typed
  <1>1. CASE UNCHANGED vars
    <2>1. UNCHANGED streams /\ UNCHANGED verifierVars
      BY <1>1 DEF vars
    <2>2. VerifierTypeOK'
      BY <1>0, <2>1 DEF VerifierTypeOK, verifierVars
    <2>3. streams' \in Seq(Stream) /\ BlocksOK'
      BY <1>0, <2>1, Typed DEF BlocksOK
    <2> QED
      BY <2>2, <2>3 DEF TypeOK
  <1>2. CASE Next
    <2>1. streams' \in Seq(Stream) /\ BlocksOK'
      BY <1>2, Growing, BlocksStayOK
    <2>2. ASSUME UNCHANGED verifierVars
          PROVE  VerifierTypeOK'
      BY <1>0, <2>2 DEF VerifierTypeOK, verifierVars
    <2>3. ASSUME NEW h \in Headers, NEW a \in {h} \union AlteredHeaders(h),
                 NEW m \in Modes, NEW v \in Validators,
                 NEW keys \in {Signers, Signers \ {a.sender}},
                 OpenHeader(a, m, v, keys)
          PROVE  VerifierTypeOK'
      <3>1. a \in Header /\ v \subseteq Versions /\ keys \subseteq Signers
        BY ArrivingType, SignedAssumption
      <3> QED
        BY <1>0, <2>3, <3>1 DEF OpenHeader, VerifierTypeOK
    <2>4. ASSUME NEW sig \in Signatures, NEW text \in Texts,
                 VerifyDetached(sig, text)
          PROVE  VerifierTypeOK'
      <3>1. /\ sig \in [by : Signers, input : SignatureInput]
            /\ text \in Seq(Nat)
        BY ArrivingType
      <3>2. [sig |-> sig, chunk |-> text, final |-> TRUE] \in Packet
        BY <3>1 DEF Packet
      <3>3. presented' \in Seq(Packet)
        BY <2>4, <3>2 DEF VerifyDetached
      <3>4. released' = <<text>> \/ released' = released
        BY <2>4 DEF VerifyDetached
      <3>5. released \in Seq(Seq(Nat))
        BY <1>0 DEF VerifierTypeOK
      <3>6. released' \in Seq(Seq(Nat))
        BY <3>1, <3>4, <3>5, AppendType
      <3> QED
        BY <1>0, <2>4, <3>3, <3>6 DEF VerifyDetached, VerifierTypeOK, Reading
    <2>5. ASSUME NEW sig \in Signatures, NEW c \in Chunks, NEW f \in BOOLEAN,
                 GetNextChunk(sig, c, f)
          PROVE  VerifierTypeOK'
      <3> DEFINE final == IF header.version.major = 1 THEN c = << >> ELSE f
      <3>1. /\ sig \in [by : Signers, input : SignatureInput]
            /\ c \in Seq(Nat) /\ final \in BOOLEAN
        BY ArrivingType, SignedAssumption
      <3>2. [sig |-> sig, chunk |-> c, final |-> final] \in Packet
        BY <3>1 DEF Packet
      <3>3. presented' \in Seq(Packet)
        BY <1>0, <2>5, <3>2 DEF GetNextChunk, VerifierTypeOK
      <3>4. released' = Append(released, c) \/ released' = released
        BY <2>5, Zenon DEF GetNextChunk
      <3>5. released \in Seq(Seq(Nat))
        BY <1>0 DEF VerifierTypeOK
      <3>6. released' \in Seq(Seq(Nat))
        <4>1. c \in Seq(Nat)
          BY <3>1
        <4>2. Append(released, c) \in Seq(Seq(Nat))
          BY <3>5, <4>1, AppendType, Zenon
        <4> QED
          BY <3>4, <3>5, <4>2, Zenon
      <3>7. /\ UNCHANGED <<header, mode, accepts, known>>
            /\ pc' \in {"trailer", "reading", "failed"}
        BY <2>5, Zenon DEF GetNextChunk, Reading
      <3> QED
        BY <1>0, <3>3, <3>6, <3>7 DEF VerifierTypeOK
    <2>6. ASSUME EndOfBlocks
          PROVE  VerifierTypeOK'
      BY <1>0, <2>6 DEF EndOfBlocks, VerifierTypeOK, Reading
    <2>7. VerifierTypeOK'
      <3>1. CASE \E k \in Signers, v \in Versions, t \in Modes : NewSignStream(k, v, t)
        <4>1. UNCHANGED verifierVars
          BY <3>1 DEF NewSignStream
        <4> QED
          BY <2>2, <4>1
      <3>2. CASE \E i \in DOMAIN streams :
                \/ \E c \in Chunks, f \in BOOLEAN : SignBlock(i, c, f)
                \/ \E p \in Chunks : DetachedWrite(i, p)
                \/ DetachedClose(i)
        <4>1. UNCHANGED verifierVars
          BY <3>2 DEF SignBlock, DetachedWrite, DetachedClose, Writing
        <4> QED
          BY <2>2, <4>1
      <3>3. CASE \E h \in Headers : \E a \in {h} \union AlteredHeaders(h) :
                   \E m \in Modes, v \in Validators,
                      keys \in {Signers, Signers \ {a.sender}} :
                       OpenHeader(a, m, v, keys)
        <4>1. PICK h \in Headers :
                    \E a \in {h} \union AlteredHeaders(h) :
                      \E m \in Modes, v \in Validators,
                         keys \in {Signers, Signers \ {a.sender}} :
                          OpenHeader(a, m, v, keys)
          BY <3>3
        <4>2. PICK a \in {h} \union AlteredHeaders(h) :
                    \E m \in Modes, v \in Validators,
                       keys \in {Signers, Signers \ {a.sender}} :
                        OpenHeader(a, m, v, keys)
          BY <4>1
        <4>3. PICK m \in Modes, v \in Validators,
                      keys \in {Signers, Signers \ {a.sender}} :
                    OpenHeader(a, m, v, keys)
          BY <4>2
        <4> QED
          BY <2>3, <4>3
      <3>4. CASE \E sig \in Signatures :
                \/ \E text \in Texts : VerifyDetached(sig, text)
                \/ \E c \in Chunks, f \in BOOLEAN : GetNextChunk(sig, c, f)
        BY <2>4, <2>5, <3>4, Zenon
      <3> QED
        BY <1>2, <2>6, <3>1, <3>2, <3>3, <3>4 DEF Next
    <2> QED
      BY <2>1, <2>7 DEF TypeOK
  <1> QED
    BY <1>1, <1>2

\* The records and sequences of the model are of the sets given for them, the
\* blocks that signers make keep the rule on empty and final chunks that
\* assertEncodedChunkState asserts.
THEOREM TypeCorrect == Spec => []TypeOK
  <1>1. Init => TypeOK
    BY DEF Init, TypeOK, BlocksOK, VerifierTypeOK
  <1>2. TypeOK /\ [Next]_vars => TypeOK'
    BY TypeStays
  <1> QED
    BY <1>1, <1>2, PTL DEF Spec

-----------------------------------------------------------------------------
(* The signers: headers differ, signatures are over their own packets.     *)

LEMMA HeadersStayDistinct ==
    ASSUME TypeOK, HeadersDistinct, Next
    PROVE  HeadersDistinct'
  <1>0. streams \in Seq(Stream)
    BY Typed
  <1>1. CASE UNCHANGED streams
    BY <1>1 DEF HeadersDistinct
  <1>2. ASSUME NEW k \in Signers, NEW v \in Versions, NEW t \in Modes,
               NewSignStream(k, v, t)
        PROVE  HeadersDistinct'
    <2>1. /\ streams' \in Seq(Stream) /\ Len(streams') = Len(streams) + 1
          /\ \A j \in DOMAIN streams : streams'[j] = streams[j]
          /\ streams'[Len(streams')].header.nonce = Len(streams')
      BY <1>2, NewStreamGrows
    <2>2. \A i \in DOMAIN streams' : i \in DOMAIN streams \/ i = Len(streams')
      BY <1>0, <2>1
    <2> QED
      BY <2>1, <2>2 DEF HeadersDistinct
  <1>3. ASSUME NEW i \in DOMAIN streams, NEW p \in Chunks, DetachedWrite(i, p)
        PROVE  HeadersDistinct'
    BY <1>3, WriteGrows DEF HeadersDistinct
  <1>4. ASSUME NEW i \in DOMAIN streams, NEW p \in Packet, AddsPacket(i, p)
        PROVE  HeadersDistinct'
    BY <1>4, AppendedOut DEF AddsPacket, HeadersDistinct
  <1> QED
    BY <1>1, <1>2, <1>3, <1>4, SignerSteps

\* InputOf does not look at what a detached stream will sign next, nor at the
\* packets before.
LEMMA SameInput ==
    ASSUME NEW s, NEW t, s.header = t.header, NEW n, NEW p
    PROVE  InputOf(s, n, p) = InputOf(t, n, p)
  BY DEF InputOf

LEMMA SignedStays ==
    ASSUME TypeOK, Signed, Next
    PROVE  Signed'
  <1>0. /\ streams \in Seq(Stream)
        /\ \A i \in DOMAIN streams : streams[i].out \in Seq(Packet)
    BY Typed
  <1>1. CASE UNCHANGED streams
    BY <1>1 DEF Signed, InputOf
  <1>2. ASSUME NEW k \in Signers, NEW v \in Versions, NEW t \in Modes,
               NewSignStream(k, v, t)
        PROVE  Signed'
    <2>1. /\ streams' \in Seq(Stream) /\ Len(streams') = Len(streams) + 1
          /\ \A j \in DOMAIN streams : streams'[j] = streams[j]
          /\ streams'[Len(streams')].out = << >>
      BY <1>2, NewStreamGrows
    <2>2. \A i \in DOMAIN streams' : i \in DOMAIN streams \/ i = Len(streams')
      BY <1>0, <2>1
    <2> QED
      BY <1>0, <2>1, <2>2 DEF Signed, InputOf
  <1>3. ASSUME NEW i \in DOMAIN streams, NEW p \in Chunks, DetachedWrite(i, p)
        PROVE  Signed'
    <2>1. /\ DOMAIN streams' = DOMAIN streams
          /\ \A j \in DOMAIN streams :
                /\ streams'[j].header = streams[j].header
                /\ streams'[j].out = streams[j].out
      BY <1>3, WriteGrows
    <2> QED
      BY <2>1 DEF Signed, InputOf
  <1>4. ASSUME NEW i \in DOMAIN streams, NEW p \in Packet, AddsPacket(i, p)
        PROVE  Signed'
    <2>1. /\ DOMAIN streams' = DOMAIN streams
          /\ \A j \in DOMAIN streams :
                /\ streams'[j].header = streams[j].header
                /\ j # i => streams'[j] = streams[j]
          /\ streams'[i].out = Append(streams[i].out, p)
      BY <1>4, AppendedOut DEF AddsPacket
    <2>2. \A n \in DOMAIN streams'[i].out :
            \/ n \in DOMAIN streams[i].out /\ streams'[i].out[n] = streams[i].out[n]
            \/ n = Len(streams[i].out) + 1 /\ streams'[i].out[n] = p
      BY <1>0, <2>1, OneMore
    <2>3. SUFFICES ASSUME NEW j \in DOMAIN streams', NEW n \in DOMAIN streams'[j].out
                   PROVE  streams'[j].out[n].sig =
                            Sign(streams'[j].header.sender,
                                 InputOf(streams'[j], n, streams'[j].out[n]))
      BY DEF Signed, InputOf
    <2>4. InputOf(streams'[j], n, streams'[j].out[n])
            = InputOf(streams[j], n, streams'[j].out[n])
      BY <2>1, SameInput
    <2>5. CASE j # i
      BY <2>1, <2>3, <2>5 DEF Signed
    <2>6. CASE j = i /\ n \in DOMAIN streams[i].out
                     /\ streams'[i].out[n] = streams[i].out[n]
      BY <2>1, <2>4, <2>6 DEF Signed
    <2>7. CASE j = i /\ n = Len(streams[i].out) + 1 /\ streams'[i].out[n] = p
      BY <1>4, <2>1, <2>4, <2>7 DEF AddsPacket
    <2> QED
      BY <2>2, <2>5, <2>6, <2>7
  <1> QED
    BY <1>1, <1>2, <1>3, <1>4, SignerSteps

-----------------------------------------------------------------------------
(* A signature that verifies was made for just what it is presented with.  *)

LEMMA OneFirst ==
    ASSUME NEW a \in Nat, NEW b \in Nat, NEW s \in Seq(Nat), NEW t \in Seq(Nat),
           <<a>> \o s = <<b>> \o t
    PROVE  a = b /\ s = t
  <1>1. (<<a>> \o s)[1] = a /\ (<<b>> \o t)[1] = b
    OBVIOUS
  <1>2. Len(s) = Len(t)
    <2>1. Len(<<a>> \o s) = 1 + Len(s) /\ Len(<<b>> \o t) = 1 + Len(t)
      OBVIOUS
    <2> QED
      BY <2>1
  <1>3. \A n \in 1 .. Len(s) : s[n] = t[n]
    <2>1. ASSUME NEW n \in 1 .. Len(s)
          PROVE  s[n] = t[n]
      <3>1. (<<a>> \o s)[n + 1] = s[n]
        OBVIOUS
      <3>2. (<<b>> \o t)[n + 1] = t[n]
        BY <1>2
      <3> QED
        BY <3>1, <3>2
    <2> QED
      BY <2>1
  <1> QED
    BY <1>1, <1>2, <1>3, SeqEqual

LEMMA DetachedMatches ==
    ASSUME TypeOK, Signed, NEW i \in DOMAIN streams,
           NEW n \in DOMAIN streams[i].out, NEW h \in Header, NEW text,
           Verify(h.sender, DetachedSignatureInput(h, text), streams[i].out[n].sig)
    PROVE  streams[i].header = h /\ streams[i].out[n].chunk = text
  <1>1. Sign(streams[i].header.sender, InputOf(streams[i], n, streams[i].out[n]))
            = Sign(h.sender, DetachedSignatureInput(h, text))
    BY DEF Signed, Verify
  <1>2. InputOf(streams[i], n, streams[i].out[n]) = DetachedSignatureInput(h, text)
    BY <1>1 DEF Sign
  <1>3. streams[i].header.type # "attached"
    <2>1. CASE streams[i].header.type = "attached"
      <3>1. InputOf(streams[i], n, streams[i].out[n]).string = "attached signature"
        BY <2>1 DEF InputOf, AttachedSignatureInput
      <3>2. DetachedSignatureInput(h, text).string = "detached signature"
        BY DEF DetachedSignatureInput
      <3> QED
        BY <1>2, <3>1, <3>2
    <2> QED
      BY <2>1
  <1>4. DetachedSignatureInput(streams[i].header, streams[i].out[n].chunk)
            = DetachedSignatureInput(h, text)
    BY <1>2, <1>3 DEF InputOf
  <1> QED
    BY <1>4 DEF DetachedSignatureInput

LEMMA AttachedMatches ==
    ASSUME TypeOK, Signed, NEW i \in DOMAIN streams,
           NEW n \in DOMAIN streams[i].out, NEW h \in Header, NEW seqno \in Nat,
           NEW c \in Seq(Nat), NEW f \in BOOLEAN,
           Verify(h.sender, AttachedSignatureInput(h, seqno, c, f),
                  streams[i].out[n].sig),
           ChunkStateOK(h.version, c, seqno, f)
    PROVE  /\ streams[i].header = h /\ n = seqno + 1
           /\ streams[i].out[n].chunk = c /\ streams[i].out[n].final = f
  <1> DEFINE s == streams[i]
             p == streams[i].out[n]
  <1>0. /\ s.header \in Header /\ s.out \in Seq(Packet) /\ p \in Packet
        /\ p.chunk \in Seq(Nat) /\ p.final \in BOOLEAN /\ n \in Nat \ {0}
    <2>1. s.header \in Header /\ s.out \in Seq(Packet)
      BY Typed
    <2>2. p \in Packet /\ n \in Nat \ {0}
      BY <2>1
    <2> QED
      BY <2>1, <2>2 DEF Packet
  <1>1. Sign(s.header.sender, InputOf(s, n, p))
            = Sign(h.sender, AttachedSignatureInput(h, seqno, c, f))
    BY DEF Signed, Verify
  <1>2. InputOf(s, n, p) = AttachedSignatureInput(h, seqno, c, f)
    BY <1>1 DEF Sign
  <1>3. s.header.type = "attached"
    <2>1. CASE s.header.type # "attached"
      <3>1. InputOf(s, n, p).string = "detached signature"
        BY <2>1 DEF InputOf, DetachedSignatureInput
      <3>2. AttachedSignatureInput(h, seqno, c, f).string = "attached signature"
        BY DEF AttachedSignatureInput
      <3> QED
        BY <1>2, <3>1, <3>2
    <2> QED
      BY <2>1
  <1>4. AttachedSignatureInput(s.header, n - 1, p.chunk, p.final)
            = AttachedSignatureInput(h, seqno, c, f)
    BY <1>2, <1>3 DEF InputOf
  <1>5. /\ s.header = h /\ n - 1 = seqno
        /\ (IF s.header.version.major = 1 THEN p.chunk
            ELSE <<IF p.final THEN 1 ELSE 0>> \o p.chunk)
            = (IF h.version.major = 1 THEN c
               ELSE <<IF f THEN 1 ELSE 0>> \o c)
    BY <1>4 DEF AttachedSignatureInput
  <1>6. ChunkStateOK(h.version, p.chunk, seqno, p.final)
    <2>1. ChunkStateOK(s.header.version, p.chunk, n - 1, p.final)
      BY <1>3, Typed DEF BlocksOK
    <2> QED
      BY <1>5, <2>1
  <1>7. CASE h.version.major = 1
    <2>1. p.chunk = c
      BY <1>5, <1>7
    <2>2. p.final <=> f
      BY <1>6, <1>7, <2>1 DEF ChunkStateOK
    <2> QED
      BY <1>0, <1>5, <2>1, <2>2
  <1>8. CASE h.version.major # 1
    <2>1. <<IF p.final THEN 1 ELSE 0>> \o p.chunk = <<IF f THEN 1 ELSE 0>> \o c
      BY <1>5, <1>8
    <2>2. (IF p.final THEN 1 ELSE 0) = (IF f THEN 1 ELSE 0) /\ p.chunk = c
      <3> DEFINE a == IF p.final THEN 1 ELSE 0
                 b == IF f THEN 1 ELSE 0
      <3>1. a \in Nat /\ b \in Nat /\ p.chunk \in Seq(Nat) /\ <<a>> \o p.chunk = <<b>> \o c
        BY <1>0, <2>1
      <3> HIDE DEF a, b, p
      <3>2. a = b /\ p.chunk = c
        BY <3>1, OneFirst
      <3> QED
        BY <3>2 DEF a, b, p
    <2>3. p.final = f
      BY <1>0, <2>2
    <2> QED
      BY <1>0, <1>5, <2>2, <2>3
  <1> QED
    BY <1>7, <1>8

-----------------------------------------------------------------------------
(* The verifier.                                                           *)

\* What it holds stays true when the signers go on.
LEMMA SignersGoOn ==
    ASSUME TypeOK, StreamsGrow, streams' \in Seq(Stream),
           UNCHANGED verifierVars,
           ReadFromOne, DetachedRead, DetachedAuthentic, RefusedFor
    PROVE  ReadFromOne' /\ DetachedRead' /\ DetachedAuthentic' /\ RefusedFor'
  <1>1. /\ DetachedRead' /\ RefusedFor'
    BY DEF verifierVars, DetachedRead, RefusedFor
  <1>2. ASSUME NEW i \in DOMAIN streams, NEW cs, NEW b,
               cs \in Seq(Seq(Nat)), cs # << >>, Wrote(streams[i], cs, b)
        PROVE  Wrote(streams'[i], cs, b)
    <2>1. /\ streams[i].out \in Seq(Packet)
          /\ Len(streams[i].out) <= Len(streams'[i].out)
          /\ \A n \in DOMAIN streams[i].out : streams'[i].out[n] = streams[i].out[n]
          /\ Len(cs) <= Len(streams[i].out)
          /\ Len(streams'[i].out) \in Nat
      <3>1. streams[i].out \in Seq(Packet)
        BY Typed
      <3>2. /\ i \in DOMAIN streams'
            /\ Len(streams[i].out) <= Len(streams'[i].out)
            /\ \A n \in DOMAIN streams[i].out :
                   streams'[i].out[n] = streams[i].out[n]
        BY DEF StreamsGrow
      <3>3. streams'[i].out \in Seq(Packet)
        <4>1. streams'[i] \in Stream
          BY <3>2, ElementOfSeq
        <4> QED
          BY <4>1 DEF Stream
      <3>4. Len(cs) <= Len(streams[i].out)
        BY <1>2 DEF Wrote
      <3> QED
        BY <3>1, <3>2, <3>3, <3>4
    <2>2. /\ \A n \in DOMAIN cs : cs[n] = streams[i].out[n].chunk
          /\ b => streams[i].out[Len(cs)].final
      BY <1>2 DEF Wrote
    <2>3. DOMAIN cs = 1 .. Len(cs) /\ Len(cs) \in DOMAIN cs
      BY <1>2, EmptySeq, LenProperties
    <2>4. DOMAIN cs \subseteq DOMAIN streams[i].out
      BY <2>1, <2>3
    <2>5. \A n \in DOMAIN cs : streams'[i].out[n] = streams[i].out[n]
      BY <2>1, <2>4
    <2>6. \A n \in DOMAIN cs : cs[n] = streams'[i].out[n].chunk
      BY <2>2, <2>5
    <2>7. b => streams'[i].out[Len(cs)].final
      BY <2>2, <2>3, <2>5
    <2>8. Len(cs) <= Len(streams'[i].out)
      BY <2>1, <2>3
    <2> QED
      BY <2>6, <2>7, <2>8 DEF Wrote
  <1>3. ReadFromOne'
    <2>1. mode = "attached" /\ released # << >> =>
            \E i \in DOMAIN streams :
                /\ streams[i].header = header
                /\ Wrote(streams[i], released, pc \in {"trailer", "eof"})
      BY DEF ReadFromOne
    <2>2. released \in Seq(Seq(Nat))
      BY Typed DEF VerifierTypeOK
    <2>3. mode = "attached" /\ released # << >> =>
            \E i \in DOMAIN streams' :
                /\ streams'[i].header = header
                /\ Wrote(streams'[i], released, pc \in {"trailer", "eof"})
      BY <1>2, <2>1, <2>2 DEF StreamsGrow
    <2> QED
      BY <2>3 DEF ReadFromOne, AfterHeader, verifierVars, Wrote
  <1>4. DetachedAuthentic'
    <2>1. CASE pc = "verified"
      <3>1. PICK i \in DOMAIN streams :
                /\ streams[i].header = header /\ header.type = "detached"
                /\ \E n \in DOMAIN streams[i].out :
                    streams[i].out[n].chunk = Last(presented).chunk
        BY <2>1 DEF DetachedAuthentic
      <3>2. /\ i \in DOMAIN streams' /\ streams'[i].header = streams[i].header
            /\ \A n \in DOMAIN streams[i].out :
                /\ n \in DOMAIN streams'[i].out
                /\ streams'[i].out[n] = streams[i].out[n]
        <4>1. /\ i \in DOMAIN streams' /\ streams'[i].header = streams[i].header
              /\ Len(streams[i].out) <= Len(streams'[i].out)
              /\ \A n \in DOMAIN streams[i].out :
                    streams'[i].out[n] = streams[i].out[n]
          BY DEF StreamsGrow
        <4>2. streams[i].out \in Seq(Packet) /\ streams'[i].out \in Seq(Packet)
          <5>1. streams'[i] \in Stream
            BY <4>1
          <5> QED
            BY <5>1, Typed DEF Stream
        <4> QED
          BY <4>1, <4>2
      <3>3. header.sender \in known
        BY <2>1 DEF DetachedAuthentic
      <3> QED
        BY <3>1, <3>2, <3>3 DEF DetachedAuthentic, verifierVars
    <2>2. CASE pc # "verified"
      BY <2>2 DEF DetachedAuthentic, verifierVars
    <2> QED
      BY <2>1, <2>2
  <1> QED
    BY <1>1, <1>3, <1>4

LEMMA OpenHeaderKeeps ==
    ASSUME TypeOK, DetachedRead, NEW h \in Header, NEW m \in Modes,
           NEW v \in Validators, NEW keys, OpenHeader(h, m, v, keys)
    PROVE  ReadFromOne' /\ DetachedRead' /\ DetachedAuthentic' /\ RefusedFor'
  <1>1. /\ presented' = << >> /\ released' = << >>
        /\ header' = h /\ mode' = m /\ accepts' = v /\ known' = keys
        /\ pc' = IF h.version \notin v \/ h.type # m THEN "failed"
                 ELSE IF m = "detached" THEN "signature"
                 ELSE IF h.sender \in keys THEN "reading" ELSE "failed"
    BY DEF OpenHeader, DetachedRead
  <1>2. ReadFromOne'
    BY <1>1 DEF ReadFromOne, AfterHeader, Modes
  <1>3. DetachedRead'
    BY <1>1 DEF DetachedRead, Modes
  <1>4. DetachedAuthentic'
    BY <1>1 DEF DetachedAuthentic
  <1>5. RefusedFor'
    BY <1>1 DEF RefusedFor, Modes
  <1> QED
    BY <1>2, <1>3, <1>4, <1>5

\* A signature that has been made is a packet's.
LEMMA FromPacket ==
    ASSUME NEW sig \in Signatures
    PROVE  \E i \in DOMAIN streams : \E n \in DOMAIN streams[i].out :
                sig = streams[i].out[n].sig
  BY DEF Signatures

LEMMA VerifyDetachedKeeps ==
    ASSUME TypeOK, Signed, DetachedRead, NEW sig \in Signatures,
           NEW text \in Texts, VerifyDetached(sig, text)
    PROVE  ReadFromOne' /\ DetachedRead' /\ DetachedAuthentic' /\ RefusedFor'
  <1> DEFINE verified == /\ header.sender \in known
                         /\ Verify(header.sender,
                                   DetachedSignatureInput(header, text), sig)
  <1>1. /\ mode = "detached" /\ header \in Header /\ header.type = "detached"
        /\ UNCHANGED <<streams, mode, header, accepts, known>>
        /\ presented' = <<[sig |-> sig, chunk |-> text, final |-> TRUE]>>
        /\ pc' = IF verified THEN "verified" ELSE "failed"
    BY DEF VerifyDetached, Reading, DetachedRead
  <1>2. /\ Len(presented') = 1 /\ presented' # << >>
        /\ presented'[1].chunk = text /\ presented'[1].sig = sig
        /\ Last(presented') = presented'[1]
    BY <1>1 DEF Last
  <1>3. ReadFromOne'
    BY <1>1 DEF ReadFromOne, AfterHeader
  <1>4. DetachedRead'
    BY <1>1 DEF DetachedRead
  <1>5. DetachedAuthentic'
    <2>1. CASE verified
      <3>1. PICK i \in DOMAIN streams : \E n \in DOMAIN streams[i].out :
                sig = streams[i].out[n].sig
        BY FromPacket
      <3>2. PICK n \in DOMAIN streams[i].out : sig = streams[i].out[n].sig
        BY <3>1
      <3>3. streams[i].header = header /\ streams[i].out[n].chunk = text
        BY <1>1, <2>1, <3>2, DetachedMatches
      <3> QED
        BY <1>1, <1>2, <2>1, <3>3 DEF DetachedAuthentic
    <2>2. CASE ~ verified
      BY <1>1, <2>2 DEF DetachedAuthentic
    <2> QED
      BY <2>1, <2>2
  <1>6. RefusedFor'
    BY <1>1, <1>2 DEF RefusedFor
  <1> QED
    BY <1>3, <1>4, <1>5, <1>6

LEMMA GetNextChunkKeeps ==
    ASSUME TypeOK, HeadersDistinct, Signed, ReadFromOne, NEW sig \in Signatures,
           NEW c \in Chunks, NEW f \in BOOLEAN, GetNextChunk(sig, c, f)
    PROVE  ReadFromOne' /\ DetachedRead' /\ DetachedAuthentic' /\ RefusedFor'
  <1> DEFINE final == IF header.version.major = 1 THEN c = << >> ELSE f
             p == [sig |-> sig, chunk |-> c, final |-> final]
             good == /\ Verify(header.sender,
                            AttachedSignatureInput(header, Len(presented), c, final),
                            sig)
                     /\ ChunkStateOK(header.version, c, Len(presented), final)
  <1>1. /\ pc = "reading" /\ UNCHANGED <<streams, mode, header, accepts, known>>
        /\ presented' = Append(presented, p)
        /\ IF good THEN /\ released' = Append(released, c)
                        /\ pc' = IF final THEN "trailer" ELSE "reading"
           ELSE pc' = "failed" /\ UNCHANGED released
    BY DEF GetNextChunk, SeqnoOfNext, Reading
  <1>2. /\ mode = "attached" /\ header \in Header /\ header.type = "attached"
        /\ header.sender \in known /\ Len(presented) = Len(released)
    BY <1>1 DEF ReadFromOne, AfterHeader
  <1>3. /\ c \in Seq(Nat) /\ final \in BOOLEAN
        /\ presented \in Seq(Packet) /\ p \in Packet
        /\ released \in Seq(Seq(Nat))
    <2>1. c \in Seq(Nat) /\ sig \in [by : Signers, input : SignatureInput]
      BY SignedAssumption, ArrivingType
    <2> QED
      BY <2>1, Typed DEF VerifierTypeOK, Packet
  <1>4. /\ Len(presented') = Len(presented) + 1 /\ presented' # << >>
        /\ Last(presented') = p
    <2> HIDE DEF p
    <2>1. presented' = Append(presented, p)
      BY <1>1
    <2> QED
      BY <1>3, <2>1, AppendType
  <1>5. DetachedRead' /\ DetachedAuthentic'
    BY <1>1 DEF DetachedRead, DetachedAuthentic
  <1>6. CASE good
    <2>1. PICK i \in DOMAIN streams : \E n \in DOMAIN streams[i].out :
                sig = streams[i].out[n].sig
      BY FromPacket
    <2>2. PICK n \in DOMAIN streams[i].out : sig = streams[i].out[n].sig
      BY <2>1
    <2>3. /\ streams[i].header = header /\ n = Len(presented) + 1
          /\ streams[i].out[n].chunk = c /\ streams[i].out[n].final = final
      <3>1. Len(presented) \in Nat
        BY <1>3
      <3> QED
        BY <1>2, <1>3, <1>6, <2>2, <3>1, AttachedMatches
    <2>4. released # << >> =>
            /\ Len(released) <= Len(streams[i].out)
            /\ \A m \in DOMAIN released : released[m] = streams[i].out[m].chunk
      <3>1. CASE released # << >>
        <4>1. PICK j \in DOMAIN streams :
                    /\ streams[j].header = header
                    /\ Wrote(streams[j], released, pc \in {"trailer", "eof"})
          BY <1>2, <3>1 DEF ReadFromOne
        <4>2. j = i
          BY <2>3, <4>1 DEF HeadersDistinct
        <4> QED
          BY <4>1, <4>2 DEF Wrote
      <3> QED
        BY <3>1
    <2>5. /\ released' = Append(released, c)
          /\ pc' = IF final THEN "trailer" ELSE "reading"
      BY <1>1, <1>6
    <2>6. Wrote(streams[i], released', pc' \in {"trailer", "eof"})
      <3>1. /\ Len(released') = Len(released) + 1
            /\ \A m \in DOMAIN released' :
                \/ m \in DOMAIN released /\ released'[m] = released[m]
                \/ m = n /\ released'[m] = c
            /\ Len(released') = n
        BY <1>2, <1>3, <2>3, <2>5
      <3>2. streams[i].out \in Seq(Packet)
        BY Typed
      <3>3. n <= Len(streams[i].out)
        BY <3>2
      <3>4. \A m \in DOMAIN released' : released'[m] = streams[i].out[m].chunk
        BY <2>3, <2>4, <3>1
      <3>5. pc' \in {"trailer", "eof"} => final
        BY <2>5
      <3> QED
        BY <2>3, <3>1, <3>3, <3>4, <3>5 DEF Wrote
    <2>7. ReadFromOne'
      <3>1. AfterHeader' /\ pc' # "failed"
        BY <2>5 DEF AfterHeader
      <3>2. Len(presented') = Len(released')
        BY <1>2, <1>3, <1>4, <2>5
      <3>3. streams' = streams /\ header' = header /\ mode' = mode /\ known' = known
        BY <1>1
      <3>4. \E k \in DOMAIN streams' :
                /\ streams'[k].header = header'
                /\ Wrote(streams'[k], released', pc' \in {"trailer", "eof"})
        BY <2>3, <2>6, <3>3
      <3> QED
        BY <1>2, <3>1, <3>2, <3>3, <3>4 DEF ReadFromOne, Wrote
    <2>8. RefusedFor'
      BY <2>5 DEF RefusedFor
    <2> QED
      BY <1>5, <2>7, <2>8
  <1>7. CASE ~ good
    <2>1. pc' = "failed" /\ released' = released
      BY <1>1, <1>7
    <2>2. ReadFromOne'
      BY <1>1, <1>2, <2>1 DEF ReadFromOne, AfterHeader, Wrote
    <2>3. RefusedFor'
      <3>1. Len(presented') - 1 = Len(presented)
        BY <1>3, <1>4
      <3> QED
        BY <1>1, <1>2, <1>4, <1>7, <2>1, <3>1 DEF RefusedFor
    <2> QED
      BY <1>5, <2>2, <2>3
  <1> QED
    BY <1>6, <1>7

LEMMA EndOfBlocksKeeps ==
    ASSUME TypeOK, ReadFromOne, DetachedRead, EndOfBlocks
    PROVE  ReadFromOne' /\ DetachedRead' /\ DetachedAuthentic' /\ RefusedFor'
  <1>1. /\ pc \in {"reading", "trailer"}
        /\ pc' \in {"eof", "trailing garbage", "unexpected eof", "panic"}
        /\ pc' = "eof" => pc = "trailer"
        /\ UNCHANGED <<streams, mode, header, accepts, known, presented, released>>
    BY DEF EndOfBlocks, Reading
  <1>2. ReadFromOne'
    BY <1>1 DEF ReadFromOne, AfterHeader, Wrote
  <1>3. DetachedRead' /\ DetachedAuthentic' /\ RefusedFor'
    BY <1>1 DEF DetachedRead, DetachedAuthentic, RefusedFor
  <1> QED
    BY <1>2, <1>3

-----------------------------------------------------------------------------
(* The invariant, and what follows.                                        *)

LEMMA Inductive ==
    ASSUME IInv, Next
    PROVE  IInv'
  <1>0. /\ TypeOK /\ HeadersDistinct /\ Signed /\ ReadFromOne /\ DetachedRead
        /\ DetachedAuthentic /\ RefusedFor
    BY DEF IInv
  <1>1. TypeOK' /\ HeadersDistinct' /\ Signed'
    BY <1>0, TypeStays, HeadersStayDistinct, SignedStays
  <1> DEFINE Held == ReadFromOne /\ DetachedRead /\ DetachedAuthentic /\ RefusedFor
  <1>3. ASSUME NEW h \in Headers, NEW a \in {h} \union AlteredHeaders(h),
               NEW m \in Modes, NEW v \in Validators,
               NEW keys \in {Signers, Signers \ {a.sender}},
               OpenHeader(a, m, v, keys)
        PROVE  Held'
    <2>1. a \in Header
      BY <1>0, ArrivingType
    <2> QED
      BY <1>0, <1>3, <2>1, OpenHeaderKeeps
  <1>4. ASSUME NEW sig \in Signatures, NEW text \in Texts,
               VerifyDetached(sig, text)
        PROVE  Held'
    BY <1>0, <1>4, VerifyDetachedKeeps
  <1>5. ASSUME NEW sig \in Signatures, NEW c \in Chunks, NEW f \in BOOLEAN,
               GetNextChunk(sig, c, f)
        PROVE  Held'
    BY <1>0, <1>5, GetNextChunkKeeps
  <1>6. Held'
    <2>1. CASE \E k \in Signers, v \in Versions, t \in Modes : NewSignStream(k, v, t)
      <3>1. UNCHANGED verifierVars
        BY <2>1 DEF NewSignStream
      <3> QED
        BY <1>0, <3>1, Growing, SignersGoOn
    <2>2. CASE \E i \in DOMAIN streams :
                \/ \E c \in Chunks, f \in BOOLEAN : SignBlock(i, c, f)
                \/ \E p \in Chunks : DetachedWrite(i, p)
                \/ DetachedClose(i)
      <3>1. UNCHANGED verifierVars
        BY <2>2 DEF SignBlock, DetachedWrite, DetachedClose, Writing
      <3> QED
        BY <1>0, <3>1, Growing, SignersGoOn
    <2>3. CASE EndOfBlocks
      BY <1>0, <2>3, EndOfBlocksKeeps
    <2> HIDE DEF Held
    <2>4. CASE \E h \in Headers : \E a \in {h} \union AlteredHeaders(h) :
                 \E m \in Modes, v \in Validators,
                    keys \in {Signers, Signers \ {a.sender}} :
                     OpenHeader(a, m, v, keys)
      <3>1. PICK h \in Headers :
                  \E a \in {h} \union AlteredHeaders(h) :
                    \E m \in Modes, v \in Validators,
                       keys \in {Signers, Signers \ {a.sender}} :
                        OpenHeader(a, m, v, keys)
        BY <2>4
      <3>2. PICK a \in {h} \union AlteredHeaders(h) :
                  \E m \in Modes, v \in Validators,
                     keys \in {Signers, Signers \ {a.sender}} :
                      OpenHeader(a, m, v, keys)
        BY <3>1
      <3>3. PICK m \in Modes, v \in Validators,
                    keys \in {Signers, Signers \ {a.sender}} :
                  OpenHeader(a, m, v, keys)
        BY <3>2
      <3> QED
        BY <1>3, <3>3
    <2>5. CASE \E sig \in Signatures :
              \/ \E text \in Texts : VerifyDetached(sig, text)
              \/ \E c \in Chunks, f \in BOOLEAN : GetNextChunk(sig, c, f)
      BY <1>4, <1>5, <2>5, Zenon
    <2> QED
      BY <2>1, <2>2, <2>3, <2>4, <2>5 DEF Next
  <1> QED
    BY <1>1, <1>6 DEF IInv

\* IInv is an invariant.
LEMMA Invariant == Spec => []IInv
  <1>1. Init => IInv
    <2>1. Init => TypeOK
      BY DEF Init, TypeOK, BlocksOK, VerifierTypeOK
    <2> QED
      BY <2>1 DEF Init, IInv, HeadersDistinct, Signed, ReadFromOne, AfterHeader,
                  DetachedRead, DetachedAuthentic, RefusedFor
  <1>2. ASSUME IInv, UNCHANGED vars
        PROVE  IInv'
    <2>1. /\ TypeOK /\ HeadersDistinct /\ Signed /\ ReadFromOne /\ DetachedRead
          /\ DetachedAuthentic /\ RefusedFor
      BY <1>2 DEF IInv
    <2>2. UNCHANGED streams /\ UNCHANGED verifierVars
      BY <1>2 DEF vars
    <2>3. TypeOK'
      BY <1>2, <2>1, TypeStays
    <2>4. HeadersDistinct' /\ Signed'
      BY <2>1, <2>2 DEF HeadersDistinct, Signed, InputOf
    <2>5. StreamsGrow /\ streams' \in Seq(Stream)
      BY <2>1, <2>2, Typed DEF StreamsGrow
    <2> QED
      BY <2>1, <2>2, <2>3, <2>4, <2>5, SignersGoOn DEF IInv
  <1>3. IInv /\ [Next]_vars => IInv'
    BY <1>2, Inductive
  <1> QED
    BY <1>1, <1>3, PTL DEF Spec

\* What VerifyDetachedReader accepts is the whole of a text that the signer it
\* names had written to the stream with that very header when it was closed,
\* for any number of signers, streams, texts and versions.
THEOREM DetachedIsAuthentic == Spec => []DetachedAuthentic
  <1>1. IInv => DetachedAuthentic
    BY DEF IInv
  <1> QED
    BY <1>1, Invariant, PTL

\* What a verifying stream gives out is the beginning of what one signer wrote
\* to one stream, and its end is reported only where that stream was closed.
THEOREM AttachedIsAuthentic == Spec => []AttachedAuthentic
  <1>1. IInv => AttachedAuthentic
    BY DEF IInv, ReadFromOne, Wrote, AttachedAuthentic
  <1> QED
    BY <1>1, Invariant, PTL

\* A verifier that accepts the version and knows the signer refuses nothing
\* that arrives as it was made: what was refused was not the stream's.
THEOREM NothingRefusedWrongly == Spec => []NoFalseAlarm
  <1>1. ASSUME IInv, pc = "failed", NEW i \in DOMAIN streams,
               header = streams[i].header, header.type = mode,
               header.version \in accepts, header.sender \in known
        PROVE  ~ IF mode = "attached" THEN IsPrefix(presented, streams[i].out)
                 ELSE presented # << >> /\ presented[1] \in Range(streams[i].out)
    <2>0. /\ TypeOK /\ Signed /\ RefusedFor
          /\ presented \in Seq(Packet) /\ streams[i].out \in Seq(Packet)
          /\ BlocksOK
      BY <1>1, Typed DEF IInv, VerifierTypeOK
    <2>1. presented # << >>
      BY <1>1, <2>0 DEF RefusedFor
    <2>2. CASE mode = "attached"
      <3> DEFINE n == Len(presented)
                 p == presented[n]
      <3>1. SUFFICES ASSUME IsPrefix(presented, streams[i].out)
                     PROVE  FALSE
        BY <2>2
      <3>2. n \in DOMAIN streams[i].out /\ p = streams[i].out[n]
        <4>1. n <= Len(streams[i].out) /\ n \in Nat \ {0}
          BY <2>0, <2>1, <3>1 DEF IsPrefix
        <4>2. SubSeq(presented, 1, n)[n] = SubSeq(streams[i].out, 1, n)[n]
          BY <3>1 DEF IsPrefix
        <4> QED
          BY <2>0, <4>1, <4>2
      <3>3. Verify(header.sender,
                   AttachedSignatureInput(header, n - 1, p.chunk, p.final), p.sig)
        BY <1>1, <2>0, <2>2, <3>2 DEF Signed, Verify, InputOf
      <3>4. ChunkStateOK(header.version, p.chunk, n - 1, p.final)
        BY <1>1, <2>0, <2>2, <3>2 DEF BlocksOK
      <3> QED
        BY <1>1, <2>0, <2>1, <2>2, <3>3, <3>4 DEF RefusedFor, Last
    <2>3. CASE mode # "attached"
      <3>1. SUFFICES ASSUME presented[1] \in Range(streams[i].out)
                     PROVE  FALSE
        BY <2>3
      <3>2. PICK n \in DOMAIN streams[i].out : presented[1] = streams[i].out[n]
        BY <3>1 DEF Range
      <3>3. Verify(header.sender,
                   DetachedSignatureInput(header, presented[1].chunk),
                   presented[1].sig)
        BY <1>1, <2>0, <2>3, <3>2 DEF Signed, Verify, InputOf
      <3> QED
        BY <1>1, <2>0, <2>1, <2>3, <3>3 DEF RefusedFor
    <2> QED
      BY <2>2, <2>3
  <1>2. IInv => NoFalseAlarm
    BY <1>1 DEF NoFalseAlarm
  <1> QED
    BY <1>2, Invariant, PTL
=============================================================================
