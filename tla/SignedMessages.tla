---------------------------- MODULE SignedMessages ----------------------------
(***************************************************************************)
(* Signed messages: signAttachedStream and signDetachedStream              *)
(* (sign_stream.go), their header (packets.go), what is signed (common.go),*)
(* and the two verifiers (verify.go, verify_stream.go).  Signers make any  *)
(* number of messages of both kinds; a verifier is given headers,          *)
(* signatures and chunks of any of them, mixed up on the way.              *)
(*                                                                         *)
(* Cryptography is symbolic: a signature is what was signed and by whom, a *)
(* hash is what it was computed from.  How text is cut into chunks, and    *)
(* failing signers and writers, are in SealStream.                         *)
(***************************************************************************)
EXTENDS Naturals, SequencesExt

CONSTANTS Signers,      \* signing keys
          Versions,     \* versions given to the constructors
          Validators,   \* the sets of versions that VersionValidators accept
          Chunks,       \* what is signed at a time: sequences of bytes
          MaxStreams, MaxBlocks, MaxText    \* bounds

ASSUME SignedAssumption ==
    /\ Versions \subseteq [major : Nat, minor : Nat]
    /\ Validators \subseteq SUBSET Versions
    /\ Chunks \subseteq Seq(Nat)
    /\ MaxStreams \in Nat /\ MaxBlocks \in Nat /\ MaxText \in Nat

VARIABLES streams,      \* the streams of the signers, oldest first
          mode,         \* the kind of message the verifier was asked for
          header,       \* the header it has read
          accepts,      \* the versions its validator accepts
          known,        \* the signers in its keyring
          presented,    \* the packets it has read, the last one refused perhaps
          released,     \* the chunks it has given out
          pc            \* "idle", "signature", "reading", "trailer" or a result

verifierVars == <<mode, header, accepts, known, presented, released, pc>>
vars == <<streams, verifierVars>>

Modes == {"attached", "detached"}
Version1 == [major |-> 1, minor |-> 0]
Version2 == [major |-> 2, minor |-> 0]
KnownVersions == {Version1, Version2}

Header == [format : {"saltpack", "other"}, version : Versions, type : Modes,
           sender : Signers, nonce : Nat]
NoHeader == [type |-> "none"]

-----------------------------------------------------------------------------
\* What is signed.

\* Mutant of AttachedSignatureInput: the header is not covered.
InputWithoutHeader(h, seqno, chunk, final) ==
    [string |-> "attached signature", seqno |-> seqno, rest |-> chunk]

\* The strings end with a zero byte, hash and number have a fixed length;
\* only the final byte of version 2 and the chunk run into each other.
AttachedSignatureInput(h, seqno, chunk, final) ==
    [string |-> "attached signature", hash |-> h, seqno |-> seqno,
     rest |-> IF h.version.major = 1 THEN chunk
              ELSE <<IF final THEN 1 ELSE 0>> \o chunk]

\* Mutant of DetachedSignatureInput: the header is not covered.
TextOnlyInput(h, text) == [string |-> "detached signature", rest |-> text]

DetachedSignatureInput(h, text) ==
    [string |-> "detached signature", hash |-> h, rest |-> text]

SignatureInput ==
    [string : {"attached signature"}, hash : Header, seqno : Nat, rest : Seq(Nat)]
        \union [string : {"detached signature"}, hash : Header, rest : Seq(Nat)]

Sign(key, input) == [by |-> key, input |-> input]
Verify(key, input, sig) == sig = Sign(key, input)

\* A block, or a detached signature with the text it was made for.
Packet == [sig : [by : Signers, input : SignatureInput],
           chunk : Seq(Nat), final : BOOLEAN]

Stream == [header : Header, hashed : Seq(Nat), out : Seq(Packet)]

-----------------------------------------------------------------------------
\* The signers.

\* Mutant of NewSigNonce: every header of a signer is the same.
ConstantNonce == 1

\* newSigNonce: random, never the same twice.
NewSigNonce == Len(streams) + 1

NewSignatureHeader(version, sender, type) ==
    [format |-> "saltpack", version |-> version, type |-> type,
     sender |-> sender, nonce |-> NewSigNonce]

\* newSignAttachedStream and newSignDetachedStream: any version will do.
\* hashed is what the hasher of a detached stream has got after the header.
NewSignStream(signer, version, type) ==
    /\ Len(streams) < MaxStreams
    /\ streams' = Append(streams,
            [header |-> NewSignatureHeader(version, signer, type),
             hashed |-> << >>, out |-> << >>])
    /\ UNCHANGED verifierVars

Writing(i, type) ==
    /\ streams[i].header.type = type
    /\ UNCHANGED verifierVars

\* checkChunkState
ChunkStateOK(version, chunk, seqno, final) ==
    IF version.major = 1 THEN final <=> chunk = << >>
    ELSE chunk = << >> => seqno = 0 /\ final

\* Mutant of AssertEncodedChunkState: nothing is asserted.
AssertNothing(version, chunk, seqno, final) == TRUE

\* checkSignBlockRead and assertEncodedChunkState panic otherwise.
AssertEncodedChunkState(version, chunk, seqno, final) ==
    ChunkStateOK(version, chunk, seqno, final)

\* A block of Write or, the final ones, of Close, which may be called again.
\* With a version other than 1.0 and 2.0 signBlock panics, and writes nothing.
SignBlock(i, chunk, final) ==
    LET s == streams[i]
    IN  /\ Writing(i, "attached") /\ Len(s.out) < MaxBlocks
        /\ s.header.version \in KnownVersions
        /\ AssertEncodedChunkState(s.header.version, chunk, Len(s.out), final)
        /\ streams' = [streams EXCEPT ![i].out = Append(@,
                [sig   |-> Sign(s.header.sender,
                             AttachedSignatureInput(s.header, Len(s.out), chunk, final)),
                 chunk |-> chunk, final |-> final])]

DetachedWrite(i, p) ==
    /\ Writing(i, "detached") /\ Len(streams[i].hashed \o p) <= MaxText
    /\ streams' = [streams EXCEPT ![i].hashed = @ \o p]

\* Close signs what has been hashed so far.  A second Close signs again, and
\* what was written in between as well.
DetachedClose(i) ==
    LET s == streams[i]
    IN  /\ Writing(i, "detached") /\ Len(s.out) < MaxBlocks
        /\ streams' = [streams EXCEPT ![i].out = Append(@,
                [sig   |-> Sign(s.header.sender,
                             DetachedSignatureInput(s.header, s.hashed)),
                 chunk |-> s.hashed, final |-> TRUE])]

-----------------------------------------------------------------------------
\* The way.  Signatures are those that were made; all else may be anything.

Headers == { streams[i].header : i \in DOMAIN streams }

AlteredHeaders(h) ==
    { [h EXCEPT !.format = "other"] }
        \union { [h EXCEPT !.version = v] : v \in Versions }
        \union { [h EXCEPT !.type = t] : t \in Modes }
        \union { [h EXCEPT !.sender = k] : k \in Signers }
        \union { [h EXCEPT !.nonce = 0] }

Signatures ==
    UNION { { streams[i].out[n].sig : n \in DOMAIN streams[i].out } :
                i \in DOMAIN streams }

Texts == Chunks \union { streams[i].hashed : i \in DOMAIN streams }

-----------------------------------------------------------------------------
\* The verifier.

\* newVerifyStream and validate; NewVerifyStream then looks the signer up,
\* VerifyDetachedReader only when it has read the signature.  The name of the
\* format is not looked at.
OpenHeader(h, m, validator, keys) ==
    /\ pc = "idle"
    /\ header' = h /\ mode' = m /\ accepts' = validator /\ known' = keys
    /\ pc' = IF h.version \notin validator \/ h.type # m THEN "failed"
             ELSE IF m = "detached" THEN "signature"
             ELSE IF h.sender \in keys THEN "reading" ELSE "failed"
    /\ UNCHANGED <<streams, presented, released>>

Reading == UNCHANGED <<streams, mode, header, accepts, known>>

\* VerifyDetachedReader: the first signature counts, what follows is not read.
VerifyDetached(sig, text) ==
    /\ pc = "signature"
    /\ presented' = <<[sig |-> sig, chunk |-> text, final |-> TRUE]>>
    /\ IF header.sender \in known
          /\ Verify(header.sender, DetachedSignatureInput(header, text), sig)
       THEN pc' = "verified" /\ released' = <<text>>
       ELSE pc' = "failed" /\ UNCHANGED released
    /\ Reading

\* Mutant of SeqnoOfNext: the header is counted as a block.
SeqnoWithHeader == Len(presented) + 1

\* The reader of objects counts the header, processBlock does not.
SeqnoOfNext == Len(presented)

\* getNextChunk.  Version 1 blocks have no final flag of their own.
GetNextChunk(sig, chunk, flag) ==
    LET final == IF header.version.major = 1 THEN chunk = << >> ELSE flag
        input == AttachedSignatureInput(header, SeqnoOfNext, chunk, final)
    IN  /\ pc = "reading" /\ header.version.major \in {1, 2}
        /\ Len(presented) <= MaxBlocks
        /\ presented' = Append(presented,
                            [sig |-> sig, chunk |-> chunk, final |-> final])
        /\ IF /\ Verify(header.sender, input, sig)
              /\ ChunkStateOK(header.version, chunk, SeqnoOfNext, final)
           THEN /\ released' = Append(released, chunk)
                /\ pc' = IF final THEN "trailer" ELSE "reading"
           ELSE pc' = "failed" /\ UNCHANGED released
        /\ Reading

\* assertEndOfStream, or the end of the stream before a final block, or a
\* block of a version that readSignatureBlock panics on.
EndOfBlocks ==
    /\ \/ pc = "trailer" /\ pc' \in {"eof", "trailing garbage"}
       \/ pc = "reading" /\ pc' = "unexpected eof"
       \/ pc = "reading" /\ header.version.major \notin {1, 2} /\ pc' = "panic"
    /\ UNCHANGED <<presented, released>> /\ Reading

-----------------------------------------------------------------------------

Init ==
    /\ streams = << >>
    /\ mode = "none" /\ header = NoHeader /\ accepts = {} /\ known = {}
    /\ presented = << >> /\ released = << >> /\ pc = "idle"

Next ==
    \/ \E k \in Signers, v \in Versions, t \in Modes : NewSignStream(k, v, t)
    \/ \E i \in DOMAIN streams :
        \/ \E c \in Chunks, f \in BOOLEAN : SignBlock(i, c, f)
        \/ \E p \in Chunks : DetachedWrite(i, p)
        \/ DetachedClose(i)
    \/ \E h \in Headers : \E a \in {h} \union AlteredHeaders(h) :
        \E m \in Modes, v \in Validators, keys \in {Signers, Signers \ {a.sender}} :
            OpenHeader(a, m, v, keys)
    \/ \E sig \in Signatures :
        \/ \E text \in Texts : VerifyDetached(sig, text)
        \/ \E c \in Chunks, f \in BOOLEAN : GetNextChunk(sig, c, f)
    \/ EndOfBlocks

Spec == Init /\ [][Next]_vars

-----------------------------------------------------------------------------
(* Properties.                                                             *)

BlocksOK ==
    \A i \in DOMAIN streams : \A n \in DOMAIN streams[i].out :
        streams[i].header.type = "attached" =>
            ChunkStateOK(streams[i].header.version, streams[i].out[n].chunk,
                         n - 1, streams[i].out[n].final)

VerifierTypeOK ==
    /\ header \in Header \union {NoHeader} /\ mode \in Modes \union {"none"}
    /\ accepts \subseteq Versions /\ known \subseteq Signers
    /\ presented \in Seq(Packet)
    /\ released \in Seq(Seq(Nat))
    /\ pc \in {"idle", "signature", "reading", "trailer", "verified", "failed",
               "eof", "trailing garbage", "unexpected eof", "panic"}

TypeOK == streams \in Seq(Stream) /\ BlocksOK /\ VerifierTypeOK

\* A detached signature is accepted for a text only if the signer named by the
\* header, in the very stream with that header, had written that text, all of
\* it and no more, when it called Close: signatures of other messages, other
\* kinds, other signers and altered headers all fail.
DetachedAuthentic ==
    pc = "verified" =>
        /\ header.sender \in known
        /\ \E i \in DOMAIN streams :
            /\ streams[i].header = header /\ header.type = "detached"
            /\ \E n \in DOMAIN streams[i].out :
                streams[i].out[n].chunk = Last(presented).chunk

\* The chunks given out are the first ones of one stream of that signer, in
\* order, and the end is reported where that stream was closed.
AttachedAuthentic ==
    mode = "attached" /\ released # << >> =>
        /\ header.sender \in known
        /\ \E i \in DOMAIN streams :
            /\ streams[i].header = header
            /\ Len(released) <= Len(streams[i].out)
            /\ \A n \in DOMAIN released : released[n] = streams[i].out[n].chunk
            /\ pc \in {"trailer", "eof"} => streams[i].out[Len(released)].final

\* Nothing is refused that arrives as a signer made it, if the verifier accepts
\* the version and knows the signer, whatever other streams the signer has.
NoFalseAlarm ==
    pc = "failed" =>
        ~ \E i \in DOMAIN streams :
            /\ header = streams[i].header /\ header.type = mode
            /\ header.version \in accepts /\ header.sender \in known
            /\ IF mode = "attached" THEN IsPrefix(presented, streams[i].out)
               ELSE presented # << >> /\ presented[1] \in Range(streams[i].out)
=============================================================================
