----------------------------- MODULE ChunkFormat -----------------------------
(***************************************************************************)
(* The payload packets shared by the three saltpack streams: what a packet *)
(* holds, what its authenticator or signature covers, and the rules that   *)
(* say which chunks a stream may contain (common.go, nonce.go,             *)
(* packets.go).                                                            *)
(*                                                                         *)
(* Cryptography is symbolic.  A MAC, a signature or an AEAD box is the     *)
(* record of everything it covers; checking it is comparing that record    *)
(* with the one the receiver computes.  Bytes are members of Byte.         *)
(***************************************************************************)
EXTENDS Naturals, Sequences

CONSTANTS Byte,             \* the values of a plaintext byte
          BlockSize,        \* encryptionBlockSize = signatureBlockSize (1 MiB)
          MaxBlockNumber    \* 2^64-1, the first block number that is refused

ASSUME BlockSizeAssumption == BlockSize \in Nat \ {0}
ASSUME MaxBlockNumberAssumption == MaxBlockNumber \in Nat \ {0}

-----------------------------------------------------------------------------

\* The five streams a caller can open: a mode and a major version.
\* Signcryption exists in version 2 only.
Kind == [mode : {"encrypt", "sign"}, version : {1, 2}]
            \union {[mode |-> "signcrypt", version |-> 2]}

\* Header hashes: that of the message in transfer, that of any other message,
\* and what is left of a tag whose bits were damaged.
Header == {"own", "other", "damaged"}

Chunk == Seq(Byte)

-----------------------------------------------------------------------------
\* What authenticators and signatures cover.

Nonce == [num : Nat, fin : SUBSET BOOLEAN]

\* Mutant of NonceForChunkSecretBox: every block has the same nonce.
ConstantNonce(n) == [num |-> 0, fin |-> {}]

NonceForChunkSecretBox(n) == [num |-> n, fin |-> {}]

NonceForChunkSigncryption(isFinal, n) == [num |-> n, fin |-> {isFinal}]

\* Mutant of CoveredFlag: version 2 does not cover the final flag either.
FlagNotCovered(version, isFinal) == {}

\* Version 1 hashes no final flag.
CoveredFlag(version, isFinal) == IF version = 1 THEN {} ELSE {isFinal}

Binding == [hdr : Header, nonce : Nonce, fin : SUBSET BOOLEAN, chunk : Chunk]

\* Mutant of ComputePayloadHash: the header hash is left out.
PayloadHashWithoutHeader(version, hdr, n, chunk, isFinal) ==
    [hdr |-> "own", nonce |-> NonceForChunkSecretBox(n),
     fin |-> CoveredFlag(version, isFinal), chunk |-> chunk]

ComputePayloadHash(version, hdr, n, chunk, isFinal) ==
    [hdr |-> hdr, nonce |-> NonceForChunkSecretBox(n),
     fin |-> CoveredFlag(version, isFinal), chunk |-> chunk]

AttachedSignatureInput(version, hdr, chunk, seqno, isFinal) ==
    [hdr |-> hdr, nonce |-> [num |-> seqno, fin |-> {}],
     fin |-> CoveredFlag(version, isFinal), chunk |-> chunk]

ComputeSigncryptionSignatureInput(hdr, n, isFinal, chunk) ==
    [hdr |-> hdr, nonce |-> NonceForChunkSigncryption(isFinal, n),
     fin |-> {isFinal}, chunk |-> chunk]

\* The record that block number n of a stream of the given kind binds.
BlockBinding(kind, hdr, n, chunk, isFinal) ==
    CASE kind.mode = "encrypt" ->
            ComputePayloadHash(kind.version, hdr, n, chunk, isFinal)
      [] kind.mode = "sign" ->
            AttachedSignatureInput(kind.version, hdr, chunk, n, isFinal)
      [] OTHER ->
            ComputeSigncryptionSignatureInput(hdr, n, isFinal, chunk)

-----------------------------------------------------------------------------
\* Packets on the wire.

\* whole = FALSE is a packet of which only some bytes were written.
\* flag is the final flag of a version 2 packet; version 1 has no such field.
Packet == [chunk : Chunk, flag : BOOLEAN, auth : Binding, whole : BOOLEAN]

MakePacket(kind, hdr, n, chunk, isFinal) ==
    [chunk |-> chunk,
     flag  |-> kind.version = 2 /\ isFinal,
     auth  |-> BlockBinding(kind, hdr, n, chunk, isFinal),
     whole |-> TRUE]

\* Version 1 derives the flag: an empty chunk ends the message.
PacketIsFinal(kind, p) ==
    IF kind.version = 1 THEN p.chunk = << >> ELSE p.flag

-----------------------------------------------------------------------------
\* Rules on chunks.

\* encryptionBlockNumber.check: TRUE when ErrPacketOverflow is returned.
\* Signing has no such check.
Overflows(kind, n) == kind.mode # "sign" /\ n >= MaxBlockNumber

\* checkChunkState returned an error, or panicked (version 1).
BadChunkState(version, len, n, isFinal) ==
    IF version = 1
    THEN (len = 0) # isFinal
    ELSE len = 0 /\ (n # 0 \/ ~isFinal)

\* The 64-byte signature is inside the box that signcryptBlock measures but
\* is not part of the overhead it subtracts.
SignatureSize == 64

\* The length assertEncodedChunkState measures for a chunk of len bytes.
AssertedLength(mode, len) ==
    IF mode = "signcrypt" THEN len + SignatureSize ELSE len
=============================================================================
