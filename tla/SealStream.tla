----------------------------- MODULE SealStream -----------------------------
(***************************************************************************)
(* The three sending streams: encryptStream (encrypt.go),                  *)
(* signAttachedStream (sign_stream.go) and signcryptSealStream             *)
(* (signcrypt_seal.go), after their header has been written.               *)
(*                                                                         *)
(* A caller's Write or Close is one action that starts the call, then one  *)
(* action per block the call seals: the blocks reach the wire one by one   *)
(* while a receiver may already be reading.  The caller may call again     *)
(* after an error and after Close, which the code permits.                 *)
(***************************************************************************)
EXTENDS Wire

CONSTANTS Payload,          \* the byte strings a caller passes to Write
          MaxWritten,       \* bound on the bytes a caller writes
          MaxCloses         \* bound on the calls of Close that return nil

ASSUME PayloadAssumption == Payload \subseteq Seq(Byte)
ASSUME MaxWrittenAssumption == MaxWritten \in Nat
ASSUME MaxClosesAssumption == MaxCloses \in Nat

VARIABLES buffer,       \* es.buffer: accepted, not yet sealed
          numBlocks,    \* es.numBlocks / s.seqno: number of the next block
          err,          \* es.err is set (Write of encrypt and signcrypt only)
          sealPc,       \* what the caller's call is doing
          written,      \* history: every byte passed to Write
          sealed,       \* history: the packets written whole, each with its
                        \*   number and a text that may end with it
          failed,       \* history: some call has returned an error
          retried,      \* history: a call was made after such a call
          closes,       \* history: how many Closes have returned nil
          reused        \* history: a call was made after such a Close

sealVars == <<buffer, numBlocks, err, sealPc, written, sealed,
              failed, retried, closes, reused>>

SealedBlock == [num : Nat, packet : Packet, upto : Seq(Byte)]

SealTypeOK ==
    /\ buffer \in Seq(Byte)
    /\ numBlocks \in Nat
    /\ err \in BOOLEAN
    /\ sealPc \in {"idle", "writing", "flushing", "closing", "panicked"}
    /\ written \in Seq(Byte)
    /\ sealed \subseteq SealedBlock
    /\ failed \in BOOLEAN
    /\ retried \in BOOLEAN
    /\ closes \in Nat
    /\ reused \in BOOLEAN

SealInit ==
    /\ buffer = << >>
    /\ numBlocks = 0
    /\ err = FALSE
    /\ sealPc = "idle"
    /\ written = << >>
    /\ sealed = {}
    /\ failed = FALSE
    /\ retried = FALSE
    /\ closes = 0
    /\ reused = FALSE

\* The texts that the first n blocks may make up.  There is one, unless a
\* caller has gone on after a call that failed with its packet written, and so
\* has sealed another block with the same number.
TextsUpTo(n) == IF n = 0 THEN {<< >>}
                ELSE { b.upto : b \in { c \in sealed : c.num = n - 1 } }

\* All of the texts that packets written so far may make up.
Texts == {<< >>} \union { b.upto : b \in sealed }

-----------------------------------------------------------------------------
\* The beginning of a call.

\* Mutant of HoldsMoreThanABlock: a full block is sealed at once.
HoldsAFullBlock(b) == Len(b) >= BlockSize

\* Write seals a block only when more than a full one is buffered, because in
\* version 2 the last block has to be the final one.
HoldsMoreThanABlock(b) == Len(b) > BlockSize

\* Write of encryptStream and signcryptSealStream returns a sticky error at
\* once; that of signAttachedStream does not keep one.
WriteCall(p) ==
    /\ sealPc = "idle"
    /\ ~err
    /\ Len(written) + Len(p) <= MaxWritten
    /\ buffer' = buffer \o p
    /\ written' = written \o p
    /\ sealPc' = IF HoldsMoreThanABlock(buffer') THEN "writing" ELSE "idle"
    /\ retried' = (retried \/ failed)
    /\ reused' = (reused \/ closes > 0)
    /\ UNCHANGED <<numBlocks, err, sealed, failed, closes, wireVars>>

\* Close looks at the buffer only, never at err.
CloseCall ==
    /\ sealPc = "idle"
    /\ closes < MaxCloses
    /\ sealPc' = IF kind.version = 1 /\ buffer # << >>
                 THEN "flushing" ELSE "closing"
    /\ retried' = (retried \/ failed)
    /\ reused' = (reused \/ closes > 0)
    /\ UNCHANGED <<buffer, numBlocks, err, written, sealed, failed, closes,
                   wireVars>>

-----------------------------------------------------------------------------
\* One block: encryptBlock, signBlock, signcryptBlock.

Sealing == sealPc \in {"writing", "flushing", "closing"}

IsFinal == sealPc = "closing"

\* buffer.Next(BlockSize), and what it leaves in the buffer.
NextLen == IF Len(buffer) < BlockSize THEN Len(buffer) ELSE BlockSize
NextChunk == SubSeq(buffer, 1, NextLen)

\* Mutant of Rest: a byte falls between two chunks.
RestLosingAByte == SubSeq(buffer, NextLen + 2, Len(buffer))

Rest == SubSeq(buffer, NextLen + 1, Len(buffer))

\* checkEncryptBlockRead and checkSignBlockRead pass.
CheckBlockRead ==
    /\ NextLen <= BlockSize
    /\ NextLen < BlockSize => Rest = << >>
    /\ IF kind.version = 1
       THEN IsFinal <=> (NextChunk = << >>)
       ELSE IsFinal => Rest = << >>

\* signcryptBlock makes its own, smaller check.
SigncryptBlockRead == IsFinal => Rest = << >>

BlockReadOK ==
    IF kind.mode = "signcrypt" THEN SigncryptBlockRead ELSE CheckBlockRead

\* assertEncodedChunkState passes.
EncodedChunkStateOK ==
    ~BadChunkState(kind.version, AssertedLength(kind.mode, NextLen),
                   numBlocks, IsFinal)

Panic ==
    /\ sealPc' = "panicked"
    /\ UNCHANGED <<written, sealed, failed, retried, closes, reused, numBlocks,
                   err, wireVars>>

\* One of the sanity checks fails after buffer.Next.
BlockPanics ==
    /\ Sealing
    /\ \/ ~BlockReadOK
       \/ ~Overflows(kind, numBlocks) /\ ~EncodedChunkStateOK
    /\ buffer' = Rest
    /\ Panic

\* An error return.  The chunk is already out of the buffer and numBlocks
\* does not advance; Write of the two encrypting streams keeps the error.
BlockError ==
    /\ Sealing
    /\ BlockReadOK
    /\ buffer' = Rest
    /\ err' = (err \/ (sealPc = "writing" /\ kind.mode # "sign"))
    /\ failed' = TRUE
    /\ sealPc' = "idle"
    /\ UNCHANGED <<numBlocks, written, retried, closes, reused>>

BlockOverflows ==
    /\ BlockError
    /\ Overflows(kind, numBlocks)
    /\ UNCHANGED <<sealed, wireVars>>

\* The caller's signing key returns an error.
SignFails ==
    /\ kind.mode # "encrypt"
    /\ ~Overflows(kind, numBlocks)
    /\ BlockError
    /\ faults < MaxFaults
    /\ faults' = faults + 1
    /\ UNCHANGED <<sealed, kind, wire, eof>>

\* The packet sealed for the next chunk.
NextPacket == MakePacket(kind, "own", numBlocks, NextChunk, IsFinal)

\* Encode writes all of the packet.  It may follow every text that the blocks
\* before it make up.
PacketWritten ==
    /\ wire' = Append(wire, NextPacket)
    /\ sealed' = sealed \union
            { [num |-> numBlocks, packet |-> NextPacket,
               upto |-> t \o NextChunk] : t \in TextsUpTo(numBlocks) }

\* Encode fails: nothing, a piece of the packet or all of it has been written,
\* for an io.Writer may take every byte and return an error all the same, as
\* armorEncoderStream.Write does when a word cannot be passed on.
EncodeFails ==
    /\ ~Overflows(kind, numBlocks)
    /\ EncodedChunkStateOK
    /\ BlockError
    /\ \/ eof /\ UNCHANGED <<wire, sealed, faults>>
       \/ /\ ~eof
          /\ faults < MaxFaults
          /\ faults' = faults + 1
          /\ \/ UNCHANGED <<wire, sealed>>
             \/ /\ wire' = Append(wire, [NextPacket EXCEPT !.whole = FALSE])
                /\ UNCHANGED sealed
             \/ PacketWritten
    /\ UNCHANGED <<kind, eof>>

\* Mutant of AfterBlock: Write seals at most one block per call.
OneBlockPerWrite ==
    CASE sealPc = "flushing" -> IF Len(Rest) > 0 THEN "panicked" ELSE "closing"
      [] OTHER               -> "idle"

\* Mutant of AfterBlock: Close of version 1 ends without the empty block.
FlushEndsClose ==
    IF sealPc = "writing" /\ HoldsMoreThanABlock(Rest) THEN "writing" ELSE "idle"

\* What the calling loop does after a block: Write goes on while more than a
\* full block is buffered, Close of version 1 flushes at most one block.
AfterBlock ==
    CASE sealPc = "writing"  -> IF HoldsMoreThanABlock(Rest)
                                THEN "writing" ELSE "idle"
      [] sealPc = "flushing" -> IF Len(Rest) > 0 THEN "panicked"
                                ELSE "closing"
      [] OTHER               -> "idle"

\* Mutant of NextNumber: the number does not advance.
SameNumber == numBlocks

NextNumber == numBlocks + 1

\* Encode succeeds.
BlockSealed ==
    /\ Sealing
    /\ BlockReadOK
    /\ ~Overflows(kind, numBlocks)
    /\ EncodedChunkStateOK
    /\ ~eof
    /\ buffer' = Rest
    /\ PacketWritten
    /\ numBlocks' = NextNumber
    /\ sealPc' = AfterBlock
    /\ closes' = closes + (IF IsFinal THEN 1 ELSE 0)
    /\ UNCHANGED <<err, written, failed, retried, reused, kind, eof, faults>>

\* The owner of the output closes it once the stream is finished with.
EndOfOutput ==
    /\ ~eof
    /\ \/ sealPc = "idle" /\ (closes > 0 \/ failed)
       \/ sealPc = "panicked"
    /\ eof' = TRUE
    /\ UNCHANGED <<sealVars, kind, wire, faults>>

-----------------------------------------------------------------------------

SealBlock == BlockPanics \/ BlockOverflows \/ SignFails \/ EncodeFails
                \/ BlockSealed

SealNext == (\E p \in Payload : WriteCall(p)) \/ CloseCall \/ SealBlock
                \/ EndOfOutput
=============================================================================
