----------------------------- MODULE OpenStream -----------------------------
(***************************************************************************)
(* The three receiving streams: decryptStream (decrypt.go), verifyStream   *)
(* (verify_stream.go) and signcryptOpenStream (signcrypt_open.go), after   *)
(* their header has been read, under the chunkReader (chunk_reader.go)     *)
(* that turns their chunks into an io.Reader.                              *)
(*                                                                         *)
(* A caller's Read is one action that starts the call and one action per   *)
(* iteration of its loop; a loop that needs a packet waits for the wire.   *)
(***************************************************************************)
EXTENDS Wire

CONSTANT ReadSizes          \* the lengths of the buffers passed to Read

ASSUME ReadSizesAssumption == ReadSizes \subseteq Nat

VARIABLES openPc,       \* what the caller's Read is doing
          room,         \* bytes of its buffer not yet filled
          seqno,        \* msgpackStream.seqno: objects decoded so far
          prevChunk,    \* chunkReader.prevChunk
          prevErr,      \* chunkReader.prevErr
          out,          \* history: every byte copied to the caller
          verdict       \* history: the last error a Read returned

openVars == <<openPc, room, seqno, prevChunk, prevErr, out, verdict>>

\* nil, io.EOF, io.ErrUnexpectedEOF, a decoder error, ErrBadTag /
\* ErrBadSignature / ErrBadCiphertext, ErrUnexpectedEmptyBlock,
\* ErrPacketOverflow, ErrTrailingGarbage.
Error == {"UnexpectedEOF", "Decode", "BadBlock", "EmptyBlock", "Overflow",
          "TrailingGarbage"}
Result == {"nil", "EOF"} \union Error

OpenTypeOK ==
    /\ openPc \in {"idle", "reading", "ending", "panicked"}
    /\ room \in Nat
    /\ seqno \in Nat \ {0}
    /\ prevChunk \in Seq(Byte)
    /\ prevErr \in Result
    /\ out \in Seq(Byte)
    /\ verdict \in Result

\* The header was the first object decoded.
OpenInit ==
    /\ openPc = "idle"
    /\ room = 0
    /\ seqno = 1
    /\ prevChunk = << >>
    /\ prevErr = "nil"
    /\ out = << >>
    /\ verdict = "nil"

-----------------------------------------------------------------------------
\* chunkReader.Read.

ReadCall(n) ==
    /\ openPc = "idle"
    /\ openPc' = "reading"
    /\ room' = n
    /\ UNCHANGED <<seqno, prevChunk, prevErr, out, verdict, wireVars>>

\* Copy what fits; return when the buffer is full and the chunk is not empty.
CopyLen == IF Len(prevChunk) < room THEN Len(prevChunk) ELSE room

CopyOut ==
    /\ openPc = "reading"
    /\ prevChunk # << >>
    /\ out' = out \o SubSeq(prevChunk, 1, CopyLen)
    /\ prevChunk' = SubSeq(prevChunk, CopyLen + 1, Len(prevChunk))
    /\ room' = room - CopyLen
    /\ openPc' = IF prevChunk' # << >> THEN "idle" ELSE "reading"
    /\ UNCHANGED <<seqno, prevErr, verdict, wireVars>>

\* Mutant of ReturnError: the error is not kept.
ReturnErrorOnce ==
    /\ openPc = "reading"
    /\ prevChunk = << >>
    /\ prevErr # "nil"
    /\ verdict' = prevErr
    /\ openPc' = "idle"
    /\ prevErr' = "nil"
    /\ UNCHANGED <<room, seqno, prevChunk, out, wireVars>>

\* Mutant of ReturnError: a full buffer hides the error.
ReturnErrorIfRoom ==
    /\ openPc = "reading" /\ room > 0
    /\ prevChunk = << >>
    /\ prevErr # "nil"
    /\ verdict' = prevErr
    /\ openPc' = "idle"
    /\ UNCHANGED <<room, seqno, prevChunk, prevErr, out, wireVars>>

\* The chunk is drained: return the error that came with it.
ReturnError ==
    /\ openPc = "reading"
    /\ prevChunk = << >>
    /\ prevErr # "nil"
    /\ verdict' = prevErr
    /\ openPc' = "idle"
    /\ UNCHANGED <<room, seqno, prevChunk, prevErr, out, wireVars>>

\* Mutant of NeedsChunk: an error does not stop the loop.
NeedsChunkAfterError == openPc = "reading" /\ prevChunk = << >>

\* The loop needs another chunk: it calls getNextChunk.
NeedsChunk ==
    /\ openPc = "reading"
    /\ prevChunk = << >>
    /\ prevErr = "nil"

-----------------------------------------------------------------------------
\* getNextChunk.

\* It returns an error and no chunk.
ChunkError(e) ==
    /\ prevErr' = e
    /\ UNCHANGED <<openPc, room, prevChunk, out, verdict>>

\* Mutant of PrematureEOF: io.EOF is passed on.
EndOfInput == "EOF"

\* The decoder meets the end of the input: io.EOF becomes ErrUnexpectedEOF.
PrematureEOF == "UnexpectedEOF"

FetchEOF ==
    /\ NeedsChunk
    /\ wire = << >> /\ eof
    /\ ChunkError(PrematureEOF)
    /\ UNCHANGED <<seqno, wireVars>>

Receive ==
    /\ wire # << >>
    /\ wire' = Tail(wire)
    /\ UNCHANGED <<kind, eof, faults>>

\* The decoder cannot decode the next object; mps.seqno stays.
FetchUndecodable ==
    /\ NeedsChunk
    /\ Receive
    /\ ~Head(wire).whole
    /\ \E e \in {"Decode", PrematureEOF} : ChunkError(e)
    /\ UNCHANGED seqno

\* mps.Read decodes the next object, and advances seqno whatever follows.
Decoded ==
    /\ NeedsChunk
    /\ Receive
    /\ Head(wire).whole
    /\ seqno' = seqno + 1

\* processBlock numbers blocks from 0: the header was object 0.
BlockNumber == seqno - 1

\* Mutant of BlockAuthentic: any block of this message will do.
AnyOwnBlock(p) == p.auth.hdr = "own" /\ p.auth.chunk = p.chunk

\* processBlock returns nil error: what the packet covers is what this block
\* of this message has to cover.
BlockAuthentic(p) ==
    p.auth = BlockBinding(kind, "own", BlockNumber, p.chunk,
                          PacketIsFinal(kind, p))

FetchRefused ==
    /\ Decoded
    /\ \/ Overflows(kind, BlockNumber) /\ ChunkError("Overflow")
       \/ /\ ~Overflows(kind, BlockNumber)
          /\ ~BlockAuthentic(Head(wire))
          /\ ChunkError("BadBlock")

\* Mutant of DecodedChunkStateOK: the header is taken for a block.
ChunkStateFromSeqno(p) ==
    ~BadChunkState(kind.version, Len(p.chunk), seqno, PacketIsFinal(kind, p))

\* checkDecodedChunkState.
DecodedChunkStateOK(p) ==
    ~BadChunkState(kind.version, Len(p.chunk), BlockNumber,
                   PacketIsFinal(kind, p))

Accepted ==
    /\ Decoded
    /\ ~Overflows(kind, BlockNumber)
    /\ BlockAuthentic(Head(wire))

FetchEmptyBlock ==
    /\ Accepted
    /\ ~DecodedChunkStateOK(Head(wire))
    /\ ChunkError("EmptyBlock")

\* A good chunk.  The final one is returned with assertEndOfStream's error;
\* Read panics on an empty one that comes without an error.
FetchChunk ==
    /\ Accepted
    /\ DecodedChunkStateOK(Head(wire))
    /\ prevChunk' = Head(wire).chunk
    /\ openPc' = IF PacketIsFinal(kind, Head(wire)) THEN "ending"
                 ELSE IF prevChunk' # << >> THEN "reading" ELSE "panicked"
    /\ UNCHANGED <<room, prevErr, out, verdict>>

-----------------------------------------------------------------------------
\* assertEndOfStream: one more mps.Read after the final packet.

EndOfStream ==
    /\ openPc = "ending"
    /\ wire = << >> /\ eof
    /\ prevErr' = "EOF"
    /\ openPc' = "reading"
    /\ UNCHANGED <<room, seqno, prevChunk, out, verdict, wireVars>>

\* Another object follows.  A torn one yields the decoder's error, which may
\* be io.EOF.
TrailingObject ==
    /\ openPc = "ending"
    /\ Receive
    /\ \/ /\ Head(wire).whole
          /\ prevErr' = "TrailingGarbage"
          /\ seqno' = seqno + 1
       \/ /\ ~Head(wire).whole
          /\ prevErr' \in {"Decode", "UnexpectedEOF", "EOF"}
          /\ UNCHANGED seqno
    /\ openPc' = "reading"
    /\ UNCHANGED <<room, prevChunk, out, verdict>>

-----------------------------------------------------------------------------

ReadStep == CopyOut \/ ReturnError \/ FetchEOF \/ FetchUndecodable
                \/ FetchRefused \/ FetchEmptyBlock \/ FetchChunk
                \/ EndOfStream \/ TrailingObject

OpenNext == (\E n \in ReadSizes : ReadCall(n)) \/ ReadStep
=============================================================================
