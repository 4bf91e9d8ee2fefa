-------------------------- MODULE SaltpackTransfer --------------------------
(***************************************************************************)
(* A sending stream, a wire that may lose, repeat, reorder, splice, cut or *)
(* damage packets, and a receiving stream, all running at once.            *)
(***************************************************************************)
EXTENDS SealStream, OpenStream

vars == <<sealVars, openVars, wireVars>>

TypeOK == WireTypeOK /\ SealTypeOK /\ OpenTypeOK

Init == WireInit /\ SealInit /\ OpenInit

Next ==
    \/ SealNext /\ UNCHANGED openVars
    \/ OpenNext /\ UNCHANGED sealVars
    \/ WireFault /\ UNCHANGED <<sealVars, openVars>>

Spec == Init /\ [][Next]_vars

-----------------------------------------------------------------------------
(* Fairness.  A call that has begun goes on: nothing in it blocks but the  *)
(* io.Writer and io.Reader.  A caller closes its stream and its output,    *)
(* and goes on reading until Read returns an error, as seal, sign,         *)
(* SigncryptSeal and io.ReadAll do in every function of the repository     *)
(* that takes a whole message.  None of them repeats a Close that failed;  *)
(* strong fairness says that a caller does not do so for ever.             *)

SealFairness ==
    /\ WF_vars(SealBlock /\ UNCHANGED openVars)
    /\ WF_vars(closes = 0 /\ ~failed /\ CloseCall /\ UNCHANGED openVars)
    /\ SF_vars(EndOfOutput /\ UNCHANGED openVars)

OpenFairness ==
    /\ WF_vars(ReadStep /\ UNCHANGED sealVars)
    /\ WF_vars((\E n \in ReadSizes \ {0} : ReadCall(n)) /\ UNCHANGED sealVars)

FairSpec == Spec /\ SealFairness /\ OpenFairness

-----------------------------------------------------------------------------

\* What the receiver has taken from the wire as good plaintext.
Received == out \o prevChunk

\* The blocks that end a message.
FinalBlocks == { b \in sealed : PacketIsFinal(kind, b.packet) }

-----------------------------------------------------------------------------
(* The inductive invariant.                                                *)

\* A block is bound to its number and to this message, and its chunk extends
\* each of the texts that the blocks before it make up.
SealedInOrder ==
    /\ TextsUpTo(numBlocks) # {}
    /\ \A b \in sealed :
          /\ b.num <= numBlocks
          /\ b.packet.auth = BlockBinding(kind, "own", b.num, b.packet.chunk,
                                          PacketIsFinal(kind, b.packet))
          /\ \E t \in TextsUpTo(b.num) : b.upto = t \o b.packet.chunk
          /\ \A t \in TextsUpTo(b.num) :
                [b EXCEPT !.upto = t \o b.packet.chunk] \in sealed

\* Nothing accepted by Write is lost or doubled inside the sender: until a
\* call fails, the sealed plaintext and the buffer make up what was written.
\* A failing call may leave its packet on the wire.
NothingLost ==
    /\ ~failed /\ sealPc # "panicked" =>
          \A t \in TextsUpTo(numBlocks) : t \o buffer = written
    /\ ~retried => \A t \in Texts : IsPrefix(t, written)

\* The number of a block whose call failed is free to be used again.
NumbersLeft ==
    /\ retried => failed
    /\ failed /\ ~retried => sealPc = "idle"
    /\ ~failed => \A b \in sealed : b.num < numBlocks

\* Until the caller goes on after an error or a Close, a final block ends all
\* of the text.
OneFinalBlock ==
    ~reused =>
        /\ closes > 0 => sealPc = "idle"
        /\ ~retried => \A b \in FinalBlocks :
                b.upto = written /\ (closes = 1 \/ failed)

\* What the buffer holds while the caller makes no mistake.
BufferInv ==
    ~failed /\ ~reused =>
        /\ sealPc # "panicked"
        /\ sealPc = "idle" =>
              /\ Len(buffer) <= BlockSize
              /\ closes = 0 => numBlocks = 0 \/ buffer # << >>
        /\ sealPc = "writing" => Len(buffer) > BlockSize
        /\ sealPc = "flushing" =>
              kind.version = 1 /\ Len(buffer) \in 1 .. BlockSize
        /\ sealPc = "closing" =>
              /\ Len(buffer) <= BlockSize
              /\ IF kind.version = 1 THEN buffer = << >>
                 ELSE numBlocks = 0 \/ buffer # << >>

\* Nobody but the sender can bind a packet to this message.
GenuinePacket ==
    { p \in Packet : p.whole /\ p.auth.hdr = "own" =>
        \E b \in sealed : p.auth = b.packet.auth }

WireGenuine == wire \in Seq(GenuinePacket)

\* The receiver holds a text that the blocks it has counted make up.
ReceivedInOrder ==
    /\ prevErr = "nil" => Received \in TextsUpTo(seqno - 1)
    /\ openPc # "panicked"
    /\ openPc = "ending" =>
          /\ prevErr = "nil"
          /\ \E b \in FinalBlocks : b.num = seqno - 2 /\ b.upto = Received
    /\ Received \in Texts
    /\ prevErr = "EOF" => \E b \in FinalBlocks : b.upto = Received

\* An error is reported when everything before it has been given out.
VerdictDrained == verdict # "nil" => verdict = prevErr /\ prevChunk = << >>

\* No two packets with one number, and so with one nonce, are written for a
\* caller that stops at the first error: encryptBlock, signBlock and
\* signcryptBlock count a block only after Encode, which may fail with all of
\* the packet written.
NumberUsedOnce ==
    ~retried => \A b, c \in sealed : b.num = c.num => b = c

IInv ==
    /\ TypeOK
    /\ SealedInOrder /\ NothingLost /\ NumbersLeft /\ NumberUsedOnce
    /\ OneFinalBlock /\ BufferInv
    /\ WireGenuine
    /\ ReceivedInOrder /\ VerdictDrained

-----------------------------------------------------------------------------
(* Properties; NumberUsedOnce is one, too.                                 *)

\* However packets are lost, repeated, reordered, spliced or damaged, and
\* whichever calls fail, what the caller of Read has been given is, block by
\* block, what was sealed in that place, without a gap, a repetition or a
\* foreign byte (getNextChunk and chunkReader.Read against encryptBlock,
\* signBlock and signcryptBlock).  If the sender's caller stops at the first
\* error, it is a prefix of what was passed to Write; if it goes on after an
\* Encode that failed with its packet written, another block gets the same
\* number, and the reader may be given either.
OutputIsPrefix ==
    /\ \E t \in Texts : IsPrefix(out, t)
    /\ ~retried => IsPrefix(out, written)

\* A Read returns io.EOF only after all the plaintext up to a final block has
\* been given out, and a final block is sealed by Close alone: a cut stream,
\* or a rewritten final flag, is never taken for a complete message.
CleanEOF == verdict = "EOF" => \E b \in FinalBlocks : out = b.upto

\* If the sender's caller stops at the first error and at Close, a receiver
\* that meets io.EOF has exactly the bytes passed to Write, and Close has
\* returned nil, or an error with all of the message written.
CompleteMessage ==
    verdict = "EOF" /\ ~retried /\ ~reused =>
        out = written /\ (closes = 1 \/ failed)

\* The sanity checks of the three senders (checkEncryptBlockRead,
\* checkSignBlockRead, assertEncodedChunkState and the buffer checks of
\* Close) never fire for a caller that stops at the first error and at Close,
\* and chunkReader.Read never meets an empty chunk without an error.
NoPanic ==
    /\ sealPc = "panicked" => failed \/ reused
    /\ openPc # "panicked"

\* Without damage on the way the receiver never refuses a packet: every block
\* the sender encodes is one that checkDecodedChunkState lets through.
NoFalseAlarm ==
    faults = 0 /\ ~reused => prevErr \in {"nil", "EOF", "UnexpectedEOF"}

\* Once a Read has returned an error, io.EOF included, no later Read returns
\* another one or another byte: chunkReader keeps prevErr, and getNextChunk is
\* not called again, even though the packets behind the bad one may be good.
VerdictIsFinal == [][verdict # "nil" => UNCHANGED <<verdict, out>>]_vars

\* The sender's plaintext reaches the receiver whole if there is no fault.
Delivered ==
    <>[](\/ faults > 0 \/ failed \/ reused
         \/ verdict = "EOF" /\ out = written)

\* Whatever the faults, a receiver that keeps reading gets an answer.
Answered == <>(verdict # "nil")

-----------------------------------------------------------------------------
(* What a comment or an error text of the code claims, and the code does   *)
(* not do.                                                                 *)

\* "ErrPacketOverflow indicates that more than (2^64-2) packets were found in
\* an encryption stream" (errors.go:25).  encryptionBlockNumber.check lets one
\* more through.
DocumentedPacketLimit == kind.mode # "sign" => numBlocks <= MaxBlockNumber - 1

\* "assertEncodedChunkState sanity-checks some encoded chunk parameters"
\* (common.go:259): no packet is written that checkChunkState refuses.
\* signcryptBlock leaves the 64 bytes of the signature out of the overhead, so
\* the assertion cannot see that the chunk is empty.
AssertedChunkState ==
    \A b \in sealed :
        ~BadChunkState(kind.version, Len(b.packet.chunk), b.num,
                       PacketIsFinal(kind, b.packet))

-----------------------------------------------------------------------------

Delivery == INSTANCE MessageDelivery WITH
    given    <- written,
    careful  <- ~retried,
    sent     <- Texts,
    finished <- { b.upto : b \in FinalBlocks },
    got      <- out,
    verdict  <- IF verdict = "nil" THEN "open"
                ELSE IF verdict = "EOF" THEN "EOF" ELSE "error"

\* The streams implement MessageDelivery.
Refinement == Delivery!Spec
=============================================================================
