---------------------------- MODULE ArmoredStream ----------------------------
(***************************************************************************)
(* A message stream on an armor stream, and the closeForwarder that closes *)
(* both (armor62_encrypt.go, armor62_sign.go, armor62_signcrypt.go).       *)
(*                                                                         *)
(* The message stream is here the packets it writes: a header when it is   *)
(* made, blocks in a Write or a Close, and a final block, or a detached    *)
(* signature, at the end of Close.  A packet reaches the armor in pieces.  *)
(***************************************************************************)
EXTENDS ArmorWriter

CONSTANTS HeaderPackets,    \* the encoded packets of the message stream
          BlockPackets,
          FinalPackets,
          MaxPackets,       \* bound on the packets of a stream
          MaxCalls          \* bound on the calls of Write and Close

ASSUME ArmoredAssumption ==
    /\ HeaderPackets \union BlockPackets \union FinalPackets
            \subseteq Seq(0 .. ByteBase - 1) \ {<< >>}
    /\ MaxPackets \in Nat /\ MaxCalls \in Nat

VARIABLES call,         \* "create", "write", "close", "idle" or "gone"
          toClose,      \* the writers that Close has to close still
          packet,       \* what the armor has not got yet of the last packet
          sent,         \* history: the packets, [bytes, last]
          inArmor,      \* the armor has been called
          outcome,      \* history: "none", "ok", "err" or "closed"
          calls,
          misused       \* history: a call came after an error or after Close

streamVars == <<call, toClose, packet, sent, inArmor, outcome, calls, misused>>
vars == <<armorVars, streamVars>>

Packet == [bytes : HeaderPackets \union BlockPackets \union FinalPackets,
           last : BOOLEAN]

TypeOK ==
    /\ ArmorTypeOK
    /\ call \in {"create", "write", "close", "idle", "gone"}
    /\ toClose \in {<< >>, <<"armor">>, <<"message", "armor">>,
                    <<"last packet", "armor">>}
    /\ toClose # << >> => call = "close"
    /\ packet \in Seq(0 .. ByteBase - 1) /\ sent \in Seq(Packet)
    /\ inArmor \in BOOLEAN /\ (pc # "idle" => inArmor)
    /\ outcome \in {"none", "ok", "err", "closed"}
    /\ calls \in 0 .. MaxCalls /\ misused \in BOOLEAN

\* The armor is made first, its header frame comes before the header packet.
Init ==
    /\ ArmorInit
    /\ \E h \in HeaderPackets :
        packet = h /\ sent = <<[bytes |-> h, last |-> FALSE]>>
    /\ call = "create" /\ toClose = << >> /\ inArmor = FALSE
    /\ outcome = "none" /\ calls = 0 /\ misused = FALSE

-----------------------------------------------------------------------------

\* Mutant of CloseForwarder: the armor is closed first.
ArmorFirst == <<"armor", "message">>

CloseForwarder == <<"message", "armor">>

StreamCall ==
    /\ call = "idle" /\ calls < MaxCalls /\ calls' = calls + 1
    /\ misused' = (misused \/ outcome # "ok")
    /\ UNCHANGED <<packet, sent, inArmor, outcome, armorVars>>

StartWrite == StreamCall /\ call' = "write" /\ UNCHANGED toClose

StartClose == StreamCall /\ call' = "close" /\ toClose' = CloseForwarder

Closing(w) == call = "close" /\ toClose # << >> /\ Head(toClose) = w

\* Nothing is under way in the armor, nor a packet on its way there.
BetweenPackets == ~inArmor /\ packet = << >>

\* The message stream encodes a block, or the final packet.
Encodes(bytes, last) ==
    /\ BetweenPackets /\ Len(sent) < MaxPackets
    /\ packet' = bytes /\ sent' = Append(sent, [bytes |-> bytes, last |-> last])
    /\ UNCHANGED <<call, inArmor, outcome, calls, misused, armorVars>>

SealBlock ==
    /\ call = "write" \/ Closing("message")
    /\ \E b \in BlockPackets : Encodes(b, FALSE)
    /\ UNCHANGED toClose

SealFinal ==
    /\ Closing("message")
    /\ \E b \in FinalPackets : Encodes(b, TRUE)
    /\ toClose' = <<"last packet">> \o Tail(toClose)

\* The encoder of packets writes the next piece, nothing perhaps.
PassOn ==
    /\ ~inArmor /\ inArmor' = TRUE
    /\ packet # << >>
    /\ \E n \in 0 .. Len(packet) :
        WriteCall(First(packet, n)) /\ packet' = Without(packet, n)
    /\ UNCHANGED <<call, toClose, sent, outcome, calls, misused>>

CloseArmor ==
    /\ Closing("armor") /\ BetweenPackets /\ inArmor' = TRUE
    /\ CloseCall
    /\ UNCHANGED <<call, toClose, packet, sent, outcome, calls, misused>>

\* Mutant of AfterError: the others are closed all the same.
GoOnClosing == IF toClose = << >> THEN << >> ELSE Tail(toClose)

\* closeForwarder returns the first error.
AfterError == << >>

\* A constructor that fails returns no stream.
Fails ==
    /\ packet' = << >> /\ outcome' = "err" /\ toClose' = AfterError
    /\ call' = IF call = "create" THEN "gone"
               ELSE IF toClose' # << >> THEN "close" ELSE "idle"
    /\ UNCHANGED <<sent, calls, misused>>

\* The message stream fails by itself: its signing key, its block number.
MessageFails ==
    /\ call = "write" \/ Closing("message")
    /\ BetweenPackets /\ failures < MaxFailures /\ failures' = failures + 1
    /\ Fails
    /\ UNCHANGED <<inArmor, written, waiting, digits, text, pc, result, closed,
                   resumed>>

ArmorStep == ArmorGoesOn /\ UNCHANGED streamVars

ArmorReturns ==
    /\ inArmor /\ inArmor' = FALSE /\ pc = "idle"
    /\ IF result = "err" THEN Fails
       ELSE /\ toClose' = IF Closing("armor") THEN Tail(toClose) ELSE toClose
            /\ UNCHANGED <<call, packet, sent, outcome, calls, misused>>
    /\ UNCHANGED armorVars

\* The message stream's Close returns nil: the armor is next.
MessageClosed ==
    /\ Closing("last packet") /\ BetweenPackets
    /\ toClose' = Tail(toClose)
    /\ UNCHANGED <<call, packet, sent, inArmor, outcome, calls, misused,
                   armorVars>>

\* A call returns nil.
Returns ==
    /\ BetweenPackets
    /\ \/ call \in {"create", "write"}
       \/ call = "close" /\ toClose = << >>
    /\ call' = "idle"
    /\ outcome' = IF call = "close" THEN "closed" ELSE "ok"
    /\ UNCHANGED <<toClose, packet, sent, inArmor, calls, misused, armorVars>>

Next ==
    \/ StartWrite \/ StartClose
    \/ SealBlock \/ SealFinal \/ MessageFails \/ MessageClosed
    \/ PassOn \/ CloseArmor \/ ArmorStep \/ ArmorReturns
    \/ Returns

Spec == Init /\ [][Next]_vars

-----------------------------------------------------------------------------
(* Properties.                                                             *)

BytesOf(packets) ==
    FlattenSeq([i \in DOMAIN packets |-> packets[i].bytes])

\* A header, blocks, and one final packet, the last.
IsMessage(packets) ==
    /\ Len(packets) >= 2
    /\ \A i \in DOMAIN packets : packets[i].last <=> i = Len(packets)

\* A stream that a caller has used by the rules and that Close returned nil for
\* has left a good armored text, the one that armoring all its packets at once
\* gives, up to the final one, however they came to the armor.
StreamComplete ==
    outcome = "closed" /\ call = "idle" /\ ~misused =>
        /\ IsMessage(sent)
        /\ GoodMessage(text) /\ text = ArmorSeal(BytesOf(sent))

\* A text that has all of its frame holds a whole message, also when a call has
\* failed, Close included: a reader finds no message without its end in there.
CompleteWhenFramed ==
    GoodMessage(text) /\ ~misused =>
        /\ IsMessage(sent) /\ packet = << >>
        /\ Decode(DigitsIn(BodyOf(text))).bytes = BytesOf(sent)
=============================================================================
