-------------------------------- MODULE Wire --------------------------------
(***************************************************************************)
(* What lies between the io.Writer a sending stream encodes to and the     *)
(* io.Reader a receiving stream decodes from: a pipe, a file, a network.   *)
(* saltpack leaves it to the caller, and the tests of the repository drop, *)
(* repeat, swap, splice, truncate and damage packets on it (for example    *)
(* TestEncryptSubsequenceV1/V2 in encrypt_test.go and the "Swapping" tests *)
(* of signcrypt_test.go); the fault actions below are those.               *)
(***************************************************************************)
EXTENDS ChunkFormat, SequencesExt

CONSTANTS MaxFaults,        \* bound on the faults of one behaviour
          OtherChunks       \* chunks that foreign or damaged packets hold

ASSUME MaxFaultsAssumption == MaxFaults \in Nat
ASSUME OtherChunksAssumption == OtherChunks \subseteq Chunk

VARIABLES kind,     \* the stream's mode and version, fixed by the header
          wire,     \* packets written and not yet read, oldest first
          eof,      \* the writing end is closed: a reader meets io.EOF
          faults    \* faults so far, of the wire and of the encoder

wireVars == <<kind, wire, eof, faults>>

WireTypeOK ==
    /\ kind \in Kind
    /\ wire \in Seq(Packet)
    /\ eof \in BOOLEAN
    /\ faults \in Nat

WireInit ==
    /\ kind \in Kind
    /\ wire = << >>
    /\ eof = FALSE
    /\ faults = 0

-----------------------------------------------------------------------------

\* A packet of a message with another header (another session, another key).
ForeignPacket ==
    { MakePacket(kind, "other", n, c, f) :
        n \in 0 .. MaxBlockNumber - 1, c \in OtherChunks, f \in BOOLEAN }

Fault ==
    /\ faults < MaxFaults
    /\ faults' = faults + 1
    /\ UNCHANGED kind

Drop ==
    /\ Fault
    /\ \E i \in 1 .. Len(wire) : wire' = RemoveAt(wire, i)
    /\ UNCHANGED eof

Duplicate ==
    /\ Fault
    /\ \E i \in 1 .. Len(wire) : wire' = InsertAt(wire, i, wire[i])
    /\ UNCHANGED eof

Swap ==
    /\ Fault
    /\ \E i \in 1 .. Len(wire) - 1 :
            wire' = [wire EXCEPT ![i] = wire[i+1], ![i+1] = wire[i]]
    /\ UNCHANGED eof

Splice ==
    /\ Fault
    /\ \E i \in 1 .. Len(wire) + 1, p \in ForeignPacket :
            wire' = InsertAt(wire, i, p)
    /\ UNCHANGED eof

\* The final flag of a version 2 packet is rewritten.
FlipFlag ==
    /\ kind.version = 2
    /\ Fault
    /\ \E i \in 1 .. Len(wire) : wire' = [wire EXCEPT ![i].flag = ~@]
    /\ UNCHANGED eof

\* The payload, or the tag that covers it, is altered.
Damage ==
    /\ Fault
    /\ \E i \in 1 .. Len(wire) :
          \/ \E c \in OtherChunks : wire' = [wire EXCEPT ![i].chunk = c]
          \/ wire' = [wire EXCEPT ![i].auth.hdr = "damaged"]
    /\ UNCHANGED eof

\* The byte stream ends early: after some packet, or inside one.
Truncate ==
    /\ ~eof
    /\ Fault
    /\ \E k \in 0 .. Len(wire) :
          \/ wire' = SubSeq(wire, 1, k)
          \/ /\ k > 0
             /\ wire' = [SubSeq(wire, 1, k) EXCEPT ![k].whole = FALSE]
    /\ eof' = TRUE

WireFault ==
    Drop \/ Duplicate \/ Swap \/ Splice \/ FlipFlag \/ Damage \/ Truncate
=============================================================================
