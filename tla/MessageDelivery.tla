--------------------------- MODULE MessageDelivery ---------------------------
(***************************************************************************)
(* What a saltpack message promises its receiver, whatever happens to the  *)
(* packets: the plaintext delivered is at all times a prefix of a text     *)
(* that the sender has let out, in order and without gaps, and a clean end *)
(* of file is reported only for a text that the sender finished.           *)
(*                                                                         *)
(* As long as the sender's caller is careful, which is to stop at the      *)
(* first error, the texts let out are prefixes of the one that it was      *)
(* given.  After that they may branch.                                     *)
(***************************************************************************)
EXTENDS SequencesExt

CONSTANT Byte

VARIABLES given,        \* the plaintext the sender was given
          careful,      \* its caller has not gone on after an error
          sent,         \* the texts let out so far
          finished,     \* those that the sender has declared complete
          got,          \* plaintext delivered
          verdict       \* "open", "EOF" or "error"

vars == <<given, careful, sent, finished, got, verdict>>

Init ==
    /\ given = << >>
    /\ careful = TRUE
    /\ sent = {<< >>}
    /\ finished = {}
    /\ got = << >>
    /\ verdict = "open"

\* The sender's caller makes a call, with more plaintext or with none.
Call ==
    /\ given' \in Seq(Byte)
    /\ IsPrefix(given, given')
    /\ careful' \in BOOLEAN
    /\ careful' => careful
    /\ UNCHANGED <<sent, finished, got, verdict>>

\* More texts are let out, each of which goes on from an earlier one, and some
\* may be declared complete; by a careful caller, only all that it gave.
Send ==
    /\ sent \subseteq sent'
    /\ \A t \in sent' : t \in Seq(Byte) /\ \E s \in sent : IsPrefix(s, t)
    /\ finished \subseteq finished'
    /\ finished' \subseteq finished \union sent'
    /\ careful => /\ \A t \in sent' : IsPrefix(t, given)
                  /\ finished' \subseteq finished \union {given}
    /\ UNCHANGED <<given, careful, got, verdict>>

Deliver ==
    /\ verdict = "open"
    /\ IsPrefix(got, got')
    /\ \E t \in sent : IsPrefix(got', t)
    /\ UNCHANGED <<given, careful, sent, finished, verdict>>

Accept ==
    /\ verdict = "open"
    /\ got \in finished
    /\ verdict' = "EOF"
    /\ UNCHANGED <<given, careful, sent, finished, got>>

Reject ==
    /\ verdict = "open"
    /\ verdict' = "error"
    /\ UNCHANGED <<given, careful, sent, finished, got>>

Next == Call \/ Send \/ Deliver \/ Accept \/ Reject

Spec == Init /\ [][Next]_vars
=============================================================================
