--------------------------- MODULE MCSignedMessages ---------------------------
(* SignedMessages with bytes that are 0 and 1, as the final byte of version 2 *)
(* is, so that what is signed in one version could be mistaken for the other. *)
EXTENDS SignedMessages, TLC

MCVersions == { [major |-> 1, minor |-> 0], [major |-> 2, minor |-> 0],
                [major |-> 3, minor |-> 0] }

\* CheckKnownMajorVersion, and SingleVersionValidator for version 3.
MCValidators == { { v \in MCVersions : v.major \in {1, 2} },
                  { v \in MCVersions : v.major = 3 } }

MCChunks == { << >>, <<1>> }

\* The verifier starts when the signers have finished.  No step of theirs looks
\* at the verifier, and what a step of its needs stays: a behaviour in another
\* order has one in this order with the same steps.
SignersFirst == pc # "idle" => UNCHANGED streams

Symmetry == Permutations(Signers)
=============================================================================
