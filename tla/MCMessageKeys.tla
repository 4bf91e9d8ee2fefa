---------------------------- MODULE MCMessageKeys ----------------------------
(* MessageKeys with three box keys and a symmetric key under two names.  No   *)
(* definition tells the box keys apart, nor the names.                        *)
EXTENDS MessageKeys

Symmetry == Permutations(Keys) \union Permutations(Identifiers)
=============================================================================
