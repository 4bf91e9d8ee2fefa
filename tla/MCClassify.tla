------------------------------ MODULE MCClassify ------------------------------
(* Classify with brands that are ordinary, the word "BEGIN", the format name, *)
(* a word that begins like one of a frame, and one that is too long.  A frame *)
(* has 35 bytes, and 36 more than its brand if it has one: a gap makes it too *)
(* long if there is a brand.                                                  *)
EXTENDS Classify

MCBrands == { << >>, <<"BR">>, <<"BE", "GIN">>, <<"SALT", "PACK">>, <<"ENCR">>,
              <<"BR", "BR", "BR">> }

MCGaps == { [i \in 1 .. 9 |-> Space] }

MCStrays == {Space, Dot, "-", "BE", "PACK", "SIGN", "d"}
=============================================================================
