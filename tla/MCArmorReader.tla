---------------------------- MODULE MCArmorReader ----------------------------
(* ArmorReader on short texts: bytes of two bits, an alphabet of three      *)
(* digits, blocks of two bytes or three digits.                             *)
EXTENDS ArmorReader

MCHeader == <<1>>
MCFooter == <<2>>

\* Every way to put a text together from these pieces.
Bodies == { << >>, <<Skip>>, <<1, 0>>, <<2, 1, Skip>>, <<0, Skip, 2, 1, 1, 2>>,
            <<1>>, <<1, Bad>>, <<2, 1, 0>>, <<1, 0, 2, 0, 1, 2>> }
Tails == { << >>, <<Punct, 2>>, <<Punct, 2, Punct>>, <<Punct, Skip, 2, Punct, Skip>>,
           <<Punct, 1, Punct>>, <<Punct, 2, Punct, Bad>>, <<Punct, 2, Punct, Punct>> }

MCTexts ==
    { <<1, Punct>> \o b \o t : b \in Bodies, t \in Tails }
        \union { ArmorSeal(bytes) : bytes \in {<< >>, <<3>>, <<0, 1, 2>>} }
        \union { << >>, <<1>>, <<2, Punct, 1, Punct, 1, 0, Punct, 2, Punct>>,
                 <<1, 1, 1, 1, 1, Punct, 1, 0, Punct, 2, Punct>> }
=============================================================================
