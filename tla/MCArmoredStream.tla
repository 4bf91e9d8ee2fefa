--------------------------- MODULE MCArmoredStream ---------------------------
(* ArmoredStream with bytes of two bits, an alphabet of three digits, blocks  *)
(* of two bytes or three digits, and words of two or three digits.            *)
EXTENDS ArmoredStream

MCHeader == <<1>>
MCFooter == <<2>>

\* Packets that fill part of a block of the armor, one, and one and a half.
MCHeaderPackets == { <<0, 3>> }
MCBlockPackets == { <<1>>, <<1, 0, 2>> }
MCFinalPackets == { <<2>>, <<3, 0>> }
=============================================================================
