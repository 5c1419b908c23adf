------------------------- MODULE MCDecodeRetraction -------------------------
(* Small instances of DecodeRetraction.                                    *)
EXTENDS DecodeRetraction, TLC

CONSTANTS k1, k2

MCRanks == {k1, k2}

\* Uneven pools: the roomy rank could run a decode step the tight one cannot.
MCUneven == k1 :> 11 @@ k2 :> 9

\* With pages of two: short prompts, so that a victim may end inside a page.
MCUnevenPaged == k1 :> 14 @@ k2 :> 12

MCOriginPaged == <<1, 1, 1, 2>>

MCOne == {k1}

MCOrigin == <<3, 2, 2, 1>>
=============================================================================
