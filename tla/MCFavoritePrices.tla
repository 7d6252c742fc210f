-------------------------- MODULE MCFavoritePrices --------------------------
(* FavoritePrices for TLC: the first station does not sell every fuel.      *)
EXTENDS FavoritePrices, TLC

CONSTANTS s1, s2, s3, f1, f2

MCSells == [s \in Stations |-> IF s = s1 THEN Fuels \ {f2} ELSE Fuels]
=============================================================================
