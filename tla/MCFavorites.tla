---------------------------- MODULE MCFavorites ----------------------------
(* Favorites for TLC: a record of three fields stands for the five.         *)
EXTENDS Favorites

CONSTANTS d1, d2, g1, g2

MCFields == <<"nombre", "direccion", "latitud">>
=============================================================================
