------------------------------ MODULE MCNearby ------------------------------
(* Nearby for TLC: two towns and a city that is none of them. *)
EXTENDS Nearby

CONSTANTS t1, t2, x
=============================================================================
