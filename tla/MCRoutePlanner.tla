-------------------------- MODULE MCRoutePlanner --------------------------
(* RoutePlanner for TLC: two places. *)
EXTENDS RoutePlanner

CONSTANTS p1, p2
=============================================================================
