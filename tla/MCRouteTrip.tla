---------------------------- MODULE MCRouteTrip ----------------------------
(* RouteTrip for TLC: two places. *)
EXTENDS RouteTrip

CONSTANTS p1, p2
=============================================================================
