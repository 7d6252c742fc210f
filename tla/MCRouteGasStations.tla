------------------------- MODULE MCRouteGasStations -------------------------
(* RouteGasStations for TLC: a route in Spain and one that crosses the border.  *)
(* t2 and t3 share a name; t3 is far away from both routes but for one station. *)
EXTENDS RouteGasStations

CONSTANTS inside, abroad, pa, pb, sea, out, n1, n2, t1, t2, t3, s1, s2, s3, s4, s5

MCKeyPoints == inside :> <<pa, sea, pb>> @@ abroad :> <<pa, out, pb>>
MCLocality == pa :> n1 @@ pb :> n2 @@ sea :> None @@ out :> n2
MCName == t1 :> n1 @@ t2 :> n2 @@ t3 :> n2
MCOnSale == t1 :> <<s1, s2>> @@ t2 :> <<s3, s4>> @@ t3 :> <<s5>>
MCPrice == s1 :> 4 @@ s2 :> 3 @@ s3 :> 2 @@ s4 :> 1 @@ s5 :> 2
MCNear == inside :> {s1, s2, s3, s5} @@ abroad :> {s1, s4}
=============================================================================
