----------------------------- MODULE RouteTrip -----------------------------
(***************************************************************************)
(* The route screen together with the stations screen that it pushes on    *)
(* top of itself (getGasStationsButtonClicked).  The stations screen is    *)
(* handed the two ends and the route and keeps them; RouteGasStations is   *)
(* what it does with the route.  While it is in front the user cannot      *)
(* reach the route screen, but the answers of MapKit still do.             *)
(***************************************************************************)
EXTENDS RoutePlanner

VARIABLE
  screen  \* the stations screen in front: originLocation, destinationLocation, route

tripVars == <<vars, screen>>

Screen == [ends : [Sides -> Annotation], route : Route \cup {None}]

-----------------------------------------------------------------------------
\* The button is tapped.  It may have no route to hand over.
getGasStationsButtonClicked ==
  /\ screen = None
  /\ button /\ fuel /\ \A s \in Sides : selected[s] # None
  /\ screen' = [ends |-> selected, route |-> selectedRoute]
  /\ UNCHANGED vars

\* Back to the route screen.
popToPrevious ==
  /\ screen # None
  /\ screen' = None
  /\ UNCHANGED vars

\* The user acts on the route screen when it is in front.
Plan == screen = None /\ User /\ UNCHANGED screen

\* MapKit answers, whichever screen is in front.
Answer == Answers /\ UNCHANGED screen

-----------------------------------------------------------------------------
TripInit == Init /\ screen = None

TripNext == getGasStationsButtonClicked \/ popToPrevious \/ Plan \/ Answer

TripSpec == TripInit /\ [][TripNext]_tripVars

-----------------------------------------------------------------------------
(* Properties *)

\* The variable of the trip keeps its type.
TripTypes == screen \in Screen \cup {None}

\* The stations shown are those between the places the user sees named: an end that
\* was handed over and still has its pin is the place its field names, unless that
\* was typed or searches overtook each other, and the route joins the two ends, unless
\* requests for directions did.  When a place is being searched for or is not
\* found, its field names it while the end stays the old one, whose pin alone is
\* gone (markOriginOnMap, markDestinationOnMap, getGasStationsButtonClicked).
TripJoinsPlacesShown ==
  screen # None =>
    /\ ~overlapped =>
         \A s \in Sides : text[s] \in Places /\ screen.ends[s] \in pins =>
           screen.ends[s].p = text[s]
    /\ screen.route # None /\ ~raced =>
         /\ screen.route.from = screen.ends["origin"].p
         /\ screen.route.to = screen.ends["destination"].p
=============================================================================
