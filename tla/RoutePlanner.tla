---------------------------- MODULE RoutePlanner ----------------------------
(***************************************************************************)
(* The route screen (RouteViewController): two places are picked from      *)
(* suggestions and located by MKLocalSearch, the routes between them are   *)
(* computed by MKDirections, the user taps one of the routes drawn and     *)
(* goes on to the stations along it.                                       *)
(*                                                                         *)
(* No request is cancelled or numbered: whatever answer comes is applied,  *)
(* in whatever order.  Everything runs on the main queue.                  *)
(***************************************************************************)
EXTENDS Naturals, Sequences

CONSTANTS
  Places,
  MaxRoutes,    \* BOUND: alternatives in one answer
  MaxPicks,     \* BOUND: suggestions picked
  MaxEdits,     \* BOUND: edits of a text field and switches of origin and destination
  None

Sides == {"origin", "destination"}
Other(side) == IF side = "origin" THEN "destination" ELSE "origin"

\* A pin is an object of its own: picking a place twice gives two.
Annotation == [n : Nat, p : Places]
Search == [side : Sides, n : Nat, p : Places]
Request == [q : Nat, from : Places, to : Places]
Route == [q : Nat, from : Places, to : Places, k : 1..MaxRoutes]

ASSUME RoutePlannerAssumption ==
  /\ None \notin Places \cup Annotation \cup Route /\ "typed" \notin Places
  /\ MaxRoutes \in Nat \ {0}
  /\ MaxPicks \in Nat /\ MaxEdits \in Nat

VARIABLES
  text,           \* the two text fields: a suggestion, something typed, or empty
  selected,       \* selectedOrigin and selectedDestination: annotations
  pins,           \* the annotations on the map
  searches,       \* open MKLocalSearch requests
  directions,     \* open MKDirections requests
  allRoutes, selectedRoute,
  overlays,       \* the routes drawn; polylineToRouteMap knows all of them
  fuel,           \* selectedFuel is set
  button,         \* getGasStationsOnRouteButton is enabled
  \* History
  picks, asked, edits,
  overlapped,     \* a search was open when its field was picked again or switched
  raced,          \* a request for directions was overtaken by another or by a switch
  lostRoute       \* a request for directions failed

fields == <<text, selected, pins, searches>>
routes == <<directions, allRoutes, selectedRoute, overlays, asked, raced>>
counters == <<picks, edits, overlapped, lostRoute>>
vars == <<fields, routes, fuel, button, counters>>

-----------------------------------------------------------------------------
(* Requests for directions *)

\* calculateRoute asks for directions when both ends are there.
calculateRoute(o, d) ==
  IF o # None /\ d # None THEN <<[from |-> o.p, to |-> d.p]>> ELSE <<>>

\* Mutant: the previous route stays selected while the new one is computed.
Ask_KeepsRoute(asks, moved) ==
  /\ directions' = directions \cup
       {[q |-> asked + n, from |-> asks[n].from, to |-> asks[n].to] : n \in 1..Len(asks)}
  /\ asked' = asked + Len(asks)
  /\ raced' = (raced \/ (asks # <<>> /\ (moved \/ directions # {})))
  /\ overlays' = IF asks = <<>> THEN overlays ELSE {}
  /\ allRoutes' = IF asks = <<>> THEN allRoutes ELSE {}
  /\ UNCHANGED selectedRoute

\* Mutant: the routes drawn stay while the new ones are computed.
Ask_KeepsOverlays(asks, moved) ==
  /\ directions' = directions \cup
       {[q |-> asked + n, from |-> asks[n].from, to |-> asks[n].to] : n \in 1..Len(asks)}
  /\ asked' = asked + Len(asks)
  /\ raced' = (raced \/ (asks # <<>> /\ (moved \/ directions # {})))
  /\ allRoutes' = IF asks = <<>> THEN allRoutes ELSE {}
  /\ selectedRoute' = IF asks = <<>> THEN selectedRoute ELSE None
  /\ UNCHANGED overlays

\* Each of them first takes the routes off the screen.  In a switch the ends move
\* after the first one.
Ask(asks, moved) ==
  /\ directions' = directions \cup
       {[q |-> asked + n, from |-> asks[n].from, to |-> asks[n].to] : n \in 1..Len(asks)}
  /\ asked' = asked + Len(asks)
  /\ raced' = (raced \/ (asks # <<>> /\ (moved \/ directions # {})))
  /\ overlays' = IF asks = <<>> THEN overlays ELSE {}
  /\ allRoutes' = IF asks = <<>> THEN allRoutes ELSE {}
  /\ selectedRoute' = IF asks = <<>> THEN selectedRoute ELSE None

\* enableButton never disables it.
enableButton(route, f) ==
  button' = (button \/ (f /\ route # None /\ \A s \in Sides : selected[s] # None))

-----------------------------------------------------------------------------
(* The user *)

\* Mutant: the old pin is not taken off before the search.
Pick_KeepsPin(side, p) ==
  /\ picks < MaxPicks /\ picks' = picks + 1
  /\ text' = [text EXCEPT ![side] = p]
  /\ searches' = searches \cup {[side |-> side, n |-> picks + 1, p |-> p]}
  /\ overlapped' = (overlapped \/ \E r \in searches : r.side = side)
  /\ UNCHANGED <<pins, selected, routes, fuel, button, edits, lostRoute>>

\* Mutant: the route is forgotten as soon as an end is picked again.
Pick_ForgetsRoute(side, p) ==
  /\ picks < MaxPicks /\ picks' = picks + 1
  /\ text' = [text EXCEPT ![side] = p]
  /\ pins' = pins \ {selected[side]}
  /\ searches' = searches \cup {[side |-> side, n |-> picks + 1, p |-> p]}
  /\ overlapped' = (overlapped \/ \E r \in searches : r.side = side)
  /\ selectedRoute' = None
  /\ UNCHANGED <<selected, directions, allRoutes, overlays, asked, raced,
                 fuel, button, edits, lostRoute>>

\* A suggestion is picked: markOriginOnMap or markDestinationOnMap takes the old
\* pin off and searches.
Pick(side, p) ==
  /\ picks < MaxPicks /\ picks' = picks + 1
  /\ text' = [text EXCEPT ![side] = p]
  /\ pins' = pins \ {selected[side]}
  /\ searches' = searches \cup {[side |-> side, n |-> picks + 1, p |-> p]}
  /\ overlapped' = (overlapped \/ \E r \in searches : r.side = side)
  /\ UNCHANGED <<selected, routes, fuel, button, edits, lostRoute>>

\* Typing or clearing.
Edit(side) ==
  /\ edits < MaxEdits /\ edits' = edits + 1
  /\ \E t \in {"typed", None} : text' = [text EXCEPT ![side] = t]
  /\ UNCHANGED <<selected, pins, searches, routes, fuel, button,
                 picks, overlapped, lostRoute>>

PickFuel ==
  /\ fuel' = TRUE
  /\ enableButton(selectedRoute, TRUE)
  /\ UNCHANGED <<fields, routes, counters>>

\* The two assignments run their observers one after the other: between them both
\* ends are the old destination, and a third calculation follows.
switchLocations ==
  /\ edits < MaxEdits /\ edits' = edits + 1
  /\ \A s \in Sides : text[s] # None
  /\ text' = [s \in Sides |-> text[Other(s)]]
  /\ selected' = [s \in Sides |-> selected[Other(s)]]
  /\ LET o == selected["origin"]
         d == selected["destination"]
     IN  Ask(calculateRoute(d, d) \o calculateRoute(d, o) \o calculateRoute(d, o), TRUE)
  /\ overlapped' = (overlapped \/ searches # {})
  /\ UNCHANGED <<pins, searches, fuel, button, picks, lostRoute>>

\* The polyline nearest to a tap, when it is within 22 pixels of it: any that is
\* drawn can be the one, of the last answer or not.
Tappable == overlays

\* A tap near a route that is drawn selects it; what is drawn afterwards are the
\* routes of the last answer.
mapTapped(r) ==
  /\ r \in Tappable
  /\ selectedRoute' = r
  /\ overlays' = allRoutes
  /\ UNCHANGED <<fields, directions, allRoutes, asked, raced, fuel, button, counters>>

-----------------------------------------------------------------------------
(* Answers *)

\* Mutant: a new place does not start a calculation.
SearchAnswers_NoRoute(r) ==
  /\ r \in searches
  /\ LET a == [n |-> r.n, p |-> r.p] IN
       /\ selected' = [selected EXCEPT ![r.side] = a]
       /\ pins' = pins \cup {a}
  /\ searches' = searches \ {r}
  /\ UNCHANGED <<text, routes, fuel, button, counters>>

\* The place is found: its annotation becomes the selected one, which asks for
\* directions if the other end is there.
SearchAnswers(r) ==
  /\ r \in searches
  /\ LET a == [n |-> r.n, p |-> r.p]
         ends == [selected EXCEPT ![r.side] = a]
     IN  /\ selected' = ends
         /\ pins' = pins \cup {a}
         /\ Ask(calculateRoute(ends["origin"], ends["destination"]), FALSE)
  /\ searches' = searches \ {r}
  /\ UNCHANGED <<text, fuel, button, counters>>

SearchFails(r) ==
  /\ r \in searches
  /\ searches' = searches \ {r}
  /\ UNCHANGED <<text, selected, pins, routes, fuel, button, counters>>

\* Routes arrive, the fastest is selected, all are drawn on top of what is there.
DirectionsAnswer(r) ==
  /\ r \in directions
  /\ directions' = directions \ {r}
  /\ \E m \in 1..MaxRoutes :
       LET found == {[q |-> r.q, from |-> r.from, to |-> r.to, k |-> k] : k \in 1..m}
           fastest == [q |-> r.q, from |-> r.from, to |-> r.to, k |-> 1]
       IN  /\ allRoutes' = found
           /\ selectedRoute' = fastest
           /\ enableButton(fastest, fuel)
           /\ overlays' = overlays \cup found
  /\ UNCHANGED <<fields, asked, raced, fuel, counters>>

\* An alert.
DirectionsFail(r) ==
  /\ r \in directions
  /\ directions' = directions \ {r}
  /\ lostRoute' = TRUE
  /\ UNCHANGED <<fields, allRoutes, selectedRoute, overlays, asked, raced, fuel, button,
                 picks, edits, overlapped>>

-----------------------------------------------------------------------------
Init ==
  /\ text = [s \in Sides |-> None] /\ selected = [s \in Sides |-> None]
  /\ pins = {} /\ searches = {} /\ directions = {}
  /\ allRoutes = {} /\ selectedRoute = None /\ overlays = {}
  /\ fuel = FALSE /\ button = FALSE
  /\ picks = 0 /\ asked = 0 /\ edits = 0
  /\ overlapped = FALSE /\ raced = FALSE /\ lostRoute = FALSE

User ==
  \/ \E side \in Sides : Edit(side) \/ \E p \in Places : Pick(side, p)
  \/ PickFuel \/ switchLocations
  \/ \E r \in Tappable : mapTapped(r)

Answers ==
  \/ \E r \in searches : SearchAnswers(r) \/ SearchFails(r)
  \/ \E r \in directions : DirectionsAnswer(r) \/ DirectionsFail(r)

Next == User \/ Answers

\* MapKit answers every request or fails it.
Fairness ==
  /\ WF_vars(\E r \in searches : SearchAnswers(r) \/ SearchFails(r))
  /\ WF_vars(\E r \in directions : DirectionsAnswer(r) \/ DirectionsFail(r))

Spec == Init /\ [][Next]_vars /\ Fairness

-----------------------------------------------------------------------------
(* Properties *)

\* The variables keep their types.
TypeOK ==
  /\ text \in [Sides -> Places \cup {"typed", None}]
  /\ selected \in [Sides -> Annotation \cup {None}]
  /\ pins \subseteq Annotation
  /\ searches \subseteq Search
  /\ directions \subseteq Request
  /\ allRoutes \subseteq Route /\ overlays \subseteq Route
  /\ selectedRoute \in Route \cup {None}
  /\ fuel \in BOOLEAN /\ button \in BOOLEAN
  /\ picks \in Nat /\ asked \in Nat /\ edits \in Nat
  /\ overlapped \in BOOLEAN
  /\ raced \in BOOLEAN /\ lostRoute \in BOOLEAN

BothEnds == \A s \in Sides : selected[s] # None

\* The button opens the next screen without a route, which then stays empty, only
\* while directions are being computed or after a request failed (calculateRoute
\* forgets the route and leaves the button enabled).
EmptyRouteIsExplained ==
  button /\ selectedRoute = None => directions # {} \/ lostRoute

Matches(route) ==
  route.from = selected["origin"].p /\ route.to = selected["destination"].p

\* The route that will be used leads from the origin shown to the destination
\* shown, unless a request for directions was overtaken: by another one, or by the
\* switch that made it, which asks with one end moved and the other not yet
\* (directions.calculate, switchLocations).
RouteIsCurrent == selectedRoute # None /\ ~raced => Matches(selectedRoute)

\* A pin on the map is one of the two ends, unless a search was overtaken by
\* another pick or a switch (markOriginOnMap, markDestinationOnMap).
PinsAreEnds == ~overlapped => pins \subseteq {selected[s] : s \in Sides}

\* When both ends are selected a route is found sooner or later, or a request for
\* directions has failed (the observers of selectedOrigin and selectedDestination).
RouteArrives == BothEnds ~> (selectedRoute # None \/ lostRoute)

\* The selected route is one of those that are drawn again, in dark blue, after a tap,
\* unless a request for directions was overtaken: polylineToRouteMap still knows the
\* routes of the earlier answer (mapTapped, rendererFor).
SelectedIsDrawn == selectedRoute # None /\ ~raced => selectedRoute \in allRoutes
=============================================================================
