-------------------------- MODULE RouteGasStations --------------------------
(***************************************************************************)
(* The stations along a route: GasStationsOnRouteViewController starts one *)
(* search per screen, GasStationsOnRouteViewModel asks the geocoder for    *)
(* the municipality of one key point after the other, with a pause between *)
(* them, then asks for the prices in every municipality found and keeps    *)
(* the cheapest station near the route in each.                            *)
(*                                                                         *)
(* Leaving the screen stops nothing: its search goes on beside the search  *)
(* of the next screen.  One tick of the clock is intervalBetweenRequests.  *)
(***************************************************************************)
EXTENDS Naturals, Sequences, SequencesExt

CONSTANTS
  Routes, Places, Names, Towns, Stations,
  KeyPoints,  \* the key points of a route, in order
  Locality,   \* the locality the geocoder gives for a place, or None
  Spain,      \* the places whose country code is "ES"
  Name,       \* nombreMunicipio.formatName() of a town; several may share it
  OnSale,     \* the stations in a town's price list, in its order
  Price,
  Near,       \* the stations with a step of the route less than 5 km away
  Located,    \* the stations whose coordinates can be parsed
  MaxVisits,  \* BOUND: screens opened
  None

ASSUME RouteGasStationsAssumption ==
  /\ KeyPoints \in [Routes -> Seq(Places)]
  /\ Locality \in [Places -> Names \cup {None}] /\ Spain \subseteq Places
  /\ Name \in [Towns -> Names]
  /\ OnSale \in [Towns -> Seq(Stations)] /\ Price \in [Stations -> Nat]
  \* a station is in one town
  /\ \A t, u \in Towns : t # u => ToSet(OnSale[t]) \cap ToSet(OnSale[u]) = {}
  /\ Near \in [Routes -> SUBSET Stations] /\ Located \subseteq Stations
  /\ MaxVisits \in Nat
  /\ None \notin Routes \cup Places \cup Names \cup Stations

Visits == 1..MaxVisits

VARIABLES
  visits, visible,  \* screens opened, and the one on screen
  route,
  phase,            \* how far each search is
  queue, at,        \* requestQueue, and the location being geocoded
  municipalities,
  sent,             \* requests to the geocoder since the last tick
  open, lost,       \* towns whose prices are awaited; of these, the ones that failed
  posible,          \* posibleGasStations of the search
  list,             \* posibleGasStations of the screen
  selected,         \* selectedGasStation; the button to go there is visible with it
  loading,          \* the loading view is visible
  skipped           \* History: a location could not be geocoded

chain == <<route, phase, queue, at, municipalities, sent, skipped>>
prices == <<open, lost, posible, list, loading>>
vars == <<visits, visible, selected, chain, prices>>

Phases == {"none", "geocoding", "pausing", "ready", "swept", "towns", "prices", "dead", "done"}

-----------------------------------------------------------------------------
(* The sweep along the key points *)

\* processNextLocation: take the next location and ask for it, or be done.
processNextLocation(v, locations) ==
  IF locations = <<>>
  THEN /\ phase' = [phase EXCEPT ![v] = "swept"]
       /\ queue' = [queue EXCEPT ![v] = <<>>]
       /\ UNCHANGED <<at, sent>>
  ELSE /\ phase' = [phase EXCEPT ![v] = "geocoding"]
       /\ queue' = [queue EXCEPT ![v] = Tail(locations)]
       /\ at' = [at EXCEPT ![v] = Head(locations)]
       /\ sent' = [sent EXCEPT ![v] = @ + 1]

\* The route screen opens this one and its search starts.
Open(r) ==
  /\ visible = None /\ visits < MaxVisits
  /\ visits' = visits + 1 /\ visible' = visits'
  /\ route' = [route EXCEPT ![visits'] = r]
  /\ loading' = [loading EXCEPT ![visits'] = TRUE]
  /\ processNextLocation(visits', KeyPoints[r])
  /\ UNCHANGED <<selected, municipalities, open, lost, posible, list, skipped>>

\* The route screen had forgotten its route: nothing is searched.
OpenWithoutRoute ==
  /\ visible = None /\ visits < MaxVisits
  /\ visits' = visits + 1 /\ visible' = visits'
  /\ UNCHANGED <<selected, chain, prices>>

NextLocation(v) ==
  /\ phase[v] = "ready"
  /\ processNextLocation(v, queue[v])
  /\ UNCHANGED <<visits, visible, selected, route, municipalities, skipped, prices>>

\* Mutant: the next request follows at once.
GeocodeAnswers_NoPause(v) ==
  /\ phase[v] = "geocoding"
  /\ phase' = [phase EXCEPT ![v] = "ready"]
  /\ IF at[v] \in Spain
     THEN /\ municipalities' = [municipalities EXCEPT ![v] = @ \cup ({Locality[at[v]]} \ {None})]
          /\ UNCHANGED queue
     ELSE /\ queue' = [queue EXCEPT ![v] = <<>>]
          /\ UNCHANGED municipalities
  /\ UNCHANGED <<visits, visible, selected, route, at, sent, skipped, prices>>

\* Mutant: a place without a locality counts as abroad.
GeocodeAnswers_NoLocality(v) ==
  /\ phase[v] = "geocoding"
  /\ phase' = [phase EXCEPT ![v] = "pausing"]
  /\ IF at[v] \in Spain /\ Locality[at[v]] # None
     THEN /\ municipalities' = [municipalities EXCEPT ![v] = @ \cup {Locality[at[v]]}]
          /\ UNCHANGED queue
     ELSE /\ queue' = [queue EXCEPT ![v] = <<>>]
          /\ UNCHANGED municipalities
  /\ UNCHANGED <<visits, visible, selected, route, at, sent, skipped, prices>>

\* In Spain the locality, if any, is noted; the first place abroad ends the sweep.
GeocodeAnswers(v) ==
  /\ phase[v] = "geocoding"
  /\ phase' = [phase EXCEPT ![v] = "pausing"]
  /\ IF at[v] \in Spain
     THEN /\ municipalities' = [municipalities EXCEPT ![v] = @ \cup ({Locality[at[v]]} \ {None})]
          /\ UNCHANGED queue
     ELSE /\ queue' = [queue EXCEPT ![v] = <<>>]
          /\ UNCHANGED municipalities
  /\ UNCHANGED <<visits, visible, selected, route, at, sent, skipped, prices>>

\* Mutant: an error ends the sweep without its completion.
GeocodeFails_Stops(v) ==
  /\ phase[v] = "geocoding"
  /\ phase' = [phase EXCEPT ![v] = "none"]
  /\ skipped' = [skipped EXCEPT ![v] = TRUE]
  /\ UNCHANGED <<visits, visible, selected, route, queue, at, municipalities, sent, prices>>

\* An alert, and the sweep goes on without this location.
GeocodeFails(v) ==
  /\ phase[v] = "geocoding"
  /\ phase' = [phase EXCEPT ![v] = "pausing"]
  /\ skipped' = [skipped EXCEPT ![v] = TRUE]
  /\ UNCHANGED <<visits, visible, selected, route, queue, at, municipalities, sent, prices>>

\* intervalBetweenRequests passes: what was paused is due.
Tick ==
  /\ \E v \in Visits : phase[v] = "pausing" \/ sent[v] > 0
  /\ phase' = [v \in Visits |-> IF phase[v] = "pausing" THEN "ready" ELSE phase[v]]
  /\ sent' = [v \in Visits |-> 0]
  /\ UNCHANGED <<visits, visible, selected, route, queue, at, municipalities, skipped, prices>>

-----------------------------------------------------------------------------
(* The prices in the municipalities found *)

\* The group's notification completes the sweep; the towns are fetched.
Swept(v) ==
  /\ phase[v] = "swept"
  /\ phase' = [phase EXCEPT ![v] = "towns"]
  /\ UNCHANGED <<visits, visible, selected, route, queue, at, municipalities, sent, skipped, prices>>

\* Every town of a name found enters the group and its prices are asked for.
TownsAnswer(v) ==
  /\ phase[v] = "towns"
  /\ phase' = [phase EXCEPT ![v] = "prices"]
  /\ open' = [open EXCEPT ![v] = {t \in Towns : Name[t] \in municipalities[v]}]
  /\ UNCHANGED <<visits, visible, selected, route, queue, at, municipalities, sent, skipped,
                 lost, posible, list, loading>>

TownsFail(v) ==
  /\ phase[v] = "towns"
  /\ phase' = [phase EXCEPT ![v] = "dead"]
  /\ UNCHANGED <<visits, visible, selected, route, queue, at, municipalities, sent, skipped, prices>>

\* Mutant: the distance to the route is not looked at.
Cheaper_Anywhere(r, best, s) ==
  IF s \in Located /\ (best = None \/ Price[s] < Price[best])
  THEN s ELSE best

\* The station replaces the best so far if it is near the route and cheaper.
Cheaper(r, best, s) ==
  IF s \in Located /\ s \in Near[r] /\ (best = None \/ Price[s] < Price[best])
  THEN s ELSE best

\* What best can be after each station of the list: nothing before the first.
Rounds(r, stations) ==
  {best \in [0..Len(stations) -> ToSet(stations) \cup {None}] :
     /\ best[0] = None
     /\ \A n \in 1..Len(stations) : best[n] = Cheaper(r, best[n - 1], stations[n])}

\* A town's prices arrive: getClosestCheapestGasStation goes through them, its
\* station, if any, is added and the group is left.
PricesAnswer(v, t) ==
  /\ phase[v] = "prices" /\ t \in open[v] \ lost[v]
  /\ open' = [open EXCEPT ![v] = @ \ {t}]
  /\ \E best \in Rounds(route[v], OnSale[t]) :
       LET station == best[Len(OnSale[t])]
       IN  posible' = [posible EXCEPT ![v] = IF station = None THEN @ ELSE Append(@, station)]
  /\ UNCHANGED <<visits, visible, selected, chain, lost, list, loading>>

\* A request that fails returns without leaving the group.
PricesFail(v, t) ==
  /\ phase[v] = "prices" /\ t \in open[v] \ lost[v]
  /\ lost' = [lost EXCEPT ![v] = @ \cup {t}]
  /\ UNCHANGED <<visits, visible, selected, chain, open, posible, list, loading>>

\* The stations cheapest first, in any order where prices are equal.
Sorted(stations) ==
  {s \in {[n \in 1..Len(stations) |-> stations[p[n]]] :
            p \in Bijection(1..Len(stations), 1..Len(stations))} :
     IsSorted(s, LAMBDA x, y : ~(Price[y] < Price[x]))}

\* Mutant: what was asked for last is not waited for.
Notified_Early(v) ==
  /\ phase[v] = "prices" /\ \E t \in Towns : open[v] \subseteq {t}
  /\ phase' = [phase EXCEPT ![v] = "done"]
  /\ loading' = [loading EXCEPT ![v] = FALSE]
  /\ \E s \in Sorted(posible[v]) : list' = [list EXCEPT ![v] = s]
  /\ UNCHANGED <<visits, visible, selected, route, queue, at, municipalities, sent, skipped,
                 open, lost, posible>>

\* All have left: the list is sorted by price and shown.
Notified(v) ==
  /\ phase[v] = "prices" /\ open[v] = {}
  /\ phase' = [phase EXCEPT ![v] = "done"]
  /\ loading' = [loading EXCEPT ![v] = FALSE]
  /\ \E s \in Sorted(posible[v]) : list' = [list EXCEPT ![v] = s]
  /\ UNCHANGED <<visits, visible, selected, route, queue, at, municipalities, sent, skipped,
                 open, lost, posible>>

-----------------------------------------------------------------------------
(* The screen *)

showGasStationInfo(v, n) ==
  /\ visible = v /\ list[v][n] \in Located
  /\ selected' = list[v][n]
  /\ UNCHANGED <<visits, visible, chain, prices>>

resetMapZoom ==
  /\ visible # None /\ route[visible] # None
  /\ selected' = None
  /\ UNCHANGED <<visits, visible, chain, prices>>

popToPrevious ==
  /\ visible # None
  /\ visible' = None /\ selected' = None
  /\ UNCHANGED <<visits, chain, prices>>

-----------------------------------------------------------------------------
Init ==
  /\ visits = 0 /\ visible = None /\ selected = None
  /\ route = [v \in Visits |-> None] /\ phase = [v \in Visits |-> "none"]
  /\ queue = [v \in Visits |-> <<>>] /\ at = [v \in Visits |-> None]
  /\ municipalities = [v \in Visits |-> {}] /\ sent = [v \in Visits |-> 0]
  /\ open = [v \in Visits |-> {}] /\ lost = [v \in Visits |-> {}]
  /\ posible = [v \in Visits |-> <<>>] /\ list = [v \in Visits |-> <<>>]
  /\ loading = [v \in Visits |-> FALSE] /\ skipped = [v \in Visits |-> FALSE]

Sweep(v) == NextLocation(v) \/ GeocodeAnswers(v) \/ GeocodeFails(v) \/ Swept(v)

Fetch(v) ==
  \/ TownsAnswer(v) \/ TownsFail(v) \/ Notified(v)
  \/ \E t \in Towns : PricesAnswer(v, t) \/ PricesFail(v, t)

Next ==
  \/ OpenWithoutRoute \/ popToPrevious \/ resetMapZoom \/ Tick
  \/ \E r \in Routes : Open(r)
  \/ \E v \in Visits : Sweep(v) \/ Fetch(v)
  \/ \E v \in Visits : \E n \in 1..Len(list[v]) : showGasStationInfo(v, n)

\* The geocoder and URLSession answer or fail every request; timers fire.
Fairness ==
  /\ WF_vars(Tick)
  /\ \A v \in Visits : WF_vars(Sweep(v)) /\ WF_vars(Fetch(v))

Spec == Init /\ [][Next]_vars /\ Fairness

-----------------------------------------------------------------------------
(* Properties *)

\* The variables keep their types.
TypeOK ==
  /\ visits \in 0..MaxVisits /\ visible \in Visits \cup {None}
  /\ selected \in Stations \cup {None}
  /\ route \in [Visits -> Routes \cup {None}] /\ phase \in [Visits -> Phases]
  /\ queue \in [Visits -> Seq(Places)] /\ at \in [Visits -> Places \cup {None}]
  /\ municipalities \in [Visits -> SUBSET Names] /\ sent \in [Visits -> Nat]
  /\ open \in [Visits -> SUBSET Towns] /\ lost \in [Visits -> SUBSET Towns]
  /\ posible \in [Visits -> Seq(Stations)] /\ list \in [Visits -> Seq(Stations)]
  /\ loading \in [Visits -> BOOLEAN] /\ skipped \in [Visits -> BOOLEAN]

Candidates(r, t) == {s \in ToSet(OnSale[t]) \cap Located : s \in Near[r]}

\* What is listed is, for each town at most once, a station near the route that
\* none near it undercuts, cheapest first (getClosestCheapestGasStation,
\* dispatchGroup.notify).
ListIsCheapest ==
  \A v \in Visits : phase[v] = "done" =>
    /\ \A m, n \in 1..Len(list[v]) : m < n => Price[list[v][m]] <= Price[list[v][n]]
    /\ \A n \in 1..Len(list[v]) : \E t \in Towns :
         /\ list[v][n] \in Candidates(route[v], t)
         /\ \A s \in Candidates(route[v], t) : Price[list[v][n]] <= Price[s]
    /\ \A t \in Towns : \A m, n \in 1..Len(list[v]) :
         list[v][m] \in ToSet(OnSale[t]) /\ list[v][n] \in ToSet(OnSale[t]) => m = n

\* The names along the route up to the border.
Along(r) ==
  {Locality[KeyPoints[r][n]] : n \in
     {m \in 1..Len(KeyPoints[r]) : \A k \in 1..m : KeyPoints[r][k] \in Spain}} \ {None}

\* Every town along the route, up to the first point abroad, that has a station near
\* the route is listed with one, unless a location could not be geocoded
\* (processNextLocation, fetchGasStationsAlongRoute).
ListIsComplete ==
  \A v \in Visits : phase[v] = "done" /\ ~skipped[v] =>
    \A t \in Towns : Name[t] \in Along(route[v]) /\ Candidates(route[v], t) # {} =>
      ToSet(list[v]) \cap ToSet(OnSale[t]) # {}

\* A search never sends two requests within one interval (asyncAfter).
PacedSearch == \A v \in Visits : sent[v] <= 1

\* The loading view goes away, or a request for towns or prices has failed
\* (dispatchGroup.notify).
SearchEnds ==
  \A v \in Visits : loading[v] ~> (~loading[v] \/ phase[v] = "dead" \/ lost[v] # {})

\* The prices of each search are a DispatchGroup's fan-out of their own: the tasks
\* start once, each ends at most once, and the list is shown once, after all of
\* them, although two searches share the view model's queues
\* (fetchGasStationsAlongRoute).
PriceGroup(v) == INSTANCE FanOut WITH
  Items <- Towns,
  started <- phase[v] \in {"prices", "done"},
  open <- open[v],
  lost <- lost[v],
  notified <- phase[v] = "done"
PriceGroups ==
  /\ \A v \in Visits : PriceGroup(v)!Init
  /\ [][\A v \in Visits : PriceGroup(v)!Next \/ UNCHANGED PriceGroup(v)!vars]_vars
=============================================================================
