----------------------------- MODULE Favorites -----------------------------
(***************************************************************************)
(* The favourites of one user under users/<uid>, written and read by the   *)
(* user's devices: RemoteDataStore.saveFavorite (one write per field),     *)
(* removeFavorite, getFavoritesList and isFavorite, the star of the        *)
(* station's screen and the list of the favourites screen.                 *)
(*                                                                         *)
(* A device sees its own writes at once and sends them in order over its   *)
(* connection; what is unsent dies with the process.                       *)
(***************************************************************************)
EXTENDS Naturals, Sequences, SequencesExt

CONSTANTS
  Devices,
  Stations,
  Fields,     \* a record's fields in the order saveFavorite writes them
  Fetches,    \* BOUND: price look-ups of the list that can be open on a device
  MaxTaps,    \* BOUND: stars tapped and rows swiped
  MaxVisits,  \* BOUND: stations opened and lists asked for
  MaxKills,   \* BOUND: kills
  None

FieldSet == {Fields[n] : n \in 1..Len(Fields)}

ASSUME FavoritesAssumption ==
  /\ Fields \in Seq(FieldSet) /\ Len(Fields) >= 1
  \* a field is written once
  /\ \A m, n \in 1..Len(Fields) : Fields[m] = Fields[n] => m = n
  /\ None \notin Stations \cup FieldSet
  /\ MaxTaps \in Nat /\ MaxVisits \in Nat /\ MaxKills \in Nat

VARIABLES
  \* The database
  node,       \* the fields under users/<uid>/<station>
  \* A device
  wire,       \* its requests, not yet served
  backed,     \* Auth.auth().currentUser is not nil ("User" is set throughout)
  at,         \* not launched yet, on the favourites tab, or on SearchFuelViewController
  detail,     \* the GasStationLocationViewController pushed on top of that
  listed,     \* FavoriteGasStationsViewController.favoriteGasStations
  fetch,      \* snapshots whose prices are being looked up
  loading,    \* the list's activityIndicator is animating
  answered,   \* what the last completion of getFavoritesList brought
  \* History
  taps, visits, kills,
  stuck,      \* a getFavoritesList begun since the last visit will never complete
  damaged     \* records whose save a kill or another device's removal hit half-way
              \* and that were not removed or completed since

device == <<wire, backed, at, detail, listed, fetch, loading, answered>>
history == <<taps, visits, kills, stuck, damaged>>
vars == <<node, device, history>>

Op == [t : {"set"}, g : Stations, f : FieldSet]
      \cup [t : {"rm", "isFav"}, g : Stations, f : {None}]
      \cup [t : {"list"}, g : {None}, f : {None}]

\* Mutant: the last field is forgotten.
SetOps_NoLast(g) ==
  [n \in 1..(Len(Fields) - 1) |-> [t |-> "set", g |-> g, f |-> Fields[n]]]

SetOps(g) == [n \in 1..Len(Fields) |-> [t |-> "set", g |-> g, f |-> Fields[n]]]
Ask(t, g) == [t |-> t, g |-> g, f |-> None]

Places == {"launch", "favorites", "search"}

\* vc.gasStation: the station and whether it was a favourite when the screen opened.
Closed == [g |-> None, favorita |-> FALSE]
Detail == [g : Stations, favorita : BOOLEAN] \cup {Closed}

-----------------------------------------------------------------------------
(* What a device sees: the database with its own unsent writes applied *)

Removals(q, g) == {n \in 1..Len(q) : q[n].t = "rm" /\ q[n].g = g}

Survives(q, n) == \A m \in Removals(q, q[n].g) : m < n

After(q, g) ==
  (IF Removals(q, g) = {} THEN node[g] ELSE {})
  \cup {q[n].f : n \in {m \in 1..Len(q) : q[m].t = "set" /\ q[m].g = g /\ Survives(q, m)}}

\* A save of the station of which some fields, not all, have been served.
MidSave(d, g) ==
  LET sets == {n \in 1..Len(wire[d]) : wire[d][n].t = "set" /\ wire[d][n].g = g}
  IN  \E n \in sets : wire[d][n].f # Fields[1] /\ \A m \in sets : n <= m

-----------------------------------------------------------------------------
(* The user *)

Send(d, ops) == wire' = [wire EXCEPT ![d] = @ \o ops]

\* SearchFuelViewController.didSelectRowAt: the screen opens when isFavorite
\* answers; without a current user nothing is asked and nothing opens.
\* BOUND: one question at a time.
OpenFromSearch(d, g) ==
  /\ visits < MaxVisits /\ visits' = visits + 1
  /\ at[d] = "search" /\ detail[d] = Closed
  /\ \A n \in 1..Len(wire[d]) : wire[d][n].t # "isFav"
  /\ IF backed[d] THEN Send(d, <<Ask("isFav", g)>>) ELSE UNCHANGED wire
  /\ UNCHANGED <<node, backed, at, detail, listed, fetch, loading, answered,
                 taps, kills, stuck, damaged>>

\* FavoriteGasStationsViewController.didSelectRowAt: a listed station is a favourite.
OpenFromList(d, g) ==
  /\ visits < MaxVisits /\ visits' = visits + 1
  /\ at[d] = "favorites" /\ detail[d] = Closed /\ g \in listed[d]
  /\ detail' = [detail EXCEPT ![d] = [g |-> g, favorita |-> TRUE]]
  /\ UNCHANGED <<node, wire, backed, at, listed, fetch, loading, answered,
                 taps, kills, stuck, damaged>>

\* GasStationLocationViewController.addFav.  The flag it toggles is a local copy:
\* the screen keeps the one it was opened with.  Without a current user the
\* write returns early.
AddFav(d) ==
  /\ taps < MaxTaps /\ taps' = taps + 1
  /\ detail[d] # Closed
  /\ LET station == detail[d] IN
       IF ~backed[d] THEN UNCHANGED wire
       ELSE IF station.favorita THEN Send(d, <<Ask("rm", station.g)>>)
       ELSE Send(d, SetOps(station.g))
  /\ UNCHANGED <<node, backed, at, detail, listed, fetch, loading, answered,
                 visits, kills, stuck, damaged>>

\* FavoriteGasStationsViewController.viewWillAppear.  Without a current user
\* getFavoritesList completes with nil at once.  q is what the device still
\* has to send.
viewWillAppear(d, q) ==
  /\ visits < MaxVisits /\ visits' = visits + 1
  /\ IF backed[d]
     THEN /\ loading' = [loading EXCEPT ![d] = TRUE]
          /\ wire' = [wire EXCEPT ![d] = Append(q, Ask("list", None))]
          /\ UNCHANGED answered
     ELSE /\ loading' = [loading EXCEPT ![d] = FALSE]
          /\ answered' = [answered EXCEPT ![d] = "nil"]
          /\ wire' = [wire EXCEPT ![d] = q]
  /\ stuck' = [stuck EXCEPT ![d] = FALSE]

\* The requests without the question whether a station is a favourite (there is
\* at most one).
Unasked(q) ==
  LET asked == {n \in 1..Len(q) : q[n].t = "isFav"}
  IN  IF asked = {} THEN q ELSE RemoveAt(q, CHOOSE n \in asked : TRUE)

\* The favourites tab is selected; it is also the first one after a launch.  A
\* search that is left has no navigation controller to push on when isFavorite
\* answers: its question is dropped here.
ShowFavorites(d) ==
  /\ detail[d] = Closed
  /\ at' = [at EXCEPT ![d] = "favorites"]
  /\ viewWillAppear(d, Unasked(wire[d]))
  /\ UNCHANGED <<node, backed, detail, listed, fetch, taps, kills, damaged>>

\* The fuels tab, and a fuel in it.
ShowSearch(d) ==
  /\ at[d] = "favorites" /\ detail[d] = Closed
  /\ at' = [at EXCEPT ![d] = "search"]
  /\ UNCHANGED <<node, wire, backed, detail, listed, fetch, loading, answered, history>>

\* popToPrevious: the list, if it is below, appears again.
CloseDetail(d) ==
  /\ detail[d] # Closed
  /\ detail' = [detail EXCEPT ![d] = Closed]
  /\ IF at[d] = "favorites" THEN viewWillAppear(d, wire[d])
     ELSE UNCHANGED <<wire, loading, answered, visits, stuck>>
  /\ UNCHANGED <<node, backed, at, listed, fetch, taps, kills, damaged>>

\* Swiping a row away.
RemoveRow(d, g) ==
  /\ taps < MaxTaps /\ taps' = taps + 1
  /\ at[d] = "favorites" /\ detail[d] = Closed /\ g \in listed[d]
  /\ IF backed[d] THEN Send(d, <<Ask("rm", g)>>) ELSE UNCHANGED wire
  /\ listed' = [listed EXCEPT ![d] = @ \ {g}]
  /\ UNCHANGED <<node, backed, at, detail, fetch, loading, answered,
                 visits, kills, stuck, damaged>>

\* The session ends behind the app's back (module Session: "User" stays set).
LoseUser(d) ==
  /\ backed[d]
  /\ backed' = [backed EXCEPT ![d] = FALSE]
  /\ UNCHANGED <<node, wire, at, detail, listed, fetch, loading, answered, history>>

Kill(d) ==
  /\ kills < MaxKills /\ kills' = kills + 1
  /\ damaged' = damaged \cup {g \in Stations : MidSave(d, g) /\ node[g] # FieldSet}
  /\ wire' = [wire EXCEPT ![d] = <<>>]
  /\ at' = [at EXCEPT ![d] = "launch"]
  /\ detail' = [detail EXCEPT ![d] = Closed]
  /\ listed' = [listed EXCEPT ![d] = {}]
  /\ fetch' = [fetch EXCEPT ![d] = [i \in Fetches |-> None]]
  /\ loading' = [loading EXCEPT ![d] = FALSE]
  /\ answered' = [answered EXCEPT ![d] = "none"]
  /\ stuck' = [stuck EXCEPT ![d] = FALSE]
  /\ UNCHANGED <<node, backed, taps, visits>>

-----------------------------------------------------------------------------
(* The database serves a device's first request: external *)

Serves(d, t) == wire[d] # <<>> /\ Head(wire[d]).t = t /\ wire' = [wire EXCEPT ![d] = Tail(@)]

ServeSet(d) ==
  /\ Serves(d, "set")
  /\ LET o == Head(wire[d]) IN
       /\ node' = [node EXCEPT ![o.g] = @ \cup {o.f}]
       /\ damaged' = IF node'[o.g] = FieldSet THEN damaged \ {o.g} ELSE damaged
  /\ UNCHANGED <<backed, at, detail, listed, fetch, loading, answered,
                 taps, visits, kills, stuck>>

ServeRemove(d) ==
  /\ Serves(d, "rm")
  /\ LET o == Head(wire[d]) IN
       /\ node' = [node EXCEPT ![o.g] = {}]
       /\ damaged' = IF \E e \in Devices \ {d} : MidSave(e, o.g)
                     THEN damaged \cup {o.g} ELSE damaged \ {o.g}
  /\ UNCHANGED <<backed, at, detail, listed, fetch, loading, answered,
                 taps, visits, kills, stuck>>

-----------------------------------------------------------------------------
(* Answers and completions, on the main queue *)

Snapshot(d) == [g \in Stations |-> After(Tail(wire[d]), g)]

\* isFavorite: any child of that name counts; the station's screen is pushed.
FavoriteAnswered(d) ==
  /\ Serves(d, "isFav")
  /\ LET g == Head(wire[d]).g
         isFavorite == Snapshot(d)[g] # {}
     IN  detail' = [detail EXCEPT ![d] = [g |-> g, favorita |-> isFavorite]]
  /\ UNCHANGED <<node, backed, at, listed, fetch, loading, answered, history>>

\* Mutant: an empty list calls no completion.
NoFavorites_Silent(d) == UNCHANGED <<loading, answered, fetch, stuck>>

\* An empty list completes with nil, which leaves the screen's list alone.
NoFavorites(d) ==
  /\ loading' = [loading EXCEPT ![d] = FALSE]
  /\ answered' = [answered EXCEPT ![d] = "empty"]
  /\ UNCHANGED <<fetch, stuck>>

\* getFavoritesList: a child without all its fields makes the callback return;
\* with all records whole it goes on to the prices (module FavoritePrices).
ListAnswered(d) ==
  /\ Serves(d, "list")
  /\ LET found == {g \in Stations : Snapshot(d)[g] # {}} IN
       \/ /\ \E g \in found : Snapshot(d)[g] # FieldSet
          /\ stuck' = [stuck EXCEPT ![d] = TRUE]
          /\ UNCHANGED <<fetch, loading, answered>>
       \/ found = {} /\ NoFavorites(d)
       \/ /\ found # {} /\ \A g \in found : Snapshot(d)[g] = FieldSet
          /\ \E i \in Fetches : fetch[d][i] = None /\ fetch' = [fetch EXCEPT ![d][i] = found]
          /\ UNCHANGED <<loading, answered, stuck>>
  /\ UNCHANGED <<node, backed, at, detail, listed, taps, visits, kills, damaged>>

\* The prices are complete: the list is shown, whatever happened meanwhile.
PricesArrive(d, i) ==
  /\ fetch[d][i] # None
  /\ listed' = [listed EXCEPT ![d] = fetch[d][i]]
  /\ fetch' = [fetch EXCEPT ![d][i] = None]
  /\ loading' = [loading EXCEPT ![d] = FALSE]
  /\ answered' = [answered EXCEPT ![d] = "list"]
  /\ UNCHANGED <<node, wire, backed, at, detail, history>>

\* One of their requests failed: no completion.
PricesFail(d, i) ==
  /\ fetch[d][i] # None
  /\ fetch' = [fetch EXCEPT ![d][i] = None]
  /\ stuck' = [stuck EXCEPT ![d] = TRUE]
  /\ UNCHANGED <<node, wire, backed, at, detail, listed, loading, answered,
                 taps, visits, kills, damaged>>

-----------------------------------------------------------------------------
\* The user's records are whole when the devices start.
Init ==
  /\ node \in [Stations -> {{}, FieldSet}]
  /\ wire = [d \in Devices |-> <<>>]
  /\ backed = [d \in Devices |-> TRUE]
  /\ at = [d \in Devices |-> "launch"]
  /\ detail = [d \in Devices |-> Closed]
  /\ listed = [d \in Devices |-> {}]
  /\ fetch = [d \in Devices |-> [i \in Fetches |-> None]]
  /\ loading = [d \in Devices |-> FALSE]
  /\ answered = [d \in Devices |-> "none"]
  /\ taps = 0 /\ visits = 0 /\ kills = 0
  /\ stuck = [d \in Devices |-> FALSE]
  /\ damaged = {}

Answers(d) ==
  \/ ServeSet(d) \/ ServeRemove(d) \/ FavoriteAnswered(d) \/ ListAnswered(d)

Next ==
  \E d \in Devices :
    \/ \E g \in Stations : OpenFromSearch(d, g) \/ OpenFromList(d, g) \/ RemoveRow(d, g)
    \/ AddFav(d) \/ CloseDetail(d)
    \/ ShowFavorites(d) \/ ShowSearch(d) \/ LoseUser(d) \/ Kill(d)
    \/ Answers(d)
    \/ \E i \in Fetches : PricesArrive(d, i) \/ PricesFail(d, i)

\* Connections serve what they are sent; URLSession answers or fails.
Fairness ==
  \A d \in Devices :
    /\ WF_vars(Answers(d))
    /\ WF_vars(\E i \in Fetches : PricesArrive(d, i) \/ PricesFail(d, i))

Spec == Init /\ [][Next]_vars /\ Fairness

-----------------------------------------------------------------------------
(* Properties *)

\* The variables keep their types.
TypeOK ==
  /\ node \in [Stations -> SUBSET FieldSet]
  /\ wire \in [Devices -> Seq(Op)]
  /\ backed \in [Devices -> BOOLEAN]
  /\ at \in [Devices -> Places]
  /\ detail \in [Devices -> Detail]
  /\ listed \in [Devices -> SUBSET Stations]
  /\ fetch \in [Devices -> [Fetches -> (SUBSET Stations) \cup {None}]]
  /\ loading \in [Devices -> BOOLEAN]
  /\ answered \in [Devices -> {"none", "nil", "empty", "list"}]
  /\ taps \in Nat /\ visits \in Nat /\ kills \in Nat
  /\ stuck \in [Devices -> BOOLEAN]
  /\ damaged \subseteq Stations

Saving(g) == \E d \in Devices : MidSave(d, g)

\* A record lacks fields only while a save is under way, and the saving device does
\* not see it lack them (its reads overlay its unsent writes), unless a kill cut the
\* save or a removal from another device hit it half-way: such a record blocks
\* every getFavoritesList until it is removed or saved again (saveFavorite, one write
\* per field).
WholeRecords ==
  \A g \in Stations \ damaged :
    /\ node[g] \in {{}, FieldSet} \/ Saving(g)
    /\ \A d \in Devices :
         After(wire[d], g) \in {{}, FieldSet} \/ \E e \in Devices \ {d} : MidSave(e, g)

\* The list's activityIndicator stops unless a record is incomplete or a price
\* request failed (getFavorites; an indicator that a second showLoading replaced
\* meanwhile is no longer activityIndicator).
ListCompletes == \A d \in Devices : loading[d] ~> (~loading[d] \/ stuck[d])

\* "Todavía no has guardado ninguna gasolinera favorita": when the last answer was
\* an empty list, none is listed (FavoriteGasStationsViewController
\* .updateFavoritesList has a branch for the empty list).
EmptyListIsEmpty == \A d \in Devices : answered[d] = "empty" => listed[d] = {}
=============================================================================
