------------------------------- MODULE Nearby -------------------------------
(***************************************************************************)
(* The screens that need the user's location and the one LocationLayer     *)
(* they share: the fuels screen checks whether the user has left the saved *)
(* town, a search lists stations by distance, a station's screen and the   *)
(* favourites show a map.                                                  *)
(*                                                                         *)
(* LocationLayer has one handleLocation: whoever asks last is answered.    *)
(* A screen that was left keeps its requests.  The tab bar starts with the *)
(* favourites; the fuels screen is loaded when its tab is first shown.     *)
(***************************************************************************)
EXTENDS Naturals, Sequences

CONSTANTS
  Towns,       \* the towns the service knows
  Strange,     \* cities of the geocoder that are no such town
  MaxScreens,  \* BOUND: screens opened
  MaxChanges,  \* BOUND: changes of the permission in the settings
  None

ASSUME NearbyAssumption ==
  /\ Towns # {} /\ Towns \cap Strange = {} /\ None \notin Towns \cup Strange \cup 1..MaxScreens
  /\ MaxScreens \in Nat \ {0} /\ MaxChanges \in Nat

Screens == 1..MaxScreens
Kinds == {"none", "fuels", "favorites", "towns", "search", "detail"}
Phases == {"none", "idle", "refused", "prices", "location", "geocoding", "towns",
           "listed", "placed", "dead"}

VARIABLES
  permission, prompt,      \* the authorization, and iOS asking for it
  handler, updating,       \* handleLocation, and the location manager running
  opened, kind, phase,     \* the screens so far and how far each is
  favorites, fuels,        \* the tabs of the tab bar; the second is loaded when shown
  tab, stack,              \* what is visible: a tab, or the screen on top of it
  town,                    \* the saved town, which the fuels screen shows
  fetched, city,           \* per fuels screen: the town it started with, where the user is
  alert,                   \* the town the fuels screen offers to change to
  told,                    \* screens that have shown why there is no location
  crashed,
  changes,
  failed                   \* History: the location failed

layer == <<permission, prompt, handler, updating>>
navigation == <<opened, kind, fuels, favorites, tab, stack>>
towns == <<town, fetched, city, alert, crashed>>
vars == <<layer, navigation, phase, towns, told, changes, failed>>

isLocationEnabled == permission = "granted"

Visible(c) ==
  IF stack = <<>> THEN c = (IF tab = "fuels" THEN fuels ELSE favorites)
  ELSE c = stack[Len(stack)]

OnStack(c) == \E n \in 1..Len(stack) : stack[n] = c

-----------------------------------------------------------------------------
(* LocationLayer *)

\* Repository.getLocation: the handler is replaced; iOS asks for the permission if
\* it never did; the manager starts if the permission is there already.
getLocation(c) ==
  /\ handler' = c
  /\ prompt' = (prompt \/ permission = "undetermined")
  /\ updating' = (updating \/ isLocationEnabled)
  /\ UNCHANGED permission

\* Nothing is told of the answer: the manager is not started.
AnswerPrompt ==
  /\ prompt /\ prompt' = FALSE
  /\ permission' \in {"granted", "denied"}
  /\ UNCHANGED <<handler, updating, navigation, phase, towns, told, changes, failed>>

ChangeSettings ==
  /\ permission # "undetermined" /\ changes < MaxChanges
  /\ changes' = changes + 1
  /\ permission' = IF isLocationEnabled THEN "denied" ELSE "granted"
  /\ UNCHANGED <<prompt, handler, updating, navigation, phase, towns, told, failed>>

\* What a screen does with a location: its list (module
\* TableScreens), its map, or the geocoder.
Handled(c) ==
  CASE kind[c] = "search" -> "listed"
    [] kind[c] = "fuels" -> "geocoding"
    [] OTHER -> "placed"

\* Mutant: a screen that was left is not called.
LocationArrives_VisibleOnly ==
  /\ updating /\ isLocationEnabled
  /\ updating' = FALSE
  /\ phase' = IF Visible(handler) THEN [phase EXCEPT ![handler] = Handled(handler)] ELSE phase
  /\ UNCHANGED <<permission, prompt, handler, navigation, towns,
                 told, changes, failed>>

\* didUpdateLocations.
LocationArrives ==
  /\ updating /\ isLocationEnabled
  /\ updating' = FALSE
  /\ phase' = [phase EXCEPT ![handler] = Handled(handler)]
  /\ UNCHANGED <<permission, prompt, handler, navigation, towns,
                 told, changes, failed>>

\* didFailWithError tells nobody.
LocationFails ==
  /\ updating
  /\ updating' = FALSE /\ failed' = TRUE
  /\ UNCHANGED <<permission, prompt, handler, navigation, phase, towns, told, changes>>

-----------------------------------------------------------------------------
(* The fuels screen *)

\* With the permission the location is asked for.
fetchSelectedTown(c, t) ==
  /\ fetched' = [fetched EXCEPT ![c] = t]
  /\ IF isLocationEnabled
     THEN getLocation(c) /\ phase' = [phase EXCEPT ![c] = "location"]
     ELSE UNCHANGED layer /\ phase' = [phase EXCEPT ![c] = "idle"]

\* selectTown pushes the list of towns (module TableScreens).
OpenTowns ==
  /\ stack = <<>> /\ tab = "fuels" /\ alert = None
  /\ opened < MaxScreens /\ opened' = opened + 1
  /\ kind' = [kind EXCEPT ![opened'] = "towns"]
  /\ phase' = [phase EXCEPT ![opened'] = "idle"]
  /\ stack' = <<opened'>>
  /\ UNCHANGED <<layer, fuels, favorites, tab, towns, told, changes, failed>>

\* A town of the list is selected: it is saved and the tab bar built anew, with the
\* favourites in front: setUpMap asks for the location whatever the permission is.
ChooseTown(t) ==
  /\ stack # <<>> /\ kind[stack[Len(stack)]] = "towns"
  /\ opened < MaxScreens /\ opened' = opened + 1
  /\ town' = t
  /\ kind' = [kind EXCEPT ![opened'] = "favorites"]
  /\ favorites' = opened' /\ fuels' = None /\ tab' = "favorites" /\ stack' = <<>>
  /\ getLocation(opened')
  /\ phase' = [phase EXCEPT ![opened'] = "location"]
  /\ UNCHANGED <<fetched, city, alert, crashed, told, changes, failed>>

\* Mutant: the city is not compared with the town.
GeocodeAnswers_NoCompare(c, p) ==
  /\ phase[c] = "geocoding"
  /\ city' = [city EXCEPT ![c] = p]
  /\ phase' = [phase EXCEPT ![c] = "towns"]
  /\ UNCHANGED <<layer, navigation, town, fetched, alert, crashed,
                 told, changes, failed>>

GeocodeAnswers(c, p) ==
  /\ phase[c] = "geocoding"
  /\ IF p = fetched[c]
     THEN phase' = [phase EXCEPT ![c] = "idle"] /\ UNCHANGED city
     ELSE phase' = [phase EXCEPT ![c] = "towns"] /\ city' = [city EXCEPT ![c] = p]
  /\ UNCHANGED <<layer, navigation, town, fetched, alert, crashed,
                 told, changes, failed>>

\* The geocoder or the request for the towns fails.
TownCheckFails(c) ==
  /\ phase[c] \in {"geocoding", "towns"}
  /\ phase' = [phase EXCEPT ![c] = "idle"] /\ city' = [city EXCEPT ![c] = None]
  /\ UNCHANGED <<layer, navigation, town, fetched, alert, crashed,
                 told, changes, failed>>

\* newTown[0]: no town of that name ends the app.  The alert is only presented by a
\* screen that is in the window.
TownsAnswer(c) ==
  /\ phase[c] = "towns"
  /\ phase' = [phase EXCEPT ![c] = "idle"] /\ city' = [city EXCEPT ![c] = None]
  /\ crashed' = (city[c] \notin Towns)
  /\ alert' = IF city[c] \in Towns /\ c = fuels /\ Visible(c) THEN city[c] ELSE alert
  /\ UNCHANGED <<layer, navigation, town, fetched, told, changes, failed>>

AcceptTown ==
  /\ alert # None
  /\ town' = alert /\ alert' = None
  /\ UNCHANGED <<layer, navigation, phase, fetched, city, crashed, told, changes, failed>>

CancelTown ==
  /\ alert # None
  /\ alert' = None
  /\ UNCHANGED <<layer, navigation, phase, town, fetched, city, crashed, told,
                 changes, failed>>

-----------------------------------------------------------------------------
(* A search *)

\* Mutant: the prices are asked for without looking at the permission.
searchFuel_NoCheck(c, delegate) ==
  /\ phase' = [phase EXCEPT ![c] = "prices"]
  /\ UNCHANGED told

\* With the permission the prices are asked for; without it the delegate is told.
searchFuel(c, delegate) ==
  /\ phase' = [phase EXCEPT ![c] = IF isLocationEnabled THEN "prices" ELSE "refused"]
  /\ told' = IF ~isLocationEnabled /\ delegate THEN told \cup {c} ELSE told

\* viewDidLoad: setUpUI searches, and only then setDelegates runs.
OpenSearch ==
  /\ stack = <<>> /\ tab = "fuels" /\ alert = None
  /\ opened < MaxScreens /\ opened' = opened + 1
  /\ kind' = [kind EXCEPT ![opened'] = "search"]
  /\ stack' = <<opened'>>
  /\ searchFuel(opened', FALSE)
  /\ UNCHANGED <<layer, fuels, favorites, tab, towns, changes, failed>>

\* The prices arrive, whether the screen is still there or not.
PricesAnswer(c) ==
  /\ phase[c] = "prices"
  /\ getLocation(c)
  /\ phase' = [phase EXCEPT ![c] = "location"]
  /\ UNCHANGED <<navigation, towns, told, changes, failed>>

PricesFail(c) ==
  /\ phase[c] = "prices"
  /\ phase' = [phase EXCEPT ![c] = "dead"]
  /\ UNCHANGED <<layer, navigation, towns, told, changes, failed>>

-----------------------------------------------------------------------------
(* A station's screen, the favourites, going back *)

\* GasStationLocationViewModel.getLocation: without the permission an alert says so.
showLocation(c) ==
  IF isLocationEnabled
  THEN getLocation(c) /\ phase' = [phase EXCEPT ![c] = "location"] /\ UNCHANGED told
  ELSE UNCHANGED layer /\ phase' = [phase EXCEPT ![c] = "refused"] /\ told' = told \cup {c}

\* From a row of a search's list or of the favourites.
OpenDetail ==
  /\ IF stack = <<>> THEN tab = "favorites" ELSE phase[stack[Len(stack)]] = "listed"
  /\ opened < MaxScreens /\ opened' = opened + 1
  /\ kind' = [kind EXCEPT ![opened'] = "detail"]
  /\ stack' = Append(stack, opened')
  /\ showLocation(opened')
  /\ UNCHANGED <<fuels, favorites, tab, towns, changes, failed>>

Back ==
  /\ stack # <<>>
  /\ stack' = SubSeq(stack, 1, Len(stack) - 1)
  /\ UNCHANGED <<layer, opened, kind, fuels, favorites, tab, phase, towns, told,
                 changes, failed>>

\* Mutant: the favourites ask for the location each time they appear.
ShowFavorites_AsksAgain ==
  /\ stack = <<>> /\ tab = "fuels" /\ alert = None
  /\ tab' = "favorites"
  /\ getLocation(favorites)
  /\ phase' = [phase EXCEPT ![favorites] = "location"]
  /\ UNCHANGED <<opened, kind, fuels, favorites, stack, towns, told, changes, failed>>

ShowFavorites ==
  /\ stack = <<>> /\ tab = "fuels" /\ alert = None
  /\ tab' = "favorites"
  /\ UNCHANGED <<layer, opened, kind, fuels, favorites, stack, phase, towns, told,
                 changes, failed>>

\* The first time the tab is shown its screen is loaded, and looks for the user.
ShowFuels ==
  /\ stack = <<>> /\ tab = "favorites"
  /\ tab' = "fuels"
  /\ IF fuels = None
     THEN /\ opened < MaxScreens /\ opened' = opened + 1
          /\ kind' = [kind EXCEPT ![opened'] = "fuels"]
          /\ fuels' = opened'
          /\ fetchSelectedTown(opened', town)
     ELSE UNCHANGED <<layer, opened, kind, fuels, fetched, phase>>
  /\ UNCHANGED <<favorites, stack, town, city, alert, crashed, told, changes, failed>>

-----------------------------------------------------------------------------
\* The tab bar after the launch, its first screen loaded.
Init ==
  /\ permission \in {"undetermined", "granted", "denied"}
  /\ town \in Towns
  /\ opened = 1 /\ kind = [c \in Screens |-> IF c = 1 THEN "favorites" ELSE "none"]
  /\ favorites = 1 /\ fuels = None /\ tab = "favorites" /\ stack = <<>>
  /\ fetched = [c \in Screens |-> None]
  /\ city = [c \in Screens |-> None] /\ alert = None
  /\ handler = 1 /\ prompt = (permission = "undetermined") /\ updating = isLocationEnabled
  /\ phase = [c \in Screens |-> IF c = 1 THEN "location" ELSE "none"]
  /\ told = {} /\ crashed = FALSE /\ changes = 0 /\ failed = FALSE

Screen(c) ==
  \/ TownCheckFails(c) \/ TownsAnswer(c) \/ PricesAnswer(c) \/ PricesFail(c)
  \/ \E p \in Towns \cup Strange : GeocodeAnswers(c, p)

Next ==
  /\ ~crashed
  /\ \/ AnswerPrompt \/ ChangeSettings \/ LocationArrives \/ LocationFails
     \/ AcceptTown \/ CancelTown \/ OpenTowns \/ OpenSearch \/ OpenDetail \/ Back
     \/ ShowFavorites \/ ShowFuels
     \/ \E t \in Towns : ChooseTown(t)
     \/ \E c \in Screens : Screen(c)

\* A running location manager finds the user or fails.
Fairness == WF_vars(~crashed /\ (LocationArrives \/ LocationFails))

Spec == Init /\ [][Next]_vars /\ Fairness

-----------------------------------------------------------------------------
(* Properties *)

\* The variables keep their types.
TypeOK ==
  /\ permission \in {"undetermined", "granted", "denied"} /\ prompt \in BOOLEAN
  /\ handler \in Screens /\ updating \in BOOLEAN
  /\ opened \in Screens /\ kind \in [Screens -> Kinds] /\ phase \in [Screens -> Phases]
  /\ favorites \in Screens /\ fuels \in Screens \cup {None}
  /\ tab \in {"fuels", "favorites"} /\ stack \in Seq(Screens)
  /\ town \in Towns /\ alert \in Towns \cup {None}
  /\ fetched \in [Screens -> Towns \cup {None}]
  /\ city \in [Screens -> Towns \cup Strange \cup {None}]
  /\ told \subseteq Screens /\ crashed \in BOOLEAN
  /\ changes \in Nat /\ failed \in BOOLEAN

\* A screen that waits in front of the user is the one that will be answered, unless
\* a search that was left asked after it, as its prices came late, or it is a tab
\* that lost the only handler to a screen opened later: the favourites to the fuels
\* when their tab was first shown, or a tab to a station's screen that has been left
\* again.  The favourites never take it from the fuels, and in front of a tab only
\* a search that was left takes it (Repository.getLocation).
RobbersAreKnown ==
  \A c \in Screens : Visible(c) /\ phase[c] = "location" /\ handler # c =>
    \/ kind[handler] = "search" /\ ~OnStack(handler)
    \/ stack = <<>> /\ handler > c /\ kind[handler] \in {"fuels", "detail"}

\* The alert never offers the town that is already selected, however late the
\* geocoder and the towns answer (fetchSelectedTown).
AlertOffersAnother == alert # town

\* Whoever holds the handler of a running location manager is answered, or another
\* takes the handler, or the location fails (didUpdateLocations).
HandlerIsAnswered ==
  \A c \in Screens :
    (updating /\ handler = c /\ phase[c] = "location")
      ~> (phase[c] # "location" \/ handler # c \/ failed \/ crashed)

\* The screen is given up on without its location: it was refused, or it holds the
\* handler and the manager does not run.
GivenUp(c) ==
  \/ phase[c] = "refused"
  \/ phase[c] = "location" /\ handler = c /\ ~updating

\* A search or a station's screen that is given up on has said so, unless the
\* location failed, the permission changed under it, or it is a search that was
\* refused at once: that one has no delegate yet (didFailWithError,
\* startGettingLocation, SearchFuelViewController.viewDidLoad).
SilenceIsExplained ==
  \A c \in Screens : kind[c] \in {"search", "detail"} /\ GivenUp(c) =>
    c \in told \/ failed \/ changes > 0 \/ (kind[c] = "search" /\ phase[c] = "refused")
=============================================================================
