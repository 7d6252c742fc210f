---------------------------- MODULE TableScreens ----------------------------
(***************************************************************************)
(* The three screens that show a table from an array which an answer fills *)
(* later: the favourites, the towns to choose from, the stations found by  *)
(* a search.  All are BaseViewControllers with one activityIndicator, and  *)
(* all change their array at once and reload their table in a block on the *)
(* main queue, so that the user may touch a row in between.                *)
(*                                                                         *)
(* One such screen lives in a behaviour.  The towns are assigned on        *)
(* URLSession's queue while the main thread may be filtering them: the     *)
(* steps of the two threads interleave.                                    *)
(***************************************************************************)
EXTENDS Naturals, Sequences, SequencesExt

CONSTANTS
  Stations, Distance, Price,  \* of a station: distancia and precioProducto
  TownList,  \* nombreMunicipio of the service's towns, each a sequence of letters
  Texts,     \* what can be typed in the search bar
  Folded,    \* a letter in lower case and without diacritics
  Starred,   \* BOUND: the stations the user may make favourites
  MaxLoads,  \* BOUND: appearances of the favourites
  MaxQueue,  \* BOUND: blocks on the main queue when the user picks a mode
  None

Letters == DOMAIN Folded
Towns == 1..Len(TownList)
Parentheses == {"(", ")"}
Space == " "
Separators == Parentheses \cup {Space}
Marks(name) == {n \in 1..Len(name) : name[n] \in Parentheses}

ASSUME TableScreensAssumption ==
  /\ IsFiniteSet(Stations)
  /\ Distance \in [Stations -> Nat] /\ Price \in [Stations -> Nat]
  /\ TownList \in Seq(Seq(Letters)) /\ Texts \subseteq Seq(Letters)
  \* the only parentheses are around an article at the end, after a name and a space
  /\ \A t \in Towns : Marks(TownList[t]) # {} =>
       \E n \in 3..Len(TownList[t]) - 1 :
         Marks(TownList[t]) = {n, Len(TownList[t])} /\ TownList[t][n - 1] = Space
  \* only a separator is folded to a separator
  /\ \A c \in Letters : Folded[c] \in Separators <=> c \in Separators
  /\ Starred \subseteq Stations
  /\ MaxLoads \in Nat \ {0} /\ MaxQueue \in Nat
  /\ None \notin Stations \cup Towns \cup Seq(Stations) \cup Seq(Towns)

Loads == 1..MaxLoads
Modes == {"nearby", "cheapest", "cheapestNearby"}

VARIABLES
  screen,          \* which of the three it is
  \* Every screen
  at,              \* "list": its tab or its place on top of the stack; "away"; "gone"
  queue,           \* the main queue: blocks that show, hide or reload
  array, rows,     \* the array behind the table (None: nil), and what the table shows
  indicators,      \* showLoading so far: the last one made is activityIndicator
  spinning,        \* the indicators that are animating
  load,            \* how far each request for the array is
  crashed,
  \* FavoriteGasStationsViewController
  favs, snapshot,  \* users/<uid> as the device sees it, and as each load read it
  detail,          \* the station's screen that is open, on this tab or another
  \* TownSelectionViewController
  towns,           \* self.towns has been assigned
  text,            \* of the search bar
  filtering,       \* the towns textDidChange is filtering, None when it does not run
  \* SearchFuelViewController
  mode, menu, alert,
  \* History
  met,             \* what disturbed the screen: see Disturbances
  wrong,           \* a touch on a row acted on another station or town
  early            \* the last text or mode came before there was a list

table == <<at, queue, array, rows, indicators, spinning, load, crashed>>
favorites == <<favs, snapshot, detail>>
selection == <<towns, text, filtering>>
search == <<mode, menu, alert>>
history == <<met, wrong, early>>
vars == <<screen, table, favorites, selection, search, history>>

\* A load was asked for while another was open; a load arrived after a later one;
\* a row was swiped away while prices were looked up; an empty answer left a list
\* standing; a row was touched with a reload on the queue; two appends of a list of
\* favourites raced and a station is missing from it (module FavoritePrices).
Disturbances == {"overlap", "overtaken", "swipe", "empty", "late", "raced"}

Nobody == [g |-> None, favorita |-> FALSE, star |-> FALSE, tapped |-> FALSE]

Open(n) == load[n] \in {"asked", "read"}

\* The main thread can take the next block or touch.
MainIsFree == filtering = None /\ ~crashed

InFront == MainIsFree /\ at = "list" /\ detail = Nobody /\ ~menu /\ ~alert

ReloadQueued == \E n \in 1..Len(queue) : queue[n] = "reload"

-----------------------------------------------------------------------------
(* BaseViewController and the main queue *)

\* Every call makes an indicator; the one before keeps its place in the view.
showLoading ==
  /\ indicators' = indicators + 1
  /\ spinning' = spinning \cup {indicators'}

hideLoading ==
  /\ spinning' = spinning \ {indicators}
  /\ UNCHANGED indicators

\* reloadData; an empty list of a search is answered with an alert.
reloadData ==
  /\ rows' = IF array = None THEN <<>> ELSE array
  /\ alert' = (alert \/ (screen = "search" /\ array = <<>>))

RunBlock ==
  /\ MainIsFree /\ queue # <<>>
  /\ queue' = Tail(queue)
  /\ CASE Head(queue) = "show" -> showLoading /\ UNCHANGED <<rows, alert>>
       [] Head(queue) = "hide" -> hideLoading /\ UNCHANGED <<rows, alert>>
       [] OTHER -> reloadData /\ UNCHANGED <<indicators, spinning>>
  /\ UNCHANGED <<screen, at, array, load, crashed, favorites, selection, mode, menu, history>>

\* What the user touches is row n as it is shown; the code takes array[n], and an
\* array that has become shorter ends the app.
Touch(n) ==
  /\ n \in 1..Len(rows)
  /\ crashed' = (n > Len(array))
  /\ met' = IF ReloadQueued THEN met \cup {"late"} ELSE met
  /\ wrong' = (wrong \/ (n <= Len(array) /\ array[n] # rows[n]))

\* A failed request has no completion, and neither has the read of an incomplete
\* record of favourites (module Favorites): the load is lost.
RequestFails(n) ==
  /\ Open(n) /\ load' = [load EXCEPT ![n] = "lost"]
  /\ UNCHANGED <<screen, at, queue, array, rows, indicators, spinning, crashed,
                 favorites, selection, search, history>>

-----------------------------------------------------------------------------
(* The favourites *)

\* viewWillAppear: every appearance loads the list, whatever is open.
viewWillAppear(n) ==
  /\ load[n] = "none" /\ \A m \in Loads : m < n => load[m] # "none"
  /\ load' = [load EXCEPT ![n] = "asked"]
  /\ queue' = Append(queue, "show")
  /\ met' = IF \E m \in Loads : Open(m) THEN met \cup {"overlap"} ELSE met

ShowFavorites ==
  /\ screen = "favorites" /\ MainIsFree /\ at = "away" /\ detail = Nobody
  /\ at' = "list"
  /\ \E n \in Loads : viewWillAppear(n)
  /\ UNCHANGED <<screen, array, rows, indicators, spinning, crashed, favorites, selection,
                 search, wrong, early>>

ShowFuels ==
  /\ screen = "favorites" /\ InFront
  /\ at' = "away"
  /\ UNCHANGED <<screen, queue, array, rows, indicators, spinning, load, crashed, favorites,
                 selection, search, history>>

\* Mutant: an empty answer has no completion.
FavoritesRead_Silent(n) ==
  /\ screen = "favorites" /\ ~crashed /\ load[n] = "asked"
  /\ \A m \in Loads : m < n => load[m] # "asked"
  /\ load' = [load EXCEPT ![n] = IF favs = {} THEN "done" ELSE "read"]
  /\ snapshot' = [snapshot EXCEPT ![n] = favs]
  /\ met' = IF favs = {} /\ array # <<>> THEN met \cup {"empty"} ELSE met
  /\ UNCHANGED <<screen, at, queue, array, rows, indicators, spinning, crashed, favs, detail,
                 selection, search, wrong, early>>

\* The database answers in order.  No favourites: completion(nil), which only
\* hides the indicator.  Else the prices are looked up.
FavoritesRead(n) ==
  /\ screen = "favorites" /\ ~crashed /\ load[n] = "asked"
  /\ \A m \in Loads : m < n => load[m] # "asked"
  /\ load' = [load EXCEPT ![n] = IF favs = {} THEN "done" ELSE "read"]
  /\ queue' = IF favs = {} THEN Append(queue, "hide") ELSE queue
  /\ snapshot' = [snapshot EXCEPT ![n] = favs]
  /\ met' = IF favs = {} /\ array # <<>> THEN met \cup {"empty"} ELSE met
  /\ UNCHANGED <<screen, at, array, rows, indicators, spinning, crashed, favs, detail,
                 selection, search, wrong, early>>

\* What the answer of load n disturbs when it holds the stations S.
Disturbed(n, S) ==
  (IF \E m \in Loads : m > n /\ load[m] = "done" THEN {"overtaken"} ELSE {})
    \cup (IF S # snapshot[n] THEN {"raced"} ELSE {})

\* Mutant: only an empty array is filled.
updateFavoritesList_Once(n) ==
  /\ screen = "favorites" /\ MainIsFree /\ load[n] = "read"
  /\ load' = [load EXCEPT ![n] = "done"]
  /\ queue' = queue \o <<"hide", "reload">>
  /\ \E S \in (SUBSET snapshot[n]) \ {{}} :
       /\ \E s \in SetToSeqs(S) : array' = IF array = <<>> THEN s ELSE array
       /\ met' = met \cup Disturbed(n, S)
  /\ UNCHANGED <<screen, at, rows, indicators, spinning, crashed, favorites, selection, search,
                 wrong, early>>

\* The prices are there: the stations come in the order their prices did.  An append
\* that raced with another has lost some of them, never all.
updateFavoritesList(n) ==
  /\ screen = "favorites" /\ MainIsFree /\ load[n] = "read"
  /\ load' = [load EXCEPT ![n] = "done"]
  /\ queue' = queue \o <<"hide", "reload">>
  /\ \E S \in (SUBSET snapshot[n]) \ {{}} :
       /\ array' \in SetToSeqs(S)
       /\ met' = met \cup Disturbed(n, S)
  /\ UNCHANGED <<screen, at, rows, indicators, spinning, crashed, favorites, selection, search,
                 wrong, early>>

\* commit editingStyle: the favourite is removed and the table reloaded at once.
RemoveRow(n) ==
  /\ screen = "favorites" /\ InFront /\ n \in 1..Len(rows)
  /\ crashed' = (n > Len(array))
  /\ wrong' = (wrong \/ (n <= Len(array) /\ array[n] # rows[n]))
  /\ met' = met \cup (IF ReloadQueued THEN {"late"} ELSE {})
                \cup (IF \E m \in Loads : load[m] = "read" THEN {"swipe"} ELSE {})
  /\ IF crashed' THEN UNCHANGED <<favs, array, rows>>
     ELSE /\ favs' = favs \ {array[n]}
          /\ array' = RemoveAt(array, n)
          /\ rows' = array'
  /\ UNCHANGED <<screen, at, queue, indicators, spinning, load, snapshot, detail, selection,
                 search, early>>

\* didSelectRowAt: getFavoritesList has marked every station as a favourite.
OpenFavorite(n) ==
  /\ screen = "favorites" /\ InFront /\ Touch(n)
  /\ detail' = IF crashed' THEN Nobody
               ELSE [Nobody EXCEPT !.g = array[n], !.favorita = TRUE, !.star = TRUE]
  /\ UNCHANGED <<screen, at, queue, array, rows, indicators, spinning, load, favs, snapshot,
                 selection, search, early>>

\* On the other tab a search opens a station, with what isFavorite answered.
OpenFound(g) ==
  /\ screen = "favorites" /\ MainIsFree /\ at = "away" /\ detail = Nobody
  /\ detail' = [Nobody EXCEPT !.g = g, !.favorita = (g \in favs), !.star = (g \in favs)]
  /\ UNCHANGED <<screen, table, favs, snapshot, selection, search, history>>

\* Mutant: the colour is toggled, the flag is not.
addFav_Toggles ==
  /\ MainIsFree /\ detail # Nobody
  /\ favs' = IF detail.favorita THEN favs \ {detail.g} ELSE favs \cup {detail.g}
  /\ detail' = [detail EXCEPT !.star = ~@, !.tapped = TRUE]
  /\ UNCHANGED <<screen, table, snapshot, selection, search, history>>

\* The flag that is toggled is that of a copy: a second tap does the same again.
addFav ==
  /\ MainIsFree /\ detail # Nobody
  /\ favs' = IF detail.favorita THEN favs \ {detail.g} ELSE favs \cup {detail.g}
  /\ detail' = [detail EXCEPT !.star = ~detail.favorita, !.tapped = TRUE]
  /\ UNCHANGED <<screen, table, snapshot, selection, search, history>>

\* Back from a station: the list below, if it is there, appears again.
CloseDetail ==
  /\ MainIsFree /\ detail # Nobody
  /\ detail' = Nobody
  /\ \/ at = "list" /\ \E n \in Loads : viewWillAppear(n)
     \/ at = "away" /\ UNCHANGED <<load, queue, met>>
  /\ UNCHANGED <<screen, at, array, rows, indicators, spinning, crashed, favs, snapshot,
                 selection, search, wrong, early>>

-----------------------------------------------------------------------------
(* The towns *)

Fold(name) == [n \in 1..Len(name) |-> Folded[name[n]]]

\* "Ejido (El)" is shown as "El Ejido".
formatName(name) ==
  IF Marks(name) = {} THEN name
  ELSE LET first == Min(Marks(name))
           second == Min((Marks(name) \ {first}) \cup {Len(name) + 1})
       IN  SubSeq(name, first + 1, second - 1) \o <<Space>> \o SubSeq(name, 1, first - 2)

\* Mutant: what is typed is compared as it is.
Matches_Exact(t, typed) == typed = <<>> \/ typed \in SubSeqs(Fold(TownList[t]))

Matches(t, typed) == typed = <<>> \/ Fold(typed) \in SubSeqs(Fold(TownList[t]))

AllTowns == [n \in Towns |-> n]

\* The towns of a list that match, in the order of the service.
Filtered(list, typed) ==
  {s \in SetToSeqs({t \in ToSet(list) : Matches(t, typed)}) : IsSorted(s, LAMBDA x, y : x < y)}

\* self.towns: nothing until the service has answered.
Known == IF towns THEN AllTowns ELSE <<>>

\* textDidChange begins: the filter reads self.towns.
BeginFilter(typed) ==
  /\ screen = "towns" /\ InFront
  /\ text' = typed
  /\ filtering' = Known
  /\ early' = (load[1] # "done")
  /\ UNCHANGED <<screen, table, favorites, towns, search, met, wrong>>

\* Mutant: the table is not reloaded.
EndFilter_NoReload ==
  /\ filtering # None
  /\ filtering' = None
  /\ array' \in Filtered(IF text = <<>> THEN Known ELSE filtering, text)
  /\ UNCHANGED <<screen, at, queue, rows, indicators, spinning, load, crashed, favorites, towns,
                 text, search, history>>

\* It ends: filteredTowns is assigned, for an empty text from self.towns as it is
\* now, and the table reloaded at once.
EndFilter ==
  /\ filtering # None
  /\ filtering' = None
  /\ array' \in Filtered(IF text = <<>> THEN Known ELSE filtering, text)
  /\ rows' = array'
  /\ UNCHANGED <<screen, at, queue, indicators, spinning, load, crashed, favorites, towns, text,
                 search, history>>

\* On URLSession's queue: hideLoadingIndicator, then updateTowns assigns towns,
TownsAnswer ==
  /\ screen = "towns" /\ ~crashed /\ load[1] = "asked"
  /\ load' = [load EXCEPT ![1] = "updating"]
  /\ queue' = Append(queue, "hide")
  /\ towns' = TRUE
  /\ UNCHANGED <<screen, at, array, rows, indicators, spinning, crashed, favorites, text,
                 filtering, search, history>>

\* and then filteredTowns, and queues the reload.
updateTowns ==
  /\ load[1] = "updating" /\ ~crashed
  /\ load' = [load EXCEPT ![1] = "done"]
  /\ array' = AllTowns
  /\ queue' = Append(queue, "reload")
  /\ UNCHANGED <<screen, at, rows, indicators, spinning, crashed, favorites, selection, search,
                 history>>

\* saveTown(filteredTowns[n]), and the tab bar replaces the screen.
SelectTown(n) ==
  /\ screen = "towns" /\ InFront /\ Touch(n)
  /\ at' = "gone"
  /\ UNCHANGED <<screen, queue, array, rows, indicators, spinning, load, favorites, selection,
                 search, early>>

-----------------------------------------------------------------------------
(* A search *)

Before(m, s, o) ==
  CASE m = "nearby" -> Distance[s] < Distance[o]
    [] m = "cheapest" -> Price[s] < Price[o]
    [] OTHER -> IF Distance[s] = Distance[o] THEN Price[s] < Price[o]
                ELSE Distance[s] < Distance[o]

\* sortFuels: equal elements come in any order.
sortFuels(m, S) == {s \in SetToSeqs(S) : IsSorted(s, LAMBDA x, y : ~Before(m, y, x))}

\* hideLoadingIndicator, and the location is asked for (module Nearby).
PricesAnswer ==
  /\ screen = "search" /\ ~crashed /\ load[1] = "asked"
  /\ load' = [load EXCEPT ![1] = "read"]
  /\ queue' = Append(queue, "hide")
  /\ UNCHANGED <<screen, at, array, rows, indicators, spinning, crashed, favorites, selection,
                 search, history>>

\* The location: the distances, the default order, the list.
updateFuelList ==
  /\ screen = "search" /\ MainIsFree /\ load[1] = "read"
  /\ load' = [load EXCEPT ![1] = "done"]
  /\ \E S \in SUBSET Stations : array' \in sortFuels("cheapestNearby", S)
  /\ queue' = Append(queue, "reload")
  /\ UNCHANGED <<screen, at, rows, indicators, spinning, crashed, favorites, selection, search,
                 history>>

showOptionsPopover ==
  /\ screen = "search" /\ InFront
  /\ menu' = TRUE
  /\ UNCHANGED <<screen, table, favorites, selection, mode, alert, history>>

\* Mutant: the list is sorted by the mode there was.
updateSearchMode_Old(m) ==
  /\ menu /\ MainIsFree /\ Len(queue) <= MaxQueue
  /\ mode' = m /\ menu' = FALSE
  /\ early' = (array = None)
  /\ IF array = None THEN UNCHANGED <<array, queue>>
     ELSE array' \in sortFuels(mode, ToSet(array)) /\ queue' = queue \o <<"reload", "reload">>
  /\ UNCHANGED <<screen, at, rows, indicators, spinning, load, crashed, favorites, selection,
                 alert, met, wrong>>

\* The label at once; with a list, sortFuels and two reloads.
updateSearchMode(m) ==
  /\ menu /\ MainIsFree /\ Len(queue) <= MaxQueue
  /\ mode' = m /\ menu' = FALSE
  /\ early' = (array = None)
  /\ IF array = None THEN UNCHANGED <<array, queue>>
     ELSE array' \in sortFuels(m, ToSet(array)) /\ queue' = queue \o <<"reload", "reload">>
  /\ UNCHANGED <<screen, at, rows, indicators, spinning, load, crashed, favorites, selection,
                 alert, met, wrong>>

dismiss ==
  /\ menu /\ MainIsFree
  /\ menu' = FALSE
  /\ UNCHANGED <<screen, table, favorites, selection, mode, alert, history>>

\* didSelectRowAt takes the station from the list it holds at that time.
OpenStation(n) ==
  /\ screen = "search" /\ InFront /\ Touch(n)
  /\ at' = "away"
  /\ UNCHANGED <<screen, queue, array, rows, indicators, spinning, load, favorites, selection,
                 search, early>>

BackToSearch ==
  /\ screen = "search" /\ MainIsFree /\ at = "away"
  /\ at' = "list"
  /\ UNCHANGED <<screen, queue, array, rows, indicators, spinning, load, crashed, favorites,
                 selection, search, history>>

\* NO_FUEL_IN_TOWN: accepting it goes back to the fuels.
AcceptAlert ==
  /\ alert /\ MainIsFree
  /\ alert' = FALSE /\ at' = "gone"
  /\ UNCHANGED <<screen, queue, array, rows, indicators, spinning, load, crashed, favorites,
                 selection, mode, menu, history>>

-----------------------------------------------------------------------------
\* The favourites have not appeared yet.  The other two are at the end of
\* viewDidLoad: the towns have called showLoadingIndicator, the search had no
\* delegate to call.
Init ==
  /\ screen \in {"favorites", "towns", "search"}
  /\ at = IF screen = "favorites" THEN "away" ELSE "list"
  /\ queue = IF screen = "towns" THEN <<"show">> ELSE <<>>
  /\ array = IF screen = "search" THEN None ELSE <<>>
  /\ rows = <<>> /\ indicators = 0 /\ spinning = {}
  /\ load = [n \in Loads |-> IF n = 1 /\ screen # "favorites" THEN "asked" ELSE "none"]
  /\ crashed = FALSE
  /\ IF screen = "favorites" THEN favs \in SUBSET Starred ELSE favs = {}
  /\ snapshot = [n \in Loads |-> {}] /\ detail = Nobody
  /\ towns = FALSE /\ text = <<>> /\ filtering = None
  /\ mode = "cheapestNearby" /\ menu = FALSE /\ alert = FALSE
  /\ met = {} /\ wrong = FALSE /\ early = FALSE

Answers ==
  \/ TownsAnswer \/ updateTowns \/ PricesAnswer \/ updateFuelList
  \/ \E n \in Loads : FavoritesRead(n) \/ updateFavoritesList(n) \/ RequestFails(n)

Row(n) == RemoveRow(n) \/ OpenFavorite(n) \/ SelectTown(n) \/ OpenStation(n)

User ==
  \/ ShowFavorites \/ ShowFuels \/ addFav \/ CloseDetail
  \/ showOptionsPopover \/ dismiss \/ BackToSearch \/ AcceptAlert
  \/ \E g \in Starred : OpenFound(g)
  \/ \E typed \in Texts : BeginFilter(typed)
  \/ \E m \in Modes : updateSearchMode(m)
  \/ \E n \in 1..Len(rows) : Row(n)

Next == RunBlock \/ EndFilter \/ Answers \/ User

\* The main run loop gets to its queue however much the user types, and every
\* request is answered or fails.
Fairness == SF_vars(RunBlock) /\ WF_vars(EndFilter) /\ WF_vars(Answers)

Spec == Init /\ [][Next]_vars /\ Fairness

-----------------------------------------------------------------------------
(* Properties *)

\* The variables keep their types.
TypeOK ==
  /\ screen \in {"favorites", "towns", "search"} /\ at \in {"list", "away", "gone"}
  /\ queue \in Seq({"show", "hide", "reload"})
  /\ array \in Seq(Stations) \cup Seq(Towns) \cup {None}
  /\ rows \in Seq(Stations) \cup Seq(Towns)
  /\ indicators \in Nat /\ spinning \subseteq 1..indicators
  /\ load \in [Loads -> {"none", "asked", "read", "updating", "done", "lost"}]
  /\ favs \subseteq Starred /\ snapshot \in [Loads -> SUBSET Starred]
  /\ detail \in [g : Stations \cup {None}, favorita : BOOLEAN, star : BOOLEAN, tapped : BOOLEAN]
  /\ towns \in BOOLEAN /\ text \in Texts \cup {<<>>} /\ filtering \in Seq(Towns) \cup {None}
  /\ mode \in Modes /\ menu \in BOOLEAN /\ alert \in BOOLEAN /\ crashed \in BOOLEAN
  /\ met \subseteq Disturbances /\ wrong \in BOOLEAN /\ early \in BOOLEAN

Settled == MainIsFree /\ queue = <<>>

\* A touch acts on the row that was touched unless it falls between a new array and
\* its reload; for a town a text must also have been filtered between the two
\* assignments of updateTowns.  Only the favourites, whose array may get shorter,
\* can end the app (didSelectRowAt, commit editingStyle, updateFavoritesList,
\* updateFuelList).
TouchHitsItsRow ==
  /\ wrong \/ crashed => "late" \in met /\ (screen = "towns" => early)
  /\ crashed => screen = "favorites"

\* With nothing under way the favourites shown are the user's, unless loads were
\* overtaken, a row was swiped away during a look-up, an empty answer left the
\* list standing, a touch came late or the appends of a list raced (getFavorites,
\* updateFavoritesList).
ListIsCurrent ==
  screen = "favorites" /\ Settled /\ at = "list" /\ detail = Nobody
    /\ (\A n \in Loads : ~Open(n) /\ load[n] # "lost")
    /\ met \subseteq {"overlap"}
  => ToSet(rows) = favs

\* An indicator spins exactly while a load is waited for or was lost, unless two
\* loads overlapped: the second showLoading replaces the indicator and the first
\* one is never stopped.  A search never shows one, having no delegate in time
\* (showLoading, hideLoading, searchFuel).
IndicatorTellsTruth ==
  Settled /\ "overlap" \notin met =>
    (spinning # {} <=> screen # "search" /\ \E n \in Loads : Open(n) \/ load[n] = "lost")

\* Every indicator stops unless a load was lost, its request failing or its record
\* in the database being incomplete, or two loads overlapped (the completions call
\* hideLoadingIndicator).
IndicatorStops ==
  (spinning # {}) ~>
    \/ spinning = {} \/ "overlap" \in met \/ crashed
    \/ \E n \in Loads : load[n] = "lost"

\* A text without spaces finds exactly the towns whose name as shown contains it,
\* whatever the case and the accents, unless it was typed before the towns were
\* there: the answer overwrites the filter, or the filter the answer (textDidChange
\* looks at the unformatted name, the cell shows formatName).
FilterFindsShownNames ==
  screen = "towns" /\ Settled /\ load[1] = "done" /\ ~early
    /\ ToSet(text) \cap Separators = {} =>
    ToSet(rows) =
      {t \in Towns : Fold(text) \in SubSeqs(Fold(formatName(TownList[t]))) \/ text = <<>>}

\* The list is in the order its label says, nobody further down being nearer, or
\* cheaper, or both, unless the mode was picked before the list was there
\* (updateSearchMode, sortFuels).
OrderIsLabelled ==
  screen = "search" /\ Settled /\ ~early =>
    \A i, j \in 1..Len(rows) : i < j =>
      /\ mode # "cheapest" => Distance[rows[i]] <= Distance[rows[j]]
      /\ mode = "cheapest" => Price[rows[i]] <= Price[rows[j]]
      /\ mode = "cheapestNearby" /\ Distance[rows[i]] = Distance[rows[j]] =>
           Price[rows[i]] <= Price[rows[j]]

\* The star that was tapped tells whether the station is a favourite now, however
\* often it was tapped (addFav).
StarTellsTruth == detail # Nobody /\ detail.tapped => (detail.star <=> detail.g \in favs)
=============================================================================
