# A TLA+ model of MasGas

MasGas is an iOS app (Swift, `src/MasGas/MasGas`) that looks up fuel prices in
Spain: the stations of the user's town, the favourite stations kept in
Firebase, and the cheapest stations along a route. All of its difficulty is in
asynchronous completions: Firebase Auth and the Realtime Database, a price
service reached with `URLSession`, MapKit, the geocoder and one location
manager all answer later, on several queues, while the user goes on and the
process may be killed. Nothing in the repository tests those orders. These
modules do.

## 1. Inventory

| Component | State | Operations | Hard behaviour | What makes it correct |
|---|---|---|---|---|
| Session (`AuthenticationLayer`, `Repository`, `LoginViewModel`, `SignUpViewModel`, `SceneDelegate`, controllers) | keys `User` and `Town` of `UserDefaults`, Firebase's `currentUser`, Google's saved sign-in, the navigation stack, open requests | sign-in by email, Google, Apple; sign-up; logout; account deletion; launch; town selection | `User` and `currentUser` are written at different moments on different threads; completions outlive their screens; kills | the two identities agree, the tab bar has a town, a deletion ends in a logout |
| Migration (`RemoteDataStore`, extension) | the old node named after the email, `users/<uid>`, requests and answers in flight | `checkUserMigration`, `migrateUserData`, `deleteOldUserData` | the old node is removed after the first child; `User` is re-read in every callback | nothing is lost, nobody gets another's data, the migration ends |
| Favourites (`RemoteDataStore`, `FavoriteGasStationsViewController`, `GasStationLocationViewController`) | `users/<uid>/<station>`, unsent writes per device, list, star, loading | `saveFavorite`, `removeFavorite`, `getFavoritesList`, `isFavorite` | one write per field; several devices; kills; a partial record swallows the completion | records are whole, the list stops loading, an empty list looks empty |
| Prices of the favourites (`Repository.getFavoritesList`, `getFuelPriceByGasStation`) | two levels of `DispatchGroup`, the array `gasStations` | requests for towns, fuels and prices; append; notify | unsynchronised append from two queues; failed requests leave no group | every favourite once, with all prices; one completion |
| Route planner (`RouteViewController`) | texts, annotations, routes, overlays, button | pick, edit, switch, tap, search and directions answers | nothing is cancelled or numbered; a switch fires two observers | route, pins and drawing belong to the ends shown |
| Stations along a route (`GasStationsOnRouteViewModel`) | queue of key points, municipalities, price group, list | sweep of the geocoder, price fan-out, cheapest per town; key points by distance | rate limit; searches that outlive their screens; failures | the list is complete and cheapest, the sweep is paced and ends |
| Location (`LocationLayer`, `FuelsViewModel`, `SearchFuelViewModel`) | one `handleLocation`, permission, one manager | town check, search, map | whoever asks last gets the answer; permission can change | who may take the handler from whom; who is told; what the town alert offers |
| Tables (`BaseViewController`, `FavoriteGasStationsViewController`, `TownSelectionViewController`, `SearchFuelViewController`) | the array behind a table, the rows shown, the indicators, the blocks on the main queue, the filter's text, the sort mode | load on appearance, `showLoading`, `hideLoading`, `reloadData`, touch, swipe, filter, sort, star | arrays change before their tables; loads overlap; the towns are assigned off the main thread; an indicator is replaced while it spins | a touch acts on the row touched, lists are current and in the order of their label, indicators stop |
| Options and fuels screens | saved town, which options are offered | pick a town, log out, delete | | part of Session and Nearby |
| Local store | caches of fuels and towns | read, write | written as `Data`, read as arrays: never hit | not modelled: the network is always asked |
| Use cases, models, cells, fonts, `AutoCompleteSearch`, `EncryptionLayer` (unused), pods | | | | not modelled, see section 8 |

Interaction: every screen's view model calls use cases that call
`Repository.shared`, which calls `RemoteDataStore`, `AuthenticationLayer`,
`LocationLayer` or `UserDefaults`; results come back through completions and
delegates. Session hands the uid to Migration and Favorites through
`currentUser` (Favorites' `LoseUser` is what Session's `FlagIsBacked`
describes); Favorites hands a list of stations to FavoritePrices
(`PricesArrive`, `PricesFail` are its two outcomes); RoutePlanner hands a route
to RouteGasStations, whose key points are computed by KeyPoints. TableScreens
looks at what Favorites, Nearby and Session know as events (a list arrives, a
town is chosen) from the side of the screen that shows it.

## 2. Modules

| Module | Models | MC module, configurations |
|---|---|---|
| `Session` | accounts, keys, stack, authentication requests and the main queue | `MCSession`: `MCSession.cfg`, `MCSessionLive.cfg`, `MCSession_DeletedDataIsGone.cfg` |
| `Session_proofs` | theorems about `Session` | |
| `Migration` | the three migration functions and the database connection | `MCMigration` |
| `Migration_proofs` | theorems about `Migration` | |
| `FanOut` | abstract: what a `DispatchGroup` promises | |
| `FavoritePrices` | the price look-up, refines `FanOut` | `MCFavoritePrices` |
| `FavoritePrices_proofs` | theorems about `FavoritePrices`, the refinement among them | |
| `Favorites` | records, devices, star and list | `MCFavorites`: `MCFavorites.cfg`, `MCFavorites_EmptyListIsEmpty.cfg` |
| `Favorites_proofs` | theorems about `Favorites` | |
| `RoutePlanner` | the route screen | `MCRoutePlanner` |
| `RouteTrip` | the route screen under the stations screen it opens | `MCRouteTrip` |
| `RoutePlanner_proofs` | theorems about `RoutePlanner` and `RouteTrip` | |
| `RouteGasStations` | the search along a route, whose price requests refine `FanOut` | `MCRouteGasStations` |
| `RouteGasStations_proofs` | theorems about `RouteGasStations`, the refinement among them, and about `KeyPoints` | |
| `KeyPoints` | the loop that picks key points | `KeyPoints.cfg` on the module itself |
| `Nearby` | the screens that share the location handler | `MCNearby` |
| `Nearby_proofs` | theorems about `Nearby` | |
| `TableScreens` | the favourites, towns and search results as tables with an indicator | `MCTableScreens` |
| `TableScreens_proofs` | theorems about `TableScreens` | |

In every module a variable is named after the property or key it stands for,
an action after the method or callback, and history variables (marked
`History`) record only what a property needs to tell cases apart. Actions whose
name ends in `_Something` and whose comment begins with "Mutant" are wrong
variants kept to show that a property can fail; no specification uses them.
`PROJECT.json` maps every definition to its lines, all of them in the app's own
Swift code under `src/MasGas/MasGas` (about a third of its 5,300 lines, the rest
being layout, imports, protocols and pass-through classes). The C, C++ and
Objective-C files of the repository are vendored pods and are not modelled.

The modules of the app's screens and data define `TypeOK`; the session's is checked
by its run, and all of them are proved, as the first part of each inductive
invariant.

### Session
`req` holds the open authentication requests (`Slots` of them), each going
through sent, accepted by the backend, queued on the main queue, completed.
Firebase changes `currentUser` on its own thread (`AnswerArrives`) before the
completion runs (`SignInCompletes`, `SignUpCompletes`, `SignInErrs`,
`DeleteCompletes`), which is when `Repository` writes `User`. `nav` is the
stack of screens; `LoginDidAppear` is `viewDidAppear` with its check. `Relaunch`
(a kill and the next launch) loses requests and queue and keeps the keys.
`Repository.signOut` makes several persistent writes, Google's sign-in and
Firebase's user in `AuthSignOut` (which may throw) and then the keys:
`KilledInSignOut` is the kill between any two of them. `ForcedSignOut` is Firebase
signing its user out by itself when a token is refused. `orphaned` and `cut`
remember a sign-in that finished after its screen had gone and one a kill
swallowed, `lost` that Firebase lost its user in one of those two ways and nobody
signed in since. `hasData` knows the favourites the app saved; what a migration
brings is Migration's subject and would be removed, or not, in the same way.

### Migration
`wire` is the ordered connection, `answers` the callbacks not yet run. A
callback reads `userKey` when it runs. A read sees the database overlaid with the
device's own pending writes (`FoundAt`, `OldAt`), so that a favourite saved before
the check is answered makes `snapshot.exists()` true. A write may be rejected; a
kill loses what is unsent. History variables record what disturbed a migration (a
change of user, a kill, a rejected write) and such a favourite (`early`); `OnItsWay` are
the children a migration under way still holds. A snapshot lists its children in
some order (`Listings`), of which the model knows only that it is one.

### Favorites
Every field is a write of its own on the device's `wire`; a device reads the
database overlaid with its own unsent writes (`After`). `ListAnswered` has the
three outcomes of the callback: an incomplete record (no completion), nothing
(nil), a look-up of prices. `stuck` records a swallowed completion, `damaged` the
stations whose save was cut by a kill or hit by another device's removal, until a
removal or a whole save repairs the record. `WholeRecords` speaks of every other
station. The question of a search that was left is taken off the connection
(`Unasked`), since its answer opens nothing.

### FavoritePrices and FanOut
Callbacks of `URLSession.shared` run one at a time, notifications on the main
queue. An append is a read and a write, so two threads may lose an element or
crash; this is the only data race in the app the models contain.
`GroupSpec` maps stations not yet left to `FanOut`'s open tasks. FanOut knows
when its tasks are entered (`Start`): at once here, when the towns have been
fetched in RouteGasStations.

### RoutePlanner
A request is a record in a set: answers come in any order. `Ask` is the
beginning of `calculateRoute` with everything it clears; `switchLocations`
asks three times, the first time with both ends equal, as the two property
observers and the explicit call do. `raced` and `overlapped` record overtaken
requests.

### RouteTrip
RouteTrip extends RoutePlanner with the stations screen that the button pushes.
`screen` is what that screen was handed: the two annotations and the route of the
moment. The navigation controller holds the tab bar, so the screen covers all of it:
the user's actions need `screen = None`, MapKit's answers do not. What the screen
does with the route is RouteGasStations, whose `Open` and `OpenWithoutRoute` are the
two outcomes of the button.

### RouteGasStations and KeyPoints
Each screen is a visit with its own sweep; leaving a screen stops nothing. One
`Tick` is `intervalBetweenRequests`. `Rounds` is the loop of
`getClosestCheapestGasStation`, the value of its variable after each station;
`Sorted` is `sort`, which may leave stations of equal price in any order. A
station is assumed to be in one town. `PriceGroups` says that the price
requests of every visit, from the towns' answer to the notification, implement
FanOut. KeyPoints is the loop itself, a step
per point, over all routes within its bounds as initial states; distances are
integers. A point kept on the way is known by the distance travelled to it (`Way`).
The first and the last key point are `polyline.coordinate` of a step, which MapKit
defines as the centre of the overlay (`Centre`), whatever the source's comments
("Añadir el primer punto de la ruta") say: they lie somewhere near the route and no
distance along it is known of them. Its `steps` are `route.steps`; its names differ from those of
RouteGasStations so that one module of proofs can extend both.

### Nearby
`handler` is `handleLocation`. A screen's `phase` says what it waits for. The tab
bar lists the favourites first, so they are loaded first, at launch and after a
town was chosen, and ask for the location in `viewDidLoad`; the fuels are loaded
when their tab is first shown (`ShowFuels`) and take the handler from them. The
permission is asked by `getLocation` and can change in the settings. The town
check of the fuels screen (`fetchSelectedTown`, `GeocodeAnswers`,
`TownsAnswer`) ends the app when the city is no town of the list (`newTown[0]`).
The towns screen lies on the stack like the others (`OpenTowns`, `ChooseTown`):
choosing a town replaces the whole stack, and what was asked for goes on.

### TableScreens
One of the three screens lives in a behaviour. `array` is the property behind
the table, `rows` what the last `reloadData` showed, `queue` the main queue. A
touch names a row as shown and the code takes `array[n]`; in between lies every
interleaving of answers, reloads and touches. The towns' answer is two steps
beside two steps of `textDidChange`, because the first runs on `URLSession`'s
queue; for an empty text the second step reads `self.towns` again. What
FavoritePrices hands over may have lost stations to a race
(`updateFavoritesList`, `Disturbed`), and a load is lost when its request fails or
when an incomplete record keeps the completion of its read away. `formatName` and the filter work on sequences of letters, as far as they
are needed to tell what is shown from what is compared; parentheses are assumed
to enclose the end of a name, after a space, and only a space or a parenthesis
to be folded to one. The user is signed in throughout, and a
station's screen may also be opened from a search on the other tab
(`OpenFound`). `met` collects what disturbed the screen.

## 3. What the runs show

States are distinct states found. The longest run takes less than three
minutes with two workers.

| Run | Properties | Instance and why it is enough |
|---|---|---|
| `session` | `TypeOK` `TabBarHasTown` `LoginMeansLoggedOut` `FlagIsBacked` `SameIdentity` | a password and a Google account, two open requests, one kill; 2 million states. Every hazard is an overlap of two requests or of a request and a kill; slots are interchangeable, hence the symmetry |
| `session_live` | `DeletionSettles` `DeletionLogsOut` | two password accounts of one person (register, delete, register again) and an Apple account without email, one request; 204 thousand states |
| `session_deleted_data` | `DeletedDataIsGone` violated | see section 4 |
| `migration` | `NothingLost` `OwnDataOnly` `FoundMeansMigrated` `MigrationFinishes` | two accounts with different old nodes, three children of which one is no dictionary, two sign-ins, one saved favourite, one kill, children in any order; 880 thousand states |
| `favorite_prices` | `HandsOverAll` `RaceNeedsUnknownTown` `Completes` `GroupSpec` | three favourites and two fuels: enough for two racing appends beside a third task; 5 thousand states |
| `favorites` | `WholeRecords` `ListCompletes` | two devices, one station, a record of three fields (first, middle, last), two taps, four visits, one kill; 520 thousand states |
| `favorites_empty` | `EmptyListIsEmpty` violated | see section 4 |
| `route_planner` | `EmptyRouteIsExplained` `RouteIsCurrent` `PinsAreEnds` `SelectedIsDrawn` `RouteArrives` | two places, three picks (a route, and then a new end), one edit or switch, one route per answer, any number of taps; 870 thousand states |
| `route_stations` | `ListIsCheapest` `ListIsComplete` `PacedSearch` `SearchEnds` `PriceGroups` | two routes, one crossing the border, a place without locality, two towns of one name, two searches side by side; 184 thousand states |
| `key_points` | `Spaced` `Sampled` | all routes of up to two steps of up to four points with legs 0..4 and an interval of 3: below, equal to and above the interval, empty and one-point steps; 284 thousand states |
| `nearby` | `RobbersAreKnown` `AlertOffersAnother` `SilenceIsExplained` `HandlerIsAnswered` | five screens, two towns and a strange city, one change in the settings; 461 thousand states. The favourites are the first, the fuels usually the second; that leaves one that waits, one that was left and one in front |
| `table_screens` | `TouchHitsItsRow` `ListIsCurrent` `IndicatorTellsTruth` `FilterFindsShownNames` `OrderIsLabelled` `StarTellsTruth` `IndicatorStops` | two loads of the favourites, which is what overlaps and overtakes (the invariants also hold with three), stations equal in distance or price, towns with an article and an accent, texts in either case; 82 thousand states |

`MCRouteTrip.cfg` checks `TripJoinsPlacesShown`, which section 6 proves, on the
instance of `route_planner` (2 million states, half a minute); it is no run of its own.

Deadlock is not checked: an app whose bounds are used up, or whose user does
nothing more, stops. Several properties say "unless": the exception is part of
the result, it names exactly what must have happened before the app can show
something wrong.

## 4. Findings

- **The data of a deleted account stays** (`session_deleted_data`).
  `deleteAccount` removes the data in the completion of `user.delete`, when
  Firebase has already signed the user out; `deleteUserData` finds no current
  user and returns. The run allows no kill, and its trace ends in `AnswerArrives`
  (the user is gone) and `DeleteCompletes` (the data is not). The alert promises that all data will be deleted. If
  another account has signed in by then, that account's data is removed
  instead (the same line, `RemoteDataStore.swift:155`).
- **An empty list keeps the old one** (`favorites_empty`). `getFavoritesList`
  completes with nil, which the view model ignores: the screen's branch for an
  empty list is never reached.

Met while modelling and kept as the exceptions of passing properties:

- a logout is several persistent writes: a kill between Firebase's and the one of
  `User`, like a token that Firebase refuses, leaves a user the screens name and
  the data layer does not know, for an account that was never deleted
  (`FlagIsBacked`);
- any node under the uid makes `checkUserMigration` conclude that the data was
  migrated, also a favourite saved before the answer, sent or not, or what a kill
  or a rejected write left of an earlier migration (`FoundMeansMigrated`,
  `MigrationFinishes`);
- the migration takes the old node of whoever is in `User` when the check is
  answered (`OwnDataOnly`);
- a failed price request keeps the favourites' completion from ever being
  called (`Completes`, `ListCompletes`);
- a tap can select a route of an overtaken answer, which is then not drawn
  (`SelectedIsDrawn`);
- a search that finds nothing says nothing: the field shows the new place, the
  button leads to the stations for the old one (`TripJoinsPlacesShown`);
- the key points leave a gap wherever two points of a step are further apart than
  an interval: none is made up in between (`Sampled` bounds the gap);
- two searches side by side share no pause, so together they exceed
  `maxRequestsPerMinute`: `PacedSearch` holds for each alone, and no property is
  about their sum, which the code does nothing to bound;
- the one handler goes from the favourites to the fuels when their tab is first
  shown: favourites that still wait for the location are never answered
  (`RobbersAreKnown`);
- a search without the location permission stays empty and silent, because
  its delegate is set after it has run (`SilenceIsExplained`);
- a mode picked before the list is there changes the label and not the order
  (`OrderIsLabelled`);
- two loads that overlap leave the first indicator spinning for as long as the
  screen lives, and one that arrives last brings back what was removed
  (`IndicatorTellsTruth`, `IndicatorStops`, `ListIsCurrent`);
- two appends that race leave a favourite out of the list (`ListIsCurrent`,
  `HandsOverAll`);
- a touch between a new array and its reload opens or removes another station;
  in the favourites, whose array may get shorter, it can end the app
  (`TouchHitsItsRow`);
- a text typed before the towns arrive is overwritten by them, or shows an
  empty list over them (`FilterFindsShownNames`);
- the filter compares the name as published: typing `El Ejido`, as shown, finds
  nothing, since it is published as `Ejido (El)` (`FilterFindsShownNames` speaks of
  texts without spaces);
- the star is right however often it is tapped, but a second tap repeats the
  first write instead of undoing it (`StarTellsTruth`).

## 5. Fairness

Only what the platform guarantees is fair; the user, kills, settings and
losses of the session never are.

- Session: a request is answered or times out, the main queue runs what it
  holds, an appearing view gets its `viewDidAppear`.
- Migration, Favorites: the connection serves what it was sent and callbacks
  run; `URLSession` answers or fails (it has a timeout).
- FavoritePrices: the same, and both queues run.
- RoutePlanner, RouteGasStations: MapKit and the geocoder answer or fail every
  request; timers fire.
- Nearby: a running location manager finds the user or fails. Prices and towns
  need not arrive.

- TableScreens: requests are answered or fail, a filter ends, and the main run
  loop gets to its queue.

All of it is weak fairness, because no step that is fair is repeatedly disabled
by another actor while it waits, except by a kill. The one exception is
`RunBlock` of TableScreens: the main thread is busy again and again while the user
types, and weak fairness would let typing starve the queue. The main run loop
drains its dispatch queue between two events, which is strong fairness.

## 6. Proofs

Eight modules hold theorems, for every value of the constants: any number of
accounts, stations, towns, screens, loads and requests, and any of the bounds
with which TLC works. Each rests only on the `ASSUME` of the module it is
about, and those assumptions say that functions have their domains, that
`None` is none of the values and that bounds are numbers, except where a line
below says more. Every inductive invariant was first checked by TLC on the
instance of the module's run.

The listed theorems, and the property of section 3 each of them states:

| Module | Theorem | States |
|---|---|---|
| `Session_proofs` | `SessionTypes` | `[]TypeOK` |
| | `TabBarNeedsTown` | `[]TabBarHasTown` |
| | `LoginScreenIsForLoggedOut` | `[]LoginMeansLoggedOut` |
| | `OneIdentity` | `[]SameIdentity` |
| | `FlagNeedsUser` | `[]FlagIsBacked` |
| | `DeletionEndsSession` | `DeletionLogsOut` (an action property) |
| `Migration_proofs` | `NothingIsLost` | `[]NothingLost` |
| | `OwnData` | `[]OwnDataOnly` |
| | `FoundIsMigrated` | `[]FoundMeansMigrated` |
| `FavoritePrices_proofs` | `EveryFavoriteHandedOver` | `[]HandsOverAll` |
| | `RacesNeedUnknownTown` | `[]RaceNeedsUnknownTown` |
| | `ImplementsFanOut` | `GroupSpec` (a refinement) |
| `Favorites_proofs` | `RecordsAreWhole` | `[]WholeRecords` |
| `RoutePlanner_proofs` | `EmptyRouteExplained` | `[]EmptyRouteIsExplained` |
| | `RouteStaysCurrent` | `[]RouteIsCurrent` |
| | `SelectedStaysDrawn` | `[]SelectedIsDrawn` |
| | `PinsStayEnds` | `[]PinsAreEnds` |
| | `TripsJoinPlacesShown` | `[]TripJoinsPlacesShown` |
| `RouteGasStations_proofs` | `SearchIsPaced` | `[]PacedSearch` |
| | `EachSearchIsAFanOut` | `PriceGroups` (a refinement per search) |
| | `ListedAreCheapest` | `[]ListIsCheapest` |
| | `ListedAreComplete` | `[]ListIsComplete` |
| | `KeyPointsSpaced` | `[]Spaced` |
| | `KeyPointsSample` | `[]Sampled` |
| `Nearby_proofs` | `AlertOffersAnotherTown` | `[]AlertOffersAnother` |
| | `RobbersKnown` | `[]RobbersAreKnown` |
| | `SilenceExplained` | `[]SilenceIsExplained` |
| `TableScreens_proofs` | `TouchesHitTheirRow` | `[]TouchHitsItsRow` |
| | `FavoritesAreCurrent` | `[]ListIsCurrent` |
| | `IndicatorIsTruthful` | `[]IndicatorTellsTruth` |
| | `FilterFindsWhatIsShown` | `[]FilterFindsShownNames` |
| | `ListIsInLabelledOrder` | `[]OrderIsLabelled` |
| | `TappedStarTellsTruth` | `[]StarTellsTruth` |

`NearbyTypes`, `TableScreensTypes`, `RouteSearchTypes` and `FavoritesTypes` prove the type
invariants of their modules, which no run lists.

### Session
`IInv` carries the first three theorems. To the types it adds

- `StackOK`: Login and the tab bar are only ever the root, SignUp lies
  directly on Login. `TabBarHasTown` speaks of any position in the stack;
  without the shape of the stack a pop could bring a tab bar to light;
- `LiveIn`: a sign-up request that still counts as live has its screen in the
  stack, so that its completion finds something to pop;
- `TownIn`: a tab bar at the root has a town;
- `LoginMeansLoggedOut` itself, which needs `StackOK` because a pop may return
  to Login.

`JInv` carries the identities. `currentUser` changes before the completion that
writes `User`, and another request may change it again in between, so the two
agree only once the queue is empty. `LastSignInOK` says how they will: from
every queued sign-in on, some queued sign-in is settled, that is, its uid is
Firebase's user (or there is none because the account was deleted, the screen
is gone or Firebase lost its user). `QueueOK` (the main queue holds answered requests, each once) and
`DeletedOK` (an accepted deletion has deleted its account) keep that true when a
completion runs and when a deletion is answered.

The lemmas on `Append`, `SubSeq` and one-element stacks come first, then one
lemma per way in which the stack changes, then one per group of actions
(`UserIInv`, `AppearIInv`, `BackendIInv`, `CompletesIInv`, `RelaunchIInv`), and
the same again for `JInv`.

### Migration
The assumption adds that a node has finitely many children. `KeyInv` carries
`OwnDataOnly`: what is in flight names real nodes and children (`KindOK`), the
node of its own user unless a check met another account (`KeyOK`, `OneUser`), and
an answer says no less than the node held when it was given (`SnapOK`).
`CopyInv` carries `NothingLost`. The old node is removed after the first copy,
while other copies are still unsent, so its core, `CopyOK`, is about positions:
answers and requests form one line of messages, the oldest first, and every
child the old node still has is copied, or what will copy it (a read, the answer
to it, a write) stands far enough ahead of the message that leads to the removal
(`Secured`). `FoundInv` adds what `FoundMeansMigrated` needs:
without a disturbance, once a migration handles one child it handles all of them
(`WayOK`), nodes are removed as a whole (`WholeOK`), and a child no longer found
in the old node is under the uid (`GoneOK`).

### FavoritePrices
`AppendOK` and `UnknownOK` say which queue may append what: URLSession's only
stations of unknown towns, the main queue only the others. `RaceOK` follows
from them, and `ListOK` says that until a race an append in progress has read
the array as it still is, so that writing it back loses nothing. `PricesOK`
splits what a station sells into priced and waited for. `DoneOK` is what makes
the one notification of `FanOut` final. For the refinement every action is
shown to be an `End`, a `Lose`, the notification or a stutter of the group.

### Favorites
The assumption adds that a record has fields, all different: a field is written
once in a save. `RecordInv` carries `WholeRecords`. A record is half there exactly
while a save is half served, so the invariant is about connections:

- `BlocksOK`: around every write on a connection stand the other writes of its
  save, in the order of the fields; only the ones that would stand before the head
  may be missing, which are those already served. So the one save that can be half
  served is the one at the head (`MidSaveIsHead`), whatever the user sends behind it;
- `ServedOK`: when the head is the write of field j of an undamaged station, the
  fields before j are in the record;
- `WholeOK`: an undamaged record is empty, whole, or has such a save at the head of
  some connection.

A kill takes the half-served save away and damages its station, a removal by
another device does the same from the other end. Every step but `ServeSet`,
`ServeRemove` and `Kill` is `Quiet`: it leaves the records alone
and a save at the head of a connection where it is. A device reads the record with its own unsent
writes on top; `SeenWhole` shows that these complete its own save, or that what
a removal of its own leaves is whole or empty.

### RoutePlanner
The assumption adds that an answer has at least one route. `RouteInv` says that
unless a request was overtaken everything asked for, known and drawn joins the
ends shown (`CurrentOK`), and that there is one request with nothing drawn or
none (`DrawnOK`): without the second an answer would draw over what is there.
`PinInv` numbers the picks: each gives a pin of its own (`NumberOK`), and while it
is searched for its field has no pin, unless searches overlapped (`SearchOK`).

### RouteTrip
`TripJoinsPlacesShown` is about what the user sees under and in the stations
screen. A new pick takes the pin of the old end off the map and writes the new name
into the field; the end itself is replaced when the search answers, and never when
it fails. So the pin tells whether an end is the place its field names. To the
route screen every step of the trip is a step of its own or none (`TripStep`), so
`RouteInv` and `PinInv` hold under the stations screen too. `TripInv` adds `ShownOK`
(an open search is for the place its field names, an end with a pin is the place
its field names) and `FrontOK` (what is found under the stations screen is none of
the ends it was handed, because every pick has a number of its own).

### RouteGasStations
The assumption adds that a station is in one town. `Base` holds the types,
`StartOK` (a search has prices only after its towns) and `PaceOK` (a search
that is about to send has sent nothing in this interval). `SweepOK` splits the
route at the location being geocoded: the queue is what comes after it, and
what comes before it up to the border has its municipality in the set
(`Covered`, `Left`). `PriceOK` says of the stations found so far that each is the
cheapest of its town, one per town, and that every town that has answered and
sells near the route has one.

That the loop of `getClosestCheapestGasStation` finds the cheapest station is an
induction over a town's list. The prover cannot use the induction theorems, but
`WellFoundedInduction` has one without an operator parameter, `WFMin`: a set of
numbers has a least element (`LeastNatural`), and the first round with a wrong
value cannot exist (`RoundsFindBest`).

### KeyPoints
The assumption asks for an interval above zero. `WalkOK` adds to the types, to
`Spaced` and to `Sampled`:

- `Behind`: `lastAdded` is the beginning or a point kept on the way, and no such
  point lies beyond it, which makes a point kept an interval after `lastAdded` an
  interval from all others;
- `Counted`: `lastAdded` pays an interval for every point kept, the two centres
  excepted; from it `KeyPointsAreFew` bounds the number of points, and so of
  geocodings, by the length of the route;
- `lastAdded` is not beyond `accumulated` and less than an interval behind it:
  with the leg that follows, that is the largest gap there can be.

### Nearby
The assumption asks for a town and a screen. `IInv` adds to the types: who holds
the handler of a running manager waits for it (`ScreenOK`); as long as a fuels
screen checks the town, the saved town is the one it started with, and an alert
stands only over an idle fuels screen (`TownOK`, from which
`AlertOffersAnother`); what lies below another screen on the stack is a finished
search (`StackOK`), so that a screen that waits is on top; the top waits with
the handler or a search that was left has it (`RobOK`); a tab that waits, also
while the stack covers it, has the handler, or a search or a later screen does
(`TabOK`), which is what is seen once the stack is empty again; and without
changes in the settings a permission is kept (`SilenceOK`).

### TableScreens
The assumption adds that the stations are finitely many, and what section 2 says
of the names of towns. `Base` says what belongs to which screen, that an array
never repeats an element and that the rows are the array's unless a reload is
on the queue. On it rest

- `TouchInv`: the rows of the towns differ from the array only before the first
  reload, or something was typed early, and those of a search have the array's
  length, so that only the favourites can end the app;
- `OrderOK`: the order is that of the mode, or the mode was picked early;
- `CurrentOK`: as long as nothing disturbed the screen and no append raced, the
  last load has yet to read, or what it has read or brought is what the user has now;
- `IndicatorOK`, about the main queue: what will spin once the queued blocks have
  run. `LatestOn` is the last indicator, `OlderOn` an earlier one that nothing
  will stop; both are unchanged when a block runs, so only what queues blocks
  matters;
- `FilterOK`: until the towns are there nothing was typed, or it was typed early;
  from then on the array holds the towns that match. What the filter finds in
  the published name and what the cell shows are related by `ArticleMoved`: a
  word without separators lies on one side of every separator, and the two
  sides of "Ejido (El)" are those of "El Ejido".

### What is only model-checked
- The liveness properties: `DeletionSettles`, `MigrationFinishes`, `Completes`,
  `ListCompletes`, `RouteArrives`, `SearchEnds`, `HandlerIsAnswered`,
  `IndicatorStops`. Fairness and `ENABLED` are out of the prover's reach. The
  two refinements are of `FanOut`'s safety part, which is all it has.
- The two findings of section 4, which are violations.

## 7. Assumptions about code outside the repository

- Firebase Auth changes `currentUser` off the main thread and then queues the
  completion on the main queue, in order; a deletion signs its user out, if
  still current, before its completion; a sign-out may throw; a token that is
  refused signs the user out without a word to the app.
- View models hold their delegates strongly, so a screen that was left still
  receives completions.
- The Realtime Database has one connection that serves in order; pending
  writes are seen by the device's own reads and are lost with the process.
  Resending after a reconnection shows nothing a slow connection does not.
- `URLSession.shared` runs its callbacks one at a time.
- MapKit's successful answers are not empty.
- The location manager gives one update per start; a failure ends the attempt.
- An alert is presented only by a screen in the window.
- Prices are compared as strings by the code and as numbers by the model: the
  service publishes them in a fixed format (`d,ddd`), in which both orders
  agree. Ties are broken either way.
- A geocoder answer without country code counts as abroad, as in the code.

## 8. What is left out

- Decoding (`try!` on malformed JSON ends the app), reachability alerts, icon
  colours, texts.
- The write-only key `appleAuthorizedUserIdKey` and the nonce.
- In Favorites one `isFavorite` question is open at a time and a question of a
  search that was left is dropped; indicators are followed in TableScreens.
- In Nearby what the towns screen shows is left to TableScreens, and the delay
  before a station opens to Favorites.
- In TableScreens the rows are taken when the table is reloaded, not when a cell
  scrolls into view, and the map's pins, which only grow, are left out.
- The popover of the fuels screen and the about screen, which keep no state of
  their own: the options that change something are actions of Session.
- In RoutePlanner the geometry of a tap is a choice among what is drawn.
- `getGasStationsOnRoute`, which nothing calls; `EncryptionLayer`, which nothing
  uses; `LocalDataStore`'s caches, which are never hit; use cases and models,
  which only pass values on; cells, fonts, colours and layout; the pods.

## 9. Plan

Done, in this order: Session and its first theorems, Migration, FavoritePrices
over FanOut, Favorites, RoutePlanner, RouteGasStations with KeyPoints and its theorems,
Nearby, the second refinement of FanOut, TableScreens.

Then the proofs of section 6, `WholeRecords` the last of them, and RouteTrip over
RoutePlanner with its theorems.

Every safety property of a passing run is a theorem. What could still be added is
a composition of RouteTrip with the searches of RouteGasStations themselves, not
only with what they are handed, and one of Session with Migration, so that the
change of user that disturbs a migration is Session's own.
