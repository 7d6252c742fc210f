--------------------------- MODULE FavoritePrices ---------------------------
(***************************************************************************)
(* The prices of the favourite stations: Repository.getFavoritesList       *)
(* starts RemoteDataStore.getFuelPriceByGasStation for every favourite and *)
(* each of those asks for the towns, the fuels and one price list per      *)
(* fuel.  Two levels of DispatchGroup wait for the answers.                *)
(*                                                                         *)
(* Answers run one at a time on URLSession.shared's queue, notifications   *)
(* on the main queue.  The array gasStations is appended to from both      *)
(* without a lock: an append is a read and a write here, and two at once   *)
(* may lose an element or crash.                                           *)
(***************************************************************************)
EXTENDS Naturals, Sequences

CONSTANTS
  Stations,  \* the favourites; an empty list is answered before any task starts
  Fuels,     \* the fuels the app shows (FetchFuelsUseCase)
  Sells,     \* the fuels for which a station is in its town's price list
  None

ASSUME FavoritePricesAssumption ==
  /\ Sells \in [Stations -> SUBSET Fuels]
  /\ None \notin Stations

VARIABLES
  stage,    \* how far each station's task is
  waiting,  \* the fuels whose task has not left the station's group
  failed,   \* of these, the ones whose request failed
  priced,   \* prices.precios of each station
  unknown,  \* stations whose town is not in the list of towns
  append,   \* the append each thread is in the middle of
  list,     \* gasStations
  done,     \* the completion has been called
  raced,    \* two appends overlapped
  crashed

vars == <<stage, waiting, failed, priced, unknown, append, list, done, raced, crashed>>

Threads == {"main", "session"}

Stages == {"towns", "fuels", "prices", "ready", "appending", "left", "dead"}

\* Not appending, or the station and the array as it was read.
Idle == [s |-> None, seen |-> <<>>]

Runs(t) == append[t] = Idle /\ ~crashed

BeginAppend(t, s) ==
  /\ append' = [append EXCEPT ![t] = [s |-> s, seen |-> list]]
  /\ stage' = [stage EXCEPT ![s] = "appending"]

-----------------------------------------------------------------------------
(* Answers, on URLSession's queue *)

\* A request that fails returns from its callback without calling completion.
RequestFails(s) ==
  /\ Runs("session")
  /\ stage[s] \in {"towns", "fuels"}
  /\ stage' = [stage EXCEPT ![s] = "dead"]
  /\ UNCHANGED <<waiting, failed, priced, unknown, append, list, done, raced, crashed>>

TownsAnswer(s) ==
  /\ Runs("session")
  /\ stage[s] = "towns"
  /\ stage' = [stage EXCEPT ![s] = "fuels"]
  /\ UNCHANGED <<waiting, failed, priced, unknown, append, list, done, raced, crashed>>

\* No town of that name: completion at once, on this queue.
TownUnknown(s) ==
  /\ Runs("session")
  /\ stage[s] = "towns"
  /\ unknown' = unknown \cup {s}
  /\ BeginAppend("session", s)
  /\ UNCHANGED <<waiting, failed, priced, list, done, raced, crashed>>

\* Every fuel enters the group; without fuels notify has nothing to wait for.
FuelsAnswer(s) ==
  /\ Runs("session")
  /\ stage[s] = "fuels"
  /\ waiting' = [waiting EXCEPT ![s] = Fuels]
  /\ stage' = [stage EXCEPT ![s] = IF Fuels = {} THEN "ready" ELSE "prices"]
  /\ UNCHANGED <<failed, priced, unknown, append, list, done, raced, crashed>>

\* Mutant: the first price is enough.
PriceAnswer_First(s, f) ==
  /\ Runs("session")
  /\ stage[s] = "prices" /\ f \in waiting[s] \ failed[s]
  /\ priced' = [priced EXCEPT ![s] = IF f \in Sells[s] THEN @ \cup {f} ELSE @]
  /\ waiting' = [waiting EXCEPT ![s] = @ \ {f}]
  /\ stage' = [stage EXCEPT ![s] = "ready"]
  /\ UNCHANGED <<failed, unknown, append, list, done, raced, crashed>>

\* Mutant: a fuel the station does not sell is answered without leaving the group.
PriceAnswer_NoLeave(s, f) ==
  /\ Runs("session")
  /\ stage[s] = "prices" /\ f \in waiting[s] \ failed[s]
  /\ priced' = [priced EXCEPT ![s] = IF f \in Sells[s] THEN @ \cup {f} ELSE @]
  /\ waiting' = [waiting EXCEPT ![s] = @ \ {f}]
  /\ stage' = [stage EXCEPT ![s] = IF f \in Sells[s] /\ waiting[s] = {f} THEN "ready" ELSE @]
  /\ UNCHANGED <<failed, unknown, append, list, done, raced, crashed>>

PriceAnswer(s, f) ==
  /\ Runs("session")
  /\ stage[s] = "prices" /\ f \in waiting[s] \ failed[s]
  /\ priced' = [priced EXCEPT ![s] = IF f \in Sells[s] THEN @ \cup {f} ELSE @]
  /\ waiting' = [waiting EXCEPT ![s] = @ \ {f}]
  /\ stage' = [stage EXCEPT ![s] = IF waiting[s] = {f} THEN "ready" ELSE @]
  /\ UNCHANGED <<failed, unknown, append, list, done, raced, crashed>>

PriceFails(s, f) ==
  /\ Runs("session")
  /\ stage[s] = "prices" /\ f \in waiting[s] \ failed[s]
  /\ failed' = [failed EXCEPT ![s] = @ \cup {f}]
  /\ UNCHANGED <<stage, waiting, priced, unknown, append, list, done, raced, crashed>>

-----------------------------------------------------------------------------
(* Notifications, on the main queue *)

\* Mutant: notify on whatever queue is free.
StationNotified_AnyQueue(s) ==
  /\ stage[s] = "ready"
  /\ \E t \in Threads : Runs(t) /\ BeginAppend(t, s)
  /\ UNCHANGED <<waiting, failed, priced, unknown, list, done, raced, crashed>>

StationNotified(s) ==
  /\ Runs("main")
  /\ stage[s] = "ready"
  /\ BeginAppend("main", s)
  /\ UNCHANGED <<waiting, failed, priced, unknown, list, done, raced, crashed>>

\* gasStations.append ends, and the task leaves the outer group.
EndAppend(t) ==
  /\ append[t] # Idle /\ ~crashed
  /\ list' = Append(append[t].seen, append[t].s)
  /\ stage' = [stage EXCEPT ![append[t].s] = "left"]
  /\ append' = [append EXCEPT ![t] = Idle]
  /\ raced' = (raced \/ \E o \in Threads \ {t} : append[o] # Idle)
  /\ UNCHANGED <<waiting, failed, priced, unknown, done, crashed>>

\* Two threads in Array.append at once.
RaceCrashes ==
  /\ ~crashed /\ \A t \in Threads : append[t] # Idle
  /\ crashed' = TRUE
  /\ raced' = TRUE
  /\ UNCHANGED <<stage, waiting, failed, priced, unknown, append, list, done>>

\* Mutant: the first station is enough.
Notify_First ==
  /\ Runs("main")
  /\ ~done /\ \E s \in Stations : stage[s] = "left"
  /\ done' = TRUE
  /\ UNCHANGED <<stage, waiting, failed, priced, unknown, append, list, raced, crashed>>

Notify ==
  /\ Runs("main")
  /\ ~done /\ \A s \in Stations : stage[s] = "left"
  /\ done' = TRUE
  /\ UNCHANGED <<stage, waiting, failed, priced, unknown, append, list, raced, crashed>>

-----------------------------------------------------------------------------
Init ==
  /\ stage = [s \in Stations |-> "towns"]
  /\ waiting = [s \in Stations |-> {}]
  /\ failed = [s \in Stations |-> {}]
  /\ priced = [s \in Stations |-> {}]
  /\ unknown = {}
  /\ append = [t \in Threads |-> Idle]
  /\ list = <<>>
  /\ done = FALSE /\ raced = FALSE /\ crashed = FALSE

Answer(s) ==
  \/ RequestFails(s) \/ TownsAnswer(s) \/ TownUnknown(s) \/ FuelsAnswer(s)
  \/ \E f \in Fuels : PriceAnswer(s, f) \/ PriceFails(s, f)

Next ==
  \/ \E s \in Stations : Answer(s) \/ StationNotified(s)
  \/ \E t \in Threads : EndAppend(t)
  \/ RaceCrashes
  \/ Notify

\* URLSession answers every request or fails it (a timeout), and both queues run.
Fairness ==
  /\ \A s \in Stations : WF_vars(Answer(s)) /\ WF_vars(StationNotified(s))
  /\ \A t \in Threads : WF_vars(EndAppend(t))
  /\ WF_vars(Notify)

Spec == Init /\ [][Next]_vars /\ Fairness

-----------------------------------------------------------------------------
(* Properties *)

\* The variables keep their types.
TypeOK ==
  /\ stage \in [Stations -> Stages]
  /\ waiting \in [Stations -> SUBSET Fuels]
  /\ failed \in [Stations -> SUBSET Fuels]
  /\ priced \in [Stations -> SUBSET Fuels]
  /\ unknown \subseteq Stations
  /\ append \in [Threads -> [s : Stations \cup {None}, seen : Seq(Stations)]]
  /\ list \in Seq(Stations)
  /\ done \in BOOLEAN /\ raced \in BOOLEAN /\ crashed \in BOOLEAN

Listed == {list[n] : n \in 1..Len(list)}

\* The completion gets every favourite exactly once, unless two appends raced, and
\* each with the price of every fuel it sells in its town's list, although notify is
\* called while requests are open (Repository.getFavoritesList,
\* RemoteDataStore.getFuelPriceByGasStation).
HandsOverAll ==
  /\ done /\ ~raced =>
       Listed = Stations /\ \A m, n \in 1..Len(list) : list[m] = list[n] => m = n
  /\ \A s \in Stations :
       stage[s] \in {"ready", "appending", "left"} /\ s \notin unknown => priced[s] = Sells[s]

\* The queues being serial, appends only race when some favourite's town is not in
\* the list of towns and another one's is.
RaceNeedsUnknownTown == raced => unknown # {} /\ unknown # Stations

Dead(s) == stage[s] = "dead" \/ failed[s] # {}

\* Unless a request fails or an append crashes, the completion is called.
Completes == <>(done \/ crashed \/ \E s \in Stations : Dead(s))

\* Each task ends at most once, and the completion is called once, after all of
\* them: the fan-out is a DispatchGroup's.
Group == INSTANCE FanOut WITH
  Items <- Stations,
  open <- {s \in Stations : stage[s] # "left"},
  lost <- {s \in Stations : Dead(s)},
  started <- TRUE,
  notified <- done
GroupSpec == Group!Spec
=============================================================================
