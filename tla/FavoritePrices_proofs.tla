----------------------- MODULE FavoritePrices_proofs ------------------------
(***************************************************************************)
(* Proofs about FavoritePrices, for every set of favourites and fuels and  *)
(* whatever each station sells: what is handed over is complete, appends   *)
(* race only under one condition, and the two levels of DispatchGroup      *)
(* implement FanOut.                                                       *)
(***************************************************************************)
EXTENDS FavoritePrices, SequenceTheorems, TLAPS

\* The elements of a sequence.
Elements(seq) == {seq[n] : n \in 1..Len(seq)}

\* No element twice.
Injective(seq) == \A m, n \in 1..Len(seq) : seq[m] = seq[n] => m = n

\* Appending a new element adds it once.
LEMMA AppendOnce ==
  ASSUME NEW S, NEW seq \in Seq(S), NEW x \in S, x \notin Elements(seq), Injective(seq)
  PROVE  /\ Elements(Append(seq, x)) = Elements(seq) \cup {x}
         /\ Injective(Append(seq, x))
<1> DEFINE more == Append(seq, x)
<1>1. /\ more \in Seq(S) /\ Len(more) = Len(seq) + 1 /\ Len(seq) \in Nat
      /\ more[Len(seq) + 1] = x
      /\ \A k \in 1..Len(seq) : more[k] = seq[k]
  OBVIOUS
<1> HIDE DEF more
<1>2. \A k \in 1..Len(more) : k \in 1..Len(seq) \/ k = Len(seq) + 1
  BY <1>1
<1>3. Elements(more) = Elements(seq) \cup {x}
  BY <1>1, <1>2 DEF Elements
<1>4. Injective(more)
  BY <1>1, <1>2 DEF Elements, Injective
<1> QED
  BY <1>3, <1>4 DEF more

-----------------------------------------------------------------------------
(* The inductive invariant *)

\* A thread that appends holds a station whose task is appending; the URLSession
\* queue only appends stations of unknown towns, the main queue only others.
AppendOK ==
  /\ \A t \in Threads : append[t] # Idle =>
       append[t].s \in Stations /\ stage[append[t].s] = "appending"
  /\ append["session"] # Idle => append["session"].s \in unknown
  /\ append["main"] # Idle => append["main"].s \notin unknown

\* Only stations of unknown towns skip the prices.
UnknownOK == \A s \in unknown : stage[s] \in {"appending", "left"}

\* A race has left behind one station of each sort.
RaceOK == raced => unknown # {} /\ \E s \in Stations \ unknown : stage[s] \in {"appending", "left"}

\* Until a race the array holds the stations that have left, once each, and is what
\* an append in progress has read.
ListOK ==
  ~raced =>
    /\ Elements(list) = {s \in Stations : stage[s] = "left"}
    /\ Injective(list)
    /\ \A t \in Threads : append[t] # Idle => append[t].seen = list

DoneOK == done => \A s \in Stations : stage[s] = "left"

\* What is priced and what is waited for make up what the station sells.
PricesOK ==
  \A s \in Stations :
    /\ failed[s] \subseteq waiting[s]
    /\ stage[s] # "prices" => waiting[s] = {}
    /\ stage[s] \in {"towns", "fuels"} => priced[s] = {}
    /\ stage[s] = "prices" => priced[s] = Sells[s] \ waiting[s]
    /\ stage[s] \in {"ready", "appending", "left"} /\ s \notin unknown => priced[s] = Sells[s]

\* The properties of the look-up and what makes them inductive.
IInv == TypeOK /\ AppendOK /\ UnknownOK /\ RaceOK /\ ListOK /\ DoneOK /\ PricesOK

\* An idle thread holds no station.
LEMMA IdleFacts == Idle.s = None /\ Idle.seen = <<>>
  BY DEF Idle

\* The look-up starts with the invariant.
LEMMA InitIInv == Init => IInv
<1> SUFFICES ASSUME Init PROVE IInv
  OBVIOUS
<1>0. <<>> \in Seq(Stations) /\ Idle \in [s : Stations \cup {None}, seen : Seq(Stations)]
  BY DEF Idle
<1>1. TypeOK
  BY <1>0 DEF Init, TypeOK, Stages
<1>2. ListOK
  BY DEF Init, ListOK, Elements, Injective
<1>3. AppendOK /\ UnknownOK /\ RaceOK
  BY DEF Init, AppendOK, UnknownOK, RaceOK, Threads
<1>4. PricesOK
  BY DEF Init, PricesOK
<1>5. DoneOK
  BY DEF Init, DoneOK
<1> QED
  BY <1>1, <1>2, <1>3, <1>4, <1>5 DEF IInv

\* A step that moves one station between stages before the append keeps all but its
\* prices.
LEMMA StageStep ==
  ASSUME IInv, NEW s \in Stations, stage[s] \notin {"appending", "left"}, NEW x \in Stages,
         x \notin {"appending", "left"}, stage' = [stage EXCEPT ![s] = x],
         UNCHANGED <<unknown, append, list, done, raced>>
  PROVE  AppendOK' /\ UnknownOK' /\ RaceOK' /\ ListOK' /\ DoneOK'
<1>1. stage \in [Stations -> Stages]
  BY DEF IInv, TypeOK
<1>2. AppendOK'
  BY <1>1 DEF IInv, AppendOK, Threads
<1>3. UnknownOK'
  BY <1>1 DEF IInv, UnknownOK, TypeOK
<1>4. RaceOK'
  BY <1>1 DEF IInv, RaceOK
<1>5. {r \in Stations : stage'[r] = "left"} = {r \in Stations : stage[r] = "left"}
  BY <1>1
<1>6. ListOK'
  BY <1>5 DEF IInv, ListOK
<1>7. DoneOK'
  BY <1>1 DEF IInv, DoneOK
<1> QED
  BY <1>2, <1>3, <1>4, <1>6, <1>7

\* A station's task begins its append on a free thread.
LEMMA BeginStep ==
  ASSUME IInv, NEW s \in Stations, NEW t \in Threads, append[t] = Idle,
         stage[s] \in {"towns", "ready"}, BeginAppend(t, s),
         IF t = "session" THEN unknown' = unknown \cup {s} /\ stage[s] = "towns"
                          ELSE unknown' = unknown /\ stage[s] = "ready",
         UNCHANGED <<list, done, raced>>
  PROVE  /\ stage' \in [Stations -> Stages] /\ unknown' \subseteq Stations
         /\ append' \in [Threads -> [s : Stations \cup {None}, seen : Seq(Stations)]]
         /\ AppendOK' /\ UnknownOK' /\ RaceOK' /\ ListOK' /\ DoneOK'
<1>1. /\ stage \in [Stations -> Stages] /\ unknown \subseteq Stations /\ list \in Seq(Stations)
      /\ append \in [Threads -> [s : Stations \cup {None}, seen : Seq(Stations)]]
  BY DEF IInv, TypeOK
<1>2. /\ stage' = [stage EXCEPT ![s] = "appending"]
      /\ append' = [append EXCEPT ![t] = [s |-> s, seen |-> list]]
  BY DEF BeginAppend
<1>3. /\ stage' \in [Stations -> Stages] /\ unknown' \subseteq Stations
      /\ append' \in [Threads -> [s : Stations \cup {None}, seen : Seq(Stations)]]
  BY <1>1, <1>2 DEF Stages
<1>4. s \notin unknown
  BY DEF IInv, UnknownOK
<1>5. append'[t].s = s /\ append'[t].seen = list /\ \A o \in Threads \ {t} : append'[o] = append[o]
  BY <1>1, <1>2
<1>6. AppendOK'
  <2>1. \A o \in Threads : append'[o] # Idle =>
          append'[o].s \in Stations /\ stage'[append'[o].s] = "appending"
    BY <1>1, <1>2, <1>5 DEF IInv, AppendOK
  <2>2. CASE t = "session"
    <3>1. append'["main"] = append["main"] /\ append'["session"].s = s /\ unknown' = unknown \cup {s}
      BY <1>5, <2>2 DEF Threads
    <3>2. append["main"] # Idle => append["main"].s # s
      BY DEF IInv, AppendOK, Threads
    <3> QED
      BY <2>1, <3>1, <3>2 DEF IInv, AppendOK
  <2>3. CASE t = "main"
    <3>1. append'["session"] = append["session"] /\ append'["main"].s = s /\ unknown' = unknown
      BY <1>5, <2>3 DEF Threads
    <3> QED
      BY <1>4, <2>1, <3>1 DEF IInv, AppendOK
  <2> QED
    BY <2>2, <2>3 DEF Threads
<1>7. UnknownOK'
  BY <1>1, <1>2 DEF IInv, UnknownOK
<1>8. RaceOK'
  BY <1>1, <1>2 DEF IInv, RaceOK
<1>9. {r \in Stations : stage'[r] = "left"} = {r \in Stations : stage[r] = "left"}
  BY <1>1, <1>2
<1>10. ListOK'
  BY <1>5, <1>9 DEF IInv, ListOK
<1>11. DoneOK'
  BY <1>1, <1>2 DEF IInv, DoneOK
<1> QED
  BY <1>3, <1>6, <1>7, <1>8, <1>10, <1>11

\* An append ends: the station has left, and the array has it once unless the other
\* thread is appending too.
LEMMA EndAppendIInv ==
  ASSUME IInv, NEW t \in Threads, EndAppend(t)
  PROVE  IInv'
<1>1. /\ stage \in [Stations -> Stages] /\ unknown \subseteq Stations /\ list \in Seq(Stations)
      /\ append \in [Threads -> [s : Stations \cup {None}, seen : Seq(Stations)]]
  BY DEF IInv, TypeOK
<1> DEFINE s == append[t].s
<1>2. s \in Stations /\ stage[s] = "appending" /\ append[t].seen \in Seq(Stations)
  BY <1>1 DEF EndAppend, IInv, AppendOK
<1>3. /\ stage' = [stage EXCEPT ![s] = "left"]
      /\ append' = [append EXCEPT ![t] = Idle]
      /\ list' = Append(append[t].seen, s)
      /\ raced' = (raced \/ \E o \in Threads \ {t} : append[o] # Idle)
      /\ UNCHANGED <<waiting, failed, priced, unknown, done, crashed>>
  BY DEF EndAppend
<1> HIDE DEF s
<1>4. \A o \in Threads \ {t} : append[o] # Idle => append[o].s # s
  BY DEF IInv, AppendOK, Threads, EndAppend, s
<1>5. TypeOK'
  <2>1. Idle \in [s : Stations \cup {None}, seen : Seq(Stations)]
    BY DEF Idle
  <2>2. stage' \in [Stations -> Stages] /\ list' \in Seq(Stations)
    BY <1>1, <1>2, <1>3 DEF Stages
  <2>3. append' \in [Threads -> [s : Stations \cup {None}, seen : Seq(Stations)]]
    BY <1>1, <1>3, <2>1
  <2> QED
    BY <1>3, <2>2, <2>3 DEF IInv, TypeOK
<1>6. AppendOK'
  <2>1. append'[t] = Idle /\ \A o \in Threads \ {t} : append'[o] = append[o]
    BY <1>1, <1>3
  <2>2. \A o \in Threads \ {t} : append[o] # Idle => stage'[append[o].s] = "appending"
    BY <1>1, <1>3, <1>4 DEF IInv, AppendOK
  <2> QED
    BY <1>3, <2>1, <2>2 DEF IInv, AppendOK, Threads
<1>7. UnknownOK'
  BY <1>1, <1>3 DEF IInv, UnknownOK
<1>8. RaceOK'
  <2>1. CASE raced
    BY <1>1, <1>3, <2>1 DEF IInv, RaceOK
  <2>2. CASE ~raced /\ \E o \in Threads \ {t} : append[o] # Idle
    <3>1. append["session"] # Idle /\ append["main"] # Idle
      BY <2>2 DEF EndAppend, Threads
    <3>2. append["session"].s \in unknown
      BY <3>1 DEF IInv, AppendOK
    <3>3. append["main"].s \in Stations \ unknown /\ stage[append["main"].s] = "appending"
      BY <3>1 DEF IInv, AppendOK, Threads
    <3>4. stage'[append["main"].s] \in {"appending", "left"}
      BY <1>1, <1>3, <3>3
    <3> QED
      BY <1>3, <3>2, <3>3, <3>4 DEF RaceOK
  <2> QED
    BY <1>3, <2>1, <2>2 DEF RaceOK
<1>9. ListOK'
  <2> SUFFICES ASSUME ~raced'
               PROVE  /\ Elements(list') = {r \in Stations : stage'[r] = "left"}
                      /\ Injective(list')
                      /\ \A o \in Threads : append'[o] # Idle => append'[o].seen = list'
    BY DEF ListOK
  <2>1. ~raced /\ \A o \in Threads \ {t} : append[o] = Idle
    BY <1>3
  <2>2. /\ append[t].seen = list /\ Injective(list)
        /\ Elements(list) = {r \in Stations : stage[r] = "left"}
    BY <2>1 DEF EndAppend, IInv, ListOK
  <2>3. s \notin Elements(list)
    BY <1>2, <2>2
  <2>4. Elements(list') = Elements(list) \cup {s} /\ Injective(list')
    <3>1. /\ Elements(Append(list, s)) = Elements(list) \cup {s}
          /\ Injective(Append(list, s))
      BY <1>1, <1>2, <2>2, <2>3, AppendOnce
    <3>2. list' = Append(list, s)
      BY <1>3, <2>2
    <3> QED
      BY <3>1, <3>2, Zenon
  <2>5. {r \in Stations : stage'[r] = "left"} = {r \in Stations : stage[r] = "left"} \cup {s}
    BY <1>1, <1>2, <1>3
  <2>6. \A o \in Threads : append'[o] = Idle
    BY <1>1, <1>3, <2>1
  <2> QED
    BY <2>2, <2>4, <2>5, <2>6
<1>10. DoneOK'
  BY <1>1, <1>2, <1>3 DEF IInv, DoneOK
<1>11. PricesOK'
  BY <1>1, <1>2, <1>3 DEF IInv, PricesOK
<1> QED
  BY <1>5, <1>6, <1>7, <1>8, <1>9, <1>10, <1>11 DEF IInv

\* An answer on URLSession's queue.
LEMMA AnswerIInv ==
  ASSUME IInv, NEW s \in Stations, Answer(s)
  PROVE  IInv'
<1>0. TypeOK /\ PricesOK /\ Sells \in [Stations -> SUBSET Fuels]
  BY FavoritePricesAssumption DEF IInv
<1>1. CASE RequestFails(s)
  <2>1. AppendOK' /\ UnknownOK' /\ RaceOK' /\ ListOK' /\ DoneOK'
    BY <1>1, StageStep DEF RequestFails, Stages
  <2>2. TypeOK' /\ PricesOK'
    BY <1>0, <1>1 DEF RequestFails, TypeOK, PricesOK, Stages
  <2> QED
    BY <2>1, <2>2 DEF IInv
<1>2. CASE TownsAnswer(s)
  <2>1. AppendOK' /\ UnknownOK' /\ RaceOK' /\ ListOK' /\ DoneOK'
    BY <1>2, StageStep DEF TownsAnswer, Stages
  <2>2. TypeOK' /\ PricesOK'
    BY <1>0, <1>2 DEF TownsAnswer, TypeOK, PricesOK, Stages
  <2> QED
    BY <2>1, <2>2 DEF IInv
<1>3. CASE TownUnknown(s)
  <2>1. /\ stage' \in [Stations -> Stages] /\ unknown' \subseteq Stations
        /\ append' \in [Threads -> [s : Stations \cup {None}, seen : Seq(Stations)]]
        /\ AppendOK' /\ UnknownOK' /\ RaceOK' /\ ListOK' /\ DoneOK'
    BY <1>3, BeginStep DEF TownUnknown, Runs, Threads
  <2>2. TypeOK'
    BY <1>0, <1>3, <2>1 DEF TownUnknown, TypeOK
  <2>3. PricesOK'
    BY <1>0, <1>3 DEF TownUnknown, BeginAppend, TypeOK, PricesOK
  <2> QED
    BY <2>1, <2>2, <2>3 DEF IInv
<1>4. CASE FuelsAnswer(s)
  <2>1. AppendOK' /\ UnknownOK' /\ RaceOK' /\ ListOK' /\ DoneOK'
    BY <1>4, StageStep DEF FuelsAnswer, Stages
  <2>2. TypeOK'
    BY <1>0, <1>4 DEF FuelsAnswer, TypeOK, Stages
  <2>3. PricesOK'
    <3>1. /\ waiting' = [waiting EXCEPT ![s] = Fuels] /\ stage[s] = "fuels"
          /\ stage' = [stage EXCEPT ![s] = IF Fuels = {} THEN "ready" ELSE "prices"]
          /\ UNCHANGED <<failed, priced, unknown>>
      BY <1>4 DEF FuelsAnswer
    <3>2. waiting'[s] = Fuels /\ stage'[s] = IF Fuels = {} THEN "ready" ELSE "prices"
      BY <1>0, <3>1 DEF TypeOK
    <3>3. priced[s] = {} /\ failed[s] = {} /\ Sells[s] \subseteq Fuels
      BY <1>0, <3>1 DEF PricesOK
    <3>4. \A r \in Stations \ {s} : waiting'[r] = waiting[r] /\ stage'[r] = stage[r]
      BY <1>0, <3>1 DEF TypeOK
    <3>5. priced[s] = Sells[s] \ Fuels
      BY <3>3
    <3>6. Fuels = {} => priced[s] = Sells[s]
      BY <3>3
    <3> SUFFICES ASSUME NEW r \in Stations
                 PROVE  /\ failed[r] \subseteq waiting'[r]
                        /\ stage'[r] # "prices" => waiting'[r] = {}
                        /\ stage'[r] \in {"towns", "fuels"} => priced[r] = {}
                        /\ stage'[r] = "prices" => priced[r] = Sells[r] \ waiting'[r]
                        /\ stage'[r] \in {"ready", "appending", "left"} /\ r \notin unknown =>
                             priced[r] = Sells[r]
      BY <3>1 DEF PricesOK
    <3>7. CASE r = s
      BY <3>2, <3>3, <3>5, <3>6, <3>7
    <3>8. CASE r # s
      BY <1>0, <3>4, <3>8 DEF PricesOK
    <3> QED
      BY <3>7, <3>8
  <2> QED
    BY <2>1, <2>2, <2>3 DEF IInv
<1>5. ASSUME NEW f \in Fuels, PriceAnswer(s, f) PROVE IInv'
  <2>1. AppendOK' /\ UnknownOK' /\ RaceOK' /\ ListOK' /\ DoneOK'
    <3>1. CASE waiting[s] = {f}
      BY <1>0, <1>5, <3>1, StageStep DEF PriceAnswer, Stages, TypeOK
    <3>2. CASE waiting[s] # {f}
      BY <1>0, <1>5, <3>2, StageStep DEF PriceAnswer, Stages, TypeOK
    <3> QED
      BY <3>1, <3>2
  <2>2. TypeOK'
    BY <1>0, <1>5 DEF PriceAnswer, TypeOK, Stages
  <2>3. PricesOK'
    <3>1. /\ stage[s] = "prices" /\ f \in waiting[s] \ failed[s]
          /\ waiting' = [waiting EXCEPT ![s] = @ \ {f}]
          /\ stage' = [stage EXCEPT ![s] = IF waiting[s] = {f} THEN "ready" ELSE @]
          /\ priced' = [priced EXCEPT ![s] = IF f \in Sells[s] THEN @ \cup {f} ELSE @]
          /\ UNCHANGED <<failed, unknown>>
      BY <1>5 DEF PriceAnswer
    <3>2. /\ waiting'[s] = waiting[s] \ {f}
          /\ stage'[s] = IF waiting[s] = {f} THEN "ready" ELSE "prices"
          /\ priced'[s] = IF f \in Sells[s] THEN priced[s] \cup {f} ELSE priced[s]
      BY <1>0, <3>1 DEF TypeOK
    <3>3. \A r \in Stations \ {s} :
            waiting'[r] = waiting[r] /\ stage'[r] = stage[r] /\ priced'[r] = priced[r]
      BY <1>0, <3>1 DEF TypeOK
    <3>4. priced[s] = Sells[s] \ waiting[s] /\ failed[s] \subseteq waiting[s]
      BY <1>0, <3>1 DEF PricesOK
    <3>5. priced'[s] = Sells[s] \ waiting'[s] /\ failed[s] \subseteq waiting'[s]
      BY <3>1, <3>2, <3>4
    <3>6. waiting[s] = {f} => waiting'[s] = {} /\ priced'[s] = Sells[s]
      BY <3>2, <3>5
    <3> SUFFICES ASSUME NEW r \in Stations
                 PROVE  /\ failed[r] \subseteq waiting'[r]
                        /\ stage'[r] # "prices" => waiting'[r] = {}
                        /\ stage'[r] \in {"towns", "fuels"} => priced'[r] = {}
                        /\ stage'[r] = "prices" => priced'[r] = Sells[r] \ waiting'[r]
                        /\ stage'[r] \in {"ready", "appending", "left"} /\ r \notin unknown =>
                             priced'[r] = Sells[r]
      BY <3>1 DEF PricesOK
    <3>7. CASE r = s
      BY <3>2, <3>5, <3>6, <3>7
    <3>8. CASE r # s
      BY <1>0, <3>3, <3>8 DEF PricesOK
    <3> QED
      BY <3>7, <3>8
  <2> QED
    BY <2>1, <2>2, <2>3 DEF IInv
<1>6. ASSUME NEW f \in Fuels, PriceFails(s, f) PROVE IInv'
  <2>1. AppendOK' /\ UnknownOK' /\ RaceOK' /\ ListOK' /\ DoneOK'
    BY <1>6 DEF PriceFails, IInv, AppendOK, UnknownOK, RaceOK, ListOK, DoneOK
  <2>2. TypeOK' /\ PricesOK'
    BY <1>0, <1>6 DEF PriceFails, TypeOK, PricesOK
  <2> QED
    BY <2>1, <2>2 DEF IInv
<1> QED
  BY <1>1, <1>2, <1>3, <1>4, <1>5, <1>6 DEF Answer

\* Every step preserves the invariant.
LEMMA NextIInv == IInv /\ [Next]_vars => IInv'
<1> SUFFICES ASSUME IInv, [Next]_vars PROVE IInv'
  OBVIOUS
<1>1. ASSUME NEW s \in Stations, Answer(s) PROVE IInv'
  BY <1>1, AnswerIInv
<1>2. ASSUME NEW s \in Stations, StationNotified(s) PROVE IInv'
  <2>1. /\ stage' \in [Stations -> Stages] /\ unknown' \subseteq Stations
        /\ append' \in [Threads -> [s : Stations \cup {None}, seen : Seq(Stations)]]
        /\ AppendOK' /\ UnknownOK' /\ RaceOK' /\ ListOK' /\ DoneOK'
    BY <1>2, BeginStep DEF StationNotified, Runs, Threads
  <2>2. TypeOK'
    BY <1>2, <2>1 DEF StationNotified, IInv, TypeOK
  <2>3. PricesOK'
    BY <1>2 DEF StationNotified, BeginAppend, IInv, TypeOK, PricesOK
  <2> QED
    BY <2>1, <2>2, <2>3 DEF IInv
<1>3. ASSUME NEW t \in Threads, EndAppend(t) PROVE IInv'
  BY <1>3, EndAppendIInv
<1>4. CASE RaceCrashes
  <2>1. append["session"] # Idle /\ append["main"] # Idle
    BY <1>4 DEF RaceCrashes, Threads
  <2>2. append["session"].s \in unknown /\ append["main"].s \in Stations \ unknown
        /\ stage[append["main"].s] = "appending"
    BY <2>1 DEF IInv, AppendOK, Threads
  <2>3. RaceOK' /\ ListOK'
    BY <1>4, <2>2 DEF RaceCrashes, RaceOK, ListOK
  <2> QED
    BY <1>4, <2>3 DEF RaceCrashes, IInv, TypeOK, AppendOK, UnknownOK, DoneOK, PricesOK
<1>5. CASE Notify
  BY <1>5 DEF Notify, IInv, TypeOK, AppendOK, UnknownOK, RaceOK, ListOK, DoneOK, PricesOK
<1>6. CASE UNCHANGED vars
  BY <1>6 DEF vars, IInv, TypeOK, AppendOK, UnknownOK, RaceOK, ListOK, DoneOK, PricesOK
<1> QED
  BY <1>1, <1>2, <1>3, <1>4, <1>5, <1>6 DEF Next

\* The invariant holds in every behaviour.
LEMMA PricesInvariant == Spec => []IInv
  BY InitIInv, NextIInv, PTL DEF Spec

-----------------------------------------------------------------------------
(* Theorems *)

\* The completion gets every favourite exactly once, unless two appends raced, and
\* each with all its prices, for any favourites and fuels (getFavoritesList,
\* getFuelPriceByGasStation).
THEOREM EveryFavoriteHandedOver == Spec => []HandsOverAll
<1>1. IInv => HandsOverAll
  <2> SUFFICES ASSUME IInv PROVE HandsOverAll
    OBVIOUS
  <2>1. ASSUME done, ~raced
        PROVE  Listed = Stations /\ \A m, n \in 1..Len(list) : list[m] = list[n] => m = n
    BY <2>1 DEF IInv, ListOK, DoneOK, Elements, Injective, Listed
  <2>2. \A s \in Stations :
          stage[s] \in {"ready", "appending", "left"} /\ s \notin unknown => priced[s] = Sells[s]
    BY DEF IInv, PricesOK
  <2> QED
    BY <2>1, <2>2 DEF HandsOverAll
<1> QED
  BY <1>1, PricesInvariant, PTL

\* Appends race only when some favourite's town is unknown and another one's is not,
\* for any favourites (getFavoritesList: append on two queues).
THEOREM RacesNeedUnknownTown == Spec => []RaceNeedsUnknownTown
<1>1. IInv => RaceNeedsUnknownTown
  BY DEF IInv, RaceOK, RaceNeedsUnknownTown
<1> QED
  BY <1>1, PricesInvariant, PTL

\* The look-up is a DispatchGroup's fan-out over the favourites: every step of it
\* ends or loses one task, notifies, or changes nothing the group shows
\* (getFavoritesList: enter, leave, notify).
THEOREM ImplementsFanOut == Spec => GroupSpec
<1>1. Init => Group!Init
  BY DEF Init, Group!Init, Dead
<1>2. IInv /\ [Next]_vars => [Group!Next]_(Group!vars)
  <2> SUFFICES ASSUME IInv, [Next]_vars PROVE [Group!Next]_(Group!vars)
    OBVIOUS
  <2>0. stage \in [Stations -> Stages] /\ failed \in [Stations -> SUBSET Fuels] /\ PricesOK
    BY DEF IInv, TypeOK
  <2>1. ASSUME NEW s \in Stations, RequestFails(s) PROVE Group!Next
    <3>1. stage[s] # "left" /\ ~Dead(s)
      BY <2>0, <2>1 DEF RequestFails, Dead, PricesOK
    <3>2. Group!Lose(s)
      BY <2>0, <2>1, <3>1 DEF RequestFails, Group!Lose, Dead
    <3> QED
      BY <3>2 DEF Group!Next
  <2>2. ASSUME NEW s \in Stations, NEW x \in Stages \ {"left", "dead"},
               stage[s] \notin {"left", "dead"}, stage' = [stage EXCEPT ![s] = x],
               UNCHANGED <<failed, done>>
        PROVE  UNCHANGED Group!vars
    BY <2>0, <2>2 DEF Group!vars, Dead
  <2>3. ASSUME NEW s \in Stations, TownsAnswer(s) PROVE UNCHANGED Group!vars
    BY <2>2, <2>3 DEF TownsAnswer, Stages
  <2>4. ASSUME NEW s \in Stations, TownUnknown(s) PROVE UNCHANGED Group!vars
    BY <2>2, <2>4 DEF TownUnknown, BeginAppend, Stages
  <2>5. ASSUME NEW s \in Stations, FuelsAnswer(s) PROVE UNCHANGED Group!vars
    BY <2>2, <2>5 DEF FuelsAnswer, Stages
  <2>6. ASSUME NEW s \in Stations, NEW f \in Fuels, PriceAnswer(s, f)
        PROVE  UNCHANGED Group!vars
    <3>1. CASE waiting[s] = {f}
      BY <2>0, <2>2, <2>6, <3>1 DEF PriceAnswer, Stages
    <3>2. CASE waiting[s] # {f}
      BY <2>0, <2>2, <2>6, <3>2 DEF PriceAnswer, Stages
    <3> QED
      BY <3>1, <3>2
  <2>7. ASSUME NEW s \in Stations, NEW f \in Fuels, PriceFails(s, f)
        PROVE  Group!Next \/ UNCHANGED Group!vars
    <3>1. CASE failed[s] = {}
      <4>1. stage[s] # "left" /\ ~Dead(s)
        BY <2>7, <3>1 DEF PriceFails, Dead
      <4>2. Group!Lose(s)
        BY <2>0, <2>7, <4>1 DEF PriceFails, Group!Lose, Dead
      <4> QED
        BY <4>2 DEF Group!Next
    <3>2. CASE failed[s] # {}
      BY <2>0, <2>7, <3>2 DEF PriceFails, Group!vars, Dead
    <3> QED
      BY <3>1, <3>2
  <2>8. ASSUME NEW s \in Stations, StationNotified(s) PROVE UNCHANGED Group!vars
    BY <2>2, <2>8 DEF StationNotified, BeginAppend, Stages
  <2>9. ASSUME NEW t \in Threads, EndAppend(t) PROVE Group!Next
    <3>1. /\ append[t].s \in Stations /\ stage[append[t].s] = "appending"
          /\ stage' = [stage EXCEPT ![append[t].s] = "left"] /\ UNCHANGED <<failed, done>>
      BY <2>9 DEF EndAppend, IInv, AppendOK
    <3>2. ASSUME NEW s \in Stations, stage[s] = "appending", stage' = [stage EXCEPT ![s] = "left"],
                 UNCHANGED <<failed, done>>
          PROVE  Group!End(s)
      <4>1. ~Dead(s)
        BY <2>0, <3>2 DEF Dead, PricesOK
      <4> QED
        BY <2>0, <3>2, <4>1 DEF Group!End, Dead
    <3> QED
      BY <3>1, <3>2 DEF Group!Next
  <2>10. CASE RaceCrashes
    BY <2>10 DEF RaceCrashes, Group!vars, Dead
  <2>11. CASE Notify
    BY <2>11 DEF Notify, Group!Next, Group!Notify, Dead
  <2>12. CASE UNCHANGED vars
    BY <2>12 DEF vars, Group!vars, Dead
  <2> QED
    BY <2>1, <2>3, <2>4, <2>5, <2>6, <2>7, <2>8, <2>9, <2>10, <2>11, <2>12 DEF Next, Answer
<1> QED
  BY <1>1, <1>2, PricesInvariant, PTL DEF Spec, GroupSpec, Group!Spec
=============================================================================
