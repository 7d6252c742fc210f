----------------------- MODULE RouteGasStations_proofs -----------------------
(***************************************************************************)
(* Proofs about RouteGasStations, for all routes, towns and price lists    *)
(* and any number of screens, and about KeyPoints, the loop that picks the *)
(* points of a route the search asks for, for every interval and routes of *)
(* any length.                                                             *)
(***************************************************************************)
EXTENDS RouteGasStations, KeyPoints, WellFoundedInduction, TLAPS

-----------------------------------------------------------------------------
(* The cheapest station of a town *)

Fits(r, s) == s \in Located /\ s \in Near[r]

\* A station near the route that none near it in the town undercuts.
IsBest(r, t, s) == s \in Candidates(r, t) /\ \A o \in Candidates(r, t) : Price[s] <= Price[o]

\* The parts of the assumption the proofs use.
LEMMA Constants ==
  /\ KeyPoints \in [Routes -> Seq(Places)] /\ Locality \in [Places -> Names \cup {None}]
  /\ OnSale \in [Towns -> Seq(Stations)] /\ Price \in [Stations -> Nat]
  /\ \A t, u \in Towns : t # u => ToSet(OnSale[t]) \cap ToSet(OnSale[u]) = {}
  /\ None \notin Routes /\ None \notin Stations /\ MaxVisits \in Nat /\ Visits \subseteq Nat
<1>1. /\ KeyPoints \in [Routes -> Seq(Places)] /\ Locality \in [Places -> Names \cup {None}]
      /\ OnSale \in [Towns -> Seq(Stations)] /\ Price \in [Stations -> Nat]
      /\ \A t, u \in Towns : t # u => ToSet(OnSale[t]) \cap ToSet(OnSale[u]) = {}
      /\ MaxVisits \in Nat /\ None \notin Routes \cup Places \cup Names \cup Stations
  BY RouteGasStationsAssumption, Zenon
<1>2. Visits \subseteq Nat
  BY <1>1 DEF Visits
<1> QED
  BY <1>1, <1>2

\* Every set of natural numbers that is not empty has a least one.
LEMMA LeastNatural ==
  ASSUME NEW T, T \subseteq Nat, T # {}
  PROVE  \E x \in T : \A y \in T : x <= y
<1>1. PICK x \in T : \A y \in T : ~(<<y, x>> \in OpToRel(<, Nat))
  BY WFMin, NatLessThanWellFounded
<1>2. \A y \in T : ~(y < x)
  BY <1>1 DEF OpToRel
<1> QED
  BY <1>2

\* After n rounds best is a station among the first n that fits and that none of
\* them that fits undercuts; None when none fits.
BestSoFar(r, l, best, n) ==
  /\ best[n] = None => \A m \in 1..n : ~Fits(r, l[m])
  /\ best[n] # None =>
       /\ Fits(r, best[n]) /\ best[n] \in ToSet(l)
       /\ \A m \in 1..n : Fits(r, l[m]) => Price[best[n]] <= Price[l[m]]

\* After each round best is the cheapest of the candidates so far, None without one.
LEMMA RoundsFindBest ==
  ASSUME NEW r, NEW l \in Seq(Stations), NEW best \in Rounds(r, l)
  PROVE  BestSoFar(r, l, best, Len(l))
<1> USE Constants
<1>1. /\ best \in [0..Len(l) -> ToSet(l) \cup {None}] /\ best[0] = None /\ Len(l) \in Nat
      /\ \A n \in 1..Len(l) : best[n] = Cheaper(r, best[n - 1], l[n])
      /\ \A n \in 1..Len(l) : l[n] \in Stations /\ l[n] \in ToSet(l) /\ l[n] # None
  BY DEF Rounds, ToSet
<1>2. BestSoFar(r, l, best, 0)
  BY <1>1 DEF BestSoFar
<1>3. ASSUME NEW n \in 1..Len(l), BestSoFar(r, l, best, n - 1) PROVE BestSoFar(r, l, best, n)
  <2>1. PICK b, c : b = best[n - 1] /\ c = best[n]
    OBVIOUS
  <2>2. /\ b \in ToSet(l) \cup {None} /\ c = Cheaper(r, b, l[n])
        /\ n - 1 \in 0..Len(l) /\ n \in Nat
    <3>1. n - 1 \in 0..Len(l) /\ n \in Nat
      BY <1>1, <1>3
    <3> QED
      BY <1>1, <1>3, <2>1, <3>1, Zenon
  <2>3. \A m \in 1..n : m \in 1..(n - 1) \/ m = n
    BY <1>1, <1>3
  <2>4. l[n] \in Stations /\ l[n] \in ToSet(l) /\ l[n] # None /\ Price[l[n]] \in Nat
    BY <1>1, <1>3
  <2>5. /\ b = None => \A m \in 1..(n - 1) : ~Fits(r, l[m])
        /\ b # None => /\ Fits(r, b) /\ b \in ToSet(l) /\ b \in Stations /\ Price[b] \in Nat
                       /\ \A m \in 1..(n - 1) : Fits(r, l[m]) => Price[b] <= Price[l[m]]
    <3>1. ToSet(l) \subseteq Stations
      BY DEF ToSet
    <3> QED
      BY <1>3, <2>1, <3>1 DEF BestSoFar
  <2>6. \A m \in 1..(n - 1) : Price[l[m]] \in Nat
    BY <1>1, <1>3
  <2>7. CASE ~Fits(r, l[n])
    <3>1. c = b
      BY <2>2, <2>7 DEF Cheaper, Fits
    <3> QED
      BY <2>1, <2>3, <2>5, <2>7, <3>1 DEF BestSoFar
  <2>8. CASE Fits(r, l[n]) /\ (b = None \/ Price[l[n]] < Price[b])
    <3>1. c = l[n]
      BY <2>2, <2>8 DEF Cheaper, Fits
    <3>2. \A m \in 1..(n - 1) : Fits(r, l[m]) => Price[c] <= Price[l[m]]
      BY <2>4, <2>5, <2>6, <2>8, <3>1
    <3>3. \A m \in 1..n : Fits(r, l[m]) => Price[c] <= Price[l[m]]
      BY <2>3, <2>4, <3>1, <3>2
    <3> QED
      BY <2>1, <2>4, <2>8, <3>1, <3>3 DEF BestSoFar
  <2>9. CASE Fits(r, l[n]) /\ b # None /\ ~(Price[l[n]] < Price[b])
    <3>1. c = b
      BY <2>2, <2>9 DEF Cheaper, Fits
    <3>2. Price[b] <= Price[l[n]]
      BY <2>4, <2>5, <2>9
    <3> QED
      BY <2>1, <2>3, <2>5, <2>9, <3>1, <3>2 DEF BestSoFar
  <2> QED
    BY <2>7, <2>8, <2>9
<1>4. ASSUME ~BestSoFar(r, l, best, Len(l)) PROVE FALSE
  <2> DEFINE T == {n \in 0..Len(l) : ~BestSoFar(r, l, best, n)}
  <2>1. T \subseteq Nat /\ T # {}
    <3>1. Len(l) \in 0..Len(l)
      BY <1>1
    <3>2. T \subseteq Nat
      BY <1>1
    <3> QED
      BY <1>4, <3>1, <3>2
  <2>2. PICK x \in T : \A y \in T : x <= y
    BY <2>1, LeastNatural
  <2>3. x \in 1..Len(l) /\ x - 1 \in 0..Len(l) /\ x - 1 \notin T
    BY <1>1, <1>2, <2>2
  <2> QED
    BY <1>3, <2>3
<1> QED
  BY <1>4

\* getClosestCheapestGasStation: the town's best station, or None when none is near.
LEMMA StationFound ==
  ASSUME NEW r, NEW t \in Towns, NEW best \in Rounds(r, OnSale[t]),
         NEW s, s = best[Len(OnSale[t])]
  PROVE  IF s = None THEN Candidates(r, t) = {} ELSE s \in Stations /\ IsBest(r, t, s)
<1> USE Constants
<1>1. PICK l : l = OnSale[t]
  OBVIOUS
<1>2. l \in Seq(Stations) /\ s = best[Len(l)] /\ best \in Rounds(r, l)
  BY <1>1
<1>3. BestSoFar(r, l, best, Len(l))
  BY <1>2, RoundsFindBest
<1>4. \A o : o \in Candidates(r, t) <=> o \in ToSet(l) /\ Fits(r, o)
  BY <1>1 DEF Candidates, Fits
<1>5. \A o \in ToSet(l) : o \in Stations /\ \E n \in 1..Len(l) : o = l[n]
  BY <1>2 DEF ToSet
<1>6. CASE s = None
  <2>1. \A m \in 1..Len(l) : ~Fits(r, l[m])
    BY <1>2, <1>3, <1>6 DEF BestSoFar
  <2>2. ASSUME NEW o \in Candidates(r, t) PROVE FALSE
    <3>1. o \in ToSet(l) /\ Fits(r, o)
      BY <1>4
    <3>2. PICK n \in 1..Len(l) : o = l[n]
      BY <1>5, <3>1
    <3> QED
      BY <2>1, <3>1, <3>2
  <2> QED
    BY <1>6, <2>2
<1>7. CASE s # None
  <2>1. Fits(r, s) /\ s \in ToSet(l) /\ \A m \in 1..Len(l) : Fits(r, l[m]) => Price[s] <= Price[l[m]]
    BY <1>2, <1>3, <1>7 DEF BestSoFar
  <2>2. \A o \in Candidates(r, t) : Price[s] <= Price[o]
    BY <1>4, <1>5, <2>1
  <2> QED
    BY <1>4, <1>5, <1>7, <2>1, <2>2 DEF IsBest
<1> QED
  BY <1>6, <1>7

-----------------------------------------------------------------------------
(* The inductive invariant, in parts *)

\* A search begins with its screen, and asks for prices once it has the towns.
StartOK ==
  /\ \A v \in Visits : v > visits => phase[v] = "none"
  /\ \A v \in Visits : phase[v] # "none" => route[v] \in Routes
  /\ \A v \in Visits : phase[v] \notin {"prices", "done"} =>
       open[v] = {} /\ lost[v] = {} /\ posible[v] = <<>>
  /\ \A v \in Visits : phase[v] = "done" => open[v] = {}

\* The request of this interval has been sent unless the search is about to send it.
PaceOK == \A v \in Visits : sent[v] <= 1 /\ (phase[v] \in {"none", "ready"} => sent[v] = 0)

Base == TypeOK /\ StartOK /\ PaceOK

\* Nothing is open initially.
LEMMA InitBase == Init => Base
<1> SUFFICES ASSUME Init PROVE Base
  OBVIOUS
<1> USE Constants
<1>1. /\ route \in [Visits -> Routes \cup {None}] /\ phase \in [Visits -> Phases]
      /\ at \in [Visits -> Places \cup {None}]
      /\ municipalities \in [Visits -> SUBSET Names] /\ sent \in [Visits -> Nat]
      /\ open \in [Visits -> SUBSET Towns] /\ lost \in [Visits -> SUBSET Towns]
      /\ loading \in [Visits -> BOOLEAN] /\ skipped \in [Visits -> BOOLEAN]
  BY DEF Init, Phases
<1>2. /\ queue \in [Visits -> Seq(Places)]
      /\ posible \in [Visits -> Seq(Stations)] /\ list \in [Visits -> Seq(Stations)]
  <2>1. <<>> \in Seq(Places) /\ <<>> \in Seq(Stations)
    OBVIOUS
  <2> QED
    BY <2>1 DEF Init
<1>3. visits \in 0..MaxVisits /\ visible \in Visits \cup {None} /\ selected \in Stations \cup {None}
  BY DEF Init
<1>4. TypeOK
  BY <1>1, <1>2, <1>3 DEF TypeOK
<1>5. StartOK /\ PaceOK
  BY DEF Init, StartOK, PaceOK
<1> QED
  BY <1>4, <1>5 DEF Base

\* processNextLocation sends one request or finds its queue empty.
LEMMA Proceeds ==
  ASSUME TypeOK, NEW v \in Visits, NEW l \in Seq(Places), processNextLocation(v, l)
  PROVE  /\ phase' \in [Visits -> Phases] /\ queue' \in [Visits -> Seq(Places)]
         /\ at' \in [Visits -> Places \cup {None}] /\ sent' \in [Visits -> Nat]
         /\ \A w \in Visits : w # v => /\ phase'[w] = phase[w] /\ queue'[w] = queue[w]
                                       /\ at'[w] = at[w] /\ sent'[w] = sent[w]
         /\ \/ l = <<>> /\ phase'[v] = "swept" /\ queue'[v] = <<>> /\ sent'[v] = sent[v]
            \/ /\ l # <<>> /\ phase'[v] = "geocoding" /\ queue'[v] = Tail(l)
               /\ at'[v] = Head(l) /\ sent'[v] = sent[v] + 1
<1>0. /\ phase \in [Visits -> Phases] /\ queue \in [Visits -> Seq(Places)]
      /\ at \in [Visits -> Places \cup {None}] /\ sent \in [Visits -> Nat]
      /\ "swept" \in Phases /\ "geocoding" \in Phases
  BY DEF TypeOK, Phases
<1>1. CASE l = <<>>
  <2>1. /\ phase' = [phase EXCEPT ![v] = "swept"] /\ queue' = [queue EXCEPT ![v] = <<>>]
        /\ UNCHANGED <<at, sent>> /\ <<>> \in Seq(Places)
    BY <1>1 DEF processNextLocation
  <2> QED
    BY <1>0, <1>1, <2>1
<1>2. CASE l # <<>>
  <2>1. PICK h, r : h = Head(l) /\ r = Tail(l)
    OBVIOUS
  <2>2. h \in Places /\ r \in Seq(Places)
    BY <1>2, <2>1
  <2>3. /\ phase' = [phase EXCEPT ![v] = "geocoding"] /\ queue' = [queue EXCEPT ![v] = r]
        /\ at' = [at EXCEPT ![v] = h] /\ sent' = [sent EXCEPT ![v] = @ + 1]
    BY <1>2, <2>1 DEF processNextLocation
  <2>4. sent' \in [Visits -> Nat] /\ sent'[v] = sent[v] + 1 /\ \A w \in Visits : w # v => sent'[w] = sent[w]
    BY <1>0, <2>3
  <2> QED
    BY <1>0, <1>2, <2>1, <2>2, <2>3, <2>4
<1> QED
  BY <1>1, <1>2

\* A new screen begins its search (fetchGasStationsAlongRoute).
LEMMA OpenBase ==
  ASSUME Base, NEW r \in Routes, Open(r)
  PROVE  Base'
<1> USE Constants
<1>1. PICK v : v = visits + 1
  OBVIOUS
<1>2. TypeOK /\ visits \in 0..MaxVisits /\ visits < MaxVisits
  BY DEF Base, TypeOK, Open
<1>3. v \in Visits /\ visits' = v /\ visible' = v /\ v > visits /\ v \in 0..MaxVisits
  BY <1>1, <1>2 DEF Open, Visits
<1>4. KeyPoints[r] \in Seq(Places) /\ processNextLocation(v, KeyPoints[r])
  BY <1>3 DEF Open
<1>5. /\ phase' \in [Visits -> Phases] /\ queue' \in [Visits -> Seq(Places)]
      /\ at' \in [Visits -> Places \cup {None}] /\ sent' \in [Visits -> Nat]
      /\ \A w \in Visits : w # v => phase'[w] = phase[w] /\ sent'[w] = sent[w]
      /\ \/ phase'[v] = "swept" /\ sent'[v] = sent[v]
         \/ phase'[v] = "geocoding" /\ sent'[v] = sent[v] + 1
  BY <1>2, <1>3, <1>4, Proceeds
<1>6. /\ route' = [route EXCEPT ![v] = r] /\ loading' = [loading EXCEPT ![v] = TRUE]
      /\ UNCHANGED <<selected, municipalities, open, lost, posible, list, skipped>>
  BY <1>3 DEF Open
<1>7. TypeOK'
  BY <1>2, <1>3, <1>5, <1>6 DEF TypeOK
<1>8. phase[v] = "none" /\ route'[v] = r /\ \A w \in Visits : w # v => route'[w] = route[w]
  BY <1>2, <1>3, <1>6 DEF Base, StartOK, TypeOK
<1>9. StartOK'
  <2>1. \A w \in Visits : w > visits' => w # v /\ w > visits
    BY <1>1, <1>2, <1>3
  <2> QED
    BY <1>3, <1>5, <1>6, <1>8, <2>1 DEF Base, StartOK
<1>10. PaceOK'
  <2>1. sent[v] = 0
    BY <1>3, <1>8 DEF Base, PaceOK
  <2>2. sent'[v] \in {0, 1} /\ phase'[v] \notin {"none", "ready"}
    BY <1>5, <2>1
  <2>3. \A w \in Visits : w # v =>
          /\ sent'[w] = sent[w] /\ phase'[w] = phase[w] /\ sent[w] <= 1
          /\ phase[w] \in {"none", "ready"} => sent[w] = 0
    BY <1>5 DEF Base, PaceOK
  <2> QED
    BY <2>2, <2>3 DEF PaceOK
<1> QED
  BY <1>7, <1>9, <1>10 DEF Base

\* The pause is over and the next location is geocoded (processNextLocation).
LEMMA NextLocationBase ==
  ASSUME Base, NEW v \in Visits, NextLocation(v)
  PROVE  Base'
<1> USE Constants
<1>1. TypeOK /\ phase[v] = "ready" /\ queue[v] \in Seq(Places) /\ processNextLocation(v, queue[v])
  BY DEF Base, TypeOK, NextLocation
<1>2. /\ phase' \in [Visits -> Phases] /\ queue' \in [Visits -> Seq(Places)]
      /\ at' \in [Visits -> Places \cup {None}] /\ sent' \in [Visits -> Nat]
      /\ \A w \in Visits : w # v => phase'[w] = phase[w] /\ sent'[w] = sent[w]
      /\ \/ phase'[v] = "swept" /\ sent'[v] = sent[v]
         \/ phase'[v] = "geocoding" /\ sent'[v] = sent[v] + 1
  BY <1>1, Proceeds
<1>3. UNCHANGED <<visits, visible, selected, route, municipalities, skipped, open, lost, posible, list, loading>>
  BY DEF NextLocation, prices
<1>4. TypeOK'
  BY <1>1, <1>2, <1>3 DEF TypeOK
<1>5. StartOK'
  BY <1>1, <1>2, <1>3 DEF Base, StartOK
<1>6. PaceOK'
  <2>1. sent[v] = 0
    BY <1>1 DEF Base, PaceOK
  <2>2. sent'[v] \in {0, 1} /\ phase'[v] \notin {"none", "ready"}
    BY <1>2, <2>1
  <2>3. \A w \in Visits : w # v =>
          /\ sent'[w] = sent[w] /\ phase'[w] = phase[w] /\ sent[w] <= 1
          /\ phase[w] \in {"none", "ready"} => sent[w] = 0
    BY <1>2 DEF Base, PaceOK
  <2> QED
    BY <2>2, <2>3 DEF PaceOK
<1> QED
  BY <1>4, <1>5, <1>6 DEF Base

\* An answer to one search moves it on without a request.
LEMMA MovesOn ==
  ASSUME Base, NEW v \in Visits, phase[v] # "none", UNCHANGED <<visits, route, sent>>,
         NEW x \in Phases \ {"none", "ready"}, phase' = [phase EXCEPT ![v] = x]
  PROVE  /\ phase' \in [Visits -> Phases] /\ phase'[v] = x
         /\ \A w \in Visits : w # v => phase'[w] = phase[w]
         /\ PaceOK' /\ \A w \in Visits : w > visits' => phase'[w] = "none"
         /\ \A w \in Visits : phase'[w] # "none" => route'[w] \in Routes
<1> USE Constants
<1>1. /\ phase' \in [Visits -> Phases] /\ phase'[v] = x
      /\ \A w \in Visits : w # v => phase'[w] = phase[w]
  BY DEF Base, TypeOK
<1>2. PaceOK'
  BY <1>1 DEF Base, PaceOK
<1>3. ~(v > visits)
  BY DEF Base, StartOK
<1> QED
  BY <1>1, <1>2, <1>3 DEF Base, StartOK

\* The geocoder answers or fails, the sweep ends, the towns fail.
LEMMA SweepBase ==
  ASSUME Base, NEW v \in Visits,
         GeocodeAnswers(v) \/ GeocodeFails(v) \/ Swept(v) \/ TownsFail(v)
  PROVE  Base'
<1> USE Constants
<1>0. TypeOK
  BY DEF Base
<1>1. PICK x \in {"pausing", "towns", "dead"} : phase' = [phase EXCEPT ![v] = x]
  BY DEF GeocodeAnswers, GeocodeFails, Swept, TownsFail
<1>2. /\ UNCHANGED <<visits, visible, selected, route, at, sent, open, lost, posible, list, loading>>
      /\ phase[v] \in {"geocoding", "swept", "towns"}
  BY DEF GeocodeAnswers, GeocodeFails, Swept, TownsFail, prices
<1>3. x \in Phases \ {"none", "ready"}
  BY <1>1 DEF Phases
<1>4. /\ phase' \in [Visits -> Phases] /\ phase'[v] = x
      /\ \A w \in Visits : w # v => phase'[w] = phase[w]
      /\ PaceOK' /\ \A w \in Visits : w > visits' => phase'[w] = "none"
      /\ \A w \in Visits : phase'[w] # "none" => route'[w] \in Routes
  BY <1>1, <1>2, <1>3, MovesOn
<1>5. /\ queue' \in [Visits -> Seq(Places)] /\ municipalities' \in [Visits -> SUBSET Names]
      /\ skipped' \in [Visits -> BOOLEAN]
  <2>1. /\ queue \in [Visits -> Seq(Places)] /\ municipalities \in [Visits -> SUBSET Names]
        /\ skipped \in [Visits -> BOOLEAN] /\ at \in [Visits -> Places \cup {None}]
    BY <1>0 DEF TypeOK
  <2>2. CASE GeocodeAnswers(v)
    <3>1. skipped' = skipped
      BY <2>2 DEF GeocodeAnswers
    <3>2. CASE at[v] \in Spain
      <4>1. /\ queue' = queue
            /\ municipalities' = [municipalities EXCEPT ![v] = @ \cup ({Locality[at[v]]} \ {None})]
        BY <2>2, <3>2 DEF GeocodeAnswers
      <4>2. Locality[at[v]] \in Names \cup {None}
        BY <3>2, RouteGasStationsAssumption
      <4> QED
        BY <2>1, <3>1, <4>1, <4>2
    <3>3. CASE at[v] \notin Spain
      <4>1. queue' = [queue EXCEPT ![v] = <<>>] /\ UNCHANGED municipalities /\ <<>> \in Seq(Places)
        BY <2>2, <3>3 DEF GeocodeAnswers
      <4> QED
        BY <2>1, <3>1, <4>1
    <3> QED
      BY <3>2, <3>3
  <2>3. CASE GeocodeFails(v)
    BY <2>1, <2>3 DEF GeocodeFails
  <2>4. CASE Swept(v) \/ TownsFail(v)
    BY <2>1, <2>4 DEF Swept, TownsFail
  <2> QED
    BY <2>2, <2>3, <2>4
<1>6. TypeOK'
  BY <1>0, <1>2, <1>4, <1>5 DEF TypeOK
<1>7. StartOK'
  BY <1>1, <1>2, <1>4 DEF Base, StartOK
<1> QED
  BY <1>4, <1>6, <1>7 DEF Base

\* The towns arrive and the prices of those along the route are asked for.
LEMMA TownsAnswerBase ==
  ASSUME Base, NEW v \in Visits, TownsAnswer(v)
  PROVE  Base'
<1> USE Constants
<1>0. TypeOK
  BY DEF Base
<1>1. /\ phase' = [phase EXCEPT ![v] = "prices"] /\ phase[v] = "towns"
      /\ UNCHANGED <<visits, visible, selected, route, queue, at, municipalities, sent, skipped, lost, posible,
                     list, loading>>
      /\ "prices" \in Phases \ {"none", "ready"}
  BY DEF TownsAnswer, Phases
<1>2. /\ phase' \in [Visits -> Phases] /\ phase'[v] = "prices"
      /\ \A w \in Visits : w # v => phase'[w] = phase[w]
      /\ PaceOK' /\ \A w \in Visits : w > visits' => phase'[w] = "none"
      /\ \A w \in Visits : phase'[w] # "none" => route'[w] \in Routes
  BY <1>1, MovesOn
<1>3. open' \in [Visits -> SUBSET Towns] /\ \A w \in Visits : w # v => open'[w] = open[w]
  BY <1>0 DEF TypeOK, TownsAnswer
<1>4. TypeOK'
  BY <1>0, <1>1, <1>2, <1>3 DEF TypeOK
<1>5. StartOK'
  BY <1>1, <1>2, <1>3 DEF Base, StartOK
<1> QED
  BY <1>2, <1>4, <1>5 DEF Base

\* A town's prices: the group is left and its best station, if any, is added.
LEMMA PricesAnswerBase ==
  ASSUME Base, NEW v \in Visits, NEW t \in Towns, PricesAnswer(v, t)
  PROVE  /\ Base' /\ phase[v] = "prices" /\ t \in open[v]
         /\ open'[v] = open[v] \ {t}
         /\ \A w \in Visits : w # v => open'[w] = open[w] /\ posible'[w] = posible[w]
         /\ \/ Candidates(route[v], t) = {} /\ posible'[v] = posible[v]
            \/ \E s \in Stations : IsBest(route[v], t, s) /\ posible'[v] = Append(posible[v], s)
<1> USE Constants
<1>0. TypeOK /\ open \in [Visits -> SUBSET Towns] /\ posible \in [Visits -> Seq(Stations)]
  BY DEF Base, TypeOK
<1>1. /\ phase[v] = "prices" /\ t \in open[v] /\ open' = [open EXCEPT ![v] = @ \ {t}]
      /\ UNCHANGED <<visits, visible, selected, route, phase, queue, at, municipalities, sent, skipped,
                     lost, list, loading>>
  BY DEF PricesAnswer, chain
<1>2. /\ open' \in [Visits -> SUBSET Towns] /\ open'[v] = open[v] \ {t}
      /\ \A w \in Visits : w # v => open'[w] = open[w]
  BY <1>0, <1>1
<1>3. PICK best \in Rounds(route[v], OnSale[t]) :
        LET station == best[Len(OnSale[t])]
        IN  posible' = [posible EXCEPT ![v] = IF station = None THEN @ ELSE Append(@, station)]
  BY DEF PricesAnswer
<1>4. PICK s : s = best[Len(OnSale[t])]
  OBVIOUS
<1>5. IF s = None THEN Candidates(route[v], t) = {} ELSE s \in Stations /\ IsBest(route[v], t, s)
  BY <1>4, StationFound
<1>6. posible' = [posible EXCEPT ![v] = IF s = None THEN posible[v] ELSE Append(posible[v], s)]
  BY <1>0, <1>3, <1>4
<1>7. CASE s = None
  <2>1. posible' = posible
    BY <1>0, <1>6, <1>7
  <2>2. TypeOK'
    BY <1>0, <1>1, <1>2, <2>1 DEF TypeOK
  <2>3. StartOK' /\ PaceOK'
    BY <1>1, <1>2, <2>1 DEF Base, StartOK, PaceOK
  <2> QED
    BY <1>1, <1>2, <1>5, <1>7, <2>1, <2>2, <2>3 DEF Base
<1>8. CASE s # None
  <2>1. Append(posible[v], s) \in Seq(Stations)
    BY <1>0, <1>5, <1>8
  <2>2. /\ posible' \in [Visits -> Seq(Stations)] /\ posible'[v] = Append(posible[v], s)
        /\ \A w \in Visits : w # v => posible'[w] = posible[w]
    BY <1>0, <1>6, <1>8, <2>1
  <2>3. TypeOK'
    BY <1>0, <1>1, <1>2, <2>2 DEF TypeOK
  <2>4. StartOK' /\ PaceOK'
    BY <1>1, <1>2, <2>2 DEF Base, StartOK, PaceOK
  <2> QED
    BY <1>1, <1>2, <1>5, <1>8, <2>2, <2>3, <2>4 DEF Base
<1> QED
  BY <1>7, <1>8

\* A request for prices fails and does not leave its group.
LEMMA PricesFailBase ==
  ASSUME Base, NEW v \in Visits, NEW t \in Towns, PricesFail(v, t)
  PROVE  Base'
<1> USE Constants
<1>1. /\ phase[v] = "prices" /\ lost' = [lost EXCEPT ![v] = @ \cup {t}]
      /\ UNCHANGED <<visits, visible, selected, route, phase, queue, at, municipalities, sent, skipped,
                     open, posible, list, loading>>
  BY DEF PricesFail, chain
<1>2. lost' \in [Visits -> SUBSET Towns] /\ \A w \in Visits : w # v => lost'[w] = lost[w]
  BY <1>1 DEF Base, TypeOK
<1>3. TypeOK'
  BY <1>1, <1>2 DEF Base, TypeOK
<1>4. StartOK' /\ PaceOK'
  BY <1>1, <1>2 DEF Base, StartOK, PaceOK
<1> QED
  BY <1>3, <1>4 DEF Base

\* The elements of s are those of l in another order.
Rearranged(s, l) ==
  \E p \in [1..Len(l) -> 1..Len(l)] :
    /\ \A n \in 1..Len(l) : s[n] = l[p[n]]
    /\ \A m, n \in 1..Len(l) : p[m] = p[n] => m = n
    /\ \A n \in 1..Len(l) : \E m \in 1..Len(l) : p[m] = n

\* A sorted list has the same stations, each in one place, none before a cheaper one.
LEMMA SortedList ==
  ASSUME NEW l \in Seq(Stations), NEW s \in Sorted(l)
  PROVE  /\ s \in Seq(Stations) /\ Len(s) = Len(l)
         /\ Rearranged(s, l) /\ \A m, n \in 1..Len(s) : m < n => Price[s[m]] <= Price[s[n]]
<1> USE Constants
<1>1. PICK p \in Bijection(1..Len(l), 1..Len(l)) : s = [n \in 1..Len(l) |-> l[p[n]]]
  BY DEF Sorted
<1>2. \A m, n \in 1..Len(s) : m < n => ~(Price[s[n]] < Price[s[m]])
  BY DEF Sorted, IsSorted
<1>3. /\ p \in [1..Len(l) -> 1..Len(l)]
      /\ \A m, n \in 1..Len(l) : p[m] = p[n] => m = n
      /\ \A n \in 1..Len(l) : \E m \in 1..Len(l) : p[m] = n
  BY DEF Bijection, Injection, Surjection, IsInjective
<1>4. s \in Seq(Stations) /\ Len(s) = Len(l) /\ \A n \in 1..Len(l) : s[n] = l[p[n]]
  <2>1. Len(l) \in Nat /\ \A n \in 1..Len(l) : p[n] \in 1..Len(l) /\ l[p[n]] \in Stations
    <3>1. Len(l) \in Nat /\ \A k \in 1..Len(l) : l[k] \in Stations
      OBVIOUS
    <3>2. \A n \in 1..Len(l) : p[n] \in 1..Len(l)
      BY <1>3, Zenon
    <3> QED
      BY <3>1, <3>2, Zenon
  <2>2. s \in [1..Len(l) -> Stations] /\ \A n \in 1..Len(l) : s[n] = l[p[n]]
    BY <1>1, <2>1
  <2> QED
    BY <2>1, <2>2
<1>5. \A n \in 1..Len(s) : Price[s[n]] \in Nat
  BY <1>4
<1>6. \A m, n \in 1..Len(s) : m < n => Price[s[m]] <= Price[s[n]]
  BY <1>2, <1>5
<1>7. Rearranged(s, l)
  BY <1>3, <1>4, Zenon DEF Rearranged
<1> QED
  BY <1>4, <1>6, <1>7

\* The group is empty and the sorted list is shown (dispatchGroup.notify).
LEMMA NotifiedBase ==
  ASSUME Base, NEW v \in Visits, Notified(v)
  PROVE  Base' /\ list'[v] \in Sorted(posible[v]) /\ \A w \in Visits : w # v => list'[w] = list[w]
<1> USE Constants
<1>0. TypeOK /\ list \in [Visits -> Seq(Stations)] /\ posible[v] \in Seq(Stations)
  BY DEF Base, TypeOK
<1>1. /\ phase' = [phase EXCEPT ![v] = "done"] /\ phase[v] = "prices" /\ open[v] = {}
      /\ loading' = [loading EXCEPT ![v] = FALSE]
      /\ UNCHANGED <<visits, visible, selected, route, queue, at, municipalities, sent, skipped, open, lost, posible>>
      /\ "done" \in Phases \ {"none", "ready"}
  BY DEF Notified, Phases
<1>2. PICK s \in Sorted(posible[v]) : list' = [list EXCEPT ![v] = s]
  BY DEF Notified
<1>3. s \in Seq(Stations)
  BY <1>0, SortedList
<1>4. /\ list' \in [Visits -> Seq(Stations)] /\ list'[v] = s
      /\ \A w \in Visits : w # v => list'[w] = list[w]
  BY <1>0, <1>2, <1>3
<1>5. /\ phase' \in [Visits -> Phases] /\ phase'[v] = "done"
      /\ \A w \in Visits : w # v => phase'[w] = phase[w]
      /\ PaceOK' /\ \A w \in Visits : w > visits' => phase'[w] = "none"
      /\ \A w \in Visits : phase'[w] # "none" => route'[w] \in Routes
  BY <1>1, MovesOn
<1>6. loading' \in [Visits -> BOOLEAN]
  BY <1>0, <1>1 DEF TypeOK
<1>7. TypeOK'
  BY <1>0, <1>1, <1>4, <1>5, <1>6 DEF TypeOK
<1>8. StartOK'
  BY <1>1, <1>5 DEF Base, StartOK
<1> QED
  BY <1>2, <1>4, <1>5, <1>7, <1>8 DEF Base

\* Steps of the screen alone.
Screen ==
  \/ OpenWithoutRoute \/ popToPrevious \/ resetMapZoom
  \/ \E v \in Visits : \E n \in 1..Len(list[v]) : showGasStationInfo(v, n)

\* What the user does leaves the searches alone.
LEMMA ScreenBase ==
  ASSUME Base, Screen
  PROVE  /\ Base' /\ UNCHANGED <<route, phase, queue, at, municipalities, sent, skipped>>
         /\ UNCHANGED <<open, lost, posible, list, loading>>
<1> USE Constants
<1>0. TypeOK
  BY DEF Base
<1>1. /\ UNCHANGED <<route, phase, queue, at, municipalities, sent, skipped>>
      /\ UNCHANGED <<open, lost, posible, list, loading>>
  BY DEF Screen, OpenWithoutRoute, popToPrevious, resetMapZoom, showGasStationInfo, chain, prices
<1>2. /\ visits' \in 0..MaxVisits /\ visits' >= visits
      /\ visible' \in Visits \cup {None} /\ selected' \in Stations \cup {None}
  <2>1. CASE OpenWithoutRoute
    BY <1>0, <2>1 DEF OpenWithoutRoute, TypeOK, Visits
  <2>2. CASE popToPrevious \/ resetMapZoom
    BY <1>0, <2>2 DEF popToPrevious, resetMapZoom, TypeOK
  <2>3. ASSUME NEW v \in Visits, NEW n \in 1..Len(list[v]), showGasStationInfo(v, n)
        PROVE  UNCHANGED <<visits, visible>> /\ selected' \in Stations
    <3>1. list[v] \in Seq(Stations)
      BY <1>0 DEF TypeOK
    <3>2. list[v][n] \in Stations
      BY <3>1
    <3> QED
      BY <2>3, <3>2 DEF showGasStationInfo
  <2>4. visits \in Nat
    BY <1>0 DEF TypeOK
  <2> QED
    BY <1>0, <2>1, <2>2, <2>3, <2>4 DEF Screen, TypeOK
<1>3. TypeOK'
  BY <1>0, <1>1, <1>2 DEF TypeOK
<1>4. PaceOK'
  BY <1>1 DEF Base, PaceOK
<1>5. StartOK'
  <2>1. \A w \in Visits : w > visits' => w > visits
    BY <1>0, <1>2 DEF TypeOK
  <2> QED
    BY <1>1, <2>1 DEF Base, StartOK
<1> QED
  BY <1>1, <1>3, <1>4, <1>5 DEF Base

\* An interval passes: every search may send again.
LEMMA TickBase ==
  ASSUME Base, Tick
  PROVE  /\ Base' /\ UNCHANGED <<visits, route, queue, at, municipalities, skipped, open, lost, posible, list>>
         /\ \A v \in Visits : phase'[v] = IF phase[v] = "pausing" THEN "ready" ELSE phase[v]
<1> USE Constants
<1>1. /\ UNCHANGED <<visits, visible, selected, route, queue, at, municipalities, skipped>>
      /\ UNCHANGED <<open, lost, posible, list, loading>>
      /\ phase' = [v \in Visits |-> IF phase[v] = "pausing" THEN "ready" ELSE phase[v]]
      /\ sent' = [v \in Visits |-> 0]
  BY DEF Tick, prices
<1>2. phase' \in [Visits -> Phases] /\ sent' \in [Visits -> Nat]
  BY <1>1 DEF Base, TypeOK, Phases
<1>3. TypeOK'
  BY <1>1, <1>2 DEF Base, TypeOK
<1>4. PaceOK'
  BY <1>1 DEF PaceOK
<1>5. StartOK'
  BY <1>1 DEF Base, StartOK
<1> QED
  BY <1>1, <1>3, <1>4, <1>5 DEF Base

\* The kinds of steps.
LEMMA StepKinds ==
  ASSUME [Next]_vars
  PROVE  \/ Screen \/ Tick \/ UNCHANGED vars
         \/ \E r \in Routes : Open(r)
         \/ \E v \in Visits :
              \/ NextLocation(v) \/ GeocodeAnswers(v) \/ GeocodeFails(v) \/ Swept(v)
              \/ TownsAnswer(v) \/ TownsFail(v) \/ Notified(v)
              \/ \E t \in Towns : PricesAnswer(v, t) \/ PricesFail(v, t)
  BY DEF Next, Sweep, Fetch, Screen

\* The variables one by one.
LEMMA Stutter ==
  ASSUME UNCHANGED vars
  PROVE  /\ UNCHANGED <<visits, visible, selected, route, phase, queue, at, municipalities, sent, skipped>>
         /\ UNCHANGED <<open, lost, posible, list, loading>>
  BY DEF vars, chain, prices

\* Every step keeps Base.
LEMMA NextBase == Base /\ [Next]_vars => Base'
<1> SUFFICES ASSUME Base, [Next]_vars PROVE Base'
  OBVIOUS
<1>1. CASE UNCHANGED vars
  <2>1. TypeOK'
    BY <1>1, Stutter DEF Base, TypeOK
  <2>2. StartOK' /\ PaceOK'
    BY <1>1, Stutter DEF Base, StartOK, PaceOK
  <2> QED
    BY <2>1, <2>2 DEF Base
<1> QED
  BY <1>1, StepKinds, ScreenBase, TickBase, OpenBase, NextLocationBase, SweepBase, TownsAnswerBase,
     NotifiedBase, PricesAnswerBase, PricesFailBase

\* Base is an invariant.
LEMMA SpecBase == Spec => []Base
<1> QED
  BY InitBase, NextBase, PTL DEF Spec

\* The variables keep their types.
THEOREM RouteSearchTypes == Spec => []TypeOK
<1>1. Base => TypeOK
  BY DEF Base
<1> QED
  BY <1>1, SpecBase, PTL

\* A search never sends two requests within one interval (asyncAfter), however many
\* screens are opened and left: a request is sent only by a search whose pause has
\* ended or that has just begun, and neither has sent one in this interval.
THEOREM SearchIsPaced == Spec => []PacedSearch
<1>1. Base => PacedSearch
  BY DEF Base, PaceOK, PacedSearch
<1> QED
  BY <1>1, SpecBase, PTL

-----------------------------------------------------------------------------
(* Each search's prices are a fan-out *)

\* A step that keeps what the group of w shows.
LEMMA GroupKept ==
  ASSUME NEW w \in Visits, open'[w] = open[w], lost'[w] = lost[w],
         \/ phase'[w] = phase[w]
         \/ phase[w] \notin {"prices", "done"} /\ phase'[w] \notin {"prices", "done"}
  PROVE  UNCHANGED PriceGroup(w)!vars
  BY DEF PriceGroup!vars

\* Every step is a step of a FanOut or a stutter, for each search.
LEMMA GroupStep ==
  ASSUME Base, [Next]_vars, NEW w \in Visits
  PROVE  PriceGroup(w)!Next \/ UNCHANGED PriceGroup(w)!vars
<1> USE Constants
<1>0. /\ phase \in [Visits -> Phases] /\ open \in [Visits -> SUBSET Towns] /\ lost \in [Visits -> SUBSET Towns]
  BY DEF Base, TypeOK
<1>1. CASE UNCHANGED vars \/ Screen
  BY <1>1, Stutter, ScreenBase, GroupKept
<1>2. CASE Tick
  BY <1>2, TickBase, GroupKept
<1>3. ASSUME NEW r \in Routes, Open(r) PROVE UNCHANGED PriceGroup(w)!vars
  <2>1. PICK v : v = visits + 1
    OBVIOUS
  <2>2. visits \in 0..MaxVisits /\ visits < MaxVisits /\ visits' = v /\ UNCHANGED <<open, lost>>
    BY <1>3, <2>1 DEF Base, TypeOK, Open
  <2>3. v \in Visits /\ v > visits /\ TypeOK /\ KeyPoints[r] \in Seq(Places)
    BY <2>1, <2>2 DEF Visits, Base
  <2>4. processNextLocation(v, KeyPoints[r])
    BY <1>3, <2>2 DEF Open
  <2>5. phase'[v] \in {"swept", "geocoding"} /\ (w # v => phase'[w] = phase[w])
    BY <2>3, <2>4, Proceeds
  <2>6. phase[v] = "none"
    BY <2>3 DEF Base, StartOK
  <2> QED
    BY <2>2, <2>5, <2>6, GroupKept
<1>4. ASSUME NEW v \in Visits, NextLocation(v) PROVE UNCHANGED PriceGroup(w)!vars
  <2>1. TypeOK /\ phase[v] = "ready" /\ queue[v] \in Seq(Places) /\ processNextLocation(v, queue[v])
    BY <1>4 DEF Base, TypeOK, NextLocation
  <2>2. UNCHANGED <<open, lost>>
    BY <1>4 DEF NextLocation, prices
  <2>3. phase'[v] \in {"swept", "geocoding"} /\ (w # v => phase'[w] = phase[w])
    BY <2>1, Proceeds
  <2> QED
    BY <2>1, <2>2, <2>3, GroupKept
<1>5. ASSUME NEW v \in Visits, GeocodeAnswers(v) \/ GeocodeFails(v) \/ Swept(v) \/ TownsFail(v)
      PROVE  UNCHANGED PriceGroup(w)!vars
  <2>1. /\ UNCHANGED <<open, lost>> /\ phase[v] \notin {"prices", "done"}
        /\ phase'[v] \notin {"prices", "done"} /\ (w # v => phase'[w] = phase[w])
    BY <1>0, <1>5 DEF GeocodeAnswers, GeocodeFails, Swept, TownsFail, prices
  <2> QED
    BY <2>1, GroupKept
<1>6. ASSUME NEW v \in Visits, TownsAnswer(v) PROVE PriceGroup(w)!Next \/ UNCHANGED PriceGroup(w)!vars
  <2>1. /\ phase[v] = "towns" /\ phase'[v] = "prices" /\ lost' = lost /\ open'[v] \subseteq Towns
        /\ w # v => phase'[w] = phase[w] /\ open'[w] = open[w]
    BY <1>0, <1>6 DEF TownsAnswer
  <2>2. CASE w = v
    <3>1. PriceGroup(w)!Start
      BY <2>1, <2>2 DEF PriceGroup!Start
    <3> QED
      BY <3>1 DEF PriceGroup!Next
  <2>3. CASE w # v
    BY <2>1, <2>3, GroupKept
  <2> QED
    BY <2>2, <2>3
<1>7. ASSUME NEW v \in Visits, Notified(v) PROVE PriceGroup(w)!Next \/ UNCHANGED PriceGroup(w)!vars
  <2>1. /\ phase[v] = "prices" /\ open[v] = {} /\ phase'[v] = "done" /\ UNCHANGED <<open, lost>>
        /\ w # v => phase'[w] = phase[w]
    BY <1>0, <1>7 DEF Notified
  <2>2. CASE w = v
    <3>1. PriceGroup(w)!Notify
      BY <2>1, <2>2 DEF PriceGroup!Notify
    <3> QED
      BY <3>1 DEF PriceGroup!Next
  <2>3. CASE w # v
    BY <2>1, <2>3, GroupKept
  <2> QED
    BY <2>2, <2>3
<1>8. ASSUME NEW v \in Visits, NEW t \in Towns, PricesAnswer(v, t)
      PROVE  PriceGroup(w)!Next \/ UNCHANGED PriceGroup(w)!vars
  <2>1. /\ t \in open[v] \ lost[v] /\ UNCHANGED <<phase, lost>> /\ open'[v] = open[v] \ {t}
        /\ w # v => open'[w] = open[w]
    BY <1>0, <1>8 DEF PricesAnswer, chain
  <2>2. CASE w = v
    <3>1. PriceGroup(w)!End(t)
      BY <2>1, <2>2 DEF PriceGroup!End
    <3> QED
      BY <3>1 DEF PriceGroup!Next
  <2>3. CASE w # v
    BY <2>1, <2>3, GroupKept
  <2> QED
    BY <2>2, <2>3
<1>9. ASSUME NEW v \in Visits, NEW t \in Towns, PricesFail(v, t)
      PROVE  PriceGroup(w)!Next \/ UNCHANGED PriceGroup(w)!vars
  <2>1. /\ t \in open[v] \ lost[v] /\ UNCHANGED <<phase, open>> /\ lost'[v] = lost[v] \cup {t}
        /\ w # v => lost'[w] = lost[w]
    BY <1>0, <1>9 DEF PricesFail, chain
  <2>2. CASE w = v
    <3>1. PriceGroup(w)!Lose(t)
      BY <2>1, <2>2 DEF PriceGroup!Lose
    <3> QED
      BY <3>1 DEF PriceGroup!Next
  <2>3. CASE w # v
    BY <2>1, <2>3, GroupKept
  <2> QED
    BY <2>2, <2>3
<1> QED
  BY <1>1, <1>2, <1>3, <1>4, <1>5, <1>6, <1>7, <1>8, <1>9, StepKinds

\* The prices of each search are a DispatchGroup's fan-out: the tasks start once,
\* each ends at most once, and the list is shown once and after all of them
\* (fetchGasStationsAlongRoute), for any number of searches side by side.
THEOREM EachSearchIsAFanOut == Spec => PriceGroups
<1>1. Init => \A v \in Visits : PriceGroup(v)!Init
  BY DEF Init, PriceGroup!Init
<1>2. Base /\ [Next]_vars => \A v \in Visits : PriceGroup(v)!Next \/ UNCHANGED PriceGroup(v)!vars
  BY GroupStep
<1> QED
  BY <1>1, <1>2, SpecBase, PTL DEF Spec, PriceGroups

-----------------------------------------------------------------------------
(* The sweep leaves no municipality out *)

\* Of the first k points of P those before the border have their municipality in M.
Covered(P, M, k) ==
  \A n \in 1..k : (\A m \in 1..n : P[m] \in Spain) => Locality[P[n]] \in M \cup {None}

\* q holds the points of P after the k-th.
Left(P, q, k) == Len(q) = Len(P) - k /\ \A n \in 1..Len(q) : q[n] = P[k + n]

\* A search in phase x, geocoding a, with q to go and M found, along P.
SweepAt(x, P, q, a, M) ==
  /\ x = "geocoding" => \E k \in 1..Len(P) : a = P[k] /\ Left(P, q, k) /\ Covered(P, M, k - 1)
  /\ x \in {"pausing", "ready"} => \E k \in 0..Len(P) : Left(P, q, k) /\ Covered(P, M, k)
  /\ x \in {"swept", "towns", "prices", "done"} => Covered(P, M, Len(P))

SweptWell(v) == SweepAt(phase[v], KeyPoints[route[v]], queue[v], at[v], municipalities[v])
SweepOK == \A v \in Visits : ~skipped[v] => SweptWell(v)

\* processNextLocation goes on with what is left.
LEMMA SweepProceeds ==
  ASSUME NEW P \in Seq(Places), NEW q \in Seq(Places), NEW M, NEW k \in 0..Len(P),
         Left(P, q, k), Covered(P, M, k), NEW x, NEW r, NEW a,
         \/ q = <<>> /\ x = "swept"
         \/ q # <<>> /\ x = "geocoding" /\ r = Tail(q) /\ a = Head(q)
  PROVE  SweepAt(x, P, r, a, M)
<1>1. Len(P) \in Nat /\ Len(q) \in Nat /\ Len(q) = Len(P) - k /\ \A n \in 1..Len(q) : q[n] = P[k + n]
  BY DEF Left
<1>2. CASE q = <<>> /\ x = "swept"
  <2>1. k = Len(P)
    BY <1>1, <1>2
  <2> QED
    BY <1>2, <2>1 DEF SweepAt
<1>3. CASE q # <<>> /\ x = "geocoding" /\ r = Tail(q) /\ a = Head(q)
  <2>1. k + 1 \in 1..Len(P) /\ a = P[k + 1] /\ (k + 1) - 1 = k
    BY <1>1, <1>3
  <2>2. Len(r) = Len(P) - (k + 1)
    BY <1>1, <1>3
  <2>3. ASSUME NEW n \in 1..Len(r) PROVE r[n] = P[(k + 1) + n]
    <3>1. r[n] = q[n + 1] /\ n + 1 \in 1..Len(q) /\ k + (n + 1) = (k + 1) + n
      BY <1>1, <1>3, <2>2
    <3> QED
      BY <1>1, <3>1
  <2>4. Left(P, r, k + 1) /\ Covered(P, M, (k + 1) - 1)
    BY <2>1, <2>2, <2>3 DEF Left
  <2> QED
    BY <1>3, <2>1, <2>4 DEF SweepAt
<1> QED
  BY <1>2, <1>3

\* A geocoder's answer: the place in Spain is covered, the one abroad ends the sweep.
LEMMA SweepAnswered ==
  ASSUME NEW P \in Seq(Places), NEW q \in Seq(Places), NEW M, NEW a, NEW k \in 1..Len(P),
         a = P[k], Left(P, q, k), Covered(P, M, k - 1), NEW N, NEW r,
         \/ a \in Spain /\ N = M \cup ({Locality[a]} \ {None}) /\ r = q
         \/ a \notin Spain /\ N = M /\ r = <<>>
  PROVE  SweepAt("pausing", P, r, a, N)
<1>0. Len(P) \in Nat /\ k \in Nat /\ k >= 1 /\ k <= Len(P)
  OBVIOUS
<1>1. CASE a \in Spain /\ N = M \cup ({Locality[a]} \ {None}) /\ r = q
  <2>1. ASSUME NEW n \in 1..k, \A m \in 1..n : P[m] \in Spain PROVE Locality[P[n]] \in N \cup {None}
    <3>1. CASE n = k
      BY <1>1, <3>1
    <3>2. CASE n # k
      <4>1. n \in 1..(k - 1)
        BY <1>0, <3>2
      <4> QED
        BY <1>1, <2>1, <4>1 DEF Covered
    <3> QED
      BY <3>1, <3>2
  <2>2. Left(P, r, k) /\ Covered(P, N, k) /\ k \in 0..Len(P)
    BY <1>0, <1>1, <2>1 DEF Covered
  <2> QED
    BY <2>2 DEF SweepAt
<1>2. CASE a \notin Spain /\ N = M /\ r = <<>>
  <2>1. ASSUME NEW n \in 1..Len(P), \A m \in 1..n : P[m] \in Spain PROVE Locality[P[n]] \in N \cup {None}
    <3>1. n < k
      <4>1. n >= k => k \in 1..n
        BY <1>0
      <4> QED
        BY <1>0, <1>2, <2>1, <4>1
    <3>2. n \in 1..(k - 1)
      BY <1>0, <3>1
    <3> QED
      BY <1>2, <2>1, <3>2 DEF Covered
  <2>2. Covered(P, N, Len(P))
    BY <2>1 DEF Covered
  <2>3. Left(P, r, Len(P)) /\ Len(P) \in 0..Len(P)
    BY <1>0, <1>2 DEF Left
  <2> QED
    BY <2>2, <2>3 DEF SweepAt
<1> QED
  BY <1>1, <1>2

\* Every step keeps SweepOK.
LEMMA NextSweep == Base /\ SweepOK /\ [Next]_vars => SweepOK'
<1> SUFFICES ASSUME Base, SweepOK, [Next]_vars, NEW w \in Visits, ~skipped'[w] PROVE SweptWell(w)'
  BY DEF SweepOK
<1> USE Constants
<1>0. /\ TypeOK /\ phase \in [Visits -> Phases] /\ skipped \in [Visits -> BOOLEAN]
      /\ queue \in [Visits -> Seq(Places)] /\ municipalities \in [Visits -> SUBSET Names]
      /\ route \in [Visits -> Routes \cup {None}]
  BY DEF Base, TypeOK
<1>1. ASSUME skipped'[w] = skipped[w], route'[w] = route[w], queue'[w] = queue[w], at'[w] = at[w],
             municipalities'[w] = municipalities[w],
             \/ phase'[w] = phase[w]
             \/ phase[w] = "pausing" /\ phase'[w] = "ready"
             \/ phase[w] \in {"swept", "towns", "prices"} /\ phase'[w] \in {"towns", "prices", "done", "dead"}
      PROVE  SweptWell(w)'
  <2>1. SweptWell(w)
    BY <1>1 DEF SweepOK
  <2> QED
    BY <1>1, <2>1 DEF SweptWell, SweepAt
<1>2. CASE UNCHANGED vars \/ Screen
  BY <1>1, <1>2, Stutter, ScreenBase
<1>3. CASE Tick
  BY <1>1, <1>3, TickBase
<1>4. ASSUME NEW r \in Routes, Open(r) PROVE SweptWell(w)'
  <2>1. PICK v : v = visits + 1
    OBVIOUS
  <2>2. visits \in 0..MaxVisits /\ visits < MaxVisits /\ visits' = v /\ UNCHANGED <<municipalities, skipped>>
    BY <1>4, <2>1 DEF Base, TypeOK, Open
  <2>3. v \in Visits /\ KeyPoints[r] \in Seq(Places)
    BY <2>1, <2>2 DEF Visits
  <2>4. processNextLocation(v, KeyPoints[r]) /\ route' = [route EXCEPT ![v] = r]
    BY <1>4, <2>2 DEF Open
  <2>5. PICK P : P = KeyPoints[r]
    OBVIOUS
  <2>6. /\ w # v => phase'[w] = phase[w] /\ queue'[w] = queue[w] /\ at'[w] = at[w]
        /\ \/ P = <<>> /\ phase'[v] = "swept"
           \/ P # <<>> /\ phase'[v] = "geocoding" /\ queue'[v] = Tail(P) /\ at'[v] = Head(P)
    BY <1>0, <2>3, <2>4, <2>5, Proceeds
  <2>7. route'[v] = r /\ (w # v => route'[w] = route[w])
    BY <1>0, <2>3, <2>4
  <2>8. CASE w = v
    <3>1. P \in Seq(Places) /\ 0 \in 0..Len(P) /\ Left(P, P, 0) /\ Covered(P, municipalities'[v], 0)
      BY <2>3, <2>5 DEF Left, Covered
    <3>2. SweepAt(phase'[v], P, queue'[v], at'[v], municipalities'[v])
      BY <2>6, <3>1, SweepProceeds
    <3> QED
      BY <2>5, <2>7, <2>8, <3>2 DEF SweptWell
  <2>9. CASE w # v
    BY <1>1, <2>2, <2>6, <2>7, <2>9
  <2> QED
    BY <2>8, <2>9
<1>5. ASSUME NEW v \in Visits, NextLocation(v) PROVE SweptWell(w)'
  <2>1. phase[v] = "ready" /\ queue[v] \in Seq(Places) /\ processNextLocation(v, queue[v])
    BY <1>0, <1>5 DEF NextLocation
  <2>2. UNCHANGED <<route, municipalities, skipped>>
    BY <1>5 DEF NextLocation
  <2>3. PICK q : q = queue[v]
    OBVIOUS
  <2>4. /\ w # v => phase'[w] = phase[w] /\ queue'[w] = queue[w] /\ at'[w] = at[w]
        /\ \/ q = <<>> /\ phase'[v] = "swept"
           \/ q # <<>> /\ phase'[v] = "geocoding" /\ queue'[v] = Tail(q) /\ at'[v] = Head(q)
    BY <1>0, <2>1, <2>3, Proceeds
  <2>5. CASE w = v
    <3>1. PICK P : P = KeyPoints[route[v]]
      OBVIOUS
    <3>2. P \in Seq(Places)
      BY <2>1, <3>1 DEF Base, StartOK
    <3>3. PICK k \in 0..Len(P) : Left(P, q, k) /\ Covered(P, municipalities[v], k)
      BY <2>1, <2>2, <2>3, <2>5, <3>1 DEF SweepOK, SweptWell, SweepAt
    <3>4. q \in Seq(Places)
      BY <2>1, <2>3
    <3>5. SweepAt(phase'[v], P, queue'[v], at'[v], municipalities[v])
      BY <2>4, <3>2, <3>3, <3>4, SweepProceeds
    <3> QED
      BY <2>2, <2>5, <3>1, <3>5 DEF SweptWell
  <2>6. CASE w # v
    BY <1>1, <2>2, <2>4, <2>6
  <2> QED
    BY <2>5, <2>6
<1>6. ASSUME NEW v \in Visits, GeocodeAnswers(v) PROVE SweptWell(w)'
  <2>1. /\ phase[v] = "geocoding" /\ phase'[v] = "pausing" /\ UNCHANGED <<route, at, skipped>>
        /\ w # v => phase'[w] = phase[w]
    BY <1>0, <1>6 DEF GeocodeAnswers
  <2>2. /\ w # v => queue'[w] = queue[w] /\ municipalities'[w] = municipalities[w]
        /\ \/ /\ at[v] \in Spain /\ queue'[v] = queue[v]
              /\ municipalities'[v] = municipalities[v] \cup ({Locality[at[v]]} \ {None})
           \/ at[v] \notin Spain /\ municipalities'[v] = municipalities[v] /\ queue'[v] = <<>>
    BY <1>0, <1>6 DEF GeocodeAnswers
  <2>3. CASE w = v
    <3>1. PICK P, q, M, a : P = KeyPoints[route[v]] /\ q = queue[v] /\ M = municipalities[v] /\ a = at[v]
      OBVIOUS
    <3>2. P \in Seq(Places) /\ q \in Seq(Places)
      BY <1>0, <2>1, <3>1 DEF Base, StartOK
    <3>3. PICK k \in 1..Len(P) : a = P[k] /\ Left(P, q, k) /\ Covered(P, M, k - 1)
      BY <2>1, <2>3, <3>1 DEF SweepOK, SweptWell, SweepAt
    <3>4. \/ a \in Spain /\ municipalities'[v] = M \cup ({Locality[a]} \ {None}) /\ queue'[v] = q
          \/ a \notin Spain /\ municipalities'[v] = M /\ queue'[v] = <<>>
      BY <2>2, <3>1
    <3>5. SweepAt("pausing", P, queue'[v], a, municipalities'[v])
      BY <3>2, <3>3, <3>4, SweepAnswered
    <3> QED
      BY <2>1, <2>3, <3>1, <3>5 DEF SweptWell
  <2>4. CASE w # v
    BY <1>1, <2>1, <2>2, <2>4
  <2> QED
    BY <2>3, <2>4
<1>7. ASSUME NEW v \in Visits, GeocodeFails(v) PROVE SweptWell(w)'
  <2>1. /\ skipped'[v] = TRUE /\ UNCHANGED <<route, queue, at, municipalities>>
        /\ w # v => phase'[w] = phase[w] /\ skipped'[w] = skipped[w]
    BY <1>0, <1>7 DEF GeocodeFails
  <2> QED
    BY <1>1, <2>1
<1>8. ASSUME NEW v \in Visits, Swept(v) \/ TownsAnswer(v) \/ TownsFail(v) \/ Notified(v) PROVE SweptWell(w)'
  <2>1. /\ UNCHANGED <<route, queue, at, municipalities, skipped>> /\ (w # v => phase'[w] = phase[w])
        /\ phase[v] \in {"swept", "towns", "prices"} /\ phase'[v] \in {"towns", "prices", "done", "dead"}
    BY <1>0, <1>8 DEF Swept, TownsAnswer, TownsFail, Notified
  <2> QED
    BY <1>1, <2>1
<1>9. ASSUME NEW v \in Visits, NEW t \in Towns, PricesAnswer(v, t) \/ PricesFail(v, t) PROVE SweptWell(w)'
  BY <1>1, <1>9 DEF PricesAnswer, PricesFail, chain
<1> QED
  BY <1>2, <1>3, <1>4, <1>5, <1>6, <1>7, <1>8, <1>9, StepKinds

-----------------------------------------------------------------------------
(* The list is cheapest and complete *)

\* With O still open, list l along r has the best station of some other towns, one
\* of each at most, and one of each other town of a name in M that has any.
StationsOK(r, M, O, l) ==
  /\ \A n \in 1..Len(l) : \E t \in Towns \ O : IsBest(r, t, l[n])
  /\ \A t \in Towns : \A m, n \in 1..Len(l) :
       l[m] \in ToSet(OnSale[t]) /\ l[n] \in ToSet(OnSale[t]) => m = n
  /\ \A t \in Towns \ O : Name[t] \in M /\ Candidates(r, t) # {} =>
       \E n \in 1..Len(l) : l[n] \in ToSet(OnSale[t])

Cheap(l) == \A m, n \in 1..Len(l) : m < n => Price[l[m]] <= Price[l[n]]

PriceAt(v) ==
  /\ phase[v] = "prices" => StationsOK(route[v], municipalities[v], open[v], posible[v])
  /\ phase[v] = "done" => StationsOK(route[v], municipalities[v], {}, list[v]) /\ Cheap(list[v])
PriceOK == \A v \in Visits : PriceAt(v)

\* A station of a town is in no other town.
LEMMA OneTown ==
  ASSUME NEW t \in Towns, NEW u \in Towns, NEW s, s \in ToSet(OnSale[t]), s \in ToSet(OnSale[u])
  PROVE  t = u
<1>1. t # u => ToSet(OnSale[t]) \cap ToSet(OnSale[u]) = {}
  BY Constants
<1> QED
  BY <1>1

\* A town that answers without a station near the route.
LEMMA NothingAdded ==
  ASSUME NEW r, NEW M, NEW O, NEW l, StationsOK(r, M, O, l), NEW t \in Towns, Candidates(r, t) = {}
  PROVE  StationsOK(r, M, O \ {t}, l)
  BY DEF StationsOK

\* A town that answers with its best station.
LEMMA StationAdded ==
  ASSUME NEW r, NEW M, NEW O, NEW l \in Seq(Stations), StationsOK(r, M, O, l),
         NEW t \in Towns, t \in O, NEW s \in Stations, IsBest(r, t, s)
  PROVE  StationsOK(r, M, O \ {t}, Append(l, s))
<1>1. PICK k : k = Append(l, s)
  OBVIOUS
<1>2. /\ Len(l) \in Nat /\ Len(k) = Len(l) + 1 /\ k[Len(l) + 1] = s /\ Len(l) + 1 \in 1..Len(k)
      /\ \A n \in 1..Len(l) : k[n] = l[n] /\ n \in 1..Len(k)
      /\ \A n \in 1..Len(k) : n \in 1..Len(l) \/ n = Len(l) + 1
  BY <1>1
<1>3. s \in ToSet(OnSale[t])
  BY DEF IsBest, Candidates
<1>4. ASSUME NEW n \in 1..Len(k) PROVE \E u \in Towns \ (O \ {t}) : IsBest(r, u, k[n])
  <2>1. CASE n \in 1..Len(l)
    BY <1>2, <2>1 DEF StationsOK
  <2>2. CASE n = Len(l) + 1
    BY <1>2, <2>2
  <2> QED
    BY <1>2, <2>1, <2>2
<1>5. \A n \in 1..Len(l) : l[n] \notin ToSet(OnSale[t])
  <2>1. SUFFICES ASSUME NEW n \in 1..Len(l), l[n] \in ToSet(OnSale[t]) PROVE FALSE
    OBVIOUS
  <2>2. PICK u \in Towns \ O : IsBest(r, u, l[n])
    BY <2>1 DEF StationsOK
  <2>3. l[n] \in ToSet(OnSale[u])
    BY <2>2 DEF IsBest, Candidates
  <2>4. u = t
    BY <2>1, <2>2, <2>3, OneTown
  <2> QED
    BY <2>2, <2>4
<1>6. ASSUME NEW u \in Towns, NEW m \in 1..Len(k), NEW n \in 1..Len(k),
             k[m] \in ToSet(OnSale[u]), k[n] \in ToSet(OnSale[u])
      PROVE  m = n
  <2>1. CASE u = t
    <3>1. m = Len(l) + 1 /\ n = Len(l) + 1
      BY <1>2, <1>5, <1>6, <2>1
    <3> QED
      BY <3>1
  <2>2. CASE u # t
    <3>1. s \notin ToSet(OnSale[u])
      BY <1>3, <2>2, OneTown
    <3>2. m \in 1..Len(l) /\ n \in 1..Len(l) /\ k[m] = l[m] /\ k[n] = l[n]
      BY <1>2, <1>6, <3>1
    <3> QED
      BY <1>6, <3>2 DEF StationsOK
  <2> QED
    BY <2>1, <2>2
<1>7. ASSUME NEW u \in Towns \ (O \ {t}), Name[u] \in M, Candidates(r, u) # {}
      PROVE  \E n \in 1..Len(k) : k[n] \in ToSet(OnSale[u])
  <2>1. CASE u = t
    BY <1>2, <1>3, <2>1
  <2>2. CASE u # t
    BY <1>2, <1>7, <2>2 DEF StationsOK
  <2> QED
    BY <2>1, <2>2
<1> QED
  BY <1>1, <1>4, <1>6, <1>7 DEF StationsOK

\* Sorting the list changes none of this.
LEMMA SortedStations ==
  ASSUME NEW r, NEW M, NEW l \in Seq(Stations), StationsOK(r, M, {}, l), NEW s \in Sorted(l)
  PROVE  StationsOK(r, M, {}, s) /\ Cheap(s)
<1>1. PICK p \in [1..Len(l) -> 1..Len(l)] :
         /\ \A n \in 1..Len(l) : s[n] = l[p[n]]
         /\ \A m, n \in 1..Len(l) : p[m] = p[n] => m = n
         /\ \A n \in 1..Len(l) : \E m \in 1..Len(l) : p[m] = n
  <2>1. Rearranged(s, l)
    BY SortedList
  <2> QED
    BY <2>1, Zenon DEF Rearranged
<1>2. Len(s) = Len(l) /\ Cheap(s)
  BY SortedList DEF Cheap
<1>3. \A n \in 1..Len(s) : n \in 1..Len(l) /\ p[n] \in 1..Len(l) /\ s[n] = l[p[n]]
  BY <1>1, <1>2, Zenon
<1>4. \A n \in 1..Len(s) : \E t \in Towns \ {} : IsBest(r, t, s[n])
  BY <1>3, Zenon DEF StationsOK
<1>5. ASSUME NEW t \in Towns, NEW m \in 1..Len(s), NEW n \in 1..Len(s),
             s[m] \in ToSet(OnSale[t]), s[n] \in ToSet(OnSale[t])
      PROVE  m = n
  <2>1. p[m] = p[n]
    BY <1>3, <1>5 DEF StationsOK
  <2> QED
    BY <1>1, <1>3, <2>1
<1>6. ASSUME NEW t \in Towns \ {}, Name[t] \in M, Candidates(r, t) # {}
      PROVE  \E n \in 1..Len(s) : s[n] \in ToSet(OnSale[t])
  <2>1. PICK n \in 1..Len(l) : l[n] \in ToSet(OnSale[t])
    BY <1>6 DEF StationsOK
  <2>2. PICK m \in 1..Len(l) : p[m] = n
    BY <1>1
  <2> QED
    BY <1>1, <1>2, <2>1, <2>2
<1> QED
  BY <1>2, <1>4, <1>5, <1>6 DEF StationsOK

\* Every step keeps PriceOK.
LEMMA NextPrice == Base /\ PriceOK /\ [Next]_vars => PriceOK'
<1> SUFFICES ASSUME Base, PriceOK, [Next]_vars, NEW w \in Visits PROVE PriceAt(w)'
  BY DEF PriceOK
<1> USE Constants
<1>0. /\ TypeOK /\ phase \in [Visits -> Phases] /\ open \in [Visits -> SUBSET Towns]
      /\ posible \in [Visits -> Seq(Stations)] /\ route \in [Visits -> Routes \cup {None}] /\ PriceAt(w)
  BY DEF Base, TypeOK, PriceOK
<1>1. ASSUME route'[w] = route[w], municipalities'[w] = municipalities[w], phase'[w] = phase[w],
             open'[w] = open[w], posible'[w] = posible[w], list'[w] = list[w]
      PROVE  PriceAt(w)'
  BY <1>0, <1>1 DEF PriceAt
<1>2. ASSUME phase'[w] \notin {"prices", "done"} PROVE PriceAt(w)'
  BY <1>2 DEF PriceAt
<1>3. CASE UNCHANGED vars \/ Screen
  BY <1>1, <1>3, Stutter, ScreenBase
<1>4. CASE Tick
  BY <1>1, <1>2, <1>4, TickBase
<1>5. ASSUME NEW r \in Routes, Open(r) PROVE PriceAt(w)'
  <2>1. PICK v : v = visits + 1
    OBVIOUS
  <2>2. /\ visits \in 0..MaxVisits /\ visits < MaxVisits /\ visits' = v
        /\ UNCHANGED <<municipalities, open, posible, list>>
    BY <1>5, <2>1 DEF Base, TypeOK, Open
  <2>3. v \in Visits /\ KeyPoints[r] \in Seq(Places)
    BY <2>1, <2>2 DEF Visits
  <2>4. processNextLocation(v, KeyPoints[r]) /\ route' = [route EXCEPT ![v] = r]
    BY <1>5, <2>2 DEF Open
  <2>5. phase'[v] \in {"swept", "geocoding"} /\ (w # v => phase'[w] = phase[w])
    BY <1>0, <2>3, <2>4, Proceeds
  <2>6. w # v => route'[w] = route[w]
    BY <1>0, <2>3, <2>4
  <2> QED
    BY <1>1, <1>2, <2>2, <2>5, <2>6
<1>6. ASSUME NEW v \in Visits, NextLocation(v) PROVE PriceAt(w)'
  <2>1. queue[v] \in Seq(Places) /\ processNextLocation(v, queue[v])
    BY <1>0, <1>6 DEF NextLocation, TypeOK
  <2>2. UNCHANGED <<route, municipalities, open, posible, list>>
    BY <1>6 DEF NextLocation, prices
  <2>3. phase'[v] \in {"swept", "geocoding"} /\ (w # v => phase'[w] = phase[w])
    BY <1>0, <2>1, Proceeds
  <2> QED
    BY <1>1, <1>2, <2>2, <2>3
<1>7. ASSUME NEW v \in Visits, GeocodeAnswers(v) \/ GeocodeFails(v) \/ Swept(v) \/ TownsFail(v)
      PROVE  PriceAt(w)'
  <2>1. /\ UNCHANGED <<route, open, posible, list>> /\ phase'[v] \notin {"prices", "done"}
        /\ w # v => phase'[w] = phase[w]
    BY <1>0, <1>7 DEF GeocodeAnswers, GeocodeFails, Swept, TownsFail, prices
  <2>2. w # v => municipalities'[w] = municipalities[w]
    BY <1>0, <1>7 DEF GeocodeAnswers, GeocodeFails, Swept, TownsFail, TypeOK
  <2> QED
    BY <1>1, <1>2, <2>1, <2>2
<1>8. ASSUME NEW v \in Visits, TownsAnswer(v) PROVE PriceAt(w)'
  <2>1. /\ UNCHANGED <<route, municipalities, posible, list>> /\ phase[v] = "towns" /\ phase'[v] = "prices"
        /\ open'[v] = {t \in Towns : Name[t] \in municipalities[v]}
        /\ w # v => phase'[w] = phase[w] /\ open'[w] = open[w]
    BY <1>0, <1>8 DEF TownsAnswer
  <2>2. CASE w = v
    <3>1. posible[v] = <<>>
      BY <2>1 DEF Base, StartOK
    <3>2. StationsOK(route[v], municipalities[v], open'[v], <<>>)
      BY <2>1 DEF StationsOK
    <3> QED
      BY <2>1, <2>2, <3>1, <3>2 DEF PriceAt
  <2>3. CASE w # v
    BY <1>1, <2>1, <2>3
  <2> QED
    BY <2>2, <2>3
<1>9. ASSUME NEW v \in Visits, NEW t \in Towns, PricesAnswer(v, t) PROVE PriceAt(w)'
  <2>1. UNCHANGED <<route, phase, municipalities, list>>
    BY <1>9 DEF PricesAnswer, chain
  <2>2. /\ phase[v] = "prices" /\ t \in open[v] /\ open'[v] = open[v] \ {t}
        /\ w # v => open'[w] = open[w] /\ posible'[w] = posible[w]
        /\ \/ Candidates(route[v], t) = {} /\ posible'[v] = posible[v]
           \/ \E s \in Stations : IsBest(route[v], t, s) /\ posible'[v] = Append(posible[v], s)
    BY <1>9, PricesAnswerBase
  <2>3. CASE w = v
    <3>1. StationsOK(route[v], municipalities[v], open[v], posible[v]) /\ posible[v] \in Seq(Stations)
      BY <1>0, <2>2, <2>3 DEF PriceAt
    <3>2. StationsOK(route[v], municipalities[v], open[v] \ {t}, posible'[v])
      <4>1. CASE Candidates(route[v], t) = {} /\ posible'[v] = posible[v]
        BY <3>1, <4>1, NothingAdded
      <4>2. ASSUME NEW s \in Stations, IsBest(route[v], t, s), posible'[v] = Append(posible[v], s)
            PROVE  StationsOK(route[v], municipalities[v], open[v] \ {t}, posible'[v])
        <5>1. StationsOK(route[v], municipalities[v], open[v] \ {t}, Append(posible[v], s))
          BY <2>2, <3>1, <4>2, StationAdded
        <5> QED
          BY <4>2, <5>1
      <4> QED
        BY <2>2, <4>1, <4>2
    <3> QED
      BY <2>1, <2>2, <2>3, <3>2 DEF PriceAt
  <2>4. CASE w # v
    BY <1>1, <2>1, <2>2, <2>4
  <2> QED
    BY <2>3, <2>4
<1>10. ASSUME NEW v \in Visits, NEW t \in Towns, PricesFail(v, t) PROVE PriceAt(w)'
  BY <1>1, <1>10 DEF PricesFail, chain
<1>11. ASSUME NEW v \in Visits, Notified(v) PROVE PriceAt(w)'
  <2>1. /\ UNCHANGED <<route, municipalities, open, posible>> /\ phase[v] = "prices" /\ open[v] = {}
        /\ phase'[v] = "done" /\ (w # v => phase'[w] = phase[w])
    BY <1>0, <1>11 DEF Notified
  <2>2. list'[v] \in Sorted(posible[v]) /\ (w # v => list'[w] = list[w])
    BY <1>11, NotifiedBase
  <2>3. CASE w = v
    <3>1. StationsOK(route[v], municipalities[v], {}, posible[v]) /\ posible[v] \in Seq(Stations)
      BY <1>0, <2>1, <2>3 DEF PriceAt
    <3>2. StationsOK(route[v], municipalities[v], {}, list'[v]) /\ Cheap(list'[v])
      BY <2>2, <3>1, SortedStations
    <3> QED
      BY <2>1, <2>3, <3>2 DEF PriceAt
  <2>4. CASE w # v
    BY <1>1, <2>1, <2>2, <2>4
  <2> QED
    BY <2>3, <2>4
<1> QED
  BY <1>3, <1>4, <1>5, <1>6, <1>7, <1>8, <1>9, <1>10, <1>11, StepKinds

\* PriceOK is an invariant.
LEMMA SpecPrice == Spec => []PriceOK
<1>1. Init => PriceOK
  BY DEF Init, PriceOK, PriceAt
<1> QED
  BY <1>1, NextPrice, SpecBase, PTL DEF Spec

\* What is listed is the cheapest station near the route of some town, at most one
\* of each, cheapest first (getClosestCheapestGasStation, dispatchGroup.notify): for
\* all price lists, in whatever order the towns answered.
THEOREM ListedAreCheapest == Spec => []ListIsCheapest
<1>1. PriceOK => ListIsCheapest
  <2>1. SUFFICES ASSUME PriceOK, NEW v \in Visits, phase[v] = "done"
                 PROVE  /\ Cheap(list[v])
                        /\ \A n \in 1..Len(list[v]) : \E t \in Towns : IsBest(route[v], t, list[v][n])
                        /\ \A t \in Towns : \A m, n \in 1..Len(list[v]) :
                             list[v][m] \in ToSet(OnSale[t]) /\ list[v][n] \in ToSet(OnSale[t]) => m = n
    BY DEF ListIsCheapest, Cheap, IsBest
  <2> QED
    BY <2>1 DEF PriceOK, PriceAt, StationsOK
<1> QED
  BY <1>1, SpecPrice, PTL

\* Every town along the route up to the border that has a station near the route is
\* listed with one, unless a location could not be geocoded (processNextLocation,
\* fetchGasStationsAlongRoute): for all routes, however many key points they have.
THEOREM ListedAreComplete == Spec => []ListIsComplete
<1>1. Init => SweepOK
  BY DEF Init, SweepOK, SweptWell, SweepAt
<1>2. ASSUME Base, SweepOK, PriceOK PROVE ListIsComplete
  <2>1. SUFFICES ASSUME NEW v \in Visits, phase[v] = "done", ~skipped[v], NEW t \in Towns,
                        Name[t] \in Along(route[v]), Candidates(route[v], t) # {}
                 PROVE  ToSet(list[v]) \cap ToSet(OnSale[t]) # {}
    BY DEF ListIsComplete
  <2>2. PICK P : P = KeyPoints[route[v]]
    OBVIOUS
  <2>3. Covered(P, municipalities[v], Len(P))
    BY <1>2, <2>1, <2>2 DEF SweepOK, SweptWell, SweepAt
  <2>4. PICK n \in 1..Len(P) : Name[t] = Locality[P[n]] /\ \A k \in 1..n : P[k] \in Spain
    BY <2>1, <2>2 DEF Along
  <2>5. Name[t] \in municipalities[v]
    BY <2>1, <2>3, <2>4 DEF Covered, Along
  <2>6. PICK m \in 1..Len(list[v]) : list[v][m] \in ToSet(OnSale[t])
    BY <1>2, <2>1, <2>5 DEF PriceOK, PriceAt, StationsOK
  <2>7. list[v] \in Seq(Stations)
    BY <1>2 DEF Base, TypeOK
  <2>8. list[v][m] \in ToSet(list[v])
    BY <2>6, <2>7 DEF ToSet
  <2> QED
    BY <2>6, <2>8
<1> QED
  BY <1>1, <1>2, NextSweep, SpecBase, SpecPrice, PTL DEF Spec

-----------------------------------------------------------------------------
(* The key points of a route *)

Legs == Seq(Seq(0..MaxLeg))
Points == [is : {"centre", "way"}, at : Nat]

\* The variables keep their types: a route of numbers and a position in it.
WalkTypes ==
  /\ steps \in Legs
  /\ step \in Nat \ {0} /\ point \in Nat \ {0}
  /\ accumulated \in Nat /\ lastAdded \in Nat
  /\ keyPoints \in Seq(Points) /\ walked \subseteq Nat

\* No point of the way lies beyond the last one kept, which is a mark.
Behind ==
  lastAdded \in Marks /\ \A k \in WayPoints : keyPoints[k].at <= lastAdded

\* One interval of the way for every point kept on it.
Counted ==
  /\ step <= Len(steps) + 1 => Len(keyPoints) * Interval <= lastAdded + Interval
  /\ Len(keyPoints) * Interval <= lastAdded + 2 * Interval

\* No more points than intervals travelled, and the two centres.
FewPoints == Len(keyPoints) * Interval <= accumulated + 2 * Interval

\* What makes Spaced, Sampled and FewPoints inductive.
WalkOK ==
  /\ WalkTypes /\ Behind /\ Counted /\ Spaced /\ Sampled
  /\ lastAdded <= accumulated /\ accumulated - lastAdded < Interval

\* A distance travelled against an interval.
LEMMA Travelled ==
  ASSUME NEW x \in Nat, NEW y \in Nat, NEW i \in Nat
  PROVE  x - y >= i <=> x >= y + i
  OBVIOUS

\* The same, short of the interval.
LEMMA NotTravelled ==
  ASSUME NEW x \in Nat, NEW y \in Nat, NEW i \in Nat
  PROVE  x - y < i <=> x < y + i
  OBVIOUS

\* A point kept moves the last distance kept to it.
LEMMA Moved ==
  ASSUME NEW x \in Nat, NEW y \in Nat, NEW i \in Nat, i > 0, y = x
  PROVE  y <= x /\ x < y + i
  OBVIOUS

\* What is covered grows by an interval when the way does.
LEMMA WayCovered ==
  ASSUME NEW old \in Nat, NEW x \in Nat, NEW y \in Nat, NEW i \in Nat,
         old <= y + i, x >= y + i
  PROVE  old + i <= x + i /\ old + i <= x + 2 * i
  OBVIOUS

\* One more point is one more interval.
LEMMA OneMore ==
  ASSUME NEW n \in Nat
  PROVE  (n + 1) * Interval = n * Interval + Interval
  BY KeyPointsAssumption

\* A step of the route is a sequence of distances.
LEMMA StepsAreLegs == Steps \subseteq Seq(0..MaxLeg)
<1> SUFFICES ASSUME NEW s \in Steps PROVE s \in Seq(0..MaxLeg)
  OBVIOUS
<1>1. PICK n \in 0..MaxPoints : s \in [1..n -> 0..MaxLeg]
  BY DEF Steps
<1>2. n \in Nat
  BY <1>1, KeyPointsAssumption
<1>3. PICK S : S = 0..MaxLeg
  OBVIOUS
<1>4. s \in [1..n -> S]
  BY <1>1, <1>3
<1>5. s \in Seq(S)
  BY <1>2, <1>4
<1> QED
  BY <1>3, <1>5

\* The initial states satisfy the invariant.
LEMMA InitWalkOK == WalkInit => WalkOK
<1> SUFFICES ASSUME WalkInit PROVE WalkOK
  OBVIOUS
<1> USE KeyPointsAssumption
<1>1. steps \in Legs
  <2>1. PICK n \in 0..MaxSteps : steps \in [1..n -> Steps]
    BY DEF WalkInit
  <2>2. n \in Nat /\ steps \in [1..n -> Seq(0..MaxLeg)]
    BY <2>1, StepsAreLegs
  <2> QED
    BY <2>2 DEF Legs
<1>2. CASE steps = <<>>
  <2>1. keyPoints = <<>> /\ Len(keyPoints) = 0
    BY <1>2 DEF WalkInit
  <2> QED
    BY <1>1, <2>1 DEF WalkInit, WalkOK, WalkTypes, Behind, Counted, Spaced, Sampled, WayPoints, Marks
<1>3. CASE steps # <<>>
  <2>1. keyPoints = <<Centre(1)>>
    BY <1>3 DEF WalkInit
  <2>2. /\ keyPoints \in Seq(Points) /\ Len(keyPoints) = 1
        /\ keyPoints[1] = [is |-> "centre", at |-> 1]
    BY <2>1 DEF Centre, Points
  <2>3. WayPoints = {}
    BY <2>2 DEF WayPoints
  <2> QED
    BY <1>1, <2>2, <2>3 DEF WalkInit, WalkOK, WalkTypes, Behind, Counted, Spaced, Sampled, Marks
<1> QED
  BY <1>2, <1>3

\* What appending a point does to the points kept.
LEMMA PointAppended ==
  ASSUME NEW kept \in Seq(Points), NEW p \in Points
  PROVE  /\ Append(kept, p) \in Seq(Points)
         /\ Len(Append(kept, p)) = Len(kept) + 1 /\ Len(kept) \in Nat
         /\ Append(kept, p)[Len(kept) + 1] = p
         /\ \A k \in 1..Len(kept) : Append(kept, p)[k] = kept[k]
  OBVIOUS

\* A point of a step preserves the invariant.
LEMMA PointWalkOK == WalkOK /\ Point => WalkOK'
<1> SUFFICES ASSUME WalkOK, Point PROVE WalkOK'
  OBVIOUS
<1> USE KeyPointsAssumption
<1>0. WalkTypes /\ lastAdded <= accumulated
  BY DEF WalkOK
<1>1. steps[step][point] \in 0..MaxLeg
  <2>1. step \in 1..Len(steps) /\ steps[step] \in Seq(0..MaxLeg)
    BY <1>0 DEF Point, WalkTypes, Legs
  <2>2. point \in 1..Len(steps[step])
    BY <1>0, <2>1 DEF Point, WalkTypes
  <2> QED
    BY <2>1, <2>2
<1>2. /\ accumulated' \in Nat /\ accumulated \in Nat /\ accumulated' >= accumulated
      /\ accumulated' <= accumulated + MaxLeg /\ MaxLeg \in Nat
  <2>1. accumulated' = accumulated + steps[step][point]
    BY DEF Point
  <2>2. accumulated \in Nat
    BY <1>0 DEF WalkTypes
  <2> QED
    BY <1>1, <2>1, <2>2
<1>same. /\ steps' = steps /\ step' = step /\ point' \in Nat \ {0}
         /\ walked' = walked \cup {accumulated'}
  BY <1>0 DEF Point, WalkTypes
<1>inside. step <= Len(steps) + 1
  <2>1. Len(steps) \in Nat /\ step \in Nat
    BY <1>0 DEF WalkTypes, Legs
  <2> QED
    BY <2>1 DEF Point
<1>types. lastAdded \in Nat /\ Interval \in Nat /\ Interval > 0
  BY <1>0 DEF WalkTypes
<1>near. accumulated < lastAdded + Interval
  <2>1. accumulated - lastAdded < Interval
    BY DEF WalkOK
  <2> QED
    BY <1>2, <1>types, <2>1, NotTravelled
<1>3. CASE accumulated' - lastAdded >= Interval
  <2>0. accumulated' >= lastAdded + Interval
    BY <1>2, <1>3, <1>types, Travelled
  <2> DEFINE p == Way(accumulated')
  <2>1. keyPoints' = Append(keyPoints, p) /\ lastAdded' = accumulated'
    BY <1>3 DEF Point
  <2>2. p \in Points /\ p.is = "way" /\ p.at = accumulated'
    BY <1>2 DEF Way, Points
  <2> HIDE DEF p
  <2>3. /\ keyPoints' \in Seq(Points)
        /\ Len(keyPoints') = Len(keyPoints) + 1 /\ Len(keyPoints) \in Nat
        /\ keyPoints'[Len(keyPoints) + 1] = p
        /\ \A k \in 1..Len(keyPoints) : keyPoints'[k] = keyPoints[k]
    BY <1>0, <2>1, <2>2, PointAppended DEF WalkTypes
  <2>w. /\ WayPoints' = WayPoints \cup {Len(keyPoints) + 1}
        /\ \A k \in WayPoints : keyPoints'[k] = keyPoints[k] /\ k \in 1..Len(keyPoints)
    <3>1. \A k \in 1..Len(keyPoints') : k \in 1..Len(keyPoints) \/ k = Len(keyPoints) + 1
      BY <2>3
    <3>2. \A k \in 1..Len(keyPoints) : k \in 1..Len(keyPoints')
      BY <2>3
    <3>3. Len(keyPoints) + 1 \in 1..Len(keyPoints')
      BY <2>3
    <3> QED
      BY <2>2, <2>3, <3>1, <3>2, <3>3 DEF WayPoints
  <2>m. Marks' = Marks \cup {accumulated'}
    BY <2>2, <2>3, <2>w DEF Marks
  <2>4. \A k \in WayPoints : keyPoints[k].at \in Nat /\ keyPoints[k].at <= lastAdded
    <3>1. \A k \in WayPoints : keyPoints[k].at <= lastAdded
      BY DEF WalkOK, Behind
    <3>2. \A k \in 1..Len(keyPoints) : keyPoints[k] \in Points
      BY <1>0 DEF WalkTypes
    <3> QED
      BY <3>1, <3>2 DEF Points, WayPoints
  <2>5. WalkTypes'
    BY <1>0, <1>2, <1>same, <2>1, <2>3 DEF WalkTypes
  <2>6. Behind'
    <3>1. \A k \in WayPoints : keyPoints[k].at <= accumulated'
      BY <1>2, <1>types, <2>0, <2>4
    <3>2. keyPoints'[Len(keyPoints) + 1].at <= accumulated'
      BY <1>2, <2>2, <2>3
    <3> QED
      BY <2>1, <2>m, <2>w, <3>1, <3>2 DEF Behind
  <2>7. Spaced'
    <3>1. ASSUME NEW n \in WayPoints
          PROVE  /\ keyPoints'[n].at >= Interval
                 /\ \A m \in WayPoints' : m < n => keyPoints'[n].at >= keyPoints'[m].at + Interval
      <4>1. \A m \in WayPoints' : m < n => m \in WayPoints
        BY <2>3, <2>w
      <4> QED
        BY <2>w, <4>1 DEF WalkOK, Spaced
    <3>2. ASSUME NEW n, n = Len(keyPoints) + 1
          PROVE  /\ keyPoints'[n].at >= Interval
                 /\ \A m \in WayPoints' : m < n => keyPoints'[n].at >= keyPoints'[m].at + Interval
      <4>1. keyPoints'[n].at = accumulated'
        BY <2>2, <2>3, <3>2
      <4>2. accumulated' >= Interval
        BY <1>2, <1>types, <2>0
      <4>3. ASSUME NEW m \in WayPoints', m < n PROVE accumulated' >= keyPoints'[m].at + Interval
        <5>1. m \in WayPoints
          BY <2>3, <2>w, <3>2, <4>3
        <5>2. keyPoints'[m].at \in Nat /\ keyPoints'[m].at <= lastAdded
          BY <2>4, <2>w, <5>1
        <5> QED
          BY <1>2, <1>types, <2>0, <5>2
      <4> QED
        BY <4>1, <4>2, <4>3
    <3> QED
      BY <2>w, <3>1, <3>2 DEF Spaced
  <2>s. Sampled'
    <3>1. ASSUME NEW d \in walked' PROVE \E m \in Marks' : m <= d /\ d < m + Interval
      <4>1. CASE d = accumulated'
        <5>1. PICK x \in Nat : x = accumulated'
          BY <1>2
        <5>2. x <= x /\ x < x + Interval
          BY <1>types
        <5> QED
          BY <2>m, <4>1, <5>1, <5>2
      <4>2. CASE d \in walked
        BY <2>m, <4>2 DEF WalkOK, Sampled
      <4> QED
        BY <1>same, <4>1, <4>2
    <3>2. ASSUME NEW n \in WayPoints'
          PROVE  \E m \in Marks' : m < keyPoints'[n].at /\ keyPoints'[n].at < m + Interval + MaxLeg
      <4>1. CASE n = Len(keyPoints) + 1
        <5>1. keyPoints'[n].at = accumulated' /\ lastAdded \in Marks'
          BY <2>2, <2>3, <2>m, <4>1 DEF WalkOK, Behind
        <5>2. lastAdded < accumulated' /\ accumulated' < lastAdded + Interval + MaxLeg
          BY <1>2, <1>near, <1>types, <2>0
        <5> QED
          BY <5>1, <5>2
      <4>2. CASE n \in WayPoints
        BY <2>m, <2>w, <4>2 DEF WalkOK, Sampled
      <4> QED
        BY <2>w, <4>1, <4>2
    <3> QED
      BY <3>1, <3>2 DEF Sampled
  <2>8. Counted'
    <3>1. Len(keyPoints') * Interval = Len(keyPoints) * Interval + Interval
      BY <2>3, OneMore
    <3>2. Len(keyPoints) * Interval <= lastAdded + Interval
      BY <1>inside DEF WalkOK, Counted
    <3>3. Len(keyPoints) * Interval \in Nat
      BY <1>types, <2>3
    <3>4. Len(keyPoints) * Interval + Interval <= accumulated' + Interval
          /\ Len(keyPoints) * Interval + Interval <= accumulated' + 2 * Interval
      BY <1>2, <1>types, <2>0, <3>2, <3>3, WayCovered
    <3> QED
      BY <2>1, <3>1, <3>4 DEF Counted
  <2>9. lastAdded' <= accumulated' /\ accumulated' - lastAdded' < Interval
    <3>1. lastAdded' \in Nat /\ lastAdded' = accumulated'
      BY <1>2, <2>1
    <3>2. lastAdded' <= accumulated' /\ accumulated' < lastAdded' + Interval
      BY <1>2, <1>types, <3>1, Moved
    <3> QED
      BY <1>2, <1>types, <3>1, <3>2, NotTravelled
  <2> QED
    BY <2>5, <2>6, <2>7, <2>8, <2>9, <2>s DEF WalkOK
<1>4. CASE ~(accumulated' - lastAdded >= Interval)
  <2>1. keyPoints' = keyPoints /\ lastAdded' = lastAdded
    BY <1>4 DEF Point
  <2>2. WalkTypes'
    BY <1>0, <1>2, <1>same, <2>1 DEF WalkTypes
  <2>w. WayPoints' = WayPoints /\ Marks' = Marks
    BY <2>1 DEF WayPoints, Marks
  <2>3. Behind' /\ Counted' /\ Spaced'
    BY <1>same, <2>1, <2>w DEF WalkOK, Behind, Counted, Spaced
  <2>4. lastAdded' <= accumulated' /\ accumulated' - lastAdded' < Interval
    <3>1. lastAdded <= accumulated'
      BY <1>0, <1>2, <1>types
    <3>2. ~(accumulated' >= lastAdded + Interval)
      BY <1>2, <1>4, <1>types, Travelled
    <3>3. accumulated' < lastAdded + Interval
      BY <1>2, <1>types, <3>2
    <3>4. accumulated' - lastAdded < Interval
      BY <1>2, <1>types, <3>3, NotTravelled
    <3> QED
      BY <2>1, <3>1, <3>4
  <2>5. Sampled'
    <3>1. lastAdded \in Marks /\ lastAdded <= accumulated' /\ accumulated' < lastAdded + Interval
      <4>1. ~(accumulated' >= lastAdded + Interval)
        BY <1>2, <1>4, <1>types, Travelled
      <4> QED
        BY <1>0, <1>2, <1>types, <4>1 DEF WalkOK, Behind
    <3> QED
      BY <1>same, <2>1, <2>w, <3>1 DEF WalkOK, Sampled
  <2> QED
    BY <2>2, <2>3, <2>4, <2>5 DEF WalkOK
<1> QED
  BY <1>3, <1>4

\* Going on to the next step preserves it.
LEMMA NextStepWalkOK == WalkOK /\ NextStep => WalkOK'
<1> SUFFICES ASSUME WalkOK, NextStep PROVE WalkOK'
  OBVIOUS
<1>1. UNCHANGED <<steps, accumulated, lastAdded, keyPoints, walked>>
  BY DEF NextStep
<1>2. WalkTypes'
  BY <1>1 DEF WalkOK, WalkTypes, NextStep
<1>3. step <= Len(steps) + 1
  <2>1. Len(steps) \in Nat /\ step \in Nat /\ step <= Len(steps)
    BY DEF WalkOK, WalkTypes, Legs, NextStep
  <2> QED
    BY <2>1
<1>4. Behind' /\ Counted' /\ Spaced' /\ Sampled'
  BY <1>1, <1>3 DEF WalkOK, Behind, Counted, Spaced, Sampled, WayPoints, Marks
<1> QED
  BY <1>1, <1>2, <1>4 DEF WalkOK

\* Adding the last centre preserves it.
LEMMA FinishWalkOK == WalkOK /\ Finish => WalkOK'
<1> SUFFICES ASSUME WalkOK, Finish PROVE WalkOK'
  OBVIOUS
<1> USE KeyPointsAssumption
<1>0. WalkTypes /\ Len(steps) \in Nat /\ step = Len(steps) + 1 /\ step' = step + 1
      /\ UNCHANGED <<steps, point, accumulated, lastAdded, walked>>
  BY DEF WalkOK, WalkTypes, Legs, Finish
<1>1. CASE steps = <<>>
  <2>1. keyPoints' = keyPoints
    BY <1>1 DEF Finish
  <2> QED
    <3>1. WayPoints' = WayPoints /\ Marks' = Marks
      BY <2>1 DEF WayPoints, Marks
    <3>2. Behind' /\ Spaced' /\ Sampled'
      BY <1>0, <2>1, <3>1 DEF WalkOK, Behind, Spaced, Sampled
    <3>3. WalkTypes' /\ Counted'
      BY <1>0, <2>1 DEF WalkOK, WalkTypes, Counted
    <3> QED
      BY <1>0, <3>2, <3>3 DEF WalkOK
<1>2. CASE steps # <<>>
  <2> DEFINE p == Centre(Len(steps))
  <2>1. keyPoints' = Append(keyPoints, p)
    BY <1>2 DEF Finish
  <2>2. p \in Points /\ p.is = "centre"
    BY <1>0 DEF Centre, Points
  <2> HIDE DEF p
  <2>3. /\ keyPoints' \in Seq(Points)
        /\ Len(keyPoints') = Len(keyPoints) + 1 /\ Len(keyPoints) \in Nat
        /\ keyPoints'[Len(keyPoints) + 1] = p
        /\ \A k \in 1..Len(keyPoints) : keyPoints'[k] = keyPoints[k]
    BY <1>0, <2>1, <2>2, PointAppended DEF WalkTypes
  <2>w. /\ WayPoints' = WayPoints
        /\ \A k \in WayPoints : keyPoints'[k] = keyPoints[k]
    <3>1. \A k \in 1..Len(keyPoints') : k \in 1..Len(keyPoints) \/ k = Len(keyPoints) + 1
      BY <2>3
    <3>2. \A k \in 1..Len(keyPoints) : k \in 1..Len(keyPoints')
      BY <2>3
    <3> QED
      BY <2>2, <2>3, <3>1, <3>2 DEF WayPoints
  <2>m. Marks' = Marks
    BY <2>w DEF Marks
  <2>4. WalkTypes'
    BY <1>0, <2>3 DEF WalkTypes
  <2>5. Behind' /\ Spaced' /\ Sampled'
    BY <1>0, <2>m, <2>w DEF WalkOK, Behind, Spaced, Sampled
  <2>6. Counted'
    <3>1. Len(keyPoints') * Interval = Len(keyPoints) * Interval + Interval
      BY <2>3, OneMore
    <3>2. Len(keyPoints) * Interval <= lastAdded + Interval
      BY <1>0 DEF WalkOK, Counted
    <3>3. Len(keyPoints) * Interval \in Nat /\ lastAdded \in Nat
      BY <1>0, <2>3 DEF WalkTypes
    <3> QED
      BY <1>0, <3>1, <3>2, <3>3 DEF Counted
  <2> QED
    BY <1>0, <2>4, <2>5, <2>6 DEF WalkOK
<1> QED
  BY <1>1, <1>2

\* Every step preserves the invariant.
LEMMA NextWalkOK == WalkOK /\ [WalkNext]_walk => WalkOK'
<1>1. CASE WalkNext
  BY <1>1, PointWalkOK, NextStepWalkOK, FinishWalkOK DEF WalkNext
<1>2. CASE UNCHANGED walk
  BY <1>2 DEF walk, WalkOK, WalkTypes, Behind, Counted, Spaced, Sampled, WayPoints, Marks
<1> QED
  BY <1>1, <1>2

\* The points kept on the way lie at least an interval apart and from the beginning,
\* on every route and across its steps (getKeyPointsFromRouteByDistance).
THEOREM KeyPointsSpaced == WalkSpec => []Spaced
<1>1. WalkOK => Spaced
  BY DEF WalkOK
<1> QED
  BY InitWalkOK, NextWalkOK, <1>1, PTL DEF WalkSpec

\* Every point of a route lies less than an interval beyond a point kept or the
\* beginning, and a point kept less than an interval and the longest leg beyond the
\* one before it (getKeyPointsFromRouteByDistance).
THEOREM KeyPointsSample == WalkSpec => []Sampled
<1>1. WalkOK => Sampled
  BY DEF WalkOK
<1> QED
  BY InitWalkOK, NextWalkOK, <1>1, PTL DEF WalkSpec

\* The number of points, each a request to the geocoder, is at most that of the
\* intervals travelled, and two (getKeyPointsFromRouteByDistance).
THEOREM KeyPointsAreFew == WalkSpec => []FewPoints
<1>1. WalkOK => FewPoints
  <2> SUFFICES ASSUME WalkOK PROVE FewPoints
    OBVIOUS
  <2>1. Len(keyPoints) \in Nat /\ Len(keyPoints) * Interval <= lastAdded + 2 * Interval
    BY DEF WalkOK, WalkTypes, Counted
  <2>2. Len(keyPoints) * Interval \in Nat
    BY <2>1, KeyPointsAssumption
  <2> QED
    BY <2>1, <2>2, KeyPointsAssumption DEF WalkOK, WalkTypes, FewPoints
<1> QED
  BY InitWalkOK, NextWalkOK, <1>1, PTL DEF WalkSpec
==============================================================================
