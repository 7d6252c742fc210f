------------------------ MODULE RoutePlanner_proofs ------------------------
(***************************************************************************)
(* Proofs about RoutePlanner and RouteTrip, for every set of places,       *)
(* however many routes an answer has, however often the user picks, edits, *)
(* switches and looks at the stations, and in whatever order MapKit        *)
(* answers.                                                                *)
(***************************************************************************)
EXTENDS RouteTrip, SequenceTheorems, TLAPS

Ends == [from : Places, to : Places]

\* calculateRoute asks for nothing or for one route.
LEMMA CalculateRoute ==
  ASSUME NEW o \in Annotation \cup {None}, NEW d \in Annotation \cup {None}
  PROVE  /\ calculateRoute(o, d) \in Seq(Ends)
         /\ o = None \/ d = None => calculateRoute(o, d) = <<>>
         /\ o # None /\ d # None =>
              /\ calculateRoute(o, d) # <<>> /\ Len(calculateRoute(o, d)) = 1
              /\ calculateRoute(o, d)[1].from = o.p /\ calculateRoute(o, d)[1].to = d.p
<1>1. CASE o = None \/ d = None
  <2>1. calculateRoute(o, d) = <<>> /\ <<>> \in Seq(Ends)
    BY <1>1 DEF calculateRoute
  <2> QED
    BY <1>1, <2>1
<1>2. CASE o # None /\ d # None
  <2>1. o.p \in Places /\ d.p \in Places
    BY <1>2 DEF Annotation
  <2>2. PICK e : e = [from |-> o.p, to |-> d.p]
    OBVIOUS
  <2>3. e \in Ends /\ e.from = o.p /\ e.to = d.p
    BY <2>1, <2>2 DEF Ends
  <2>4. calculateRoute(o, d) = <<e>>
    BY <1>2, <2>2 DEF calculateRoute
  <2>5. <<e>> \in Seq(Ends) /\ Len(<<e>>) = 1 /\ <<e>>[1] = e /\ <<e>> # <<>>
    BY <2>3
  <2> QED
    BY <1>2, <2>3, <2>4, <2>5
<1> QED
  BY <1>1, <1>2

\* What a calculation does: nothing without both ends, else it takes the routes off
\* the screen and has a request open.
LEMMA AskFacts ==
  ASSUME TypeOK, NEW asks \in Seq(Ends), NEW moved \in BOOLEAN, Ask(asks, moved)
  PROVE  /\ directions' \subseteq Request /\ asked' \in Nat /\ raced' \in BOOLEAN
         /\ overlays' \subseteq Route /\ allRoutes' \subseteq Route
         /\ selectedRoute' \in Route \cup {None}
         /\ asks = <<>> =>
              UNCHANGED <<directions, asked, overlays, allRoutes, selectedRoute, raced>>
         /\ asks # <<>> =>
              /\ overlays' = {} /\ allRoutes' = {} /\ selectedRoute' = None
              /\ directions' # {}
              /\ ~raced' => ~moved /\ ~raced /\ directions = {}
         /\ \A r \in directions' : r \in directions \/ \E n \in 1..Len(asks) :
              r = [q |-> asked + n, from |-> asks[n].from, to |-> asks[n].to]
<1> DEFINE r(n) == [q |-> asked + n, from |-> asks[n].from, to |-> asks[n].to]
<1>1. /\ directions' = directions \cup {r(n) : n \in 1..Len(asks)}
      /\ asked' = asked + Len(asks)
      /\ raced' = (raced \/ (asks # <<>> /\ (moved \/ directions # {})))
      /\ overlays' = IF asks = <<>> THEN overlays ELSE {}
      /\ allRoutes' = IF asks = <<>> THEN allRoutes ELSE {}
      /\ selectedRoute' = IF asks = <<>> THEN selectedRoute ELSE None
  BY DEF Ask
<1>2. /\ directions \subseteq Request /\ asked \in Nat /\ raced \in BOOLEAN
      /\ overlays \subseteq Route /\ allRoutes \subseteq Route /\ selectedRoute \in Route \cup {None}
  BY DEF TypeOK
<1>3. \A n \in 1..Len(asks) : r(n) \in Request
  <2> SUFFICES ASSUME NEW n \in 1..Len(asks) PROVE r(n) \in Request
    OBVIOUS
  <2>1. asks[n] \in Ends /\ asked + n \in Nat
    BY <1>2
  <2> QED
    BY <2>1 DEF Ends, Request
<1>4. directions' \subseteq Request
  BY <1>1, <1>2, <1>3
<1>5. Len(asks) \in Nat /\ (asks = <<>> => Len(asks) = 0) /\ (asks # <<>> => Len(asks) >= 1)
  OBVIOUS
<1>6. asks = <<>> => directions' = directions /\ asked' = asked
  BY <1>1, <1>2, <1>5
<1>7. asks # <<>> => directions' # {}
  <2> SUFFICES ASSUME asks # <<>> PROVE r(1) \in directions'
    OBVIOUS
  <2>1. 1 \in 1..Len(asks)
    BY <1>5
  <2> QED
    BY <1>1, <2>1
<1>8. raced' \in BOOLEAN /\ asked' \in Nat
  BY <1>1, <1>2, <1>5
<1>9. asks = <<>> => raced' = raced
  BY <1>1, <1>2
<1>10. asks # <<>> => (~raced' => ~moved /\ ~raced /\ directions = {})
  BY <1>1, <1>2
<1> QED
  BY <1>1, <1>2, <1>4, <1>6, <1>7, <1>8, <1>9, <1>10

-----------------------------------------------------------------------------
(* Types *)

\* A switch asks for at most three routes.
LEMMA SwitchAsks ==
  ASSUME TypeOK
  PROVE  LET o == selected["origin"]
             d == selected["destination"]
         IN  /\ o \in Annotation \cup {None} /\ d \in Annotation \cup {None}
             /\ calculateRoute(d, d) \o calculateRoute(d, o) \o calculateRoute(d, o) \in Seq(Ends)
             /\ d = None => calculateRoute(d, d) \o calculateRoute(d, o) \o calculateRoute(d, o) = <<>>
             /\ d # None => calculateRoute(d, d) \o calculateRoute(d, o) \o calculateRoute(d, o) # <<>>
<1> DEFINE o == selected["origin"]
           d == selected["destination"]
<1>1. o \in Annotation \cup {None} /\ d \in Annotation \cup {None}
  BY DEF TypeOK, Sides
<1> HIDE DEF o, d
<1>2. PICK x, y : x = calculateRoute(d, d) /\ y = calculateRoute(d, o)
  OBVIOUS
<1>3. /\ x \in Seq(Ends) /\ y \in Seq(Ends)
      /\ d = None => x = <<>> /\ y = <<>>
      /\ d # None => Len(x) = 1
  BY <1>1, <1>2, CalculateRoute
<1>4. x \o y \o y \in Seq(Ends) /\ Len(x \o y \o y) = Len(x) + Len(y) + Len(y)
  BY <1>3
<1>5. d = None => x \o y \o y = <<>>
  BY <1>3, ConcatEmptySeq
<1>6. d # None => x \o y \o y # <<>>
  <2>1. Len(y) \in Nat /\ Len(<<>>) = 0
    BY <1>3
  <2> QED
    BY <1>3, <1>4, <2>1
<1> QED
  BY <1>1, <1>2, <1>4, <1>5, <1>6 DEF o, d

\* Initially.
LEMMA InitTypeOK == Init => TypeOK
<1> SUFFICES ASSUME Init PROVE TypeOK
  OBVIOUS
<1>1. /\ text \in [Sides -> Places \cup {"typed", None}]
      /\ selected \in [Sides -> Annotation \cup {None}]
  BY DEF Init
<1>2. /\ pins \subseteq Annotation /\ searches \subseteq Search /\ directions \subseteq Request
      /\ allRoutes \subseteq Route /\ overlays \subseteq Route /\ selectedRoute \in Route \cup {None}
  BY DEF Init
<1>3. /\ fuel \in BOOLEAN /\ button \in BOOLEAN /\ overlapped \in BOOLEAN
      /\ raced \in BOOLEAN /\ lostRoute \in BOOLEAN
      /\ picks \in Nat /\ asked \in Nat /\ edits \in Nat
  BY DEF Init
<1> QED
  BY <1>1, <1>2, <1>3 DEF TypeOK

\* Every step keeps the types.
LEMMA NextTypeOK == TypeOK /\ [Next]_vars => TypeOK'
<1> SUFFICES ASSUME TypeOK, [Next]_vars PROVE TypeOK'
  OBVIOUS
<1>1. ASSUME NEW side \in Sides, NEW p \in Places, Pick(side, p) PROVE TypeOK'
  <2>1. [side |-> side, n |-> picks + 1, p |-> p] \in Search
    BY DEF TypeOK, Search
  <2>2. overlapped' \in BOOLEAN
    BY <1>1 DEF Pick, TypeOK
  <2> QED
    BY <1>1, <2>1, <2>2 DEF Pick, routes, TypeOK
<1>2. ASSUME NEW side \in Sides, Edit(side) PROVE TypeOK'
  BY <1>2 DEF Edit, routes, TypeOK
<1>3. CASE PickFuel
  <2>1. button' \in BOOLEAN
    BY <1>3 DEF PickFuel, enableButton, TypeOK
  <2> QED
    BY <1>3, <2>1 DEF PickFuel, fields, routes, counters, TypeOK
<1>4. CASE switchLocations
  <2> DEFINE o == selected["origin"]
             d == selected["destination"]
             asks == calculateRoute(d, d) \o calculateRoute(d, o) \o calculateRoute(d, o)
  <2>1. asks \in Seq(Ends) /\ Ask(asks, TRUE)
    BY <1>4, SwitchAsks DEF switchLocations
  <2> HIDE DEF asks
  <2>2. /\ directions' \subseteq Request /\ asked' \in Nat /\ raced' \in BOOLEAN
        /\ overlays' \subseteq Route /\ allRoutes' \subseteq Route
        /\ selectedRoute' \in Route \cup {None}
    BY <2>1, AskFacts
  <2>3. /\ text' = [s \in Sides |-> text[Other(s)]] /\ selected' = [s \in Sides |-> selected[Other(s)]]
        /\ edits' = edits + 1 /\ UNCHANGED <<pins, searches, fuel, button, picks, lostRoute>>
        /\ overlapped' = (overlapped \/ searches # {})
    BY <1>4 DEF switchLocations
  <2>4. overlapped' \in BOOLEAN /\ \A s \in Sides : Other(s) \in Sides
    BY <2>3 DEF TypeOK, Sides, Other
  <2> QED
    BY <2>2, <2>3, <2>4 DEF TypeOK
<1>5. ASSUME NEW r \in Tappable, mapTapped(r) PROVE TypeOK'
  BY <1>5 DEF mapTapped, Tappable, fields, counters, TypeOK
<1>6. ASSUME NEW r \in searches, SearchAnswers(r) PROVE TypeOK'
  <2> DEFINE a == [n |-> r.n, p |-> r.p]
             ends == [selected EXCEPT ![r.side] = a]
             asks == calculateRoute(ends["origin"], ends["destination"])
  <2>1. a \in Annotation /\ r.side \in Sides
    BY DEF TypeOK, Search, Annotation
  <2>2. ends \in [Sides -> Annotation \cup {None}]
    BY <2>1 DEF TypeOK
  <2>3. Ask(asks, FALSE) /\ selected' = ends /\ pins' = pins \cup {a} /\ searches' = searches \ {r}
        /\ UNCHANGED <<text, fuel, button, counters>>
    BY <1>6 DEF SearchAnswers
  <2> HIDE DEF a, ends
  <2>4. asks \in Seq(Ends)
    BY <2>2, CalculateRoute DEF Sides
  <2> HIDE DEF asks
  <2>5. /\ directions' \subseteq Request /\ asked' \in Nat /\ raced' \in BOOLEAN
        /\ overlays' \subseteq Route /\ allRoutes' \subseteq Route
        /\ selectedRoute' \in Route \cup {None}
    BY <2>3, <2>4, AskFacts
  <2> QED
    BY <2>1, <2>2, <2>3, <2>5 DEF TypeOK, counters
<1>7. ASSUME NEW r \in searches, SearchFails(r) PROVE TypeOK'
  BY <1>7 DEF SearchFails, routes, counters, TypeOK
<1>8. ASSUME NEW r \in directions, DirectionsAnswer(r) PROVE TypeOK'
  <2>1. PICK m \in 1..MaxRoutes :
          /\ allRoutes' = {[q |-> r.q, from |-> r.from, to |-> r.to, k |-> k] : k \in 1..m}
          /\ selectedRoute' = [q |-> r.q, from |-> r.from, to |-> r.to, k |-> 1]
          /\ overlays' = overlays \cup allRoutes'
          /\ enableButton([q |-> r.q, from |-> r.from, to |-> r.to, k |-> 1], fuel)
    BY <1>8 DEF DirectionsAnswer
  <2>2. r \in Request /\ \A k \in 1..m : k \in 1..MaxRoutes
    BY RoutePlannerAssumption DEF TypeOK
  <2>3. \A k \in 1..MaxRoutes : [q |-> r.q, from |-> r.from, to |-> r.to, k |-> k] \in Route
    BY <2>2 DEF Request, Route
  <2>4. 1 \in 1..MaxRoutes
    BY RoutePlannerAssumption
  <2>5. allRoutes' \subseteq Route /\ overlays' \subseteq Route /\ selectedRoute' \in Route
    BY <2>1, <2>2, <2>3, <2>4 DEF TypeOK
  <2>6. button' \in BOOLEAN
    BY <2>1 DEF enableButton, TypeOK
  <2> QED
    BY <1>8, <2>5, <2>6 DEF DirectionsAnswer, fields, counters, TypeOK
<1>9. ASSUME NEW r \in directions, DirectionsFail(r) PROVE TypeOK'
  BY <1>9 DEF DirectionsFail, fields, TypeOK
<1>10. CASE UNCHANGED vars
  BY <1>10 DEF vars, fields, routes, counters, TypeOK
<1> QED
  BY <1>1, <1>2, <1>3, <1>4, <1>5, <1>6, <1>7, <1>8, <1>9, <1>10 DEF Next, User, Answers

-----------------------------------------------------------------------------
(* The routes *)

\* Unless a request was overtaken, what is asked for, known, drawn and selected
\* leads from the origin to the destination,
CurrentOK ==
  ~raced =>
    /\ \A r \in directions \cup overlays \cup allRoutes : BothEnds /\ Matches(r)
    /\ selectedRoute # None => BothEnds /\ Matches(selectedRoute)

\* and there is one request, with nothing drawn, or one answer.
DrawnOK ==
  ~raced =>
    /\ directions # {} => overlays = {}
    /\ \A r, q \in directions : r = q
    /\ overlays \subseteq allRoutes

RouteInv == EmptyRouteIsExplained /\ CurrentOK /\ DrawnOK /\ SelectedIsDrawn

\* No route is the empty one.
LEMMA RouteIsSomething == \A r \in Route : r # None
  BY RoutePlannerAssumption

\* Initially there is nothing.
LEMMA InitRouteInv == Init => RouteInv
  BY DEF Init, RouteInv, EmptyRouteIsExplained, CurrentOK, DrawnOK, SelectedIsDrawn

\* A calculation with the ends it finds.
LEMMA SearchRouteInv ==
  ASSUME TypeOK, RouteInv, NEW r \in searches, SearchAnswers(r)
  PROVE  RouteInv'
<1> DEFINE a == [n |-> r.n, p |-> r.p]
           ends == [selected EXCEPT ![r.side] = a]
           asks == calculateRoute(ends["origin"], ends["destination"])
<1>1. a \in Annotation /\ r.side \in Sides
  BY DEF TypeOK, Search, Annotation
<1>2. /\ ends \in [Sides -> Annotation \cup {None}] /\ ends[r.side] = a
      /\ \A s \in Sides : s # r.side => ends[s] = selected[s]
  BY <1>1 DEF TypeOK
<1>3. Ask(asks, FALSE) /\ selected' = ends /\ UNCHANGED <<button, counters>>
  BY DEF SearchAnswers
<1>4. a # None
  BY <1>1, RoutePlannerAssumption
<1> HIDE DEF a, ends
<1>5. /\ asks \in Seq(Ends)
      /\ ends["origin"] = None \/ ends["destination"] = None => asks = <<>>
      /\ ends["origin"] # None /\ ends["destination"] # None =>
              /\ asks # <<>> /\ Len(asks) = 1
              /\ asks[1].from = ends["origin"].p /\ asks[1].to = ends["destination"].p
  BY <1>2, CalculateRoute DEF Sides
<1> HIDE DEF asks
<1>6. /\ asks = <<>> =>
              UNCHANGED <<directions, asked, overlays, allRoutes, selectedRoute, raced>>
      /\ asks # <<>> =>
              /\ overlays' = {} /\ allRoutes' = {} /\ selectedRoute' = None
              /\ directions' # {}
              /\ ~raced' => ~raced /\ directions = {}
      /\ \A q \in directions' : q \in directions \/ \E n \in 1..Len(asks) :
              q = [q |-> asked + n, from |-> asks[n].from, to |-> asks[n].to]
  BY <1>3, <1>5, AskFacts
<1>7. CASE asks = <<>>
  <2>1. ~BothEnds
    BY <1>2, <1>4, <1>5, <1>7 DEF BothEnds, Sides
  <2>2. UNCHANGED <<directions, overlays, allRoutes, selectedRoute, raced, button, lostRoute>>
    BY <1>3, <1>6, <1>7 DEF counters
  <2>3. CurrentOK'
    BY <2>1, <2>2 DEF RouteInv, CurrentOK
  <2> QED
    BY <2>2, <2>3 DEF RouteInv, EmptyRouteIsExplained, DrawnOK, SelectedIsDrawn
<1>8. CASE asks # <<>>
  <2>1. /\ ends["origin"] # None /\ ends["destination"] # None /\ Len(asks) = 1
        /\ asks[1].from = ends["origin"].p /\ asks[1].to = ends["destination"].p
    BY <1>5, <1>8
  <2>2. BothEnds'
    BY <1>3, <2>1 DEF BothEnds, Sides
  <2>3. \A n \in 1..Len(asks) : n = 1
    BY <2>1
  <2>4. ASSUME ~raced', NEW q \in directions'
        PROVE  /\ q = [q |-> asked + 1, from |-> asks[1].from, to |-> asks[1].to]
               /\ q.from = ends["origin"].p /\ q.to = ends["destination"].p
    <3>1. q = [q |-> asked + 1, from |-> asks[1].from, to |-> asks[1].to]
      BY <1>6, <1>8, <2>3, <2>4
    <3> QED
      BY <2>1, <3>1
  <2>5. CurrentOK'
    BY <1>3, <1>6, <1>8, <2>2, <2>4 DEF CurrentOK, Matches
  <2>6. DrawnOK'
    BY <1>6, <1>8, <2>4 DEF DrawnOK
  <2> QED
    BY <1>6, <1>8, <2>5, <2>6 DEF RouteInv, EmptyRouteIsExplained, SelectedIsDrawn
<1> QED
  BY <1>7, <1>8

\* A switch overtakes its own requests.
LEMMA SwitchRouteInv ==
  ASSUME TypeOK, RouteInv, switchLocations
  PROVE  RouteInv'
<1> DEFINE o == selected["origin"]
           d == selected["destination"]
           asks == calculateRoute(d, d) \o calculateRoute(d, o) \o calculateRoute(d, o)
<1>1. /\ asks \in Seq(Ends) /\ Ask(asks, TRUE)
      /\ selected' = [s \in Sides |-> selected[Other(s)]]
      /\ UNCHANGED <<button, lostRoute>>
      /\ d # None => asks # <<>>
  BY SwitchAsks DEF switchLocations
<1> HIDE DEF asks
<1>2. /\ asks = <<>> =>
              UNCHANGED <<directions, asked, overlays, allRoutes, selectedRoute, raced>>
      /\ asks # <<>> =>
              /\ overlays' = {} /\ allRoutes' = {} /\ selectedRoute' = None
              /\ directions' # {} /\ raced'
  BY <1>1, AskFacts
<1>3. CASE asks = <<>>
  <2>1. ~BothEnds
    BY <1>1, <1>3 DEF BothEnds, Sides
  <2>2. UNCHANGED <<directions, overlays, allRoutes, selectedRoute, raced, button, lostRoute>>
    BY <1>1, <1>2, <1>3
  <2>3. CurrentOK'
    BY <2>1, <2>2 DEF RouteInv, CurrentOK
  <2> QED
    BY <2>2, <2>3 DEF RouteInv, EmptyRouteIsExplained, DrawnOK, SelectedIsDrawn
<1>4. CASE asks # <<>>
  BY <1>2, <1>4 DEF RouteInv, EmptyRouteIsExplained, CurrentOK, DrawnOK, SelectedIsDrawn
<1> QED
  BY <1>3, <1>4

\* Routes arrive.
LEMMA AnswerRouteInv ==
  ASSUME TypeOK, RouteInv, NEW r \in directions, DirectionsAnswer(r)
  PROVE  RouteInv'
<1> DEFINE R(k) == [q |-> r.q, from |-> r.from, to |-> r.to, k |-> k]
<1>1. PICK m \in 1..MaxRoutes :
        /\ allRoutes' = {R(k) : k \in 1..m} /\ selectedRoute' = R(1)
        /\ overlays' = overlays \cup allRoutes'
  BY DEF DirectionsAnswer
<1>2. directions' = directions \ {r} /\ UNCHANGED <<selected, raced, lostRoute>>
  BY DEF DirectionsAnswer, fields, counters
<1>3. 1 \in 1..m /\ \A k : R(k).from = r.from /\ R(k).to = r.to
  BY RoutePlannerAssumption
<1>4. selectedRoute' \in allRoutes'
  BY <1>1, <1>3
<1>5. selectedRoute' # None
  <2>1. R(1) \in Route
    <3>1. r \in Request /\ 1 \in 1..MaxRoutes
      BY RoutePlannerAssumption DEF TypeOK
    <3> QED
      BY <3>1 DEF Request, Route
  <2> QED
    BY <1>1, <2>1, RouteIsSomething
<1>6. CurrentOK'
  <2> SUFFICES ASSUME ~raced
               PROVE  \A q \in directions' \cup overlays' \cup allRoutes' :
                        BothEnds /\ q.from = selected["origin"].p /\ q.to = selected["destination"].p
    BY <1>2, <1>4 DEF CurrentOK, Matches, BothEnds
  <2>1. BothEnds /\ r.from = selected["origin"].p /\ r.to = selected["destination"].p
    BY DEF RouteInv, CurrentOK, Matches
  <2>2. \A q \in directions \cup overlays :
          BothEnds /\ q.from = selected["origin"].p /\ q.to = selected["destination"].p
    BY DEF RouteInv, CurrentOK, Matches
  <2>3. \A q \in allRoutes' : q.from = r.from /\ q.to = r.to
    BY <1>1, <1>3
  <2> QED
    BY <1>1, <1>2, <2>1, <2>2, <2>3
<1>7. DrawnOK'
  BY <1>1, <1>2 DEF RouteInv, DrawnOK
<1> QED
  BY <1>4, <1>5, <1>6, <1>7 DEF RouteInv, EmptyRouteIsExplained, SelectedIsDrawn

\* Every step keeps the routes right.
LEMMA NextRouteInv ==
  ASSUME TypeOK, RouteInv, [Next]_vars
  PROVE  RouteInv'
<1>1. CASE \/ \E side \in Sides : Edit(side) \/ \E p \in Places : Pick(side, p)
           \/ \E r \in searches : SearchFails(r)
           \/ UNCHANGED vars
  <2>1. UNCHANGED <<selected, routes, button, lostRoute>>
    BY <1>1 DEF Edit, Pick, SearchFails, vars, fields, counters
  <2> QED
    BY <2>1 DEF routes, RouteInv, EmptyRouteIsExplained, CurrentOK, DrawnOK, SelectedIsDrawn,
                BothEnds, Matches
<1>2. CASE PickFuel
  <2>1. UNCHANGED <<selected, directions, allRoutes, selectedRoute, overlays, raced, lostRoute>>
    BY <1>2 DEF PickFuel, fields, routes, counters
  <2>2. button' /\ selectedRoute = None => button
    BY <1>2 DEF PickFuel, enableButton
  <2> QED
    BY <2>1, <2>2 DEF RouteInv, EmptyRouteIsExplained, CurrentOK, DrawnOK, SelectedIsDrawn,
                      BothEnds, Matches
<1>3. ASSUME NEW r \in Tappable, mapTapped(r) PROVE RouteInv'
  <2>1. /\ r \in overlays /\ selectedRoute' = r /\ overlays' = allRoutes
        /\ UNCHANGED <<selected, directions, allRoutes, raced, button, lostRoute>>
    BY <1>3 DEF mapTapped, Tappable, fields, counters
  <2>2. selectedRoute' # None
    BY <2>1, RouteIsSomething DEF TypeOK
  <2>3. ~raced => directions = {}
    BY <2>1 DEF RouteInv, DrawnOK
  <2>4. DrawnOK'
    BY <2>1, <2>3 DEF DrawnOK
  <2>5. CurrentOK'
    BY <2>1 DEF RouteInv, CurrentOK, BothEnds, Matches
  <2>6. SelectedIsDrawn'
    BY <2>1 DEF RouteInv, DrawnOK, SelectedIsDrawn
  <2> QED
    BY <2>2, <2>4, <2>5, <2>6 DEF RouteInv, EmptyRouteIsExplained
<1>4. ASSUME NEW r \in directions, DirectionsFail(r) PROVE RouteInv'
  <2>1. /\ directions' = directions \ {r} /\ lostRoute'
        /\ UNCHANGED <<selected, allRoutes, selectedRoute, overlays, raced>>
    BY <1>4 DEF DirectionsFail, fields
  <2> QED
    BY <2>1 DEF RouteInv, EmptyRouteIsExplained, CurrentOK, DrawnOK, SelectedIsDrawn,
                BothEnds, Matches
<1> QED
  BY <1>1, <1>2, <1>3, <1>4, SearchRouteInv, SwitchRouteInv, AnswerRouteInv DEF Next, User, Answers

\* The button opens the next screen without a route only while directions are being
\* computed or after a request failed (calculateRoute forgets the route and leaves
\* the button enabled).
THEOREM EmptyRouteExplained == Spec => []EmptyRouteIsExplained
<1>1. TypeOK /\ RouteInv /\ [Next]_vars => (TypeOK /\ RouteInv)'
  BY NextTypeOK, NextRouteInv
<1>2. TypeOK /\ RouteInv => EmptyRouteIsExplained
  BY DEF RouteInv
<1> QED
  BY <1>1, <1>2, InitTypeOK, InitRouteInv, PTL DEF Spec

\* The route that will be used leads from the origin shown to the destination
\* shown, unless a request for directions was overtaken (directions.calculate,
\* switchLocations).
THEOREM RouteStaysCurrent == Spec => []RouteIsCurrent
<1>1. TypeOK /\ RouteInv /\ [Next]_vars => (TypeOK /\ RouteInv)'
  BY NextTypeOK, NextRouteInv
<1>2. TypeOK /\ RouteInv => RouteIsCurrent
  BY DEF RouteInv, CurrentOK, RouteIsCurrent
<1> QED
  BY <1>1, <1>2, InitTypeOK, InitRouteInv, PTL DEF Spec

\* The selected route is one of those drawn again after a tap, unless a request for
\* directions was overtaken (mapTapped, rendererFor).
THEOREM SelectedStaysDrawn == Spec => []SelectedIsDrawn
<1>1. TypeOK /\ RouteInv /\ [Next]_vars => (TypeOK /\ RouteInv)'
  BY NextTypeOK, NextRouteInv
<1>2. TypeOK /\ RouteInv => SelectedIsDrawn
  BY DEF RouteInv
<1> QED
  BY <1>1, <1>2, InitTypeOK, InitRouteInv, PTL DEF Spec

-----------------------------------------------------------------------------
(* The pins *)

\* Every pick gives a pin of its own,
NumberOK ==
  /\ \A s \in Sides : selected[s] # None => selected[s].n <= picks
  /\ \A r \in searches :
       /\ r.n <= picks
       /\ \A s \in Sides : selected[s] # None => selected[s].n # r.n
       /\ \A q \in searches : q.n = r.n => q = r

\* and while it is searched for the field has none, unless searches overlapped.
SearchOK ==
  ~overlapped => \A r \in searches :
    selected[r.side] \notin pins /\ \A q \in searches : q.side = r.side => q = r

PinInv == NumberOK /\ SearchOK /\ PinsAreEnds

\* Initially there are no pins.
LEMMA InitPinInv == Init => PinInv
  BY DEF Init, PinInv, NumberOK, SearchOK, PinsAreEnds

\* A suggestion is picked.
LEMMA PickPinInv ==
  ASSUME TypeOK, PinInv, NEW side \in Sides, NEW p \in Places, Pick(side, p)
  PROVE  PinInv'
<1> DEFINE x == [side |-> side, n |-> picks + 1, p |-> p]
<1>1. /\ pins' = pins \ {selected[side]} /\ searches' = searches \cup {x} /\ picks' = picks + 1
      /\ overlapped' = (overlapped \/ \E r \in searches : r.side = side) /\ selected' = selected
  BY DEF Pick
<1>2. x.side = side /\ x.n = picks + 1
  OBVIOUS
<1> HIDE DEF x
<1>3. /\ picks \in Nat /\ \A r \in searches : r.n \in Nat
      /\ \A s \in Sides : selected[s] # None => selected[s].n \in Nat
  BY DEF TypeOK, Search, Annotation
<1>4. NumberOK'
  <2>1. \A s \in Sides : selected[s] # None => selected[s].n <= picks + 1 /\ selected[s].n # picks + 1
    BY <1>3 DEF PinInv, NumberOK
  <2>2. \A r \in searches : r.n <= picks + 1 /\ r.n # picks + 1
    BY <1>3 DEF PinInv, NumberOK
  <2>3. x.n <= picks + 1
    BY <1>2, <1>3
  <2> QED
    BY <1>1, <1>2, <2>1, <2>2, <2>3 DEF PinInv, NumberOK
<1>5. SearchOK'
  BY <1>1, <1>2 DEF PinInv, SearchOK
<1>6. PinsAreEnds'
  BY <1>1 DEF PinInv, PinsAreEnds
<1> QED
  BY <1>4, <1>5, <1>6 DEF PinInv

\* A place is found.
LEMMA SearchPinInv ==
  ASSUME TypeOK, PinInv, NEW r \in searches, SearchAnswers(r)
  PROVE  PinInv'
<1> DEFINE a == [n |-> r.n, p |-> r.p]
<1>1. /\ selected' = [selected EXCEPT ![r.side] = a] /\ pins' = pins \cup {a}
      /\ searches' = searches \ {r} /\ UNCHANGED <<picks, overlapped>>
  BY DEF SearchAnswers, counters
<1>2. a.n = r.n /\ r.side \in Sides /\ \A q \in searches : q.side \in Sides
  BY DEF TypeOK, Search
<1> HIDE DEF a
<1>3. /\ selected'[r.side] = a
      /\ \A s \in Sides : s # r.side => selected'[s] = selected[s]
  BY <1>1, <1>2 DEF TypeOK
<1>4. NumberOK'
  BY <1>1, <1>2, <1>3 DEF PinInv, NumberOK
<1>5. ASSUME NEW q \in searches, q # r, ~overlapped
      PROVE  selected'[q.side] \notin pins'
  <2>1. q.side # r.side
    BY <1>5 DEF PinInv, SearchOK
  <2>2. selected'[q.side] = selected[q.side] /\ selected[q.side] \notin pins
    BY <1>2, <1>3, <1>5, <2>1 DEF PinInv, SearchOK
  <2>3. selected[q.side] # a
    <3>1. a # None
      BY RoutePlannerAssumption DEF TypeOK, Search, Annotation, a
    <3> QED
      BY <1>2, <3>1 DEF PinInv, NumberOK
  <2> QED
    BY <1>1, <2>2, <2>3
<1>6. SearchOK'
  BY <1>1, <1>5 DEF PinInv, SearchOK
<1>7. PinsAreEnds'
  <2> SUFFICES ASSUME ~overlapped, NEW x \in pins PROVE x \in {selected'[s] : s \in Sides}
    BY <1>1, <1>2, <1>3 DEF PinsAreEnds
  <2>1. PICK s \in Sides : x = selected[s]
    BY DEF PinInv, PinsAreEnds
  <2>2. s # r.side
    BY <2>1 DEF PinInv, SearchOK
  <2> QED
    BY <1>3, <2>1, <2>2
<1> QED
  BY <1>4, <1>6, <1>7 DEF PinInv

\* A switch exchanges the pins.
LEMMA SwitchPinInv ==
  ASSUME PinInv, switchLocations
  PROVE  PinInv'
<1>1. /\ selected' = [s \in Sides |-> selected[Other(s)]] /\ UNCHANGED <<pins, searches, picks>>
      /\ overlapped' = (overlapped \/ searches # {})
  BY DEF switchLocations
<1>2. \A s \in Sides : Other(s) \in Sides /\ Other(Other(s)) = s
  BY DEF Sides, Other
<1>3. \A s \in Sides : selected'[s] = selected[Other(s)] /\ selected'[Other(s)] = selected[s]
  BY <1>1, <1>2
<1>4. NumberOK'
  BY <1>1, <1>2, <1>3 DEF PinInv, NumberOK
<1>5. SearchOK'
  BY <1>1 DEF SearchOK
<1>6. PinsAreEnds'
  <2> SUFFICES ASSUME ~overlapped, NEW x \in pins PROVE \E s \in Sides : x = selected'[s]
    BY <1>1 DEF PinsAreEnds
  <2>1. PICK s \in Sides : x = selected[s]
    BY DEF PinInv, PinsAreEnds
  <2> QED
    BY <1>2, <1>3, <2>1
<1> QED
  BY <1>4, <1>5, <1>6 DEF PinInv

\* Every step keeps the pins right.
LEMMA NextPinInv ==
  ASSUME TypeOK, PinInv, [Next]_vars
  PROVE  PinInv'
<1>1. ASSUME NEW r \in searches, SearchFails(r) PROVE PinInv'
  <2>1. searches' = searches \ {r} /\ UNCHANGED <<selected, pins, picks, overlapped>>
    BY <1>1 DEF SearchFails, counters
  <2> QED
    BY <2>1 DEF PinInv, NumberOK, SearchOK, PinsAreEnds
<1>2. CASE \/ \E side \in Sides : Edit(side)
           \/ PickFuel \/ UNCHANGED vars
           \/ \E r \in Tappable : mapTapped(r)
           \/ \E r \in directions : DirectionsAnswer(r) \/ DirectionsFail(r)
  <2>1. UNCHANGED <<selected, pins, searches, picks, overlapped>>
    BY <1>2 DEF Edit, PickFuel, mapTapped, DirectionsAnswer, DirectionsFail, vars, fields, counters
  <2> QED
    BY <2>1 DEF PinInv, NumberOK, SearchOK, PinsAreEnds
<1> QED
  BY <1>1, <1>2, PickPinInv, SearchPinInv, SwitchPinInv DEF Next, User, Answers

\* A pin on the map is one of the two ends, unless a search was overtaken by another
\* pick or a switch (markOriginOnMap, markDestinationOnMap).
THEOREM PinsStayEnds == Spec => []PinsAreEnds
<1>1. TypeOK /\ PinInv /\ [Next]_vars => (TypeOK /\ PinInv)'
  BY NextTypeOK, NextPinInv
<1>2. TypeOK /\ PinInv => PinsAreEnds
  BY DEF PinInv
<1> QED
  BY <1>1, <1>2, InitTypeOK, InitPinInv, PTL DEF Spec

-----------------------------------------------------------------------------
(* The trip: the route screen under the stations screen *)

\* An open search is for the place its field names, and an end with a pin is the
\* place its field names.
ShownOK ==
  ~overlapped =>
    /\ \A r \in searches : text[r.side] \in Places => r.p = text[r.side]
    /\ \A s \in Sides : text[s] \in Places /\ selected[s] # None /\ selected[s] \in pins =>
         selected[s].p = text[s]

\* What is found under the stations screen is none of the ends it was handed.
FrontOK ==
  screen # None => \A r \in searches, s \in Sides : screen.ends[s].n # r.n

TripInv ==
  /\ TypeOK /\ RouteInv /\ PinInv
  /\ TripTypes /\ ShownOK /\ FrontOK /\ TripJoinsPlacesShown

\* To the route screen a step of the trip is one of its own steps, or none.
LEMMA TripStep == ASSUME [TripNext]_tripVars PROVE [Next]_vars
  BY DEF TripNext, getGasStationsButtonClicked, popToPrevious, Plan, Answer, Next, tripVars

\* The trip starts right.
LEMMA InitTripInv == TripInit => TripInv
<1> SUFFICES ASSUME TripInit PROVE TripInv
  OBVIOUS
<1>1. Init /\ screen = None
  BY DEF TripInit
<1>2. ShownOK
  BY <1>1 DEF Init, ShownOK
<1> QED
  BY <1>1, <1>2, InitTypeOK, InitRouteInv, InitPinInv
  DEF TripInv, TripTypes, FrontOK, TripJoinsPlacesShown

\* The user's steps keep what is shown right.
LEMMA UserShown == ASSUME TypeOK, PinInv, ShownOK, User PROVE ShownOK'
<1>1. /\ text \in [Sides -> Places \cup {"typed", None}] /\ selected \in [Sides -> Annotation \cup {None}]
      /\ searches \subseteq Search /\ overlapped \in BOOLEAN
      /\ None \notin Places /\ "typed" \notin Places
  BY RoutePlannerAssumption DEF TypeOK
<1>2. \A r \in searches : r.side \in Sides
  BY <1>1 DEF Search
<1>3. ASSUME NEW side \in Sides, NEW p \in Places, Pick(side, p) PROVE ShownOK'
  <2> DEFINE x == [side |-> side, n |-> picks + 1, p |-> p]
  <2>1. /\ text' = [text EXCEPT ![side] = p] /\ searches' = searches \cup {x}
        /\ pins' = pins \ {selected[side]} /\ selected' = selected
        /\ overlapped' = (overlapped \/ \E r \in searches : r.side = side)
    BY <1>3 DEF Pick
  <2>2. x.side = side /\ x.p = p
    OBVIOUS
  <2> HIDE DEF x
  <2> SUFFICES ASSUME ~overlapped' PROVE ShownOK'
    BY DEF ShownOK
  <2>3. ~overlapped /\ \A r \in searches : r.side # side
    BY <2>1
  <2>4. text'[side] = p /\ \A s \in Sides : s # side => text'[s] = text[s]
    BY <1>1, <2>1
  <2>5. \A r \in searches' : text'[r.side] \in Places => r.p = text'[r.side]
    BY <1>2, <2>1, <2>2, <2>3, <2>4 DEF ShownOK
  <2>6. \A s \in Sides : text'[s] \in Places /\ selected'[s] # None /\ selected'[s] \in pins' =>
          selected'[s].p = text'[s]
    BY <2>1, <2>3, <2>4 DEF ShownOK
  <2> QED
    BY <2>5, <2>6 DEF ShownOK
<1>4. ASSUME switchLocations PROVE ShownOK'
  <2>1. /\ text' = [s \in Sides |-> text[Other(s)]] /\ selected' = [s \in Sides |-> selected[Other(s)]]
        /\ overlapped' = (overlapped \/ searches # {}) /\ searches' = searches /\ pins' = pins
    BY <1>4 DEF switchLocations
  <2>2. \A s \in Sides : /\ Other(s) \in Sides
                         /\ text'[s] = text[Other(s)] /\ selected'[s] = selected[Other(s)]
    BY <2>1 DEF Sides, Other
  <2> QED
    BY <2>1, <2>2 DEF ShownOK
<1>5. ASSUME NEW side \in Sides, Edit(side) PROVE ShownOK'
  <2>1. /\ UNCHANGED <<selected, pins, searches, overlapped>>
        /\ \E t \in {"typed", None} : text' = [text EXCEPT ![side] = t]
    BY <1>5 DEF Edit
  <2>2. \A s \in Sides : text'[s] \in Places => text'[s] = text[s]
    BY <1>1, <2>1
  <2> QED
    BY <1>2, <2>1, <2>2 DEF ShownOK
<1>6. ASSUME PickFuel \/ \E r \in Tappable : mapTapped(r) PROVE ShownOK'
  <2>1. UNCHANGED <<text, selected, pins, searches, overlapped>>
    BY <1>6 DEF PickFuel, mapTapped, fields, counters
  <2> QED
    BY <2>1 DEF ShownOK
<1> QED
  BY <1>3, <1>4, <1>5, <1>6 DEF User

\* An answer gives a field the end it names, and the stations screen keeps its own.
LEMMA AnswerTrip ==
  ASSUME TripInv, Answer
  PROVE  ShownOK' /\ FrontOK' /\ TripJoinsPlacesShown'
<1>1. screen' = screen /\ (screen # None => screen \in Screen)
  BY DEF Answer, TripInv, TripTypes
<1>2. /\ text \in [Sides -> Places \cup {"typed", None}] /\ selected \in [Sides -> Annotation \cup {None}]
      /\ searches \subseteq Search
  BY DEF TripInv, TypeOK
<1>3. ASSUME NEW r \in searches, SearchAnswers(r) PROVE ShownOK' /\ FrontOK' /\ TripJoinsPlacesShown'
  <2> DEFINE a == [n |-> r.n, p |-> r.p]
  <2>1. /\ searches' = searches \ {r} /\ pins' = pins \cup {a} /\ UNCHANGED <<text, overlapped>>
        /\ selected' = [selected EXCEPT ![r.side] = a]
    BY <1>3 DEF SearchAnswers, counters
  <2>2. r.side \in Sides /\ a.n = r.n /\ a.p = r.p
    BY <1>2 DEF Search
  <2> HIDE DEF a
  <2>3. \A s \in Sides : selected[s] # None => selected[s] # a
    BY <2>2 DEF TripInv, PinInv, NumberOK
  <2>4. selected'[r.side] = a /\ \A s \in Sides : s # r.side => selected'[s] = selected[s]
    BY <1>2, <2>1, <2>2
  <2>5. ASSUME ~overlapped, NEW s \in Sides, text[s] \in Places, selected'[s] # None, selected'[s] \in pins'
        PROVE  selected'[s].p = text[s]
    <3>1. CASE s = r.side
      BY <2>2, <2>4, <2>5, <3>1 DEF TripInv, ShownOK
    <3>2. CASE s # r.side
      BY <2>1, <2>3, <2>4, <2>5, <3>2 DEF TripInv, ShownOK
    <3> QED
      BY <3>1, <3>2
  <2>6. ShownOK'
    BY <2>1, <2>5 DEF TripInv, ShownOK
  <2>7. screen # None => \A s \in Sides : screen.ends[s] # a
    BY <2>2 DEF TripInv, FrontOK
  <2>8. FrontOK'
    BY <1>1, <2>1 DEF TripInv, FrontOK
  <2>9. ~raced' => ~raced
    <3>1. \E asks : Ask(asks, FALSE)
      BY <1>3 DEF SearchAnswers
    <3> QED
      BY <3>1 DEF Ask, TripInv, TypeOK
  <2>10. TripJoinsPlacesShown'
    BY <1>1, <2>1, <2>7, <2>9 DEF TripInv, TripJoinsPlacesShown
  <2> QED
    BY <2>6, <2>8, <2>10
<1>4. ASSUME NEW r \in searches, SearchFails(r) PROVE ShownOK' /\ FrontOK' /\ TripJoinsPlacesShown'
  <2>1. searches' = searches \ {r} /\ UNCHANGED <<text, selected, pins, overlapped, raced>>
    BY <1>4 DEF SearchFails, routes, counters
  <2> QED
    BY <1>1, <2>1 DEF TripInv, ShownOK, FrontOK, TripJoinsPlacesShown
<1>5. ASSUME NEW r \in directions, DirectionsAnswer(r) \/ DirectionsFail(r)
      PROVE  ShownOK' /\ FrontOK' /\ TripJoinsPlacesShown'
  <2>1. UNCHANGED <<text, selected, pins, searches, overlapped, raced>>
    BY <1>5 DEF DirectionsAnswer, DirectionsFail, fields, counters
  <2> QED
    BY <1>1, <2>1 DEF TripInv, ShownOK, FrontOK, TripJoinsPlacesShown
<1> QED
  BY <1>3, <1>4, <1>5 DEF Answer, Answers

\* The button hands over the ends and the route as they are.
LEMMA ClickTrip ==
  ASSUME TripInv, getGasStationsButtonClicked
  PROVE  TripTypes' /\ ShownOK' /\ FrontOK' /\ TripJoinsPlacesShown'
<1>1. /\ screen' = [ends |-> selected, route |-> selectedRoute]
      /\ \A s \in Sides : selected[s] # None
      /\ UNCHANGED <<text, selected, pins, searches, selectedRoute, overlapped, raced>>
  BY DEF getGasStationsButtonClicked, vars, fields, routes, counters
<1>2. selected \in [Sides -> Annotation] /\ selectedRoute \in Route \cup {None}
  BY <1>1 DEF TripInv, TypeOK
<1>3. TripTypes'
  BY <1>1, <1>2 DEF Screen, TripTypes
<1>4. screen'.ends = selected /\ screen'.route = selectedRoute
  BY <1>1
<1>5. RouteIsCurrent
  BY DEF TripInv, RouteInv, CurrentOK, RouteIsCurrent
<1>6. ShownOK'
  BY <1>1 DEF TripInv, ShownOK
<1>7. FrontOK'
  BY <1>1, <1>4 DEF TripInv, PinInv, NumberOK, FrontOK
<1>8. TripJoinsPlacesShown'
  BY <1>1, <1>4, <1>5 DEF TripInv, ShownOK, TripJoinsPlacesShown, RouteIsCurrent, Matches
<1> QED
  BY <1>3, <1>6, <1>7, <1>8

\* Every step keeps the trip right.
LEMMA NextTripInv == TripInv /\ [TripNext]_tripVars => TripInv'
<1> SUFFICES ASSUME TripInv, [TripNext]_tripVars PROVE TripInv'
  OBVIOUS
<1>1. TypeOK' /\ RouteInv' /\ PinInv'
  BY TripStep, NextTypeOK, NextRouteInv, NextPinInv DEF TripInv
<1>2. CASE getGasStationsButtonClicked
  BY <1>1, <1>2, ClickTrip DEF TripInv
<1>3. CASE popToPrevious \/ UNCHANGED tripVars
  <2>1. /\ UNCHANGED <<text, selected, pins, searches, overlapped, raced>>
        /\ screen' = screen \/ screen' = None
    BY <1>3 DEF popToPrevious, tripVars, vars, fields, routes, counters
  <2>2. ShownOK'
    BY <2>1 DEF TripInv, ShownOK
  <2>3. FrontOK' /\ TripTypes'
    BY <2>1 DEF TripInv, TripTypes, FrontOK
  <2>4. TripJoinsPlacesShown'
    BY <2>1 DEF TripInv, TripJoinsPlacesShown
  <2> QED
    BY <1>1, <2>2, <2>3, <2>4 DEF TripInv
<1>4. CASE Plan
  <2>1. screen = None /\ screen' = None /\ ShownOK'
    BY <1>4, UserShown DEF TripInv, Plan
  <2> QED
    BY <1>1, <2>1 DEF TripInv, TripTypes, FrontOK, TripJoinsPlacesShown
<1>5. CASE Answer
  <2>1. TripTypes'
    BY <1>5 DEF TripInv, TripTypes, Answer
  <2> QED
    BY <1>1, <1>5, <2>1, AnswerTrip DEF TripInv
<1> QED
  BY <1>2, <1>3, <1>4, <1>5 DEF TripNext

\* The ends handed to the stations screen are the places the fields name as long as
\* their pins are there, and its route joins them, but for the listed disturbances
\* (getGasStationsButtonClicked, markOriginOnMap, markDestinationOnMap).
THEOREM TripsJoinPlacesShown == TripSpec => []TripJoinsPlacesShown
<1>1. TripInv => TripJoinsPlacesShown
  BY DEF TripInv
<1> QED
  BY <1>1, InitTripInv, NextTripInv, PTL DEF TripSpec

=============================================================================
