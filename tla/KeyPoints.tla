----------------------------- MODULE KeyPoints -----------------------------
(***************************************************************************)
(* getKeyPointsFromRouteByDistance: one pass over the points of all steps  *)
(* of a route that keeps a point whenever the distance travelled since the *)
(* last one kept reaches an interval.  Before and after them it puts the   *)
(* coordinate of the first and of the last step's polyline, which MapKit   *)
(* defines as the centre of the overlay and not as a point of the route.   *)
(***************************************************************************)
EXTENDS Naturals, Sequences

CONSTANTS
  Interval,   \* distanceInterval
  MaxLeg,     \* BOUND: the distance between two points of a step
  MaxPoints,  \* BOUND: points of a step
  MaxSteps    \* BOUND: steps of a route

ASSUME KeyPointsAssumption ==
  Interval \in Nat \ {0} /\ MaxLeg \in Nat /\ MaxPoints \in Nat /\ MaxSteps \in Nat

VARIABLES
  steps,             \* route.steps: of each, the distances from each point to the one before it
  step, point,       \* the loop's position
  accumulated,       \* accumulatedDistance
  lastAdded,         \* lastAddedPointDistance
  keyPoints,         \* the points kept
  walked             \* history: the distances travelled to the points seen

walk == <<steps, step, point, accumulated, lastAdded, keyPoints, walked>>

\* A point of the route, by the distance travelled to it.
Way(d) == [is |-> "way", at |-> d]

\* polyline.coordinate of a step: no distance along the route says where it is.
Centre(s) == [is |-> "centre", at |-> s]

\* The first point of a step has none before it: its distance is not added.
Steps == UNION {{s \in [1..n -> 0..MaxLeg] : n > 0 => s[1] = 0} : n \in 0..MaxPoints}

\* The centre of the first step, if there is one.
WalkInit ==
  /\ steps \in UNION {[1..n -> Steps] : n \in 0..MaxSteps}
  /\ step = 1 /\ point = 1
  /\ accumulated = 0 /\ lastAdded = 0
  /\ keyPoints = IF steps = <<>> THEN <<>> ELSE <<Centre(1)>>
  /\ walked = {}

\* Mutant: the distance of the point kept is not remembered.
Point_Forgets ==
  /\ step <= Len(steps) /\ point <= Len(steps[step])
  /\ accumulated' = accumulated + steps[step][point]
  /\ keyPoints' = IF accumulated' - lastAdded >= Interval
                  THEN Append(keyPoints, Way(accumulated')) ELSE keyPoints
  /\ point' = point + 1
  /\ walked' = walked \cup {accumulated'}
  /\ UNCHANGED <<steps, step, lastAdded>>

\* Mutant: a distance of exactly the interval is not enough.
Point_Exceeds ==
  /\ step <= Len(steps) /\ point <= Len(steps[step])
  /\ accumulated' = accumulated + steps[step][point]
  /\ IF accumulated' - lastAdded > Interval
     THEN keyPoints' = Append(keyPoints, Way(accumulated')) /\ lastAdded' = accumulated'
     ELSE UNCHANGED <<keyPoints, lastAdded>>
  /\ point' = point + 1
  /\ walked' = walked \cup {accumulated'}
  /\ UNCHANGED <<steps, step>>

Point ==
  /\ step <= Len(steps) /\ point <= Len(steps[step])
  /\ accumulated' = accumulated + steps[step][point]
  /\ IF accumulated' - lastAdded >= Interval
     THEN keyPoints' = Append(keyPoints, Way(accumulated')) /\ lastAdded' = accumulated'
     ELSE UNCHANGED <<keyPoints, lastAdded>>
  /\ point' = point + 1
  /\ walked' = walked \cup {accumulated'}
  /\ UNCHANGED <<steps, step>>

\* The next step; distances go on from where they were.
NextStep ==
  /\ step <= Len(steps) /\ point > Len(steps[step])
  /\ step' = step + 1 /\ point' = 1
  /\ UNCHANGED <<steps, accumulated, lastAdded, keyPoints, walked>>

\* The centre of the last step, if there is one.
Finish ==
  /\ step = Len(steps) + 1
  /\ step' = step + 1
  /\ keyPoints' = IF steps = <<>> THEN keyPoints ELSE Append(keyPoints, Centre(Len(steps)))
  /\ UNCHANGED <<steps, point, accumulated, lastAdded, walked>>

WalkNext == Point \/ NextStep \/ Finish

WalkSpec == WalkInit /\ [][WalkNext]_walk

-----------------------------------------------------------------------------
(* Properties *)

WayPoints == {n \in 1..Len(keyPoints) : keyPoints[n].is = "way"}

\* The points kept on the way are at least an interval apart, also across steps, and
\* the first is at least an interval from where the route begins.
Spaced ==
  \A n \in WayPoints :
    /\ keyPoints[n].at >= Interval
    /\ \A m \in WayPoints : m < n => keyPoints[n].at >= keyPoints[m].at + Interval

\* Where the route begins and the points kept on the way.
Marks == {0} \cup {keyPoints[n].at : n \in WayPoints}

\* The route is sampled as densely as its points allow: each of them lies less than
\* an interval beyond a point kept or the beginning, and no point kept is further
\* from the one before it than an interval and the longest leg.  A leg longer than
\* the interval does leave a longer gap: no point is made up inside a leg.
Sampled ==
  /\ \A d \in walked : \E m \in Marks : m <= d /\ d < m + Interval
  /\ \A n \in WayPoints : \E m \in Marks :
       m < keyPoints[n].at /\ keyPoints[n].at < m + Interval + MaxLeg
=============================================================================
