------------------------ MODULE TableScreens_proofs ------------------------
(***************************************************************************)
(* Proofs about TableScreens, for all stations, towns and texts and any    *)
(* number of loads.                                                        *)
(***************************************************************************)
EXTENDS TableScreens, FiniteSetTheorems, SequenceTheorems, TLAPS

Injective(s) == \A i, j \in 1..Len(s) : s[i] = s[j] => i = j

-----------------------------------------------------------------------------
(* Sequences without repetition *)

\* An arrangement of a finite set lists each of its elements once.
LEMMA Arrangement ==
  ASSUME NEW S, IsFiniteSet(S), NEW s \in SetToSeqs(S)
  PROVE  /\ Cardinality(S) \in Nat /\ Len(s) = Cardinality(S)
         /\ s \in Seq(S) /\ Injective(s) /\ ToSet(s) = S
<1> DEFINE n == Cardinality(S)
<1>1. n \in Nat
  BY FS_CardinalityType
<1>2. s \in [1..n -> S] /\ \A i, j \in 1..n : i # j => s[i] # s[j]
  BY DEF SetToSeqs
<1>3. s \in Seq(S) /\ Len(s) = n
  BY <1>1, <1>2
<1>4. s \in Injection(1..n, S)
  BY <1>2 DEF Injection, IsInjective
<1>5. Cardinality(1..n) = n
  BY <1>1, FS_Interval
<1>6. s \in Surjection(1..n, S)
  BY <1>4, <1>5, FS_Injection
<1>7. ToSet(s) = S
  BY <1>2, <1>6 DEF Surjection, ToSet
<1> QED
  BY <1>1, <1>2, <1>3, <1>7 DEF Injective

\* A sequence without repetition is as long as the set of its elements.
LEMMA LengthIsCardinality ==
  ASSUME NEW S, NEW s \in Seq(S), Injective(s)
  PROVE  IsFiniteSet(ToSet(s)) /\ Cardinality(ToSet(s)) = Len(s)
<1>1. Len(s) \in Nat /\ s \in [1..Len(s) -> S]
  OBVIOUS
<1>2. s \in Surjection(1..Len(s), ToSet(s)) /\ s \in Injection(1..Len(s), ToSet(s))
  BY <1>1 DEF Surjection, Injection, IsInjective, ToSet, Injective
<1>3. IsFiniteSet(1..Len(s)) /\ Cardinality(1..Len(s)) = Len(s)
  BY <1>1, FS_Interval
<1> QED
  BY <1>2, <1>3, FS_Surjection

\* Removing a row from a list without repetition removes just that element.
LEMMA RowRemoved ==
  ASSUME NEW S, NEW s \in Seq(S), Injective(s), NEW n \in 1..Len(s)
  PROVE  /\ RemoveAt(s, n) \in Seq(S) /\ Injective(RemoveAt(s, n))
         /\ ToSet(RemoveAt(s, n)) = ToSet(s) \ {s[n]}
<1> DEFINE r == RemoveAt(s, n)
<1>1. Len(s) \in Nat /\ n \in Nat /\ n >= 1 /\ n <= Len(s)
  OBVIOUS
<1>2. /\ SubSeq(s, 1, n - 1) \in Seq(S) /\ Len(SubSeq(s, 1, n - 1)) = n - 1
      /\ \A i \in 1..(n - 1) : SubSeq(s, 1, n - 1)[i] = s[i]
  BY <1>1
<1>3. /\ SubSeq(s, n + 1, Len(s)) \in Seq(S) /\ Len(SubSeq(s, n + 1, Len(s))) = Len(s) - n
      /\ \A i \in 1..(Len(s) - n) : SubSeq(s, n + 1, Len(s))[i] = s[n + i]
  BY <1>1
<1>4. /\ r \in Seq(S) /\ Len(r) = Len(s) - 1
      /\ \A i \in 1..(Len(s) - 1) : r[i] = IF i < n THEN s[i] ELSE s[i + 1]
  <2>1. PICK a, b : a = SubSeq(s, 1, n - 1) /\ b = SubSeq(s, n + 1, Len(s))
    OBVIOUS
  <2>2. r = a \o b
    BY <2>1 DEF RemoveAt
  <2>3. /\ a \in Seq(S) /\ Len(a) = n - 1 /\ b \in Seq(S) /\ Len(b) = Len(s) - n
        /\ \A i \in 1..(n - 1) : a[i] = s[i]
        /\ \A i \in 1..(Len(s) - n) : b[i] = s[n + i]
    BY <1>2, <1>3, <2>1
  <2> HIDE DEF r
  <2>4. r \in Seq(S) /\ Len(r) = Len(s) - 1
    BY <1>1, <2>2, <2>3
  <2>5. ASSUME NEW i \in 1..(Len(s) - 1) PROVE r[i] = IF i < n THEN s[i] ELSE s[i + 1]
    <3>1. CASE i < n
      BY <1>1, <2>2, <2>3, <3>1
    <3>2. CASE ~(i < n)
      <4>1. r[i] = b[i - (n - 1)] /\ i - (n - 1) \in 1..(Len(s) - n) /\ n + (i - (n - 1)) = i + 1
        BY <1>1, <2>2, <2>3, <3>2
      <4> QED
        BY <1>1, <2>3, <3>2, <4>1
    <3> QED
      BY <3>1, <3>2
  <2> QED
    BY <2>4, <2>5
<1> HIDE DEF r
<1>5. Injective(r)
  BY <1>1, <1>4 DEF Injective
<1>6. ToSet(r) = ToSet(s) \ {s[n]}
  <2>1. DOMAIN r = 1..(Len(s) - 1) /\ DOMAIN s = 1..Len(s)
    BY <1>1, <1>4
  <2>2. ASSUME NEW x \in ToSet(r) PROVE x \in ToSet(s) \ {s[n]}
    <3>1. PICK i \in 1..(Len(s) - 1) : x = r[i]
      BY <2>1, <2>2 DEF ToSet
    <3>2. PICK k \in 1..Len(s) : x = s[k] /\ k # n
      BY <1>1, <1>4, <3>1
    <3>3. x # s[n]
      BY <3>2 DEF Injective
    <3> QED
      BY <2>1, <3>2, <3>3 DEF ToSet
  <2>3. ASSUME NEW x \in ToSet(s) \ {s[n]} PROVE x \in ToSet(r)
    <3>1. PICK i \in 1..Len(s) : x = s[i] /\ i # n
      BY <2>1, <2>3 DEF ToSet
    <3>2. CASE i < n
      BY <1>1, <1>4, <2>1, <3>1, <3>2 DEF ToSet
    <3>3. CASE i > n
      <4>1. i - 1 \in 1..(Len(s) - 1) /\ r[i - 1] = x
        BY <1>1, <1>4, <3>1, <3>3
      <4> QED
        BY <2>1, <4>1 DEF ToSet
    <3> QED
      BY <1>1, <3>1, <3>2, <3>3
  <2> QED
    BY <2>2, <2>3
<1> QED
  BY <1>4, <1>5, <1>6 DEF r

-----------------------------------------------------------------------------
(* The inductive invariant, in parts *)

\* What belongs to which screen; an array never repeats an element, and the table
\* shows it unless a reload is on the queue.
ScreenOK ==
  /\ screen # "favorites" => detail = Nobody
  /\ screen = "favorites" => array \in Seq(Starred) /\ (detail # Nobody => detail.g \in Starred)
  /\ screen # "search" => ~menu /\ ~alert
  /\ screen # "towns" =>
       filtering = None /\ array \in Seq(Stations) \cup {None} /\ rows \in Seq(Stations)
  /\ screen = "towns" => array \in Seq(Towns) /\ rows \in Seq(Towns)
  /\ screen = "search" /\ load[1] # "done" => array = None
  /\ array = None => screen = "search" /\ rows = <<>>
  /\ array # None => Injective(array)
  /\ ~ReloadQueued => rows = IF array = None THEN <<>> ELSE array

\* The loads are begun in order; only the favourites load more than once.
LoadOK ==
  /\ \A m, n \in Loads : m < n /\ load[n] # "none" => load[m] # "none"
  /\ screen # "favorites" => \A n \in Loads : n # 1 => load[n] = "none"
  /\ screen # "towns" => \A n \in Loads : load[n] # "updating"

Base == TypeOK /\ ScreenOK /\ LoadOK

Blocks == {"show", "hide", "reload"}
Details == [g : Stations \cup {None}, favorita : BOOLEAN, star : BOOLEAN, tapped : BOOLEAN]

\* Constants: None is no list, and the lists are of different kinds.
LEMMA Constants ==
  /\ None \notin Seq(Stations) /\ None \notin Seq(Towns) /\ None \notin Stations /\ None \notin Towns
  /\ IsFiniteSet(Stations) /\ IsFiniteSet(Towns) /\ Starred \subseteq Stations
  /\ 1 \in Loads /\ Loads \subseteq Nat /\ Len(TownList) \in Nat
  /\ AllTowns \in Seq(Towns) /\ Len(AllTowns) = Len(TownList) /\ Injective(AllTowns)
  /\ <<>> \in Seq(Towns) /\ <<>> \in Seq(Stations) /\ Injective(<<>>) /\ <<>> \in Seq(Starred)
<1>0. /\ TownList \in Seq(Seq(Letters)) /\ IsFiniteSet(Stations) /\ Starred \subseteq Stations
      /\ MaxLoads \in Nat \ {0} /\ None \notin Stations \cup Towns \cup Seq(Stations) \cup Seq(Towns)
  BY TableScreensAssumption, Zenon
<1>1. Len(TownList) \in Nat
  BY <1>0
<1>2. IsFiniteSet(Towns)
  BY <1>1, FS_Interval DEF Towns
<1>3. AllTowns \in Seq(Towns) /\ Len(AllTowns) = Len(TownList) /\ \A n \in Towns : AllTowns[n] = n
  BY <1>1 DEF AllTowns, Towns
<1>4. Injective(AllTowns)
  BY <1>3 DEF Injective, Towns
<1>5. Injective(<<>>)
  BY DEF Injective
<1> QED
  BY <1>0, <1>1, <1>2, <1>3, <1>4, <1>5 DEF Loads

\* A block is appended to the main queue.
LEMMA Queued ==
  ASSUME NEW q \in Seq(Blocks), NEW b \in Blocks
  PROVE  /\ Append(q, b) \in Seq(Blocks) /\ Len(Append(q, b)) = Len(q) + 1
         /\ Append(q, b)[Len(q) + 1] = b /\ \A n \in 1..Len(q) : Append(q, b)[n] = q[n]
         /\ (\E n \in 1..Len(Append(q, b)) : Append(q, b)[n] = "reload")
              <=> b = "reload" \/ \E n \in 1..Len(q) : q[n] = "reload"
<1>1. /\ Append(q, b) \in Seq(Blocks) /\ Len(Append(q, b)) = Len(q) + 1 /\ Len(q) \in Nat
      /\ Append(q, b)[Len(q) + 1] = b /\ \A n \in 1..Len(q) : Append(q, b)[n] = q[n]
  OBVIOUS
<1> QED
  BY <1>1

\* A search or the towns on screen, the favourites not yet.
LEMMA InitBase == Init => Base
<1> SUFFICES ASSUME Init PROVE Base
  OBVIOUS
<1> USE Constants
<1>1. /\ queue \in Seq(Blocks) /\ array \in {None, <<>>} /\ rows = <<>> /\ ~ReloadQueued
      /\ array = None <=> screen = "search"
  <2>1. <<"show">> \in Seq(Blocks) /\ Len(<<"show">>) = 1 /\ <<"show">>[1] = "show"
    BY DEF Blocks
  <2>2. <<>> # None
    OBVIOUS
  <2> QED
    BY <2>1, <2>2 DEF Init, ReloadQueued
<1>2. /\ load \in [Loads -> {"none", "asked", "read", "updating", "done", "lost"}]
      /\ \A n \in Loads : load[n] = IF n = 1 /\ screen # "favorites" THEN "asked" ELSE "none"
  BY DEF Init
<1>3. /\ detail \in [g : Stations \cup {None}, favorita : BOOLEAN, star : BOOLEAN, tapped : BOOLEAN]
      /\ snapshot \in [Loads -> SUBSET Starred] /\ favs \subseteq Starred
  BY DEF Init, Nobody
<1>4. TypeOK
  BY <1>1, <1>2, <1>3 DEF Init, TypeOK, Blocks, Modes
<1>5. ScreenOK
  BY <1>1, <1>2 DEF Init, ScreenOK
<1>6. LoadOK
  BY <1>2 DEF Init, LoadOK, Loads
<1> QED
  BY <1>4, <1>5, <1>6 DEF Base

\* Steps that leave the lists, the loads and the queue alone.
Quiet ==
  \/ ShowFuels \/ addFav \/ showOptionsPopover \/ dismiss \/ BackToSearch \/ AcceptAlert
  \/ \E g \in Starred : OpenFound(g)
  \/ \E typed \in Texts : BeginFilter(typed)
  \/ \E n \in 1..Len(rows) : OpenFavorite(n) \/ SelectTown(n) \/ OpenStation(n)
  \/ CloseDetail /\ at = "away"

\* Such a step keeps Base.
LEMMA QuietBase ==
  ASSUME Base, Quiet
  PROVE  Base' /\ UNCHANGED <<screen, queue, array, rows, indicators, spinning, load, snapshot>>
<1> USE Constants
<1>0. TypeOK
  BY DEF Base
<1>1. UNCHANGED <<screen, queue, array, rows, indicators, spinning, load, snapshot>>
  BY DEF Quiet, ShowFuels, addFav, showOptionsPopover, dismiss, BackToSearch, AcceptAlert, OpenFound,
         BeginFilter, OpenFavorite, SelectTown, OpenStation, CloseDetail, table, favorites
<1>2. TypeOK' /\ ScreenOK'
  <2>1. CASE ShowFuels
    BY <1>0, <1>1, <2>1 DEF Base, ShowFuels, favorites, selection, search, history, TypeOK, ScreenOK, ReloadQueued
  <2>2. CASE addFav
    <3>1. /\ screen = "favorites" /\ detail.g \in Starred
          /\ UNCHANGED <<at, crashed, towns, text, filtering, mode, menu, alert, met, wrong, early>>
      BY <2>2 DEF Base, addFav, ScreenOK, table, selection, search, history
    <3>2. detail' \in Details /\ detail'.g = detail.g
      BY <1>0, <2>2 DEF addFav, TypeOK, Details
    <3>3. favs' \subseteq Starred
      BY <1>0, <2>2, <3>1 DEF addFav, TypeOK
    <3>4. TypeOK'
      BY <1>0, <1>1, <3>1, <3>2, <3>3 DEF TypeOK, Details
    <3>5. ScreenOK'
      BY <1>1, <3>1, <3>2 DEF Base, ScreenOK, ReloadQueued
    <3> QED
      BY <3>4, <3>5
  <2>3. CASE showOptionsPopover
    BY <1>0, <1>1, <2>3 DEF Base, showOptionsPopover, table, favorites, selection, history, TypeOK, ScreenOK, ReloadQueued
  <2>4. CASE dismiss
    <3>1. /\ ~menu' /\ menu' \in BOOLEAN /\ UNCHANGED <<at, crashed, favorites, selection, mode, alert, history>>
      BY <2>4 DEF dismiss, table
    <3>2. TypeOK'
      BY <1>0, <1>1, <3>1 DEF favorites, selection, history, TypeOK
    <3>3. ScreenOK'
      BY <1>1, <3>1 DEF Base, favorites, selection, ScreenOK, ReloadQueued
    <3> QED
      BY <3>2, <3>3
  <2>5. CASE BackToSearch
    BY <1>0, <1>1, <2>5 DEF Base, BackToSearch, favorites, selection, search, history, TypeOK, ScreenOK, ReloadQueued
  <2>6. CASE AcceptAlert
    <3>1. /\ ~alert' /\ alert' \in BOOLEAN /\ at' = "gone"
          /\ UNCHANGED <<crashed, favorites, selection, mode, menu, history>>
      BY <2>6 DEF AcceptAlert
    <3>2. TypeOK'
      BY <1>0, <1>1, <3>1 DEF favorites, selection, history, TypeOK
    <3>3. ScreenOK'
      BY <1>1, <3>1 DEF Base, favorites, selection, ScreenOK, ReloadQueued
    <3> QED
      BY <3>2, <3>3
  <2>7. ASSUME NEW g \in Starred, OpenFound(g) PROVE TypeOK' /\ ScreenOK'
    <3>1. /\ screen = "favorites" /\ g \in Stations
          /\ UNCHANGED <<at, crashed, favs, towns, text, filtering, mode, menu, alert, met, wrong, early>>
      BY <2>7 DEF OpenFound, table, selection, search, history
    <3>2. detail' \in Details /\ detail'.g = g
      <4>0. PICK b : b = (g \in favs)
        OBVIOUS
      <4>1. b = (g \in favs) /\ b \in BOOLEAN
        BY <4>0
      <4>2. detail' = [g |-> g, favorita |-> b, star |-> b, tapped |-> FALSE]
        BY <2>7, <4>1 DEF OpenFound, Nobody
      <4> QED
        BY <3>1, <4>1, <4>2 DEF Details
    <3>3. TypeOK'
      BY <1>0, <1>1, <3>1, <3>2 DEF TypeOK, Details
    <3>4. ScreenOK'
      BY <1>1, <3>1, <3>2 DEF Base, ScreenOK, ReloadQueued
    <3> QED
      BY <3>3, <3>4
  <2>8. ASSUME NEW typed \in Texts, BeginFilter(typed) PROVE TypeOK' /\ ScreenOK'
    BY <1>0, <1>1, <2>8 DEF Base, BeginFilter, Known, table, favorites, search, TypeOK, ScreenOK, ReloadQueued
  <2>9. ASSUME NEW n \in 1..Len(rows), OpenFavorite(n) PROVE TypeOK' /\ ScreenOK'
    <3>1. /\ screen = "favorites" /\ array \in Seq(Starred) /\ n \in 1..Len(rows)
          /\ UNCHANGED <<at, favs, towns, text, filtering, mode, menu, alert, early>>
          /\ crashed' = (n > Len(array)) /\ met' \subseteq met \cup {"late"} /\ wrong' \in BOOLEAN
      BY <2>9 DEF OpenFavorite, Touch, selection, search, Base, ScreenOK
    <3>2. crashed' \in BOOLEAN /\ (~crashed' => n \in 1..Len(array) /\ array[n] \in Starred)
      <4>1. Len(array) \in Nat /\ rows \in Seq(Stations) /\ Len(rows) \in Nat
        BY <3>1 DEF Base, ScreenOK
      <4>2. n \in Nat /\ n >= 1 /\ (~(n > Len(array)) => n \in 1..Len(array))
        BY <3>1, <4>1
      <4>3. crashed' = (n > Len(array))
        BY <3>1
      <4>4. CASE n > Len(array)
        BY <4>3, <4>4
      <4>5. CASE ~(n > Len(array))
        BY <3>1, <4>2, <4>3, <4>5
      <4> QED
        BY <4>4, <4>5
    <3>3. detail' \in Details /\ (detail' # Nobody => detail'.g \in Starred)
      BY <2>9, <3>2 DEF OpenFavorite, Details, Nobody
    <3>4. TypeOK'
      BY <1>0, <1>1, <3>1, <3>2, <3>3 DEF TypeOK, Details, Disturbances
    <3>5. ScreenOK'
      BY <1>1, <3>1, <3>3 DEF Base, ScreenOK, ReloadQueued
    <3> QED
      BY <3>4, <3>5
  <2>10. ASSUME NEW n \in 1..Len(rows), SelectTown(n) PROVE TypeOK' /\ ScreenOK'
    BY <1>0, <1>1, <2>10 DEF Base, SelectTown, Touch, favorites, selection, search, TypeOK, ScreenOK, ReloadQueued, Disturbances
  <2>11. ASSUME NEW n \in 1..Len(rows), OpenStation(n) PROVE TypeOK' /\ ScreenOK'
    BY <1>0, <1>1, <2>11 DEF Base, OpenStation, Touch, favorites, selection, search, TypeOK, ScreenOK, ReloadQueued, Disturbances
  <2>12. CASE CloseDetail /\ at = "away"
    BY <1>0, <1>1, <2>12 DEF Base, CloseDetail, selection, search, TypeOK, ScreenOK, ReloadQueued, Nobody
  <2> QED
    BY <2>1, <2>2, <2>3, <2>4, <2>5, <2>6, <2>7, <2>8, <2>9, <2>10, <2>11, <2>12 DEF Quiet
<1>3. LoadOK'
  BY <1>1 DEF Base, LoadOK
<1> QED
  BY <1>1, <1>2, <1>3 DEF Base

LoadPhases == {"none", "asked", "read", "updating", "done", "lost"}

\* Load n goes on to x; block b, if any, is queued.
Goes(n, x, b) ==
  /\ n \in Loads /\ load' = [load EXCEPT ![n] = x]
  /\ \/ load[n] = "none" /\ x = "asked" /\ b = "show" /\ screen = "favorites"
        /\ \A m \in Loads : m < n => load[m] # "none"
     \/ load[n] \in {"asked", "read"} /\ x = "lost" /\ b = "none"
     \/ load[n] = "asked" /\ x = "done" /\ b = "hide" /\ screen = "favorites"
     \/ load[n] = "asked" /\ x = "read" /\ b = "none" /\ screen = "favorites"
     \/ load[n] = "asked" /\ x = "read" /\ b = "hide" /\ screen = "search"
     \/ load[n] = "asked" /\ x = "updating" /\ b = "hide" /\ screen = "towns"
  /\ queue' = IF b = "none" THEN queue ELSE Append(queue, b)
  /\ snapshot' \in [Loads -> SUBSET Starred] /\ (at' = at \/ (at' = "list" /\ screen = "favorites"))
  /\ towns' \in BOOLEAN /\ met \subseteq met' /\ met' \subseteq met \cup {"overlap", "empty"}
  /\ detail' \in {detail, Nobody}
  /\ UNCHANGED <<screen, array, rows, indicators, spinning, crashed, favs, text, filtering, search,
                 wrong, early>>

\* A load begins, is read, is lost: the lists stay.
Loading ==
  \/ ShowFavorites \/ (CloseDetail /\ at # "away") \/ TownsAnswer \/ PricesAnswer
  \/ \E n \in Loads : FavoritesRead(n) \/ RequestFails(n)

\* Every such step is one of Goes.
LEMMA LoadingGoes ==
  ASSUME Base, Loading
  PROVE  \E n, x, b : Goes(n, x, b)
<1> USE Constants
<1>0. TypeOK
  BY DEF Base
<1>1. ASSUME NEW n \in Loads, viewWillAppear(n), screen = "favorites", at' \in {"list", at},
             detail' \in {detail, Nobody},
             UNCHANGED <<screen, array, rows, indicators, spinning, crashed, favs, snapshot, selection,
                         search, wrong, early>>
      PROVE  Goes(n, "asked", "show")
  BY <1>0, <1>1 DEF viewWillAppear, Goes, TypeOK, selection
<1>2. CASE ShowFavorites
  BY <1>1, <1>2 DEF ShowFavorites, favorites
<1>3. CASE CloseDetail /\ at # "away"
  <2>1. screen = "favorites"
    BY <1>3 DEF CloseDetail, Base, ScreenOK
  <2> QED
    BY <1>1, <1>3, <2>1 DEF CloseDetail
<1>4. CASE TownsAnswer
  <2>1. Goes(1, "updating", "hide")
    BY <1>0, <1>4 DEF TownsAnswer, Goes, favorites, history, TypeOK
  <2> QED
    BY <2>1
<1>5. CASE PricesAnswer
  <2>1. Goes(1, "read", "hide")
    BY <1>0, <1>5 DEF PricesAnswer, Goes, favorites, selection, history, TypeOK
  <2> QED
    BY <2>1
<1>6. ASSUME NEW n \in Loads, FavoritesRead(n) PROVE \E x, b : Goes(n, x, b)
  <2>1. /\ snapshot' \in [Loads -> SUBSET Starred] /\ met \subseteq met' /\ met' \subseteq met \cup {"empty"}
    BY <1>0, <1>6 DEF FavoritesRead, TypeOK
  <2>2. CASE favs = {}
    <3>1. Goes(n, "done", "hide")
      BY <1>0, <1>6, <2>1, <2>2 DEF FavoritesRead, Goes, selection, TypeOK
    <3> QED
      BY <3>1
  <2>3. CASE favs # {}
    <3>1. Goes(n, "read", "none")
      BY <1>0, <1>6, <2>1, <2>3 DEF FavoritesRead, Goes, selection, TypeOK
    <3> QED
      BY <3>1
  <2> QED
    BY <2>2, <2>3
<1>7. ASSUME NEW n \in Loads, RequestFails(n) PROVE Goes(n, "lost", "none")
  BY <1>0, <1>7 DEF RequestFails, Open, Goes, favorites, selection, history, TypeOK
<1> QED
  BY <1>2, <1>3, <1>4, <1>5, <1>6, <1>7 DEF Loading

\* Such a step keeps the base.
LEMMA GoesBase ==
  ASSUME Base, NEW n, NEW x, NEW b, Goes(n, x, b)
  PROVE  Base'
<1> USE Constants
<1>0. TypeOK
  BY DEF Base
<1>1. /\ n \in Loads /\ x \in LoadPhases /\ x # "none" /\ b \in {"show", "hide", "none"}
      /\ load' \in [Loads -> LoadPhases] /\ load'[n] = x
      /\ \A m \in Loads : m # n => load'[m] = load[m]
  BY <1>0 DEF Goes, TypeOK, LoadPhases
<1>2. queue' \in Seq(Blocks) /\ ReloadQueued' = ReloadQueued
  <2>1. queue \in Seq(Blocks)
    BY <1>0 DEF TypeOK, Blocks
  <2>2. CASE b = "none"
    BY <2>1, <2>2 DEF Goes, ReloadQueued
  <2>3. CASE b # "none"
    <3>1. b \in Blocks /\ b # "reload" /\ queue' = Append(queue, b)
      BY <1>1, <2>3 DEF Goes, Blocks
    <3> QED
      BY <2>1, <3>1, Queued DEF ReloadQueued
  <2> QED
    BY <2>2, <2>3
<1>3. /\ UNCHANGED <<screen, array, rows, indicators, spinning, crashed, favs, text, filtering, mode,
                     menu, alert, wrong, early>>
      /\ snapshot' \in [Loads -> SUBSET Starred] /\ at' \in {"list", at}
      /\ towns' \in BOOLEAN /\ met' \subseteq met \cup {"overlap", "empty"}
      /\ detail' \in {detail, Nobody} /\ Nobody \in Details
  BY DEF Goes, search, Nobody, Details
<1>4. TypeOK'
  BY <1>0, <1>1, <1>2, <1>3 DEF TypeOK, LoadPhases, Blocks, Details, Disturbances
<1>5. ScreenOK'
  <2>1. screen = "search" /\ load'[1] # "done" => load[1] # "done"
    BY <1>1 DEF Goes
  <2> QED
    BY <1>2, <1>3, <2>1 DEF Base, ScreenOK
<1>6. LoadOK'
  <2>1. \A k, m \in Loads : k < m /\ load'[m] # "none" => load'[k] # "none"
    BY <1>1 DEF Goes, Base, LoadOK
  <2>2. screen # "favorites" => \A m \in Loads : m # 1 => load'[m] = "none"
    BY <1>1 DEF Goes, Base, LoadOK
  <2>3. screen # "towns" => \A m \in Loads : load'[m] # "updating"
    BY <1>1 DEF Goes, Base, LoadOK
  <2> QED
    BY <1>3, <2>1, <2>2, <2>3 DEF LoadOK
<1> QED
  BY <1>4, <1>5, <1>6 DEF Base

\* A sequence over a set is one over every larger set.
LEMMA WiderSequence ==
  ASSUME NEW S, NEW T, S \subseteq T, NEW s \in Seq(S)
  PROVE  s \in Seq(T)
<1>1. Len(s) \in Nat /\ s \in [1..Len(s) -> S]
  OBVIOUS
<1>2. s \in [1..Len(s) -> T]
  BY <1>1
<1> QED
  BY <1>1, <1>2

\* What a filter leaves.
LEMMA FilterLeaves ==
  ASSUME NEW list \in Seq(Towns), NEW typed, NEW s \in Filtered(list, typed)
  PROVE  s \in Seq(Towns) /\ Injective(s) /\ Len(s) \in Nat /\ Len(s) <= Len(TownList)
<1> DEFINE S == {t \in ToSet(list) : Matches(t, typed)}
<1>1. s \in SetToSeqs(S)
  BY DEF Filtered
<1>2. ToSet(list) \subseteq Towns
  <2>1. DOMAIN list = 1..Len(list) /\ \A i \in 1..Len(list) : list[i] \in Towns
    OBVIOUS
  <2> QED
    BY <2>1, Zenon DEF ToSet
<1>3. S \in SUBSET Towns
  BY <1>2
<1> HIDE DEF S
<1>4. Cardinality(Towns) = Len(TownList)
  <2>1. PICK k \in Nat : k = Len(TownList)
    BY Constants
  <2>2. Cardinality(1..k) = k
    BY FS_Interval
  <2> QED
    BY <2>1, <2>2 DEF Towns
<1>5. IsFiniteSet(S) /\ Cardinality(S) <= Len(TownList)
  BY <1>3, <1>4, Constants, FS_Subset
<1>6. s \in Seq(S) /\ Injective(s) /\ Len(s) = Cardinality(S) /\ Cardinality(S) \in Nat
  BY <1>1, <1>5, Arrangement
<1> QED
  BY <1>3, <1>5, <1>6, WiderSequence

\* What sortFuels returns: the same stations, in order.
LEMMA SortLists ==
  ASSUME NEW S \in SUBSET Stations, NEW m, NEW s \in sortFuels(m, S)
  PROVE  /\ s \in Seq(Stations) /\ Injective(s) /\ Len(s) = Cardinality(S) /\ Len(s) \in Nat
         /\ \A i, j \in 1..Len(s) : i < j => ~Before(m, s[j], s[i])
<1>1. IsFiniteSet(S)
  BY Constants, FS_Subset
<1>2. s \in SetToSeqs(S) /\ \A i, j \in 1..Len(s) : i < j => ~Before(m, s[j], s[i])
  BY DEF sortFuels, IsSorted
<1>3. s \in Seq(S) /\ Injective(s) /\ Len(s) = Cardinality(S) /\ Cardinality(S) \in Nat
  BY <1>1, <1>2, Arrangement
<1> QED
  BY <1>2, <1>3, WiderSequence

\* The first block is taken from the main queue.
LEMMA Dequeued ==
  ASSUME NEW q \in Seq(Blocks), q # <<>>
  PROVE  /\ Tail(q) \in Seq(Blocks) /\ Len(Tail(q)) = Len(q) - 1 /\ Len(q) \in Nat \ {0}
         /\ Head(q) = q[1] /\ q[1] \in Blocks
         /\ \A n \in 1..(Len(q) - 1) : Tail(q)[n] = q[n + 1]
  OBVIOUS

\* A block of the main queue runs.
LEMMA RunBase ==
  ASSUME Base, RunBlock
  PROVE  Base'
<1> USE Constants
<1>0. TypeOK /\ queue \in Seq(Blocks) /\ queue # <<>> /\ queue' = Tail(queue)
  BY DEF Base, RunBlock, TypeOK, Blocks
<1>1. /\ queue' \in Seq(Blocks) /\ Head(queue) = queue[1] /\ queue[1] \in Blocks
      /\ Len(queue') = Len(queue) - 1 /\ \A n \in 1..(Len(queue) - 1) : queue'[n] = queue[n + 1]
      /\ Len(queue) \in Nat \ {0}
  BY <1>0, Dequeued
<1>2. UNCHANGED <<screen, at, array, load, crashed, favs, snapshot, detail, towns, text, filtering,
                  mode, menu, met, wrong, early>>
  BY DEF RunBlock, favorites, selection, history
<1>3. /\ indicators' \in Nat /\ spinning' \subseteq 1..indicators'
      /\ Head(queue) # "reload" => UNCHANGED <<rows, alert>>
      /\ Head(queue) = "reload" => reloadData
  <2>1. CASE Head(queue) = "show"
    <3>1. /\ indicators' = indicators + 1 /\ spinning' = spinning \cup {indicators + 1}
          /\ UNCHANGED <<rows, alert>>
      BY <2>1 DEF RunBlock, showLoading
    <3>2. indicators \in Nat /\ spinning \subseteq 1..indicators
      BY <1>0 DEF TypeOK
    <3>3. spinning' \subseteq 1..(indicators + 1)
      BY <3>1, <3>2
    <3> QED
      BY <2>1, <3>1, <3>2, <3>3
  <2>2. CASE Head(queue) = "hide"
    BY <1>0, <2>2 DEF RunBlock, hideLoading, TypeOK
  <2>3. CASE Head(queue) = "reload"
    BY <1>0, <2>3 DEF RunBlock, TypeOK
  <2> QED
    BY <1>1, <2>1, <2>2, <2>3 DEF Blocks
<1>4. /\ rows' \in {rows, IF array = None THEN <<>> ELSE array}
      /\ alert' \in BOOLEAN /\ (screen # "search" => ~alert')
      /\ Head(queue) = "reload" => rows' = IF array = None THEN <<>> ELSE array
  <2>1. CASE Head(queue) = "reload"
    BY <1>0, <1>3, <2>1 DEF reloadData, TypeOK, Base, ScreenOK
  <2>2. CASE Head(queue) # "reload"
    BY <1>0, <1>3, <2>2 DEF TypeOK, Base, ScreenOK
  <2> QED
    BY <2>1, <2>2
<1>5. TypeOK'
  <2>1. rows' \in Seq(Stations) \cup Seq(Towns)
    BY <1>0, <1>4 DEF TypeOK
  <2> QED
    BY <1>0, <1>1, <1>2, <1>3, <1>4, <2>1 DEF TypeOK, Blocks
<1>6. ~ReloadQueued' => rows' = IF array = None THEN <<>> ELSE array
  <2>1. CASE Head(queue) = "reload"
    BY <1>4, <2>1
  <2>2. CASE Head(queue) # "reload"
    <3>1. ReloadQueued => ReloadQueued'
      <4>1. SUFFICES ASSUME NEW n \in 1..Len(queue), queue[n] = "reload" PROVE ReloadQueued'
        BY DEF ReloadQueued
      <4>2. n - 1 \in 1..Len(queue') /\ queue'[n - 1] = queue[n]
        BY <1>1, <2>2, <4>1
      <4> QED
        BY <4>1, <4>2 DEF ReloadQueued
    <3> QED
      BY <1>3, <2>2, <3>1 DEF Base, ScreenOK
  <2> QED
    BY <2>1, <2>2
<1>7. ScreenOK'
  BY <1>2, <1>4, <1>6 DEF Base, ScreenOK
<1>8. LoadOK'
  BY <1>2 DEF Base, LoadOK
<1> QED
  BY <1>5, <1>7, <1>8 DEF Base

\* The array is assigned anew: the list of an answer, a filtered or sorted one, or
\* one row less.
LEMMA EndFilterBase ==
  ASSUME Base, EndFilter
  PROVE  Base' /\ Len(rows') <= Len(TownList)
<1> USE Constants
<1>0. TypeOK /\ screen = "towns" /\ filtering \in Seq(Towns)
  BY DEF Base, EndFilter, ScreenOK, TypeOK
<1>1. array' \in Seq(Towns) /\ Injective(array') /\ rows' = array' /\ Len(array') <= Len(TownList)
  <2>1. Known \in Seq(Towns)
    BY DEF Known, AllTowns
  <2>2. PICK list \in Seq(Towns) : array' \in Filtered(list, text)
    BY <1>0, <2>1 DEF EndFilter
  <2> QED
    BY <2>2, FilterLeaves DEF EndFilter
<1>2. /\ UNCHANGED <<screen, at, queue, indicators, spinning, load, crashed, favs, snapshot, detail, towns>>
      /\ UNCHANGED <<text, mode, menu, alert, met, wrong, early>> /\ filtering' = None
  BY DEF EndFilter, favorites, search, history
<1>3. TypeOK'
  BY <1>0, <1>1, <1>2 DEF TypeOK
<1>4. ScreenOK'
  BY <1>0, <1>1, <1>2 DEF Base, ScreenOK
<1>5. LoadOK'
  BY <1>2 DEF Base, LoadOK
<1> QED
  BY <1>1, <1>3, <1>4, <1>5 DEF Base

\* updateTowns: all towns, with a reload to come.
LEMMA UpdateTownsBase ==
  ASSUME Base, updateTowns
  PROVE  Base' /\ screen = "towns"
<1> USE Constants
<1>0. TypeOK /\ queue \in Seq(Blocks) /\ screen = "towns"
  BY DEF Base, TypeOK, Blocks, updateTowns, LoadOK
<1>1. queue' \in Seq(Blocks) /\ ReloadQueued'
  <2>1. queue' = Append(queue, "reload") /\ "reload" \in Blocks
    BY DEF updateTowns, Blocks
  <2> QED
    BY <1>0, <2>1, Queued DEF ReloadQueued
<1>2. /\ array' = AllTowns /\ load' \in [Loads -> LoadPhases]
      /\ load[1] = "updating" /\ load'[1] = "done" /\ \A n \in Loads : n # 1 => load'[n] = load[n]
  BY <1>0 DEF updateTowns, TypeOK, LoadPhases
<1>3. /\ UNCHANGED <<screen, at, rows, indicators, spinning, crashed, favs, snapshot, detail, towns>>
      /\ UNCHANGED <<text, filtering, mode, menu, alert, met, wrong, early>>
  BY DEF updateTowns, favorites, selection, search, history
<1>4. TypeOK'
  BY <1>0, <1>1, <1>2, <1>3 DEF TypeOK, LoadPhases, Blocks
<1>5. ScreenOK'
  BY <1>0, <1>1, <1>2, <1>3 DEF Base, ScreenOK
<1>6. LoadOK'
  BY <1>0, <1>2, <1>3 DEF Base, LoadOK
<1> QED
  BY <1>0, <1>4, <1>5, <1>6 DEF Base

\* updateFuelList: the stations found, in the default order.
LEMMA UpdateFuelListBase ==
  ASSUME Base, updateFuelList
  PROVE  Base'
<1> USE Constants
<1>0. TypeOK /\ queue \in Seq(Blocks) /\ screen = "search" /\ filtering = None
  BY DEF Base, TypeOK, Blocks, updateFuelList, MainIsFree
<1>1. queue' \in Seq(Blocks) /\ ReloadQueued'
  <2>1. queue' = Append(queue, "reload") /\ "reload" \in Blocks
    BY DEF updateFuelList, Blocks
  <2> QED
    BY <1>0, <2>1, Queued DEF ReloadQueued
<1>2. array' \in Seq(Stations) /\ Injective(array')
  BY SortLists DEF updateFuelList
<1>3. /\ load' \in [Loads -> LoadPhases] /\ load[1] = "read" /\ load'[1] = "done"
      /\ \A n \in Loads : n # 1 => load'[n] = load[n]
  BY <1>0 DEF updateFuelList, TypeOK, LoadPhases
<1>4. /\ UNCHANGED <<screen, at, rows, indicators, spinning, crashed, favs, snapshot, detail, towns>>
      /\ UNCHANGED <<text, filtering, mode, menu, alert, met, wrong, early>>
  BY DEF updateFuelList, favorites, selection, search, history
<1>5. TypeOK'
  BY <1>0, <1>1, <1>2, <1>3, <1>4 DEF TypeOK, LoadPhases, Blocks
<1>6. ScreenOK'
  BY <1>0, <1>1, <1>2, <1>3, <1>4 DEF Base, ScreenOK
<1>7. LoadOK'
  BY <1>0, <1>3, <1>4 DEF Base, LoadOK
<1> QED
  BY <1>5, <1>6, <1>7 DEF Base

\* updateFavoritesList: the stations of a snapshot, in any order, unless it raced.
LEMMA UpdateFavoritesListBase ==
  ASSUME Base, NEW n \in Loads, updateFavoritesList(n)
  PROVE  /\ Base' /\ array' \in Seq(Starred)
         /\ "raced" \notin met' => ToSet(array') = snapshot[n]
<1> USE Constants
<1>0. TypeOK /\ queue \in Seq(Blocks) /\ screen = "favorites" /\ filtering = None
  BY DEF Base, TypeOK, Blocks, updateFavoritesList, MainIsFree
<1>1. queue' \in Seq(Blocks) /\ ReloadQueued'
  <2>1. PICK q : q = Append(queue, "hide")
    OBVIOUS
  <2>2. queue' = Append(q, "reload") /\ "hide" \in Blocks /\ "reload" \in Blocks
    BY <1>0, <2>1 DEF updateFavoritesList, Blocks
  <2>3. q \in Seq(Blocks)
    BY <1>0, <2>1, <2>2, Queued
  <2> QED
    BY <2>2, <2>3, Queued DEF ReloadQueued
<1>2. /\ array' \in Seq(Stations) /\ Injective(array') /\ array' \in Seq(Starred)
      /\ "raced" \notin met' => ToSet(array') = snapshot[n]
  <2>0. PICK S \in SUBSET snapshot[n] : array' \in SetToSeqs(S) /\ met' = met \cup Disturbed(n, S)
    BY DEF updateFavoritesList
  <2>1. S \subseteq Starred /\ (S # snapshot[n] => "raced" \in met')
    BY <1>0, <2>0 DEF TypeOK, Disturbed
  <2>2. IsFiniteSet(S)
    BY <2>1, FS_Subset
  <2>3. array' \in Seq(S) /\ Injective(array') /\ ToSet(array') = S
    BY <2>0, <2>2, Arrangement
  <2>4. array' \in Seq(Starred)
    BY <2>1, <2>3, WiderSequence
  <2>5. array' \in Seq(Stations)
    BY <2>4, WiderSequence
  <2> QED
    BY <2>1, <2>3, <2>4, <2>5
<1>3. /\ load' \in [Loads -> LoadPhases] /\ load[n] = "read" /\ load'[n] = "done"
      /\ \A m \in Loads : m # n => load'[m] = load[m]
  BY <1>0 DEF updateFavoritesList, TypeOK, LoadPhases
<1>4. /\ UNCHANGED <<screen, at, rows, indicators, spinning, crashed, favs, snapshot, detail, towns>>
      /\ UNCHANGED <<text, filtering, mode, menu, alert, wrong, early>>
      /\ met' \subseteq met \cup {"overtaken", "raced"}
  BY DEF updateFavoritesList, Disturbed, favorites, selection, search
<1>5. TypeOK'
  BY <1>0, <1>1, <1>2, <1>3, <1>4 DEF TypeOK, LoadPhases, Blocks, Disturbances
<1>6. ScreenOK'
  BY <1>0, <1>1, <1>2, <1>4 DEF Base, ScreenOK
<1>7. LoadOK'
  BY <1>0, <1>3, <1>4 DEF Base, LoadOK
<1> QED
  BY <1>2, <1>5, <1>6, <1>7 DEF Base

\* Picking a mode sorts the list that is there, and only reorders it.
LEMMA UpdateSearchModeBase ==
  ASSUME Base, NEW m \in Modes, updateSearchMode(m)
  PROVE  /\ Base' /\ screen = "search" /\ (array = None => array' = None)
         /\ array # None => array' # None /\ Len(array') = Len(array)
               /\ \A i, j \in 1..Len(array') : i < j => ~Before(m, array'[j], array'[i])
<1> USE Constants
<1>0. TypeOK /\ queue \in Seq(Blocks) /\ screen = "search" /\ filtering = None
  BY DEF Base, TypeOK, Blocks, updateSearchMode, ScreenOK, MainIsFree
<1>1. /\ UNCHANGED <<screen, at, rows, indicators, spinning, load, crashed, favs, snapshot, detail>>
      /\ UNCHANGED <<towns, text, filtering, alert, met, wrong>>
      /\ mode' = m /\ ~menu' /\ menu' \in BOOLEAN /\ early' \in BOOLEAN
  BY DEF updateSearchMode, favorites, selection
<1>2. LoadOK'
  BY <1>1 DEF Base, LoadOK
<1>3. CASE array = None
  <2>1. array' = array /\ queue' = queue
    BY <1>3 DEF updateSearchMode
  <2>2. TypeOK'
    BY <1>0, <1>1, <2>1 DEF TypeOK
  <2>3. ScreenOK'
    BY <1>0, <1>1, <2>1 DEF Base, ScreenOK, ReloadQueued
  <2> QED
    BY <1>0, <1>2, <1>3, <2>1, <2>2, <2>3 DEF Base
<1>4. CASE array # None
  <2>1. array \in Seq(Stations) /\ Injective(array)
    BY <1>0, <1>4 DEF Base, ScreenOK
  <2>2. ToSet(array) \in SUBSET Stations /\ Cardinality(ToSet(array)) = Len(array)
    <3>1. DOMAIN array = 1..Len(array) /\ \A i \in 1..Len(array) : array[i] \in Stations
      BY <2>1
    <3>2. ToSet(array) \subseteq Stations
      BY <3>1, Zenon DEF ToSet
    <3> QED
      BY <2>1, <3>2, LengthIsCardinality
  <2>3. /\ array' \in Seq(Stations) /\ Injective(array') /\ Len(array') = Len(array)
        /\ \A i, j \in 1..Len(array') : i < j => ~Before(m, array'[j], array'[i])
    <3>1. array' \in sortFuels(m, ToSet(array))
      BY <1>4 DEF updateSearchMode
    <3> QED
      BY <2>2, <3>1, SortLists
  <2>4. queue' \in Seq(Blocks) /\ ReloadQueued'
    <3>1. PICK q : q = Append(queue, "reload")
      OBVIOUS
    <3>2. queue' = Append(q, "reload") /\ "reload" \in Blocks
      BY <1>0, <1>4, <3>1 DEF updateSearchMode, Blocks
    <3>3. q \in Seq(Blocks)
      BY <1>0, <3>1, <3>2, Queued
    <3> QED
      BY <3>2, <3>3, Queued DEF ReloadQueued
  <2>5. TypeOK'
    BY <1>0, <1>1, <2>3, <2>4 DEF TypeOK, Blocks
  <2>6. array' # None
    BY <2>3
  <2>7. load[1] = "done"
    BY <1>0, <1>4 DEF Base, ScreenOK
  <2>8. ScreenOK'
    BY <1>0, <1>1, <2>3, <2>4, <2>6, <2>7 DEF Base, ScreenOK
  <2> QED
    BY <1>0, <1>2, <1>4, <2>3, <2>5, <2>6, <2>8 DEF Base
<1> QED
  BY <1>3, <1>4

\* Swiping a row away.
LEMMA RemoveRowBase ==
  ASSUME Base, NEW n \in 1..Len(rows), RemoveRow(n)
  PROVE  /\ Base' /\ crashed' \in BOOLEAN
         /\ ~crashed' => /\ n \in 1..Len(array) /\ favs' = favs \ {array[n]}
                         /\ ToSet(array') = ToSet(array) \ {array[n]}
<1> USE Constants
<1>0. /\ TypeOK /\ screen = "favorites" /\ array \in Seq(Stations) /\ array \in Seq(Starred)
      /\ rows \in Seq(Stations) /\ Injective(array) /\ Len(array) \in Nat /\ n \in Nat /\ n >= 1
  <2>1. TypeOK /\ screen = "favorites"
    BY DEF Base, RemoveRow
  <2>2. rows \in Seq(Stations) /\ array \in Seq(Starred) /\ array # None
    BY <2>1 DEF Base, ScreenOK
  <2>3. array \in Seq(Stations) /\ Injective(array)
    BY <2>1, <2>2 DEF Base, ScreenOK
  <2> QED
    BY <2>1, <2>2, <2>3
<1>1. /\ UNCHANGED <<screen, at, queue, indicators, spinning, load, snapshot, detail, towns, text>>
      /\ UNCHANGED <<filtering, mode, menu, alert, early>>
      /\ met' \subseteq met \cup {"late", "swipe"} /\ wrong' \in BOOLEAN
  BY DEF RemoveRow, selection, search
<1>2. crashed' = (n > Len(array))
  BY DEF RemoveRow
<1>3. LoadOK'
  BY <1>1 DEF Base, LoadOK
<1>4. CASE n > Len(array)
  <2>1. crashed' \in BOOLEAN /\ crashed' /\ UNCHANGED <<favs, array, rows>>
    BY <1>2, <1>4 DEF RemoveRow
  <2>2. TypeOK'
    BY <1>0, <1>1, <2>1 DEF TypeOK, Disturbances
  <2>3. ScreenOK'
    BY <1>0, <1>1, <2>1 DEF Base, ScreenOK, ReloadQueued
  <2> QED
    BY <1>3, <2>1, <2>2, <2>3 DEF Base
<1>5. CASE ~(n > Len(array))
  <2>1. crashed' \in BOOLEAN /\ ~crashed' /\ n \in 1..Len(array)
    <3>1. n \in 1..Len(array)
      BY <1>0, <1>5
    <3>2. (n > Len(array)) = FALSE
      BY <1>0, <1>5
    <3>3. crashed' = FALSE
      BY <1>2, <3>2, Zenon
    <3> QED
      BY <3>1, <3>3
  <2>2. favs' = favs \ {array[n]} /\ array' = RemoveAt(array, n) /\ rows' = array'
    BY <2>1 DEF RemoveRow
  <2>3. /\ array' \in Seq(Stations) /\ array' \in Seq(Starred) /\ Injective(array')
        /\ ToSet(array') = ToSet(array) \ {array[n]}
    BY <1>0, <2>1, <2>2, RowRemoved
  <2>4. TypeOK'
    BY <1>0, <1>1, <2>1, <2>2, <2>3 DEF TypeOK, Disturbances
  <2>5. ScreenOK'
    BY <1>0, <1>1, <2>2, <2>3 DEF Base, ScreenOK
  <2> QED
    BY <1>3, <2>1, <2>2, <2>3, <2>4, <2>5 DEF Base
<1> QED
  BY <1>4, <1>5

-----------------------------------------------------------------------------
(* The steps by what they do *)

\* Every step is one of these.
LEMMA StepKinds ==
  ASSUME Base, [Next]_vars
  PROVE  \/ RunBlock \/ EndFilter \/ updateTowns \/ updateFuelList
         \/ \E n \in Loads : updateFavoritesList(n)
         \/ \E m \in Modes : updateSearchMode(m)
         \/ \E n \in 1..Len(rows) : RemoveRow(n)
         \/ Quiet \/ Loading \/ UNCHANGED vars
<1>1. CASE User
  BY <1>1 DEF User, Row, Quiet, Loading
<1>2. CASE Answers
  BY <1>2 DEF Answers, Loading
<1> QED
  BY <1>1, <1>2 DEF Next

\* The variables one by one.
LEMMA Stutter ==
  ASSUME UNCHANGED vars
  PROVE  /\ UNCHANGED <<screen, at, queue, array, rows, indicators, spinning, load, crashed, favs, snapshot>>
         /\ UNCHANGED <<detail, towns, text, filtering, mode, menu, alert, met, wrong, early>>
  BY DEF vars, table, favorites, selection, search, history

\* Every step keeps Base.
LEMMA NextBase == Base /\ [Next]_vars => Base'
<1> SUFFICES ASSUME Base, [Next]_vars PROVE Base'
  OBVIOUS
<1>1. CASE UNCHANGED vars
  <2>1. TypeOK'
    BY <1>1, Stutter, ZenonT(60) DEF Base, TypeOK
  <2>2. ScreenOK' /\ LoadOK'
    BY <1>1, Stutter DEF Base, ScreenOK, LoadOK, ReloadQueued
  <2> QED
    BY <2>1, <2>2 DEF Base
<1>2. CASE Loading
  BY <1>2, LoadingGoes, GoesBase
<1> QED
  BY <1>1, <1>2, StepKinds, RunBase, EndFilterBase, UpdateTownsBase, UpdateFuelListBase,
     UpdateFavoritesListBase, UpdateSearchModeBase, RemoveRowBase, QuietBase

\* Base is an invariant.
LEMMA SpecBase == Spec => []Base
<1> QED
  BY InitBase, NextBase, PTL DEF Spec

\* The variables keep their types.
THEOREM TableScreensTypes == Spec => []TypeOK
<1>1. Base => TypeOK
  BY DEF Base
<1> QED
  BY <1>1, SpecBase, PTL

-----------------------------------------------------------------------------
(* The star *)

\* The star of a station's screen tells whether it is a favourite once it was
\* tapped, however often (GasStationLocationViewController.addFav).
THEOREM TappedStarTellsTruth == Spec => []StarTellsTruth
<1>1. Init => StarTellsTruth
  BY DEF Init, StarTellsTruth
<1>2. ASSUME Base, StarTellsTruth, [Next]_vars PROVE StarTellsTruth'
  <2>1. CASE UNCHANGED <<favs, detail>>
    BY <1>2, <2>1 DEF StarTellsTruth
  <2>2. CASE detail' = Nobody
    BY <2>2 DEF StarTellsTruth
  <2>3. CASE addFav
    <3>1. /\ favs' = IF detail.favorita THEN favs \ {detail.g} ELSE favs \cup {detail.g}
          /\ detail \in Details /\ detail' = [detail EXCEPT !.star = ~detail.favorita, !.tapped = TRUE]
      BY <1>2, <2>3 DEF addFav, Base, TypeOK, Details
    <3>2. /\ detail'.g = detail.g /\ (detail.favorita => detail'.star = FALSE)
          /\ (~detail.favorita => detail'.star = TRUE)
      BY <3>1 DEF Details
    <3>3. CASE detail.favorita
      BY <3>1, <3>2, <3>3 DEF StarTellsTruth
    <3>4. CASE ~detail.favorita
      BY <3>1, <3>2, <3>4 DEF StarTellsTruth
    <3> QED
      BY <3>3, <3>4
  <2>4. ASSUME NEW n \in 1..Len(rows), RemoveRow(n) PROVE detail' = Nobody
    BY <2>4 DEF RemoveRow, InFront
  <2>5. ASSUME NEW n \in 1..Len(rows), OpenFavorite(n) PROVE StarTellsTruth'
    BY <2>5 DEF OpenFavorite, StarTellsTruth, Nobody
  <2>6. ASSUME NEW g \in Starred, OpenFound(g) PROVE StarTellsTruth'
    BY <2>6 DEF OpenFound, StarTellsTruth, Nobody
  <2>7. CASE Quiet
    BY <2>1, <2>2, <2>3, <2>5, <2>6, <2>7 DEF Quiet, ShowFuels, showOptionsPopover, dismiss, BackToSearch,
       AcceptAlert, BeginFilter, SelectTown, OpenStation, CloseDetail, favorites
  <2>8. CASE Loading
    <3>1. PICK n, x, b : Goes(n, x, b)
      BY <1>2, <2>8, LoadingGoes
    <3> QED
      BY <2>1, <2>2, <3>1 DEF Goes
  <2>9. CASE UNCHANGED vars
    BY <2>1, <2>9, Stutter
  <2>10. CASE \/ RunBlock \/ EndFilter \/ updateTowns \/ updateFuelList
              \/ \E n \in Loads : updateFavoritesList(n)
              \/ \E m \in Modes : updateSearchMode(m)
    BY <2>1, <2>10 DEF RunBlock, EndFilter, updateTowns, updateFuelList, updateFavoritesList, updateSearchMode,
       favorites
  <2> QED
    BY <1>2, <2>2, <2>4, <2>7, <2>8, <2>9, <2>10, StepKinds
<1> QED
  BY <1>1, <1>2, SpecBase, PTL DEF Spec

-----------------------------------------------------------------------------
(* Touches *)

\* The rows of a search are the array's or none; those of the towns differ from the
\* array only before the reload of all towns, and then something was typed early.
RowsOK ==
  /\ screen = "search" /\ array # None => rows = <<>> \/ Len(rows) = Len(array)
  /\ screen = "towns" =>
       /\ Len(rows) <= Len(TownList)
       /\ filtering = None => array = rows \/ array = AllTowns
       /\ filtering = None /\ array # rows /\ rows # <<>> => early
       /\ filtering # None /\ load[1] # "done" => early
       /\ load[1] # "done" => early \/ (rows = <<>> /\ array = <<>>)
       /\ wrong => at = "gone"

TouchInv == RowsOK /\ TouchHitsItsRow

\* A touch that misses comes before a reload.
LEMMA Missed ==
  ASSUME Base, TouchInv, MainIsFree, NEW n \in 1..Len(rows)
  PROVE  /\ n > Len(array) => ReloadQueued /\ screen = "favorites"
         /\ n <= Len(array) /\ array[n] # rows[n] => ReloadQueued /\ (screen = "towns" => early)
<1> USE Constants
<1>1. rows # <<>> /\ rows \in Seq(Stations) \cup Seq(Towns) /\ Len(rows) \in Nat /\ n \in Nat /\ n <= Len(rows)
  <2>1. rows \in Seq(Stations) \cup Seq(Towns)
    BY DEF Base, TypeOK
  <2>2. Len(rows) \in Nat
    BY <2>1
  <2> QED
    BY <2>1, <2>2
<1>2. array # None /\ (~ReloadQueued => rows = array)
  BY <1>1 DEF Base, ScreenOK
<1>3. array \in Seq(Stations) \cup Seq(Towns) /\ Len(array) \in Nat
  <2>1. array \in Seq(Stations) \cup Seq(Towns)
    BY <1>2 DEF Base, TypeOK
  <2> QED
    BY <2>1
<1>4. n > Len(array) => ReloadQueued
  BY <1>1, <1>2, <1>3
<1>5. n > Len(array) => screen = "favorites"
  <2>1. CASE screen = "search"
    BY <1>1, <1>2, <1>3, <2>1 DEF TouchInv, RowsOK
  <2>2. CASE screen = "towns"
    <3>1. Len(rows) <= Len(TownList) /\ (array = rows \/ array = AllTowns)
      BY <2>2 DEF TouchInv, RowsOK, MainIsFree
    <3> QED
      BY <1>1, <1>3, <3>1
  <2> QED
    BY <2>1, <2>2 DEF Base, TypeOK
<1>6. array[n] # rows[n] => ReloadQueued /\ (screen = "towns" => early)
  BY <1>1, <1>2 DEF TouchInv, RowsOK, MainIsFree
<1> QED
  BY <1>4, <1>5, <1>6

\* A row is touched, or swiped away.
LEMMA TouchKept ==
  ASSUME Base, TouchInv, MainIsFree, NEW n \in 1..Len(rows),
         crashed' = (n > Len(array)), ReloadQueued => "late" \in met', met \subseteq met',
         wrong' = (wrong \/ (n <= Len(array) /\ array[n] # rows[n])), UNCHANGED <<screen, early>>
  PROVE  TouchHitsItsRow'
<1> USE Missed
<1>1. n \in Nat /\ Len(array) \in Nat
  <2>1. rows \in Seq(Stations) \cup Seq(Towns) /\ rows # <<>>
    BY DEF Base, TypeOK
  <2>2. Len(rows) \in Nat
    BY <2>1
  <2>3. array # None
    BY <2>1 DEF Base, ScreenOK
  <2>4. array \in Seq(Stations) \cup Seq(Towns)
    BY <2>3 DEF Base, TypeOK
  <2> QED
    BY <2>2, <2>4
<1>2. crashed' => n > Len(array)
  BY <1>1
<1>3. wrong' => wrong \/ (n <= Len(array) /\ array[n] # rows[n])
  BY <1>1
<1>4. wrong' \/ crashed' => "late" \in met' /\ (screen = "towns" => early)
  BY <1>2, <1>3 DEF TouchInv, TouchHitsItsRow
<1>5. crashed' => screen = "favorites"
  BY <1>2
<1> QED
  BY <1>4, <1>5 DEF TouchHitsItsRow

\* The steps that leave the lists alone.
LEMMA QuietTouch ==
  ASSUME Base, TouchInv, Quiet
  PROVE  TouchInv'
<1> USE Constants
<1>1. UNCHANGED <<screen, queue, array, rows, load>>
  BY QuietBase
<1>2. ASSUME UNCHANGED <<filtering, early, wrong, crashed, met>>,
             screen = "towns" /\ at = "gone" => at' = "gone"
      PROVE  TouchInv'
  BY <1>1, <1>2 DEF TouchInv, RowsOK, TouchHitsItsRow
<1>3. ASSUME NEW n \in 1..Len(rows), MainIsFree, Touch(n), UNCHANGED <<filtering, early>>,
             screen = "towns" => at' = "gone"
      PROVE  TouchInv'
  <2>1. TouchHitsItsRow'
    BY <1>1, <1>3, TouchKept DEF Touch
  <2>2. RowsOK'
    BY <1>1, <1>3 DEF TouchInv, RowsOK
  <2> QED
    BY <2>1, <2>2 DEF TouchInv
<1>4. CASE ShowFuels \/ addFav \/ showOptionsPopover \/ dismiss \/ BackToSearch \/ AcceptAlert
           \/ (CloseDetail /\ at = "away")
  <2>1. UNCHANGED <<filtering, early, wrong, crashed, met>>
    BY <1>4 DEF ShowFuels, addFav, showOptionsPopover, dismiss, BackToSearch, AcceptAlert, CloseDetail,
       table, selection, history
  <2>2. screen = "towns" /\ at = "gone" => at' = "gone"
    BY <1>4 DEF ShowFuels, addFav, showOptionsPopover, dismiss, BackToSearch, AcceptAlert, CloseDetail, table
  <2> QED
    BY <1>2, <2>1, <2>2
<1>5. ASSUME NEW g \in Starred, OpenFound(g) PROVE TouchInv'
  BY <1>2, <1>5 DEF OpenFound, table, selection, history
<1>6. ASSUME NEW typed \in Texts, BeginFilter(typed) PROVE TouchInv'
  <2>1. /\ screen = "towns" /\ at = "list" /\ ~crashed /\ UNCHANGED <<at, crashed, met, wrong>>
        /\ filtering' \in {AllTowns, <<>>} /\ early' = (load[1] # "done")
    BY <1>6 DEF BeginFilter, Known, InFront, MainIsFree, table
  <2>2. ~wrong
    BY <2>1 DEF TouchInv, RowsOK
  <2>3. filtering' # None /\ (load[1] # "done" => early')
    BY <2>1
  <2>4. RowsOK'
    BY <1>1, <2>1, <2>2, <2>3 DEF TouchInv, RowsOK
  <2> QED
    BY <2>1, <2>2, <2>4 DEF TouchInv, TouchHitsItsRow
<1>7. ASSUME NEW n \in 1..Len(rows), OpenFavorite(n) \/ SelectTown(n) \/ OpenStation(n)
      PROVE  TouchInv'
  BY <1>3, <1>7 DEF OpenFavorite, SelectTown, OpenStation, InFront, selection
<1> QED
  BY <1>4, <1>5, <1>6, <1>7 DEF Quiet

\* Every step keeps TouchInv.
LEMMA NextTouch == Base /\ TouchInv /\ [Next]_vars => TouchInv'
<1> SUFFICES ASSUME Base, TouchInv, [Next]_vars PROVE TouchInv'
  OBVIOUS
<1> USE Constants
<1>0. /\ screen = "towns" => array \in Seq(Towns) /\ rows \in Seq(Towns)
      /\ array = None => screen = "search" /\ rows = <<>>
      /\ screen # "towns" => filtering = None
      /\ screen \in {"favorites", "towns", "search"}
  BY DEF Base, ScreenOK, TypeOK
<1>1. CASE UNCHANGED vars
  BY <1>1, Stutter DEF TouchInv, RowsOK, TouchHitsItsRow
<1>2. CASE Loading
  <2>1. PICK n, x, b : Goes(n, x, b)
    BY <1>2, LoadingGoes
  <2>2. /\ UNCHANGED <<screen, array, rows, filtering, wrong, early, crashed>> /\ met \subseteq met'
        /\ screen = "towns" => at' = at
    BY <2>1 DEF Goes
  <2>3. load'[1] # "done" => load[1] # "done"
    BY <2>1 DEF Goes, Base, TypeOK
  <2> QED
    BY <2>2, <2>3 DEF TouchInv, RowsOK, TouchHitsItsRow
<1>3. CASE RunBlock
  <2>1. /\ UNCHANGED <<screen, at, array, load, crashed, filtering, met, wrong, early>> /\ filtering = None
        /\ rows' = rows \/ rows' = IF array = None THEN <<>> ELSE array
    <3>1. CASE Head(queue) = "show" \/ Head(queue) = "hide"
      BY <1>3, <3>1 DEF RunBlock, MainIsFree, selection, history
    <3>2. CASE ~(Head(queue) = "show" \/ Head(queue) = "hide")
      BY <1>3, <3>2 DEF RunBlock, MainIsFree, reloadData, selection, history
    <3> QED
      BY <3>1, <3>2
  <2>2. RowsOK'
    <3>1. CASE rows' = rows
      BY <2>1, <3>1 DEF TouchInv, RowsOK
    <3>2. CASE rows' = IF array = None THEN <<>> ELSE array
      <4>1. screen = "towns" => Len(array) <= Len(TownList)
        BY <2>1 DEF TouchInv, RowsOK
      <4> QED
        BY <1>0, <2>1, <3>2, <4>1 DEF TouchInv, RowsOK
    <3> QED
      BY <2>1, <3>1, <3>2
  <2> QED
    BY <2>1, <2>2 DEF TouchInv, TouchHitsItsRow
<1>4. CASE EndFilter
  <2>1. /\ UNCHANGED <<screen, at, load, crashed, met, wrong, early>> /\ filtering # None /\ filtering' = None
        /\ rows' = array'
    BY <1>4 DEF EndFilter, history
  <2>2. screen = "towns" /\ Len(rows') <= Len(TownList)
    BY <1>0, <1>4, <2>1, EndFilterBase
  <2> QED
    BY <2>1, <2>2 DEF TouchInv, RowsOK, TouchHitsItsRow
<1>5. CASE updateTowns
  <2>1. /\ UNCHANGED <<screen, at, rows, crashed, filtering, met, wrong, early>> /\ array' = AllTowns
        /\ load[1] = "updating" /\ load'[1] = "done"
    BY <1>5 DEF updateTowns, selection, history, Base, TypeOK
  <2>2. screen = "towns"
    BY <1>5, UpdateTownsBase
  <2> QED
    BY <2>1, <2>2 DEF TouchInv, RowsOK, TouchHitsItsRow
<1>6. CASE updateFuelList
  <2>1. /\ UNCHANGED <<screen, rows, crashed, met, wrong, early>> /\ screen = "search" /\ load[1] = "read"
    BY <1>6 DEF updateFuelList, history
  <2>2. rows = <<>>
    BY <2>1 DEF Base, ScreenOK
  <2> QED
    BY <2>1, <2>2 DEF TouchInv, RowsOK, TouchHitsItsRow
<1>7. ASSUME NEW n \in Loads, updateFavoritesList(n) PROVE TouchInv'
  BY <1>7 DEF updateFavoritesList, Disturbed, TouchInv, RowsOK, TouchHitsItsRow
<1>8. ASSUME NEW m \in Modes, updateSearchMode(m) PROVE TouchInv'
  <2>1. UNCHANGED <<screen, rows, crashed, met, wrong>>
    BY <1>8 DEF updateSearchMode
  <2>2. /\ screen = "search" /\ (array = None => array' = None)
        /\ array # None => Len(array') = Len(array)
    BY <1>8, UpdateSearchModeBase
  <2> QED
    BY <2>1, <2>2 DEF TouchInv, RowsOK, TouchHitsItsRow
<1>9. ASSUME NEW n \in 1..Len(rows), RemoveRow(n) PROVE TouchInv'
  <2>1. /\ MainIsFree /\ crashed' = (n > Len(array)) /\ (ReloadQueued => "late" \in met')
        /\ met \subseteq met' /\ UNCHANGED <<screen, early>> /\ screen = "favorites"
        /\ wrong' = (wrong \/ (n <= Len(array) /\ array[n] # rows[n]))
    BY <1>9 DEF RemoveRow, InFront
  <2>2. TouchHitsItsRow'
    BY <2>1, TouchKept
  <2> QED
    BY <2>1, <2>2 DEF TouchInv, RowsOK
<1> QED
  BY <1>1, <1>2, <1>3, <1>4, <1>5, <1>6, <1>7, <1>8, <1>9, StepKinds, QuietTouch

\* A touch acts on the row that was touched unless it falls between a new array and
\* its reload, and only the favourites can end the app (didSelectRowAt, commit
\* editingStyle): for any towns, texts and number of loads.
THEOREM TouchesHitTheirRow == Spec => []TouchHitsItsRow
<1>1. Init => TouchInv
  <2>1. SUFFICES ASSUME Init PROVE TouchInv
    OBVIOUS
  <2>2. /\ rows = <<>> /\ (screen # "search" => array = <<>>) /\ filtering = None /\ ~wrong /\ ~crashed
        /\ (screen = "search" => array = None)
    BY <2>1 DEF Init
  <2>3. Len(<<>>) = 0 /\ Len(TownList) \in Nat
    BY Constants
  <2> QED
    BY <2>2, <2>3 DEF TouchInv, RowsOK, TouchHitsItsRow
<1>2. TouchInv => TouchHitsItsRow
  BY DEF TouchInv
<1> QED
  BY <1>1, <1>2, NextTouch, SpecBase, PTL DEF Spec

-----------------------------------------------------------------------------
(* The order of a search *)

\* List s is in the order mode m says.
Ordered(m, s) ==
  \A i, j \in 1..Len(s) : i < j =>
    /\ m # "cheapest" => Distance[s[i]] <= Distance[s[j]]
    /\ m = "cheapest" => Price[s[i]] <= Price[s[j]]
    /\ m = "cheapestNearby" /\ Distance[s[i]] = Distance[s[j]] => Price[s[i]] <= Price[s[j]]

\* The array is in the order of the mode, the default one until a list is there.
OrderOK ==
  screen = "search" /\ ~early =>
    /\ array = None => mode = "cheapestNearby"
    /\ array # None => Ordered(mode, array)

\* sortFuels puts a list in order.
LEMMA SortOrders ==
  ASSUME NEW m \in Modes, NEW s \in Seq(Stations),
         \A i, j \in 1..Len(s) : i < j => ~Before(m, s[j], s[i])
  PROVE  Ordered(m, s)
<1>0. Distance \in [Stations -> Nat] /\ Price \in [Stations -> Nat]
  BY TableScreensAssumption, Zenon
<1>1. SUFFICES ASSUME NEW i \in 1..Len(s), NEW j \in 1..Len(s), i < j
               PROVE  /\ m # "cheapest" => Distance[s[i]] <= Distance[s[j]]
                      /\ m = "cheapest" => Price[s[i]] <= Price[s[j]]
                      /\ m = "cheapestNearby" /\ Distance[s[i]] = Distance[s[j]] =>
                           Price[s[i]] <= Price[s[j]]
  BY DEF Ordered
<1>2. ~Before(m, s[j], s[i]) /\ s[i] \in Stations /\ s[j] \in Stations
  BY <1>1
<1>3. /\ Distance[s[i]] \in Nat /\ Distance[s[j]] \in Nat /\ Price[s[i]] \in Nat /\ Price[s[j]] \in Nat
  BY <1>0, <1>2
<1>4. CASE m = "nearby"
  BY <1>2, <1>3, <1>4 DEF Before
<1>5. CASE m = "cheapest"
  BY <1>2, <1>3, <1>5 DEF Before
<1>6. CASE m = "cheapestNearby"
  BY <1>2, <1>3, <1>6 DEF Before
<1> QED
  BY <1>4, <1>5, <1>6 DEF Modes

\* Every step keeps OrderOK.
LEMMA NextOrder == Base /\ OrderOK /\ [Next]_vars => OrderOK'
<1> SUFFICES ASSUME Base, OrderOK, [Next]_vars PROVE OrderOK'
  OBVIOUS
<1> USE Constants
<1>0. ASSUME UNCHANGED <<screen, array, mode>>, screen = "search" => early' = early PROVE OrderOK'
  BY <1>0 DEF OrderOK
<1>1. CASE UNCHANGED vars
  BY <1>0, <1>1, Stutter
<1>2. CASE Loading
  <2>1. PICK n, x, b : Goes(n, x, b)
    BY <1>2, LoadingGoes
  <2> QED
    BY <1>0, <2>1 DEF Goes, search
<1>3. CASE RunBlock
  BY <1>0, <1>3 DEF RunBlock, history
<1>4. CASE EndFilter
  BY <1>4 DEF EndFilter, Base, ScreenOK, OrderOK
<1>5. CASE updateTowns
  BY <1>5, UpdateTownsBase DEF updateTowns, OrderOK
<1>6. CASE updateFuelList
  <2>1. PICK S \in SUBSET Stations : array' \in sortFuels("cheapestNearby", S)
    BY <1>6 DEF updateFuelList
  <2>2. /\ array' \in Seq(Stations)
        /\ \A i, j \in 1..Len(array') : i < j => ~Before("cheapestNearby", array'[j], array'[i])
    BY <2>1, SortLists
  <2>3. Ordered("cheapestNearby", array') /\ array' # None
    BY <2>2, SortOrders DEF Modes
  <2>4. array = None /\ UNCHANGED <<screen, mode, early>>
    BY <1>6 DEF updateFuelList, search, history, Base, ScreenOK
  <2> QED
    BY <2>3, <2>4 DEF OrderOK
<1>7. ASSUME NEW n \in Loads, updateFavoritesList(n) PROVE OrderOK'
  BY <1>7 DEF updateFavoritesList, OrderOK
<1>8. ASSUME NEW m \in Modes, updateSearchMode(m) PROVE OrderOK'
  <2>1. mode' = m /\ early' = (array = None) /\ screen' = screen
    BY <1>8 DEF updateSearchMode
  <2>2. CASE array = None
    BY <2>1, <2>2 DEF OrderOK
  <2>3. CASE array # None
    <3>1. /\ Base' /\ screen = "search" /\ array' # None
          /\ \A i, j \in 1..Len(array') : i < j => ~Before(m, array'[j], array'[i])
      BY <1>8, <2>3, UpdateSearchModeBase
    <3>2. array' \in Seq(Stations)
      BY <2>1, <3>1 DEF Base, ScreenOK
    <3>3. Ordered(m, array')
      BY <3>1, <3>2, SortOrders
    <3> QED
      BY <2>1, <3>1, <3>3 DEF OrderOK
  <2> QED
    BY <2>2, <2>3
<1>9. ASSUME NEW n \in 1..Len(rows), RemoveRow(n) PROVE OrderOK'
  BY <1>9 DEF RemoveRow, OrderOK
<1>10. CASE Quiet
  <2>1. UNCHANGED <<screen, array>>
    BY <1>10, QuietBase
  <2>2. mode' = mode /\ (screen = "search" => early' = early)
    BY <1>10 DEF Quiet, ShowFuels, addFav, showOptionsPopover, dismiss, BackToSearch, AcceptAlert, OpenFound,
         BeginFilter, OpenFavorite, SelectTown, OpenStation, CloseDetail, search, history
  <2> QED
    BY <1>0, <2>1, <2>2
<1> QED
  BY <1>1, <1>2, <1>3, <1>4, <1>5, <1>6, <1>7, <1>8, <1>9, <1>10, StepKinds

\* The list is in the order its label says unless the mode was picked before the
\* list was there (updateSearchMode, sortFuels): for all stations, distances and
\* prices.
THEOREM ListIsInLabelledOrder == Spec => []OrderIsLabelled
<1>1. Init => OrderOK
  BY DEF Init, OrderOK
<1>2. ASSUME Base, OrderOK PROVE OrderIsLabelled
  <2>1. SUFFICES ASSUME screen = "search", Settled, ~early PROVE Ordered(mode, rows)
    BY DEF OrderIsLabelled, Ordered
  <2>2. ~ReloadQueued
    BY <2>1 DEF Settled, ReloadQueued
  <2>3. rows = IF array = None THEN <<>> ELSE array
    BY <1>2, <2>2 DEF Base, ScreenOK
  <2>4. Ordered(mode, <<>>)
    BY DEF Ordered
  <2> QED
    BY <1>2, <2>1, <2>3, <2>4 DEF OrderOK
<1> QED
  BY <1>1, <1>2, NextOrder, SpecBase, PTL DEF Spec

-----------------------------------------------------------------------------
(* The favourites shown are the user's *)

IsLast(n) == load[n] # "none" /\ \A m \in Loads : m > n => load[m] = "none"

\* The list is in front of the user and nothing has disturbed it.
Calm ==
  /\ screen = "favorites" /\ at = "list" /\ detail = Nobody /\ ~crashed
  /\ met \subseteq {"overlap"} /\ \A n \in Loads : load[n] # "lost"

\* The last load was begun after every change from a station's screen: what it has
\* read, and what it has shown, are the favourites.
Fresh(n) ==
  /\ IsLast(n)
  /\ load[n] = "read" => snapshot[n] = favs
  /\ load[n] = "done" => ToSet(array) = favs

CurrentOK == Calm => \E n \in Loads : Fresh(n)

\* The steps of the favourites that leave the lists alone also leave the list.
LEMMA QuietCalm ==
  ASSUME Base, Quiet
  PROVE  ~Calm'
<1>1. CASE ShowFuels \/ showOptionsPopover \/ dismiss \/ BackToSearch \/ AcceptAlert
           \/ (CloseDetail /\ at = "away")
  BY <1>1 DEF ShowFuels, showOptionsPopover, dismiss, BackToSearch, AcceptAlert, CloseDetail, Calm, Base, ScreenOK
<1>2. CASE addFav
  <2>1. detail'.tapped = TRUE
    BY <1>2 DEF addFav, Base, TypeOK
  <2> QED
    BY <2>1 DEF Calm, Nobody
<1>3. ASSUME NEW g \in Starred, OpenFound(g) PROVE ~Calm'
  BY <1>3 DEF OpenFound, table, Calm
<1>4. ASSUME NEW typed \in Texts, BeginFilter(typed) PROVE ~Calm'
  BY <1>4 DEF BeginFilter, Calm
<1>5. ASSUME NEW n \in 1..Len(rows), SelectTown(n) \/ OpenStation(n) PROVE ~Calm'
  BY <1>5 DEF SelectTown, OpenStation, Calm
<1>6. ASSUME NEW n \in 1..Len(rows), OpenFavorite(n) PROVE ~Calm'
  <2>1. CASE crashed'
    BY <2>1 DEF Calm
  <2>2. CASE ~crashed'
    <3>1. detail'.favorita = TRUE
      BY <1>6, <2>2 DEF OpenFavorite, Nobody
    <3> QED
      BY <3>1 DEF Calm, Nobody
  <2> QED
    BY <2>1, <2>2
<1> QED
  BY <1>1, <1>2, <1>3, <1>4, <1>5, <1>6 DEF Quiet

\* A new appearance begins the last load.
LEMMA AppearanceIsLast ==
  ASSUME Base, NEW n \in Loads, viewWillAppear(n)
  PROVE  /\ load'[n] = "asked" /\ \A m \in Loads : m # n => load'[m] = load[m]
         /\ \A m \in Loads : m > n => load'[m] = "none"
<1>1. load \in [Loads -> LoadPhases] /\ load[n] = "none" /\ load' = [load EXCEPT ![n] = "asked"]
  BY DEF Base, TypeOK, LoadPhases, viewWillAppear
<1>2. load'[n] = "asked" /\ \A m \in Loads : m # n => load'[m] = load[m]
  BY <1>1
<1>3. \A m \in Loads : m > n => load[m] = "none" /\ m # n
  BY <1>1, Constants DEF Base, LoadOK
<1> QED
  BY <1>2, <1>3

\* Every step keeps CurrentOK.
LEMMA NextCurrent == Base /\ CurrentOK /\ [Next]_vars => CurrentOK'
<1> SUFFICES ASSUME Base, CurrentOK, [Next]_vars, Calm' PROVE \E n \in Loads : Fresh(n)'
  BY DEF CurrentOK
<1> USE Constants
<1>0. load \in [Loads -> LoadPhases] /\ snapshot \in [Loads -> SUBSET Starred]
  BY DEF Base, TypeOK, LoadPhases
<1>1. CASE UNCHANGED vars
  BY <1>1, Stutter DEF CurrentOK, Calm, Fresh, IsLast
<1>2. CASE Quiet
  BY <1>2, QuietCalm
<1>3. ASSUME NEW n \in Loads, viewWillAppear(n) PROVE \E k \in Loads : Fresh(k)'
  <2>1. Fresh(n)'
    BY <1>3, AppearanceIsLast DEF Fresh, IsLast
  <2> QED
    BY <2>1
<1>4. CASE ShowFavorites \/ (CloseDetail /\ at # "away")
  BY <1>3, <1>4 DEF ShowFavorites, CloseDetail
<1>5. ASSUME NEW k \in Loads, FavoritesRead(k) PROVE \E n \in Loads : Fresh(n)'
  <2>1. /\ UNCHANGED <<screen, at, array, crashed, favs, detail>> /\ met \subseteq met' /\ load[k] = "asked"
        /\ load'[k] = IF favs = {} THEN "done" ELSE "read"
        /\ \A m \in Loads : m # k => load'[m] = load[m] /\ snapshot'[m] = snapshot[m]
        /\ snapshot'[k] = favs /\ (favs = {} /\ array # <<>> => "empty" \in met')
    BY <1>0, <1>5 DEF FavoritesRead
  <2>2. Calm
    BY <2>1 DEF Calm
  <2>3. PICK n \in Loads : Fresh(n)
    BY <2>2 DEF CurrentOK
  <2>4. favs = {} => array = <<>>
    BY <2>1 DEF Calm
  <2>5. ToSet(<<>>) = {}
    BY DEF ToSet
  <2>6. Fresh(n)'
    <3>1. IsLast(n)'
      BY <2>1, <2>3 DEF Fresh, IsLast
    <3>2. CASE n = k
      BY <2>1, <2>4, <2>5, <3>1, <3>2 DEF Fresh
    <3>3. CASE n # k
      BY <2>1, <2>3, <3>1, <3>3 DEF Fresh
    <3> QED
      BY <3>2, <3>3
  <2> QED
    BY <2>6
<1>6. ASSUME NEW k \in Loads, RequestFails(k) PROVE FALSE
  BY <1>0, <1>6 DEF RequestFails, Calm
<1>7. CASE Loading
  BY <1>4, <1>5, <1>6, <1>7 DEF Loading, TownsAnswer, PricesAnswer, Calm
<1>8. CASE RunBlock
  BY <1>8 DEF RunBlock, favorites, history, CurrentOK, Calm, Fresh, IsLast
<1>9. CASE EndFilter \/ updateTowns \/ updateFuelList
  BY <1>9, UpdateTownsBase DEF EndFilter, updateTowns, updateFuelList, Calm, Base, ScreenOK
<1>10. ASSUME NEW m \in Modes, updateSearchMode(m) PROVE FALSE
  BY <1>10, UpdateSearchModeBase DEF updateSearchMode, Calm
<1>11. ASSUME NEW k \in Loads, updateFavoritesList(k) PROVE \E n \in Loads : Fresh(n)'
  <2>1. /\ UNCHANGED <<screen, at, crashed, favs, snapshot, detail>> /\ met \subseteq met' /\ load[k] = "read"
        /\ load'[k] = "done" /\ \A m \in Loads : m # k => load'[m] = load[m]
        /\ (\E m \in Loads : m > k /\ load[m] = "done") => "overtaken" \in met'
    BY <1>0, <1>11 DEF updateFavoritesList, Disturbed, favorites
  <2>2. ToSet(array') = snapshot[k]
    BY <1>11, UpdateFavoritesListBase DEF Calm
  <2>3. Calm
    BY <2>1 DEF Calm
  <2>4. PICK n \in Loads : Fresh(n)
    BY <2>3 DEF CurrentOK
  <2>5. IsLast(n)'
    BY <2>1, <2>4 DEF Fresh, IsLast
  <2>6. CASE n = k
    BY <2>1, <2>2, <2>4, <2>5, <2>6 DEF Fresh
  <2>7. CASE n # k
    <3>1. n > k
      BY <2>1, <2>4, <2>7 DEF Fresh, IsLast
    <3>2. load[n] # "done"
      BY <2>1, <3>1 DEF Calm
    <3> QED
      BY <2>1, <2>4, <2>5, <2>7, <3>2 DEF Fresh
  <2> QED
    BY <2>6, <2>7
<1>12. ASSUME NEW k \in 1..Len(rows), RemoveRow(k) PROVE \E n \in Loads : Fresh(n)'
  <2>1. /\ UNCHANGED <<screen, at, load, snapshot, detail>> /\ met \subseteq met' /\ ~crashed
        /\ (\E m \in Loads : load[m] = "read") => "swipe" \in met'
    BY <1>12 DEF RemoveRow, InFront, MainIsFree
  <2>2. favs' = favs \ {array[k]} /\ ToSet(array') = ToSet(array) \ {array[k]}
    BY <1>12, RemoveRowBase DEF Calm
  <2>3. Calm /\ \A m \in Loads : load[m] # "read"
    BY <2>1 DEF Calm
  <2>4. PICK n \in Loads : Fresh(n)
    BY <2>3 DEF CurrentOK
  <2> QED
    BY <2>1, <2>2, <2>3, <2>4 DEF Fresh, IsLast
<1> QED
  BY <1>1, <1>2, <1>7, <1>8, <1>9, <1>10, <1>11, <1>12, StepKinds

\* The favourites shown are the user's once nothing is under way, unless one of the
\* listed disturbances happened (getFavorites, updateFavoritesList): for any number
\* of appearances of the list.
THEOREM FavoritesAreCurrent == Spec => []ListIsCurrent
<1>1. Init => CurrentOK
  BY DEF Init, CurrentOK, Calm
<1>2. ASSUME Base, CurrentOK PROVE ListIsCurrent
  <2>1. SUFFICES ASSUME screen = "favorites", Settled, at = "list", detail = Nobody,
                        \A n \in Loads : ~Open(n) /\ load[n] # "lost", met \subseteq {"overlap"}
                 PROVE  ToSet(rows) = favs
    BY DEF ListIsCurrent
  <2>2. Calm
    BY <2>1 DEF Calm, Settled, MainIsFree
  <2>3. PICK n \in Loads : Fresh(n)
    BY <1>2, <2>2 DEF CurrentOK
  <2>4. load[n] = "done"
    BY <1>2, <2>1, <2>3 DEF Fresh, IsLast, Open, Base, TypeOK, LoadOK
  <2>5. ~ReloadQueued
    BY <2>1 DEF Settled, ReloadQueued
  <2>6. rows = array
    BY <1>2, <2>1, <2>5 DEF Base, ScreenOK
  <2> QED
    BY <2>3, <2>4, <2>6 DEF Fresh
<1> QED
  BY <1>1, <1>2, NextCurrent, SpecBase, PTL DEF Spec
-----------------------------------------------------------------------------
(* The indicator *)

\* Once the blocks of queue q have run, activityIndicator, the last one made,
\* animates; and so does one before it, which nothing will stop.
LatestOn(q, i, s) ==
  \/ \E n \in 1..Len(q) : q[n] = "show" /\ \A m \in 1..Len(q) : m > n => q[m] = "reload"
  \/ i \in s /\ \A n \in 1..Len(q) : q[n] = "reload"

OlderOn(q, i, s) ==
  \/ \E e \in s : e # i
  \/ i \in s /\ \E n \in 1..Len(q) : q[n] = "show" /\ \A m \in 1..Len(q) : m < n => q[m] = "reload"
  \/ \E n, k \in 1..Len(q) : n < k /\ q[n] = "show" /\ q[k] = "show"
       /\ \A m \in 1..Len(q) : n < m /\ m < k => q[m] = "reload"

\* A block that is run leaves both as they were.
LEMMA LatestRuns ==
  ASSUME NEW q \in Seq(Blocks), q # <<>>, NEW i \in Nat, NEW s \in SUBSET (1..i), NEW j, NEW t,
         \/ q[1] = "show" /\ j = i + 1 /\ t = s \cup {i + 1}
         \/ q[1] = "hide" /\ j = i /\ t = s \ {i}
         \/ q[1] = "reload" /\ j = i /\ t = s
  PROVE  LatestOn(Tail(q), j, t) <=> LatestOn(q, i, s)
<1>1. PICK r : r = Tail(q)
  OBVIOUS
<1>2. /\ r \in Seq(Blocks) /\ Len(r) = Len(q) - 1 /\ Len(q) \in Nat /\ Len(q) >= 1
      /\ \A n \in 1..Len(r) : r[n] = q[n + 1] /\ n + 1 \in 1..Len(q) /\ r[n] \in Blocks
      /\ \A n \in 1..Len(q) : n = 1 \/ (n - 1 \in 1..Len(r) /\ q[n] = r[n - 1])
  BY <1>1, Dequeued
<1>3. ASSUME NEW n \in 1..Len(r), r[n] = "show", \A m \in 1..Len(r) : m > n => r[m] = "reload"
      PROVE  LatestOn(q, i, s)
  <2>1. n + 1 \in 1..Len(q) /\ q[n + 1] = "show"
    BY <1>2, <1>3
  <2>2. \A m \in 1..Len(q) : m > n + 1 => q[m] = "reload"
    BY <1>2, <1>3
  <2> QED
    BY <2>1, <2>2 DEF LatestOn
<1>4. ASSUME j \in t, \A n \in 1..Len(r) : r[n] = "reload" PROVE LatestOn(q, i, s)
  <2>1. q[1] # "hide" /\ \A m \in 1..Len(q) : m > 1 => q[m] = "reload"
    BY <1>2, <1>4
  <2>2. CASE q[1] = "show"
    BY <1>2, <2>1, <2>2 DEF LatestOn
  <2>3. CASE q[1] = "reload"
    BY <1>2, <1>4, <2>1, <2>3 DEF LatestOn
  <2> QED
    BY <2>1, <2>2, <2>3
<1>5. ASSUME NEW n \in 1..Len(q), q[n] = "show", \A m \in 1..Len(q) : m > n => q[m] = "reload"
      PROVE  LatestOn(r, j, t)
  <2>1. CASE n = 1
    <3>1. \A m \in 1..Len(r) : r[m] = "reload"
      BY <1>2, <1>5, <2>1
    <3> QED
      BY <1>5, <2>1, <3>1 DEF LatestOn
  <2>2. CASE n # 1
    <3>1. n - 1 \in 1..Len(r) /\ r[n - 1] = "show"
      BY <1>2, <1>5, <2>2
    <3>2. \A m \in 1..Len(r) : m > n - 1 => r[m] = "reload"
      BY <1>2, <1>5, <3>1
    <3> QED
      BY <3>1, <3>2 DEF LatestOn
  <2> QED
    BY <2>1, <2>2
<1>6. ASSUME i \in s, \A n \in 1..Len(q) : q[n] = "reload" PROVE LatestOn(r, j, t)
  <2>1. q[1] = "reload" /\ \A n \in 1..Len(r) : r[n] = "reload"
    BY <1>2, <1>6
  <2> QED
    BY <1>6, <2>1 DEF LatestOn
<1>7. LatestOn(r, j, t) => LatestOn(q, i, s)
  BY <1>3, <1>4 DEF LatestOn
<1>8. LatestOn(q, i, s) => LatestOn(r, j, t)
  BY <1>5, <1>6 DEF LatestOn
<1> QED
  BY <1>1, <1>7, <1>8

\* The same for the older indicators.
LEMMA OlderRuns ==
  ASSUME NEW q \in Seq(Blocks), q # <<>>, NEW i \in Nat, NEW s \in SUBSET (1..i), NEW j, NEW t,
         \/ q[1] = "show" /\ j = i + 1 /\ t = s \cup {i + 1}
         \/ q[1] = "hide" /\ j = i /\ t = s \ {i}
         \/ q[1] = "reload" /\ j = i /\ t = s
  PROVE  OlderOn(Tail(q), j, t) <=> OlderOn(q, i, s)
<1>1. PICK r : r = Tail(q)
  OBVIOUS
<1>2. /\ r \in Seq(Blocks) /\ Len(r) = Len(q) - 1 /\ Len(q) \in Nat /\ Len(q) >= 1
      /\ \A n \in 1..Len(r) : r[n] = q[n + 1] /\ n + 1 \in 1..Len(q) /\ r[n] \in Blocks
      /\ \A n \in 1..Len(q) : n = 1 \/ (n - 1 \in 1..Len(r) /\ q[n] = r[n - 1])
  BY <1>1, Dequeued
<1>3. \A e \in s : e # i + 1
  OBVIOUS
<1>4. ASSUME NEW e \in t, e # j PROVE OlderOn(q, i, s)
  <2>1. CASE e # i
    <3>1. e \in s
      BY <1>4, <2>1
    <3> QED
      BY <2>1, <3>1 DEF OlderOn
  <2>2. CASE e = i
    <3>1. q[1] = "show" /\ i \in s
      BY <1>4, <2>2
    <3> QED
      BY <1>2, <3>1 DEF OlderOn
  <2> QED
    BY <2>1, <2>2
<1>5. ASSUME j \in t, NEW n \in 1..Len(r), r[n] = "show", \A m \in 1..Len(r) : m < n => r[m] = "reload"
      PROVE  OlderOn(q, i, s)
  <2>1. /\ n + 1 \in 1..Len(q) /\ q[n + 1] = "show" /\ 1 \in 1..Len(q) /\ 1 < n + 1
        /\ \A m \in 1..Len(q) : 1 < m /\ m < n + 1 => q[m] = "reload"
    <3>1. n + 1 \in 1..Len(q) /\ q[n + 1] = "show" /\ 1 \in 1..Len(q) /\ 1 < n + 1
      BY <1>2, <1>5
    <3>2. ASSUME NEW m \in 1..Len(q), 1 < m, m < n + 1 PROVE q[m] = "reload"
      <4>1. m - 1 \in 1..Len(r) /\ m - 1 < n /\ q[m] = r[m - 1]
        BY <1>2, <3>2
      <4> QED
        BY <1>5, <4>1
    <3> QED
      BY <3>1, <3>2
  <2>2. CASE q[1] = "show"
    BY <2>1, <2>2 DEF OlderOn
  <2>3. CASE q[1] = "reload"
    <3>1. i \in s /\ \A m \in 1..Len(q) : m < n + 1 => q[m] = "reload"
      BY <1>5, <2>1, <2>3
    <3> QED
      BY <2>1, <3>1 DEF OlderOn
  <2> QED
    BY <1>5, <2>2, <2>3
<1>6. ASSUME NEW n \in 1..Len(r), NEW k \in 1..Len(r), n < k, r[n] = "show", r[k] = "show",
             \A m \in 1..Len(r) : n < m /\ m < k => r[m] = "reload"
      PROVE  OlderOn(q, i, s)
  <2>1. /\ n + 1 \in 1..Len(q) /\ k + 1 \in 1..Len(q) /\ n + 1 < k + 1 /\ q[n + 1] = "show" /\ q[k + 1] = "show"
        /\ \A m \in 1..Len(q) : n + 1 < m /\ m < k + 1 => q[m] = "reload"
    <3>1. /\ n + 1 \in 1..Len(q) /\ k + 1 \in 1..Len(q) /\ n + 1 < k + 1
          /\ q[n + 1] = "show" /\ q[k + 1] = "show"
      BY <1>2, <1>6
    <3>2. ASSUME NEW m \in 1..Len(q), n + 1 < m, m < k + 1 PROVE q[m] = "reload"
      <4>1. m - 1 \in 1..Len(r) /\ n < m - 1 /\ m - 1 < k /\ q[m] = r[m - 1]
        BY <1>2, <3>2
      <4> QED
        BY <1>6, <4>1
    <3> QED
      BY <3>1, <3>2
  <2> QED
    BY <2>1 DEF OlderOn
<1>7. ASSUME NEW e \in s, e # i PROVE OlderOn(r, j, t)
  BY <1>3, <1>7 DEF OlderOn
<1>8. ASSUME i \in s, NEW n \in 1..Len(q), q[n] = "show", \A m \in 1..Len(q) : m < n => q[m] = "reload"
      PROVE  OlderOn(r, j, t)
  <2>1. CASE n = 1
    BY <1>3, <1>8, <2>1 DEF OlderOn
  <2>2. CASE n # 1
    <3>1. /\ q[1] = "reload" /\ n - 1 \in 1..Len(r) /\ r[n - 1] = "show"
          /\ \A m \in 1..Len(r) : m < n - 1 => r[m] = "reload"
      BY <1>2, <1>8, <2>2
    <3> QED
      BY <1>8, <3>1 DEF OlderOn
  <2> QED
    BY <2>1, <2>2
<1>9. ASSUME NEW n \in 1..Len(q), NEW k \in 1..Len(q), n < k, q[n] = "show", q[k] = "show",
             \A m \in 1..Len(q) : n < m /\ m < k => q[m] = "reload"
      PROVE  OlderOn(r, j, t)
  <2>1. k - 1 \in 1..Len(r) /\ r[k - 1] = "show"
    BY <1>2, <1>9
  <2>2. CASE n = 1
    <3>1. j \in t /\ \A m \in 1..Len(r) : m < k - 1 => r[m] = "reload"
      BY <1>2, <1>9, <2>1, <2>2
    <3> QED
      BY <2>1, <3>1 DEF OlderOn
  <2>3. CASE n # 1
    <3>1. /\ n - 1 \in 1..Len(r) /\ r[n - 1] = "show" /\ n - 1 < k - 1
          /\ \A m \in 1..Len(r) : n - 1 < m /\ m < k - 1 => r[m] = "reload"
      BY <1>2, <1>9, <2>3
    <3> QED
      BY <2>1, <3>1 DEF OlderOn
  <2> QED
    BY <2>2, <2>3
<1>10. OlderOn(r, j, t) => OlderOn(q, i, s)
  BY <1>4, <1>5, <1>6 DEF OlderOn
<1>11. OlderOn(q, i, s) => OlderOn(r, j, t)
  BY <1>7, <1>8, <1>9 DEF OlderOn
<1> QED
  BY <1>1, <1>10, <1>11

\* A block that is queued: a show makes the last indicator an older one, a hide
\* stops it, a reload changes nothing.
LEMMA LatestQueued ==
  ASSUME NEW q \in Seq(Blocks), NEW b \in Blocks, NEW i, NEW s
  PROVE  /\ b = "show" => LatestOn(Append(q, b), i, s)
         /\ b = "hide" => ~LatestOn(Append(q, b), i, s)
         /\ b = "reload" => (LatestOn(Append(q, b), i, s) <=> LatestOn(q, i, s))
<1>1. PICK r : r = Append(q, b)
  OBVIOUS
<1>2. /\ Len(q) \in Nat /\ Len(r) = Len(q) + 1 /\ r[Len(q) + 1] = b
      /\ \A n \in 1..Len(q) : r[n] = q[n] /\ n \in 1..Len(r)
      /\ \A n \in 1..Len(r) : n \in 1..Len(q) \/ n = Len(q) + 1
  BY <1>1, Queued
<1>3. b = "show" => LatestOn(r, i, s)
  BY <1>2 DEF LatestOn
<1>4. b = "hide" => ~LatestOn(r, i, s)
  BY <1>2 DEF LatestOn
<1>5. ASSUME b = "reload" PROVE LatestOn(r, i, s) <=> LatestOn(q, i, s)
  <2>1. ASSUME NEW n \in 1..Len(r), r[n] = "show", \A m \in 1..Len(r) : m > n => r[m] = "reload"
        PROVE  LatestOn(q, i, s)
    <3>1. n \in 1..Len(q) /\ q[n] = "show" /\ \A m \in 1..Len(q) : m > n => q[m] = "reload"
      BY <1>2, <1>5, <2>1
    <3> QED
      BY <3>1 DEF LatestOn
  <2>2. ASSUME NEW n \in 1..Len(q), q[n] = "show", \A m \in 1..Len(q) : m > n => q[m] = "reload"
        PROVE  LatestOn(r, i, s)
    <3>1. n \in 1..Len(r) /\ r[n] = "show" /\ \A m \in 1..Len(r) : m > n => r[m] = "reload"
      BY <1>2, <1>5, <2>2
    <3> QED
      BY <3>1 DEF LatestOn
  <2>3. (\A n \in 1..Len(r) : r[n] = "reload") <=> \A n \in 1..Len(q) : q[n] = "reload"
    BY <1>2, <1>5
  <2> QED
    BY <2>1, <2>2, <2>3 DEF LatestOn
<1> QED
  BY <1>1, <1>3, <1>4, <1>5

\* A block is queued: what it adds to what happens to the older indicators.
LEMMA OlderQueued ==
  ASSUME NEW q \in Seq(Blocks), NEW b \in Blocks, NEW i, NEW s
  PROVE  OlderOn(Append(q, b), i, s) <=> OlderOn(q, i, s) \/ (b = "show" /\ LatestOn(q, i, s))
<1>1. PICK r : r = Append(q, b)
  OBVIOUS
<1>2. /\ Len(q) \in Nat /\ Len(r) = Len(q) + 1 /\ r[Len(q) + 1] = b /\ Len(q) + 1 \in 1..Len(r)
      /\ \A n \in 1..Len(q) : r[n] = q[n] /\ n \in 1..Len(r) /\ n < Len(q) + 1
      /\ \A n \in 1..Len(r) : n \in 1..Len(q) \/ n = Len(q) + 1
  BY <1>1, Queued
<1>3. ASSUME i \in s, NEW n \in 1..Len(r), r[n] = "show", \A m \in 1..Len(r) : m < n => r[m] = "reload"
      PROVE  OlderOn(q, i, s) \/ (b = "show" /\ LatestOn(q, i, s))
  <2>1. CASE n \in 1..Len(q)
    <3>1. q[n] = "show" /\ \A m \in 1..Len(q) : m < n => q[m] = "reload"
      BY <1>2, <1>3, <2>1
    <3> QED
      BY <1>3, <2>1, <3>1 DEF OlderOn
  <2>2. CASE n = Len(q) + 1
    <3>1. b = "show" /\ \A m \in 1..Len(q) : q[m] = "reload"
      BY <1>2, <1>3, <2>2
    <3> QED
      BY <1>3, <3>1 DEF LatestOn
  <2> QED
    BY <1>2, <2>1, <2>2
<1>4. ASSUME NEW n \in 1..Len(r), NEW k \in 1..Len(r), n < k, r[n] = "show", r[k] = "show",
             \A m \in 1..Len(r) : n < m /\ m < k => r[m] = "reload"
      PROVE  OlderOn(q, i, s) \/ (b = "show" /\ LatestOn(q, i, s))
  <2>0. n \in 1..Len(q) /\ q[n] = "show"
    BY <1>2, <1>4
  <2>1. CASE k \in 1..Len(q)
    <3>1. q[k] = "show" /\ \A m \in 1..Len(q) : n < m /\ m < k => q[m] = "reload"
      BY <1>2, <1>4, <2>1
    <3> QED
      BY <1>4, <2>0, <2>1, <3>1 DEF OlderOn
  <2>2. CASE k = Len(q) + 1
    <3>1. b = "show" /\ \A m \in 1..Len(q) : m > n => q[m] = "reload"
      BY <1>2, <1>4, <2>2
    <3> QED
      BY <2>0, <3>1 DEF LatestOn
  <2> QED
    BY <1>2, <2>1, <2>2
<1>5. ASSUME i \in s, NEW n \in 1..Len(q), q[n] = "show", \A m \in 1..Len(q) : m < n => q[m] = "reload"
      PROVE  OlderOn(r, i, s)
  <2>1. n \in 1..Len(r) /\ r[n] = "show" /\ \A m \in 1..Len(r) : m < n => r[m] = "reload"
    BY <1>2, <1>5
  <2> QED
    BY <1>5, <2>1 DEF OlderOn
<1>6. ASSUME NEW n \in 1..Len(q), NEW k \in 1..Len(q), n < k, q[n] = "show", q[k] = "show",
             \A m \in 1..Len(q) : n < m /\ m < k => q[m] = "reload"
      PROVE  OlderOn(r, i, s)
  <2>1. /\ n \in 1..Len(r) /\ k \in 1..Len(r) /\ r[n] = "show" /\ r[k] = "show"
        /\ \A m \in 1..Len(r) : n < m /\ m < k => r[m] = "reload"
    BY <1>2, <1>6
  <2> QED
    BY <1>6, <2>1 DEF OlderOn
<1>7. ASSUME b = "show", NEW n \in 1..Len(q), q[n] = "show", \A m \in 1..Len(q) : m > n => q[m] = "reload"
      PROVE  OlderOn(r, i, s)
  <2>1. PICK k : k = Len(q) + 1
    OBVIOUS
  <2>2. /\ n \in 1..Len(r) /\ k \in 1..Len(r) /\ n < k /\ r[n] = "show" /\ r[k] = "show"
        /\ \A m \in 1..Len(r) : n < m /\ m < k => r[m] = "reload"
    BY <1>2, <1>7, <2>1
  <2> QED
    BY <2>2 DEF OlderOn
<1>8. ASSUME b = "show", i \in s, \A n \in 1..Len(q) : q[n] = "reload"
      PROVE  OlderOn(r, i, s)
  <2>1. PICK k : k = Len(q) + 1
    OBVIOUS
  <2>2. k \in 1..Len(r) /\ r[k] = "show" /\ \A m \in 1..Len(r) : m < k => r[m] = "reload"
    BY <1>2, <1>8, <2>1
  <2> QED
    BY <1>8, <2>2 DEF OlderOn
<1>9. OlderOn(r, i, s) => OlderOn(q, i, s) \/ (b = "show" /\ LatestOn(q, i, s))
  <2>1. (\E e \in s : e # i) => OlderOn(q, i, s)
    BY DEF OlderOn
  <2> QED
    BY <1>3, <1>4, <2>1 DEF OlderOn
<1>10. OlderOn(q, i, s) => OlderOn(r, i, s)
  <2>1. (\E e \in s : e # i) => OlderOn(r, i, s)
    BY DEF OlderOn
  <2> QED
    BY <1>5, <1>6, <2>1 DEF OlderOn
<1>11. b = "show" /\ LatestOn(q, i, s) => OlderOn(r, i, s)
  BY <1>7, <1>8 DEF LatestOn
<1> QED
  BY <1>1, <1>9, <1>10, <1>11

\* The last load is open or was lost; one before it was lost.
Waiting == \E n \in Loads : IsLast(n) /\ (Open(n) \/ load[n] = "lost")
Forgotten == \E n \in Loads : ~IsLast(n) /\ load[n] = "lost"
OnlyLastOpen == \A n \in Loads : Open(n) => IsLast(n)

\* Without an overlap the last indicator stands for the last load, the older ones
\* for the lost loads before it.
IndicatorOK ==
  /\ screen = "search" => spinning = {} /\ \A n \in 1..Len(queue) : queue[n] # "show"
  /\ screen # "search" /\ "overlap" \notin met =>
       /\ LatestOn(queue, indicators, spinning) <=> Waiting
       /\ OlderOn(queue, indicators, spinning) <=> Forgotten
       /\ OnlyLastOpen

\* The open load moves on: nothing becomes of the others.
LEMMA LastMoves ==
  ASSUME Base, OnlyLastOpen, NEW n \in Loads, Open(n), NEW x \in LoadPhases \ {"none"},
         load' = [load EXCEPT ![n] = x]
  PROVE  /\ OnlyLastOpen' /\ (Forgotten' <=> Forgotten) /\ Waiting
         /\ x \in {"asked", "read", "lost"} => Waiting'
         /\ x \in {"updating", "done"} => ~Waiting'
<1> USE Constants
<1>1. load \in [Loads -> LoadPhases] /\ load'[n] = x /\ \A m \in Loads : m # n => load'[m] = load[m]
  BY DEF Base, TypeOK, LoadPhases
<1>2. IsLast(n) /\ load[n] \in {"asked", "read"}
  BY DEF OnlyLastOpen, Open
<1>3. \A m \in Loads : (load'[m] = "none") <=> (load[m] = "none")
  BY <1>1, <1>2
<1>4. \A m \in Loads : IsLast(m)' <=> IsLast(m)
  BY <1>3 DEF IsLast
<1>5. \A m \in Loads : IsLast(m) => m = n
  BY <1>2 DEF IsLast
<1>6. OnlyLastOpen'
  BY <1>1, <1>2, <1>4 DEF OnlyLastOpen, Open
<1>7. Forgotten' <=> Forgotten
  BY <1>1, <1>2, <1>4, <1>5 DEF Forgotten
<1>8. Waiting /\ (x \in {"asked", "read", "lost"} => Waiting') /\ (x \in {"updating", "done"} => ~Waiting')
  BY <1>1, <1>2, <1>4, <1>5 DEF Waiting, Open
<1> QED
  BY <1>6, <1>7, <1>8

\* A new load begins with none open.
LEMMA NewLoad ==
  ASSUME Base, \A m \in Loads : ~Open(m), NEW n \in Loads, viewWillAppear(n)
  PROVE  OnlyLastOpen' /\ Waiting' /\ (Forgotten' <=> Forgotten \/ Waiting)
<1> USE Constants
<1>1. /\ load'[n] = "asked" /\ \A m \in Loads : m # n => load'[m] = load[m]
      /\ \A m \in Loads : m > n => load'[m] = "none"
      /\ load[n] = "none"
  BY AppearanceIsLast DEF viewWillAppear
<1>2. IsLast(n)' /\ Open(n)'
  BY <1>1 DEF IsLast, Open
<1>3. \A m \in Loads : m # n => ~Open(m)' /\ (load'[m] # "none" => ~IsLast(m)')
  <2>1. \A m \in Loads : m # n => ~Open(m)'
    BY <1>1 DEF Open
  <2>2. ASSUME NEW m \in Loads, m # n, load'[m] # "none" PROVE ~IsLast(m)'
    <3>1. n > m
      BY <1>1, <2>2
    <3> QED
      BY <1>1, <3>1 DEF IsLast
  <2> QED
    BY <2>1, <2>2
<1>4. OnlyLastOpen' /\ Waiting'
  BY <1>2, <1>3 DEF OnlyLastOpen, Waiting
<1>5. Forgotten' <=> \E m \in Loads : load[m] = "lost"
  BY <1>1, <1>3 DEF Forgotten
<1>6. (Forgotten \/ Waiting) <=> \E m \in Loads : load[m] = "lost"
  BY DEF Forgotten, Waiting
<1> QED
  BY <1>4, <1>5, <1>6

\* The answers of the favourites and the towns to the open load.
LEMMA AnswerIndicator ==
  ASSUME Base, OnlyLastOpen, NEW n \in Loads, Open(n), NEW x \in LoadPhases \ {"none"},
         load' = [load EXCEPT ![n] = x], NEW q \in Seq(Blocks), q = queue,
         UNCHANGED <<indicators, spinning>>,
         \/ x \in {"asked", "read", "lost"} /\ queue' = q
         \/ x \in {"updating", "done"} /\ queue' = Append(q, "hide")
         \/ x \in {"updating", "done"} /\ queue' = Append(Append(q, "hide"), "reload"),
         LatestOn(queue, indicators, spinning) <=> Waiting,
         OlderOn(queue, indicators, spinning) <=> Forgotten
  PROVE  /\ LatestOn(queue', indicators', spinning') <=> Waiting'
         /\ OlderOn(queue', indicators', spinning') <=> Forgotten'
         /\ OnlyLastOpen'
<1>1. /\ OnlyLastOpen' /\ (Forgotten' <=> Forgotten) /\ Waiting
      /\ x \in {"asked", "read", "lost"} => Waiting'
      /\ x \in {"updating", "done"} => ~Waiting'
  BY LastMoves
<1>2. PICK h : h = Append(q, "hide")
  OBVIOUS
<1>3. "hide" \in Blocks /\ "reload" \in Blocks
  BY DEF Blocks
<1>4. h \in Seq(Blocks)
  BY <1>2, <1>3, Queued
<1>5. ~LatestOn(h, indicators, spinning) /\ (OlderOn(h, indicators, spinning) <=> OlderOn(q, indicators, spinning))
  BY <1>2, <1>3, LatestQueued, OlderQueued
<1>6. /\ ~LatestOn(Append(h, "reload"), indicators, spinning)
      /\ OlderOn(Append(h, "reload"), indicators, spinning) <=> OlderOn(q, indicators, spinning)
  BY <1>3, <1>4, <1>5, LatestQueued, OlderQueued
<1>7. CASE x \in {"asked", "read", "lost"} /\ queue' = q
  BY <1>1, <1>7
<1>8. CASE x \in {"updating", "done"} /\ queue' = h
  BY <1>1, <1>5, <1>8
<1>9. CASE x \in {"updating", "done"} /\ queue' = Append(h, "reload")
  BY <1>1, <1>6, <1>9
<1> QED
  BY <1>2, <1>7, <1>8, <1>9

\* A search never queues a show.
LEMMA SearchIndicator ==
  ASSUME Base, IndicatorOK, [Next]_vars, screen' = "search"
  PROVE  spinning' = {} /\ \A n \in 1..Len(queue') : queue'[n] # "show"
<1> USE Constants
<1>0. TypeOK /\ queue \in Seq(Blocks)
  BY DEF Base, TypeOK, Blocks
<1>1. screen = "search" => spinning = {} /\ \A n \in 1..Len(queue) : queue[n] # "show"
  BY DEF IndicatorOK
<1>2. ASSUME UNCHANGED <<screen, queue, spinning>>
      PROVE  spinning' = {} /\ \A n \in 1..Len(queue') : queue'[n] # "show"
  BY <1>1, <1>2
<1>3. ASSUME UNCHANGED <<screen, spinning>>, NEW b \in {"hide", "reload"}, queue' = Append(queue, b)
      PROVE  spinning' = {} /\ \A n \in 1..Len(queue') : queue'[n] # "show"
  <2>1. b \in Blocks /\ Len(queue) \in Nat
    BY <1>0, <1>3 DEF Blocks
  <2>2. /\ Len(queue') = Len(queue) + 1 /\ queue'[Len(queue) + 1] = b
        /\ \A n \in 1..Len(queue) : queue'[n] = queue[n]
    BY <1>0, <1>3, <2>1, Queued
  <2> QED
    BY <1>1, <1>3, <2>1, <2>2
<1>4. CASE UNCHANGED vars
  BY <1>2, <1>4, Stutter
<1>5. CASE Quiet
  BY <1>2, <1>5, QuietBase
<1>6. CASE Loading
  <2>1. PICK n, x, b : Goes(n, x, b)
    BY <1>6, LoadingGoes
  <2> QED
    BY <1>2, <1>3, <2>1 DEF Goes
<1>7. CASE RunBlock
  <2>1. screen = "search" /\ queue # <<>> /\ queue' = Tail(queue) /\ Head(queue) # "show"
    BY <1>0, <1>1, <1>7, Dequeued DEF RunBlock
  <2>2. spinning' = {}
    BY <1>1, <1>7, <2>1 DEF RunBlock, hideLoading
  <2>3. \A n \in 1..Len(queue') : queue'[n] # "show"
    <3>1. /\ Len(queue') = Len(queue) - 1 /\ Len(queue) \in Nat
          /\ \A n \in 1..(Len(queue) - 1) : queue'[n] = queue[n + 1]
      BY <1>0, <2>1, Dequeued
    <3> QED
      BY <1>1, <2>1, <3>1
  <2> QED
    BY <2>2, <2>3
<1>8. CASE EndFilter
  BY <1>2, <1>8 DEF EndFilter
<1>9. CASE updateTowns \/ updateFuelList
  BY <1>3, <1>9 DEF updateTowns, updateFuelList
<1>10. ASSUME NEW n \in Loads, updateFavoritesList(n) PROVE FALSE
  BY <1>10 DEF updateFavoritesList
<1>11. ASSUME NEW n \in 1..Len(rows), RemoveRow(n) PROVE FALSE
  BY <1>11 DEF RemoveRow
<1>12. ASSUME NEW m \in Modes, updateSearchMode(m)
       PROVE  spinning' = {} /\ \A n \in 1..Len(queue') : queue'[n] # "show"
  <2>1. CASE array = None
    BY <1>2, <1>12, <2>1 DEF updateSearchMode
  <2>2. CASE array # None
    <3>1. UNCHANGED <<screen, spinning>> /\ queue' = queue \o <<"reload", "reload">>
      BY <1>12, <2>2 DEF updateSearchMode
    <3>2. \A n \in 1..Len(queue') : (n \in 1..Len(queue) /\ queue'[n] = queue[n]) \/ queue'[n] = "reload"
      BY <1>0, <3>1
    <3> QED
      BY <1>1, <3>1, <3>2
  <2> QED
    BY <2>1, <2>2
<1> QED
  BY <1>4, <1>5, <1>6, <1>7, <1>8, <1>9, <1>10, <1>11, <1>12, StepKinds

\* Every step keeps IndicatorOK.
LEMMA NextIndicator == Base /\ IndicatorOK /\ [Next]_vars => IndicatorOK'
<1> SUFFICES ASSUME Base, IndicatorOK, [Next]_vars PROVE IndicatorOK'
  OBVIOUS
<1> USE Constants
<1> DEFINE Told ==
      /\ LatestOn(queue, indicators, spinning) <=> Waiting
      /\ OlderOn(queue, indicators, spinning) <=> Forgotten
      /\ OnlyLastOpen
<1>0. /\ TypeOK /\ queue \in Seq(Blocks) /\ indicators \in Nat /\ spinning \in SUBSET (1..indicators)
      /\ load \in [Loads -> LoadPhases]
  BY DEF Base, TypeOK, Blocks, LoadPhases
<1>1. SUFFICES ASSUME screen' # "search", "overlap" \notin met' PROVE Told'
  BY SearchIndicator DEF IndicatorOK
<1>2. ASSUME screen' = screen, met \subseteq met' PROVE Told
  BY <1>1, <1>2 DEF IndicatorOK
<1>3. ASSUME UNCHANGED <<screen, queue, indicators, spinning, load>>, met \subseteq met' PROVE Told'
  <2>1. Told
    BY <1>2, <1>3
  <2>2. (Waiting' <=> Waiting) /\ (Forgotten' <=> Forgotten) /\ (OnlyLastOpen' <=> OnlyLastOpen)
    BY <1>3 DEF Waiting, Forgotten, OnlyLastOpen, IsLast, Open
  <2> QED
    BY <1>3, <2>1, <2>2
<1>4. CASE UNCHANGED vars
  BY <1>3, <1>4, Stutter
<1>5. CASE Quiet
  <2>1. UNCHANGED <<screen, queue, indicators, spinning, load>>
    BY <1>5, QuietBase
  <2>2. met \subseteq met'
    BY <1>5 DEF Quiet, ShowFuels, addFav, showOptionsPopover, dismiss, BackToSearch, AcceptAlert, OpenFound,
         BeginFilter, OpenFavorite, SelectTown, OpenStation, CloseDetail, history, Touch
  <2> QED
    BY <1>3, <2>1, <2>2
<1>6. CASE EndFilter
  BY <1>3, <1>6 DEF EndFilter, history
<1>7. ASSUME NEW n \in 1..Len(rows), RemoveRow(n) PROVE Told'
  BY <1>3, <1>7 DEF RemoveRow
<1>8. CASE RunBlock
  <2>1. UNCHANGED <<screen, load, met>> /\ queue # <<>> /\ queue' = Tail(queue)
    BY <1>8 DEF RunBlock, history
  <2>2. Told
    BY <1>2, <2>1
  <2>3. \/ queue[1] = "show" /\ indicators' = indicators + 1 /\ spinning' = spinning \cup {indicators + 1}
        \/ queue[1] = "hide" /\ indicators' = indicators /\ spinning' = spinning \ {indicators}
        \/ queue[1] = "reload" /\ indicators' = indicators /\ spinning' = spinning
    <3>1. Head(queue) = queue[1] /\ queue[1] \in Blocks
      BY <1>0, <2>1, Dequeued
    <3>2. CASE queue[1] = "show"
      BY <1>8, <3>1, <3>2 DEF RunBlock, showLoading
    <3>3. CASE queue[1] = "hide"
      BY <1>8, <3>1, <3>3 DEF RunBlock, hideLoading
    <3>4. CASE queue[1] = "reload"
      BY <1>8, <3>1, <3>4 DEF RunBlock
    <3> QED
      BY <3>1, <3>2, <3>3, <3>4 DEF Blocks
  <2>4. /\ LatestOn(queue', indicators', spinning') <=> LatestOn(queue, indicators, spinning)
        /\ OlderOn(queue', indicators', spinning') <=> OlderOn(queue, indicators, spinning)
    BY <1>0, <2>1, <2>3, LatestRuns, OlderRuns
  <2>5. (Waiting' <=> Waiting) /\ (Forgotten' <=> Forgotten) /\ (OnlyLastOpen' <=> OnlyLastOpen)
    BY <2>1 DEF Waiting, Forgotten, OnlyLastOpen, IsLast, Open
  <2> QED
    BY <2>2, <2>4, <2>5
<1>9. CASE updateTowns
  <2>1. /\ UNCHANGED <<screen, indicators, spinning, met>> /\ queue' = Append(queue, "reload")
        /\ load[1] = "updating" /\ load'[1] = "done" /\ \A n \in Loads : n # 1 => load'[n] = load[n]
    BY <1>0, <1>9 DEF updateTowns, history
  <2>2. Told
    BY <1>2, <2>1
  <2>3. /\ LatestOn(queue', indicators', spinning') <=> LatestOn(queue, indicators, spinning)
        /\ OlderOn(queue', indicators', spinning') <=> OlderOn(queue, indicators, spinning)
    <3>1. "reload" \in Blocks
      BY DEF Blocks
    <3> QED
      BY <1>0, <2>1, <3>1, LatestQueued, OlderQueued
  <2>4. \A n \in Loads : /\ (load'[n] = "none" <=> load[n] = "none") /\ (load'[n] = "lost" <=> load[n] = "lost")
                         /\ (Open(n)' <=> Open(n))
    BY <2>1 DEF Open
  <2>5. \A n \in Loads : IsLast(n)' <=> IsLast(n)
    BY <2>4 DEF IsLast
  <2>6. (Waiting' <=> Waiting) /\ (Forgotten' <=> Forgotten) /\ (OnlyLastOpen' <=> OnlyLastOpen)
    BY <2>4, <2>5 DEF Waiting, Forgotten, OnlyLastOpen
  <2> QED
    BY <2>2, <2>3, <2>6
<1>10. CASE updateFuelList
  BY <1>1, <1>10 DEF updateFuelList
<1>11. ASSUME NEW m \in Modes, updateSearchMode(m) PROVE FALSE
  BY <1>1, <1>11, UpdateSearchModeBase DEF updateSearchMode
<1>12. ASSUME NEW n \in Loads, Open(n), NEW x \in LoadPhases \ {"none"}, load' = [load EXCEPT ![n] = x],
              UNCHANGED <<screen, indicators, spinning>>, met \subseteq met',
              \/ x \in {"asked", "read", "lost"} /\ queue' = queue
              \/ x \in {"updating", "done"} /\ queue' = Append(queue, "hide")
              \/ x \in {"updating", "done"} /\ queue' = Append(Append(queue, "hide"), "reload")
       PROVE  Told'
  <2>1. Told
    BY <1>2, <1>12
  <2> QED
    BY <1>0, <1>12, <2>1, AnswerIndicator
<1>13. ASSUME NEW n \in Loads, updateFavoritesList(n) PROVE Told'
  <2>1. queue' = Append(Append(queue, "hide"), "reload")
    BY <1>0, <1>13 DEF updateFavoritesList, Blocks
  <2>2. /\ Open(n) /\ load' = [load EXCEPT ![n] = "done"] /\ UNCHANGED <<screen, indicators, spinning>>
        /\ met \subseteq met' /\ "done" \in LoadPhases \ {"none"}
    BY <1>13 DEF updateFavoritesList, Disturbed, Open, LoadPhases
  <2> QED
    BY <1>12, <2>1, <2>2
<1>14. ASSUME NEW n \in Loads, RequestFails(n) PROVE Told'
  <2>1. /\ Open(n) /\ load' = [load EXCEPT ![n] = "lost"] /\ UNCHANGED <<screen, indicators, spinning, queue>>
        /\ met \subseteq met' /\ "lost" \in LoadPhases \ {"none"}
    BY <1>14 DEF RequestFails, history, LoadPhases
  <2> QED
    BY <1>12, <2>1
<1>15. CASE TownsAnswer
  <2>1. /\ Open(1) /\ load' = [load EXCEPT ![1] = "updating"] /\ UNCHANGED <<screen, indicators, spinning>>
        /\ queue' = Append(queue, "hide") /\ met \subseteq met' /\ "updating" \in LoadPhases \ {"none"}
    BY <1>15 DEF TownsAnswer, Open, history, LoadPhases
  <2> QED
    BY <1>12, <2>1
<1>16. ASSUME NEW n \in Loads, FavoritesRead(n) PROVE Told'
  <2>1. /\ Open(n) /\ UNCHANGED <<screen, indicators, spinning>> /\ met \subseteq met'
        /\ "done" \in LoadPhases \ {"none"} /\ "read" \in LoadPhases \ {"none"}
    BY <1>16 DEF FavoritesRead, Open, LoadPhases
  <2>2. CASE favs = {}
    <3>1. load' = [load EXCEPT ![n] = "done"] /\ queue' = Append(queue, "hide")
      BY <1>16, <2>2 DEF FavoritesRead
    <3> QED
      BY <1>12, <2>1, <3>1
  <2>3. CASE favs # {}
    <3>1. load' = [load EXCEPT ![n] = "read"] /\ queue' = queue
      BY <1>16, <2>3 DEF FavoritesRead
    <3> QED
      BY <1>12, <2>1, <3>1
  <2> QED
    BY <2>2, <2>3
<1>17. ASSUME NEW n \in Loads, viewWillAppear(n), UNCHANGED <<screen, indicators, spinning>> PROVE Told'
  <2>1. (\A m \in Loads : ~Open(m)) /\ queue' = Append(queue, "show") /\ met \subseteq met'
    BY <1>1, <1>17 DEF viewWillAppear
  <2>2. Told
    BY <1>2, <1>17, <2>1
  <2>3. OnlyLastOpen' /\ Waiting' /\ (Forgotten' <=> Forgotten \/ Waiting)
    BY <1>17, <2>1, NewLoad
  <2>4. "show" \in Blocks
    BY DEF Blocks
  <2>5. /\ LatestOn(queue', indicators', spinning')
        /\ OlderOn(queue', indicators', spinning') <=>
             OlderOn(queue, indicators, spinning) \/ LatestOn(queue, indicators, spinning)
    BY <1>0, <1>17, <2>1, <2>4, LatestQueued, OlderQueued
  <2> QED
    BY <2>2, <2>3, <2>5
<1>18. CASE Loading
  <2>1. CASE ShowFavorites \/ (CloseDetail /\ at # "away")
    BY <1>17, <2>1 DEF ShowFavorites, CloseDetail
  <2>2. CASE PricesAnswer
    BY <1>1, <2>2 DEF PricesAnswer
  <2> QED
    BY <1>14, <1>15, <1>16, <1>18, <2>1, <2>2 DEF Loading
<1> QED
  BY <1>4, <1>5, <1>6, <1>7, <1>8, <1>9, <1>10, <1>11, <1>13, <1>18, StepKinds

\* An indicator spins exactly while a load is waited for or was lost unless two
\* loads overlapped; a search shows none (showLoading, hideLoading, searchFuel): for
\* any number of loads, whatever is on the main queue.
THEOREM IndicatorIsTruthful == Spec => []IndicatorTellsTruth
<1>1. Init => IndicatorOK
  <2> SUFFICES ASSUME Init PROVE IndicatorOK
    OBVIOUS
  <2> USE Constants
  <2>1. /\ spinning = {} /\ indicators = 0
        /\ \A n \in Loads : load[n] = IF n = 1 /\ screen # "favorites" THEN "asked" ELSE "none"
    BY DEF Init
  <2>2. Len(<<>>) = 0 /\ Len(<<"show">>) = 1 /\ <<"show">>[1] = "show"
    OBVIOUS
  <2>3. screen = "search" => \A n \in 1..Len(queue) : queue[n] # "show"
    BY <2>2 DEF Init
  <2>4. CASE screen = "favorites"
    <3>1. queue = <<>>
      BY <2>4 DEF Init
    <3>2. ~LatestOn(queue, indicators, spinning) /\ ~OlderOn(queue, indicators, spinning)
      BY <2>1, <2>2, <3>1 DEF LatestOn, OlderOn
    <3>3. ~Waiting /\ ~Forgotten /\ OnlyLastOpen
      BY <2>1, <2>4 DEF Waiting, Forgotten, OnlyLastOpen, IsLast, Open
    <3> QED
      BY <2>4, <3>2, <3>3 DEF IndicatorOK
  <2>5. CASE screen = "towns"
    <3>1. queue = <<"show">>
      BY <2>5 DEF Init
    <3>2. LatestOn(queue, indicators, spinning) /\ ~OlderOn(queue, indicators, spinning)
      BY <2>1, <2>2, <3>1 DEF LatestOn, OlderOn
    <3>3. IsLast(1) /\ Open(1) /\ load[1] # "lost" /\ \A n \in Loads : n # 1 => load[n] = "none"
      BY <2>1, <2>5 DEF IsLast, Open, Loads
    <3>4. Waiting /\ ~Forgotten /\ OnlyLastOpen
      BY <3>3 DEF Waiting, Forgotten, OnlyLastOpen, Open
    <3> QED
      BY <2>5, <3>2, <3>4 DEF IndicatorOK
  <2>6. CASE screen = "search"
    BY <2>1, <2>3, <2>6 DEF IndicatorOK
  <2> QED
    BY <2>4, <2>5, <2>6 DEF Init
<1>2. ASSUME Base, IndicatorOK PROVE IndicatorTellsTruth
  <2>1. SUFFICES ASSUME Settled, "overlap" \notin met, screen # "search"
                 PROVE  spinning # {} <=> \E n \in Loads : Open(n) \/ load[n] = "lost"
    BY <1>2 DEF IndicatorTellsTruth, IndicatorOK
  <2>2. Len(queue) = 0
    BY <2>1 DEF Settled
  <2>3. spinning # {} <=> LatestOn(queue, indicators, spinning) \/ OlderOn(queue, indicators, spinning)
    BY <2>2 DEF LatestOn, OlderOn
  <2>4. (Waiting \/ Forgotten) <=> \E n \in Loads : Open(n) \/ load[n] = "lost"
    <3>1. OnlyLastOpen
      BY <1>2, <2>1 DEF IndicatorOK
    <3> QED
      BY <3>1 DEF Waiting, Forgotten, OnlyLastOpen
  <2> QED
    BY <1>2, <2>1, <2>3, <2>4 DEF IndicatorOK
<1> QED
  BY <1>1, <1>2, NextIndicator, SpecBase, PTL DEF Spec

-----------------------------------------------------------------------------
(* The filter *)

\* The letters of w follow the first k letters of s.
Follows(w, s, k) == k + Len(w) <= Len(s) /\ \A i \in 1..Len(w) : w[i] = s[k + i]

\* A word that is not empty is a part of s where its letters follow each other.
LEMMA Occurs ==
  ASSUME NEW S, NEW s \in Seq(S), NEW w \in Seq(S), Len(w) >= 1
  PROVE  w \in SubSeqs(s) <=> \E k \in Nat : Follows(w, s, k)
<1>0. Len(s) \in Nat /\ Len(w) \in Nat
  OBVIOUS
<1>1. ASSUME w \in SubSeqs(s)
      PROVE  \E k \in Nat : Follows(w, s, k)
  <2>1. PICK k \in 0..Len(s), j \in 0..Len(s) : w = SubSeq(s, k + 1, j)
    BY <1>1 DEF SubSeqs
  <2>2. k < j
    <3>1. CASE j < k + 1
      <4>1. Len(SubSeq(s, k + 1, j)) = 0
        BY <1>0, <3>1
      <4> QED
        BY <1>0, <2>1, <4>1
    <3> QED
      BY <1>0, <3>1
  <2>3. Len(w) = j - k /\ \A i \in 1..(j - k) : w[i] = s[k + i]
    <3>1. Len(SubSeq(s, k + 1, j)) = j - k
      BY <1>0, <2>2
    <3>2. ASSUME NEW i \in 1..(j - k) PROVE SubSeq(s, k + 1, j)[i] = s[k + i]
      BY <1>0, <2>2
    <3> QED
      BY <2>1, <3>1, <3>2
  <2>4. k \in Nat /\ k + Len(w) <= Len(s)
    BY <1>0, <2>2, <2>3
  <2>5. Follows(w, s, k)
    BY <2>3, <2>4 DEF Follows
  <2> QED
    BY <2>4, <2>5
<1>2. ASSUME NEW k \in Nat, Follows(w, s, k)
      PROVE  w \in SubSeqs(s)
  <2>0. k + Len(w) <= Len(s) /\ \A i \in 1..Len(w) : w[i] = s[k + i]
    BY <1>2 DEF Follows
  <2> DEFINE r == SubSeq(s, k + 1, k + Len(w))
  <2>1. r \in Seq(S) /\ Len(r) = Len(w)
    BY <1>0, <2>0
  <2>2. \A i \in 1..Len(w) : r[i] = s[k + i]
    BY <1>0, <2>0
  <2>3. w = r
    BY <1>0, <2>0, <2>1, <2>2, SeqEqual
  <2>4. k \in 0..Len(s) /\ k + Len(w) \in 0..Len(s)
    BY <1>0, <2>0
  <2> QED
    BY <2>3, <2>4 DEF SubSeqs
<1> QED
  BY <1>1, <1>2

\* A word without separators is a part of "Ejido (El)" where it is one of "El Ejido": s
\* is the one, with separators at n - 1, n and the end, r the other.
LEMMA ArticleMoved ==
  ASSUME NEW S, NEW T, NEW s \in Seq(S), NEW r \in Seq(S), NEW w \in Seq(S), Len(w) >= 1,
         \A i \in 1..Len(w) : w[i] \notin T,
         NEW n \in 3..(Len(s) - 1), s[n - 1] \in T, s[n] \in T, s[Len(s)] \in T,
         Len(r) = Len(s) - 2, r[Len(s) - n] \in T,
         \A i \in 1..(Len(s) - 1 - n) : r[i] = s[n + i],
         \A i \in 1..(n - 2) : r[Len(s) - n + i] = s[i]
  PROVE  w \in SubSeqs(s) <=> w \in SubSeqs(r)
<1> DEFINE m == Len(w)
           l == Len(s)
<1>0. l \in Nat /\ m \in Nat /\ m >= 1 /\ n \in Nat /\ n >= 3 /\ n <= l - 1
  OBVIOUS
<1>1. ASSUME NEW k \in Nat, k + m <= l, \A i \in 1..m : w[i] = s[k + i]
      PROVE  \E h \in Nat : Follows(w, r, h)
  <2>1. ASSUME NEW p \in Nat, s[p] \in T PROVE ~(k < p /\ p <= k + m)
    <3> SUFFICES ASSUME k < p, p <= k + m PROVE FALSE
      OBVIOUS
    <3>1. p - k \in 1..m /\ k + (p - k) = p
      BY <1>0
    <3>2. w[p - k] = s[p]
      BY <1>1, <3>1
    <3> QED
      BY <2>1, <3>1, <3>2
  <2>2. n - 1 \in Nat /\ k < l
    BY <1>0, <1>1
  <2>3. ~(k < n - 1 /\ n - 1 <= k + m) /\ ~(k < n /\ n <= k + m) /\ ~(k < l /\ l <= k + m)
    BY <1>0, <2>1, <2>2
  <2>4. CASE k + m <= n - 2
    <3>1. k + (l - n) \in Nat /\ (k + (l - n)) + m <= l - 2
      BY <1>0, <2>4
    <3>2. ASSUME NEW i \in 1..m PROVE w[i] = r[(k + (l - n)) + i]
      <4>1. k + i \in 1..(n - 2) /\ l - n + (k + i) = (k + (l - n)) + i
        BY <1>0, <2>4
      <4>2. r[l - n + (k + i)] = s[k + i]
        BY <4>1
      <4> QED
        BY <1>1, <4>1, <4>2
    <3>3. Follows(w, r, k + (l - n))
      BY <3>1, <3>2 DEF Follows
    <3> QED
      BY <3>1, <3>3
  <2>5. CASE k >= n /\ k + m <= l - 1
    <3>1. k - n \in Nat /\ (k - n) + m <= l - 2
      BY <1>0, <2>5
    <3>2. ASSUME NEW i \in 1..m PROVE w[i] = r[(k - n) + i]
      <4>1. (k - n) + i \in 1..(l - 1 - n) /\ n + ((k - n) + i) = k + i
        BY <1>0, <2>5
      <4>2. r[(k - n) + i] = s[n + ((k - n) + i)]
        BY <4>1
      <4> QED
        BY <1>1, <4>1, <4>2
    <3>3. Follows(w, r, k - n)
      BY <3>1, <3>2 DEF Follows
    <3> QED
      BY <3>1, <3>3
  <2> QED
    BY <1>0, <1>1, <2>2, <2>3, <2>4, <2>5
<1>2. ASSUME NEW h \in Nat, h + m <= l - 2, \A i \in 1..m : w[i] = r[h + i]
      PROVE  \E k \in Nat : Follows(w, s, k)
  <2>0. h + m <= l - 2
    BY <1>2
  <2>1. ~(h < l - n /\ l - n <= h + m)
    <3> SUFFICES ASSUME h < l - n, l - n <= h + m PROVE FALSE
      OBVIOUS
    <3>1. (l - n) - h \in 1..m /\ h + ((l - n) - h) = l - n
      BY <1>0
    <3>2. w[(l - n) - h] = r[l - n]
      BY <1>2, <3>1
    <3> QED
      BY <3>1, <3>2
  <2>2. CASE h + m <= l - 1 - n
    <3>1. n + h \in Nat /\ (n + h) + m <= l
      BY <1>0, <2>2
    <3>2. ASSUME NEW i \in 1..m PROVE w[i] = s[(n + h) + i]
      <4>1. h + i \in 1..(l - 1 - n) /\ n + (h + i) = (n + h) + i
        BY <1>0, <2>2
      <4>2. r[h + i] = s[n + (h + i)]
        BY <4>1
      <4> QED
        BY <1>2, <4>1, <4>2
    <3>3. Follows(w, s, n + h)
      BY <3>1, <3>2 DEF Follows
    <3> QED
      BY <3>1, <3>3
  <2>3. CASE h >= l - n
    <3>1. h - (l - n) \in Nat /\ (h - (l - n)) + m <= l
      BY <1>0, <2>0, <2>3
    <3>2. ASSUME NEW i \in 1..m PROVE w[i] = s[(h - (l - n)) + i]
      <4>1. (h - (l - n)) + i \in 1..(n - 2)
        BY <1>0, <2>0, <2>3
      <4>3. l - n + ((h - (l - n)) + i) = h + i
        BY <1>0, <2>0, <2>3
      <4>2. r[l - n + ((h - (l - n)) + i)] = s[(h - (l - n)) + i]
        BY <4>1
      <4> QED
        BY <1>2, <4>3, <4>2
    <3>3. Follows(w, s, h - (l - n))
      BY <3>1, <3>2 DEF Follows
    <3> QED
      BY <3>1, <3>3
  <2> QED
    BY <1>0, <1>2, <2>1, <2>2, <2>3
<1>3. ASSUME NEW k \in Nat, Follows(w, s, k) PROVE \E h \in Nat : Follows(w, r, h)
  BY <1>1, <1>3 DEF Follows
<1>4. ASSUME NEW h \in Nat, Follows(w, r, h) PROVE \E k \in Nat : Follows(w, s, k)
  BY <1>2, <1>4 DEF Follows
<1>5. w \in SubSeqs(s) <=> \E k \in Nat : Follows(w, s, k)
  BY Occurs
<1>6. w \in SubSeqs(r) <=> \E h \in Nat : Follows(w, r, h)
  BY Occurs
<1> QED
  BY <1>3, <1>4, <1>5, <1>6, Zenon

FoldedLetters == {Folded[c] : c \in Letters}

\* A folded name, letter by letter.
LEMMA Folds ==
  ASSUME NEW s \in Seq(Letters)
  PROVE  /\ Fold(s) \in Seq(FoldedLetters) /\ Len(Fold(s)) = Len(s)
         /\ \A i \in 1..Len(s) : Fold(s)[i] = Folded[s[i]] /\ s[i] \in Letters
<1>1. Len(s) \in Nat /\ \A i \in 1..Len(s) : s[i] \in Letters
  OBVIOUS
<1>2. Fold(s) \in [1..Len(s) -> FoldedLetters]
  BY <1>1 DEF Fold, FoldedLetters
<1>3. Fold(s) \in Seq(FoldedLetters) /\ Len(Fold(s)) = Len(s)
  BY <1>1, <1>2
<1> QED
  BY <1>1, <1>3 DEF Fold

\* The name as shown: what is between the parentheses, a space, the name.
LEMMA ShownName ==
  ASSUME NEW name \in Seq(Letters), NEW n \in 3..(Len(name) - 1), Marks(name) = {n, Len(name)},
         Space \in Letters
  PROVE  /\ formatName(name) \in Seq(Letters) /\ Len(formatName(name)) = Len(name) - 2
         /\ formatName(name)[Len(name) - n] = Space
         /\ \A i \in 1..(Len(name) - 1 - n) : formatName(name)[i] = name[n + i]
         /\ \A i \in 1..(n - 2) : formatName(name)[Len(name) - n + i] = name[i]
<1> DEFINE l == Len(name)
           u == SubSeq(name, n + 1, l - 1)
           v == SubSeq(name, 1, n - 2)
<1>0. l \in Nat /\ n \in Nat /\ n >= 3 /\ n <= l - 1
  OBVIOUS
<1>1. Min({n, l}) = n
  BY <1>0 DEF Min
<1>2. ({n, l} \ {n}) \cup {l + 1} = {l, l + 1}
  BY <1>0
<1>3. Min({l, l + 1}) = l
  BY <1>0 DEF Min
<1>4. formatName(name) = (u \o <<Space>>) \o v
  BY <1>1, <1>2, <1>3 DEF formatName
<1>5. u \in Seq(Letters) /\ Len(u) = l - 1 - n /\ \A i \in 1..(l - 1 - n) : u[i] = name[n + i]
  BY <1>0
<1>6. v \in Seq(Letters) /\ Len(v) = n - 2 /\ \A i \in 1..(n - 2) : v[i] = name[i]
  BY <1>0
<1> HIDE DEF u, v
<1>7. /\ u \o <<Space>> \in Seq(Letters) /\ Len(u \o <<Space>>) = l - n /\ (u \o <<Space>>)[l - n] = Space
      /\ \A i \in 1..(l - 1 - n) : (u \o <<Space>>)[i] = name[n + i]
  <2> DEFINE y == <<Space>>
  <2>1. y \in Seq(Letters) /\ Len(y) = 1 /\ y[1] = Space
    OBVIOUS
  <2> HIDE DEF y
  <2>2. u \o y \in Seq(Letters) /\ Len(u \o y) = Len(u) + Len(y)
    BY <1>5, <2>1, ConcatProperties
  <2>3. Len(u \o y) = l - n
    BY <1>0, <1>5, <2>1, <2>2
  <2>4. \A i \in 1..(Len(u) + Len(y)) : (u \o y)[i] = IF i <= Len(u) THEN u[i] ELSE y[i - Len(u)]
    BY <1>5, <2>1, ConcatProperties
  <2>5. \A i \in 1..(l - n) : (u \o y)[i] = IF i <= l - 1 - n THEN u[i] ELSE y[i - (l - 1 - n)]
    <3>1. Len(u) = l - 1 - n /\ Len(u) + Len(y) = l - n
      BY <1>0, <1>5, <2>1
    <3> QED
      BY <2>4, <3>1
  <2>6. l - n \in 1..(l - n) /\ ~(l - n <= l - 1 - n) /\ (l - n) - (l - 1 - n) = 1
    BY <1>0
  <2>7. (u \o y)[l - n] = Space
    BY <2>1, <2>5, <2>6
  <2>8. ASSUME NEW i \in 1..(l - 1 - n) PROVE (u \o y)[i] = name[n + i]
    <3>1. i \in 1..(l - n) /\ i <= l - 1 - n
      BY <1>0
    <3>2. (u \o y)[i] = u[i]
      BY <2>5, <3>1
    <3>3. u[i] = name[n + i]
      BY <1>5
    <3> QED
      BY <3>2, <3>3
  <2> QED
    BY <2>2, <2>3, <2>7, <2>8 DEF y
<1> DEFINE x == u \o <<Space>>
<1>8. x \in Seq(Letters) /\ Len(x) = l - n /\ x[l - n] = Space /\ \A i \in 1..(l - 1 - n) : x[i] = name[n + i]
  BY <1>7
<1>9. formatName(name) = x \o v
  BY <1>4
<1> HIDE DEF x
<1>10. x \o v \in Seq(Letters) /\ Len(x \o v) = l - 2
  <2>1. x \o v \in Seq(Letters) /\ Len(x \o v) = Len(x) + Len(v)
    BY <1>6, <1>8, ConcatProperties, ZenonT(60)
  <2> QED
    BY <1>0, <1>6, <1>8, <2>1
<1>11. \A i \in 1..(l - n) : (x \o v)[i] = x[i]
  BY <1>0, <1>6, <1>8
<1>12. \A i \in 1..(n - 2) : (x \o v)[l - n + i] = v[i]
  BY <1>0, <1>6, <1>8
<1>13. (x \o v)[l - n] = Space /\ \A i \in 1..(l - 1 - n) : (x \o v)[i] = name[n + i]
  BY <1>0, <1>8, <1>11
<1> QED
  BY <1>6, <1>9, <1>10, <1>12, <1>13

\* A text without separators is in the name as published where it is in the name as
\* shown.
LEMMA FoundAsShown ==
  ASSUME NEW t \in Towns, NEW w \in Seq(Letters), w # <<>>, ToSet(w) \cap Separators = {}
  PROVE  Fold(w) \in SubSeqs(Fold(TownList[t])) <=> Fold(w) \in SubSeqs(Fold(formatName(TownList[t])))
<1> DEFINE name == TownList[t]
<1>1. name \in Seq(Letters)
  <2>1. TownList \in Seq(Seq(Letters))
    BY TableScreensAssumption, Zenon
  <2> QED
    BY <2>1 DEF Towns
<1>2. \A c \in Letters : Folded[c] \in Separators <=> c \in Separators
  BY TableScreensAssumption, Zenon
<1>3. CASE Marks(name) = {}
  BY <1>3 DEF formatName
<1>4. CASE Marks(name) # {}
  <2>1. PICK n \in 3..(Len(name) - 1) : Marks(name) = {n, Len(name)} /\ name[n - 1] = Space
    <3>1. \E n \in 3..(Len(name) - 1) : Marks(name) = {n, Len(name)} /\ name[n - 1] = Space
      BY <1>4, TableScreensAssumption, Zenon
    <3> QED
      BY <3>1
  <2>2. /\ Len(name) \in Nat /\ n - 1 \in 1..Len(name) /\ n \in 1..Len(name) /\ Len(name) \in 1..Len(name)
    BY <1>1
  <2>3. Space \in Letters
    BY <1>1, <2>1, <2>2
  <2>4. name[n] \in Separators /\ name[Len(name)] \in Separators /\ name[n - 1] \in Separators /\ Space \in Separators
    BY <2>1 DEF Marks, Separators
  <2> DEFINE shown == formatName(name)
             s == Fold(name)
             r == Fold(shown)
  <2>5. /\ shown \in Seq(Letters) /\ Len(shown) = Len(name) - 2 /\ shown[Len(name) - n] = Space
        /\ \A i \in 1..(Len(name) - 1 - n) : shown[i] = name[n + i]
        /\ \A i \in 1..(n - 2) : shown[Len(name) - n + i] = name[i]
    BY <1>1, <2>1, <2>3, ShownName
  <2> HIDE DEF name, shown
  <2>6. /\ s \in Seq(FoldedLetters) /\ Len(s) = Len(name)
        /\ \A i \in 1..Len(name) : s[i] = Folded[name[i]] /\ name[i] \in Letters
    BY <1>1, Folds
  <2>7. /\ r \in Seq(FoldedLetters) /\ Len(r) = Len(name) - 2
        /\ \A i \in 1..(Len(name) - 2) : r[i] = Folded[shown[i]]
    BY <2>5, Folds
  <2>8. /\ Fold(w) \in Seq(FoldedLetters) /\ Len(Fold(w)) = Len(w) /\ Len(w) \in Nat /\ Len(w) >= 1
        /\ \A i \in 1..Len(w) : Fold(w)[i] = Folded[w[i]] /\ w[i] \in Letters
    <3>1. Len(w) \in Nat /\ Len(w) >= 1
      BY EmptySeq
    <3> QED
      BY <3>1, Folds
  <2>9. \A i \in 1..Len(w) : Fold(w)[i] \notin Separators
    <3>1. \A i \in 1..Len(w) : w[i] \in ToSet(w)
      <4>1. DOMAIN w = 1..Len(w)
        OBVIOUS
      <4> QED
        BY <4>1 DEF ToSet
    <3> QED
      BY <1>2, <2>8, <3>1
  <2> HIDE DEF s, r
  <2>10. s[n - 1] \in Separators /\ s[n] \in Separators /\ s[Len(s)] \in Separators
    BY <1>2, <2>2, <2>4, <2>6
  <2>11. r[Len(s) - n] \in Separators
    <3>1. Len(name) - n \in 1..(Len(name) - 2)
      BY <2>2
    <3>2. r[Len(name) - n] = Folded[Space]
      BY <2>5, <2>7, <3>1
    <3> QED
      BY <1>2, <2>3, <2>4, <2>6, <3>2
  <2>12. \A i \in 1..(Len(s) - 1 - n) : r[i] = s[n + i]
    <3> SUFFICES ASSUME NEW i \in 1..(Len(name) - 1 - n) PROVE r[i] = s[n + i]
      BY <2>6
    <3>1. i \in 1..(Len(name) - 2) /\ n + i \in 1..Len(name)
      BY <2>2
    <3>2. r[i] = Folded[shown[i]] /\ shown[i] = name[n + i]
      BY <2>5, <2>7, <3>1
    <3>3. s[n + i] = Folded[name[n + i]]
      BY <2>6, <3>1
    <3> QED
      BY <3>2, <3>3
  <2>13. \A i \in 1..(n - 2) : r[Len(s) - n + i] = s[i]
    <3> SUFFICES ASSUME NEW i \in 1..(n - 2) PROVE r[Len(name) - n + i] = s[i]
      BY <2>6
    <3>1. Len(name) - n + i \in 1..(Len(name) - 2) /\ i \in 1..Len(name)
      BY <2>2
    <3>2. r[Len(name) - n + i] = Folded[shown[Len(name) - n + i]]
      BY <2>7, <3>1
    <3>3. shown[Len(name) - n + i] = name[i] /\ s[i] = Folded[name[i]]
      BY <2>5, <2>6, <3>1
    <3> QED
      BY <3>2, <3>3
  <2>14. n \in 3..(Len(s) - 1) /\ Len(r) = Len(s) - 2
    BY <2>6, <2>7
  <2>15. Fold(w) \in SubSeqs(s) <=> Fold(w) \in SubSeqs(r)
    BY <2>6, <2>7, <2>8, <2>9, <2>10, <2>11, <2>12, <2>13, <2>14, ArticleMoved, ZenonT(60)
  <2> QED
    BY <2>15 DEF s, r, name, shown
<1> QED
  BY <1>3, <1>4

\* Until the towns are there nothing was typed, or it was typed early; from then on
\* the array holds the towns that match the text.
FilterOK ==
  screen = "towns" =>
    /\ load[1] \in {"updating", "done"} => towns
    /\ ~early /\ load[1] # "done" => text = <<>> /\ filtering = None
    /\ ~early /\ load[1] = "done" =>
         IF filtering = None THEN ToSet(array) = {t \in Towns : Matches(t, text)}
         ELSE filtering = AllTowns

\* AllTowns lists every town.
LEMMA AllTownsSet == ToSet(AllTowns) = Towns
<1>1. DOMAIN AllTowns = Towns /\ \A n \in Towns : AllTowns[n] = n
  BY DEF AllTowns
<1> QED
  BY <1>1 DEF ToSet

\* The filter leaves the towns of the list that match.
LEMMA FilterKeeps ==
  ASSUME NEW typed, NEW s \in Filtered(AllTowns, typed)
  PROVE  ToSet(s) = {t \in Towns : Matches(t, typed)}
<1> DEFINE S == {t \in Towns : Matches(t, typed)}
<1>1. s \in SetToSeqs(S)
  BY AllTownsSet DEF Filtered
<1>2. IsFiniteSet(S)
  <2>1. S \in SUBSET Towns
    OBVIOUS
  <2> QED
    BY <2>1, Constants, FS_Subset
<1> HIDE DEF S
<1>3. ToSet(s) = S
  BY <1>1, <1>2, Arrangement
<1> QED
  BY <1>3 DEF S

\* Every step keeps FilterOK.
LEMMA NextFilter == Base /\ FilterOK /\ [Next]_vars => FilterOK'
<1> SUFFICES ASSUME Base, FilterOK, [Next]_vars PROVE FilterOK'
  OBVIOUS
<1> USE Constants
<1>0. /\ screen \in {"favorites", "towns", "search"} /\ load \in [Loads -> LoadPhases] /\ towns \in BOOLEAN
      /\ screen # "towns" => filtering = None
      /\ screen # "search" => ~menu
  BY DEF Base, ScreenOK, TypeOK, LoadPhases
<1>1. CASE UNCHANGED <<screen, load, array, towns, text, filtering, early>>
  BY <1>1 DEF FilterOK, Matches
<1>2. CASE screen' # "towns"
  BY <1>2 DEF FilterOK
<1>3. CASE Loading
  <2>1. CASE TownsAnswer
    <3>1. /\ UNCHANGED <<screen, array, text, filtering, early>> /\ towns' = TRUE
          /\ load[1] = "asked" /\ load'[1] = "updating"
      BY <1>0, <2>1 DEF TownsAnswer, history
    <3> QED
      BY <3>1 DEF FilterOK
  <2>2. ASSUME NEW n \in Loads, RequestFails(n), screen = "towns" PROVE FilterOK'
    <3>1. UNCHANGED <<screen, array, towns, text, filtering, early>> /\ Open(n) /\ load' = [load EXCEPT ![n] = "lost"]
      BY <2>2 DEF RequestFails, selection, history
    <3>2. n = 1 /\ load[1] \in {"asked", "read"} /\ load'[1] = "lost"
      BY <1>0, <2>2, <3>1 DEF Base, LoadOK, Open
    <3> QED
      BY <3>1, <3>2 DEF FilterOK
  <2>3. CASE ~TownsAnswer /\ screen = "towns"
    <3>1. ~ShowFavorites /\ ~PricesAnswer /\ ~CloseDetail /\ \A n \in Loads : ~FavoritesRead(n)
      BY <2>3 DEF ShowFavorites, PricesAnswer, CloseDetail, FavoritesRead, Base, ScreenOK
    <3> QED
      BY <1>3, <2>2, <2>3, <3>1 DEF Loading
  <2>4. screen' = screen
    BY <1>3, LoadingGoes DEF Goes
  <2> QED
    BY <1>2, <2>1, <2>3, <2>4
<1>4. CASE RunBlock
  BY <1>1, <1>4 DEF RunBlock, selection, history
<1>5. CASE EndFilter
  <2>1. /\ UNCHANGED <<screen, load, towns, text, early>> /\ filtering # None /\ filtering' = None
        /\ array' \in Filtered(IF text = <<>> THEN Known ELSE filtering, text)
    BY <1>5 DEF EndFilter, history
  <2>2. filtering = AllTowns /\ towns => ToSet(array') = {t \in Towns : Matches(t, text)}
    BY <2>1, FilterKeeps DEF Known
  <2>3. \A t \in Towns : Matches(t, text)' <=> Matches(t, text)
    BY <2>1 DEF Matches
  <2> QED
    BY <2>1, <2>2, <2>3 DEF FilterOK
<1>6. CASE updateTowns
  <2>1. /\ UNCHANGED <<screen, towns, text, filtering, early>> /\ array' = AllTowns
        /\ load[1] = "updating" /\ load'[1] = "done"
    BY <1>0, <1>6 DEF updateTowns, selection, history
  <2>2. text = <<>> => ToSet(array') = {t \in Towns : Matches(t, text)}
    BY <2>1, AllTownsSet DEF Matches
  <2>3. \A t \in Towns : Matches(t, text)' <=> Matches(t, text)
    BY <2>1 DEF Matches
  <2> QED
    BY <2>1, <2>2, <2>3 DEF FilterOK
<1>7. CASE updateFuelList
  BY <1>2, <1>7 DEF updateFuelList
<1>8. ASSUME NEW n \in Loads, updateFavoritesList(n) PROVE FilterOK'
  BY <1>2, <1>8 DEF updateFavoritesList
<1>9. ASSUME NEW m \in Modes, updateSearchMode(m) PROVE FilterOK'
  BY <1>0, <1>2, <1>9 DEF updateSearchMode
<1>10. ASSUME NEW n \in 1..Len(rows), RemoveRow(n) PROVE FilterOK'
  BY <1>2, <1>10 DEF RemoveRow
<1>11. CASE Quiet
  <2>1. CASE UNCHANGED <<towns, text, filtering, early>>
    BY <1>1, <1>11, <2>1, QuietBase
  <2>2. ASSUME NEW typed \in Texts, BeginFilter(typed) PROVE FilterOK'
    <3>1. /\ UNCHANGED <<screen, load, array, towns>> /\ text' = typed /\ screen = "towns"
          /\ filtering' = (IF towns THEN AllTowns ELSE <<>>) /\ early' = (load[1] # "done")
      BY <2>2 DEF BeginFilter, Known, table
    <3>2. AllTowns # None
      OBVIOUS
    <3> QED
      BY <3>1, <3>2 DEF FilterOK
  <2>3. CASE ShowFuels \/ addFav \/ showOptionsPopover \/ dismiss \/ BackToSearch \/ AcceptAlert
             \/ (CloseDetail /\ at = "away")
    BY <2>1, <2>3 DEF ShowFuels, addFav, showOptionsPopover, dismiss, BackToSearch, AcceptAlert, CloseDetail,
       selection, history
  <2>4. ASSUME NEW g \in Starred, OpenFound(g) PROVE FilterOK'
    BY <2>1, <2>4 DEF OpenFound, selection, history
  <2>5. ASSUME NEW n \in 1..Len(rows), OpenFavorite(n) \/ SelectTown(n) \/ OpenStation(n)
        PROVE  FilterOK'
    BY <2>1, <2>5 DEF OpenFavorite, SelectTown, OpenStation, selection
  <2> QED
    BY <1>11, <2>2, <2>3, <2>4, <2>5 DEF Quiet
<1> QED
  BY <1>1, <1>3, <1>4, <1>5, <1>6, <1>7, <1>8, <1>9, <1>10, <1>11, StepKinds, Stutter

\* A text without spaces finds exactly the towns whose name as shown contains it
\* unless it was typed before the towns were there (textDidChange, formatName): for
\* all lists of towns whose parentheses enclose the end of a name, and all texts.
THEOREM FilterFindsWhatIsShown == Spec => []FilterFindsShownNames
<1>1. Init => FilterOK
  BY Constants DEF Init, FilterOK
<1>2. Base /\ FilterOK => FilterFindsShownNames
  <2> SUFFICES ASSUME Base, FilterOK, screen = "towns", Settled, load[1] = "done", ~early,
                      ToSet(text) \cap Separators = {}
               PROVE  ToSet(rows) =
                        {t \in Towns : Fold(text) \in SubSeqs(Fold(formatName(TownList[t]))) \/ text = <<>>}
    BY DEF FilterFindsShownNames
  <2>1. rows = array
    <3>1. queue = <<>>
      BY DEF Settled
    <3>2. ~ReloadQueued
      BY <3>1 DEF ReloadQueued
    <3>3. array # None
      BY DEF Base, ScreenOK
    <3> QED
      BY <3>2, <3>3 DEF Base, ScreenOK
  <2>2. ToSet(array) = {t \in Towns : Matches(t, text)}
    BY DEF FilterOK, Settled, MainIsFree
  <2>3. text \in Seq(Letters)
    <3>1. Texts \subseteq Seq(Letters)
      BY TableScreensAssumption, Zenon
    <3>2. text \in Texts \cup {<<>>}
      BY DEF Base, TypeOK
    <3>3. <<>> \in Seq(Letters)
      OBVIOUS
    <3> QED
      BY <3>1, <3>2, <3>3
  <2>4. ASSUME NEW t \in Towns
        PROVE  Matches(t, text) <=> (Fold(text) \in SubSeqs(Fold(formatName(TownList[t]))) \/ text = <<>>)
    <3>1. CASE text = <<>>
      BY <3>1, Zenon DEF Matches
    <3>2. CASE text # <<>>
      <4>1. Fold(text) \in SubSeqs(Fold(TownList[t])) <=> Fold(text) \in SubSeqs(Fold(formatName(TownList[t])))
        BY <2>3, <3>2, FoundAsShown
      <4> QED
        BY <3>2, <4>1, Zenon DEF Matches
    <3> QED
      BY <3>1, <3>2
  <2> QED
    BY <2>1, <2>2, <2>4, Zenon
<1> QED
  BY <1>1, <1>2, NextFilter, SpecBase, PTL DEF Spec
=============================================================================
