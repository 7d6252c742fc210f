--------------------------- MODULE Nearby_proofs ---------------------------
(***************************************************************************)
(* Proofs about Nearby, for every set of towns and any number of screens   *)
(* and of changes of the permission.                                       *)
(***************************************************************************)
EXTENDS Nearby, SequenceTheorems, TLAPS

\* Who holds the handler of a running manager waits for it.
ScreenOK ==
  /\ favorites <= opened /\ kind[favorites] = "favorites"
  /\ fuels # None => fuels <= opened /\ kind[fuels] = "fuels"
  /\ handler <= opened
  /\ updating => phase[handler] = "location"
  /\ \A c \in Screens :
       /\ kind[c] # "none" => c <= opened
       /\ kind[c] = "fuels" => phase[c] \in {"idle", "location", "geocoding", "towns"}
       /\ phase[c] \in {"prices", "listed"} => kind[c] = "search"

\* The fuels screen checks the town it started with, and that is the saved one as
\* long as it checks.
TownOK ==
  /\ fuels # None /\ phase[fuels] \in {"location", "geocoding", "towns"} =>
       fetched[fuels] = town
  /\ \A c \in Screens : phase[c] = "towns" => city[c] # fetched[c]
  /\ alert # None => stack = <<>> /\ tab = "fuels" /\ fuels # None /\ phase[fuels] = "idle"

\* What is below another screen is a finished search; the tabs are below everything.
StackOK ==
  \A n \in 1..Len(stack) :
    /\ stack[n] <= opened /\ kind[stack[n]] \in {"towns", "search", "detail"}
    /\ n < Len(stack) => phase[stack[n]] = "listed"

\* Without changes in the settings a permission that was there is still there.
SilenceOK ==
  /\ prompt => permission = "undetermined"
  /\ \A c \in Screens :
       /\ phase[c] = "prices" => permission = "granted" \/ changes > 0
       /\ kind[c] = "detail" /\ phase[c] = "refused" => c \in told
       /\ kind[c] \in {"search", "detail"} /\ phase[c] = "location" /\ handler = c /\ ~updating =>
            failed \/ changes > 0

\* The screen on top of the stack waits with the handler, or a search that was left
\* has it.
RobOK ==
  \A n \in 1..Len(stack) : n = Len(stack) /\ phase[stack[n]] = "location" /\ handler # stack[n] =>
    kind[handler] = "search" /\ \A m \in 1..Len(stack) : stack[m] # handler

\* A tab that waits, under whatever is on the stack, has the handler, or a search or
\* a screen opened after it does.
TabOK ==
  \A c \in Screens : c \in {favorites, fuels} /\ phase[c] = "location" /\ handler # c =>
    kind[handler] = "search" \/ (handler > c /\ kind[handler] \in {"fuels", "detail"})

IInv ==
  /\ TypeOK /\ ScreenOK /\ TownOK /\ StackOK /\ SilenceOK /\ RobOK /\ TabOK
  /\ AlertOffersAnother

\* Initially the favourites are there and have asked for the location.
LEMMA InitIInv == Init => IInv
<1> SUFFICES ASSUME Init PROVE IInv
  OBVIOUS
<1>0. 1 \in Screens /\ None \notin Screens /\ None \notin Towns
  BY NearbyAssumption DEF Screens
<1>1. /\ opened = 1 /\ favorites = 1 /\ fuels = None /\ kind[1] = "favorites"
      /\ \A c \in Screens : c # 1 => kind[c] = "none" /\ phase[c] = "none"
      /\ phase[1] = "location" /\ handler = 1
      /\ updating = isLocationEnabled /\ isLocationEnabled \in BOOLEAN
  BY <1>0 DEF Init, isLocationEnabled
<1>2. /\ kind \in [Screens -> Kinds] /\ phase \in [Screens -> Phases]
      /\ fetched \in [Screens -> Towns \cup {None}]
      /\ city \in [Screens -> Towns \cup Strange \cup {None}]
  BY DEF Init, Kinds, Phases, isLocationEnabled
<1>3. stack = <<>> /\ <<>> \in Seq(Screens) /\ Len(stack) = 0
  BY DEF Init
<1>4. TypeOK
  BY <1>0, <1>1, <1>2, <1>3 DEF Init, TypeOK
<1>5. ScreenOK
  BY <1>0, <1>1 DEF ScreenOK
<1>6. TownOK
  BY <1>1, <1>0 DEF Init, TownOK
<1>7. StackOK /\ RobOK /\ TabOK
  BY <1>1, <1>3 DEF StackOK, RobOK, TabOK
<1>8. SilenceOK
  BY <1>0, <1>1 DEF Init, SilenceOK
<1> QED
  BY <1>0, <1>4, <1>5, <1>6, <1>7, <1>8 DEF IInv, Init, AlertOffersAnother

\* The permission and the location manager.
LEMMA LayerIInv ==
  ASSUME IInv, AnswerPrompt \/ ChangeSettings \/ LocationFails
  PROVE  IInv'
<1>0. TypeOK
  BY DEF IInv
<1>1. /\ UNCHANGED <<handler, navigation, phase, towns, told>> /\ (updating' => updating)
      /\ prompt' \in BOOLEAN /\ updating' \in BOOLEAN /\ changes' \in Nat /\ failed' \in BOOLEAN
      /\ permission' \in {"undetermined", "granted", "denied"}
      /\ (changes > 0 => changes' > 0) /\ (failed => failed')
      /\ (~updating' => ~updating \/ failed')
  <2>1. CASE AnswerPrompt
    BY <1>0, <2>1 DEF AnswerPrompt, TypeOK
  <2>2. CASE ChangeSettings
    BY <1>0, <2>2 DEF ChangeSettings, TypeOK
  <2>3. CASE LocationFails
    BY <1>0, <2>3 DEF LocationFails, TypeOK
  <2> QED
    BY <2>1, <2>2, <2>3
<1>2. /\ (prompt' => permission' = "undetermined")
      /\ (permission = "granted" => permission' = "granted" \/ changes' > 0)
  BY DEF AnswerPrompt, ChangeSettings, LocationFails, isLocationEnabled, IInv, TypeOK, SilenceOK
<1>3. UNCHANGED <<opened, kind, fuels, favorites, tab, stack, town, fetched, city, alert, crashed>>
  BY <1>1 DEF navigation, towns
<1>4. TypeOK'
  BY <1>1, <1>3 DEF IInv, TypeOK
<1>5. ScreenOK'
  BY <1>1, <1>3 DEF IInv, ScreenOK
<1>6. SilenceOK'
  BY <1>1, <1>2, <1>3 DEF IInv, SilenceOK
<1> QED
  BY <1>1, <1>3, <1>4, <1>5, <1>6 DEF IInv, TownOK, StackOK, RobOK, TabOK, AlertOffersAnother

\* didUpdateLocations.
LEMMA ArrivesIInv ==
  ASSUME IInv, LocationArrives
  PROVE  IInv'
<1> DEFINE h == handler
<1>0. TypeOK
  BY DEF IInv
<1>1. /\ phase' = [phase EXCEPT ![h] = Handled(h)] /\ ~updating' /\ updating' \in BOOLEAN
      /\ UNCHANGED <<permission, prompt, handler, navigation, towns, told, changes, failed>>
      /\ h \in Screens /\ phase[h] = "location"
  BY DEF LocationArrives, IInv, ScreenOK, TypeOK
<1>2. UNCHANGED <<opened, kind, fuels, favorites, tab, stack, town, fetched, city, alert, crashed>>
  BY <1>1 DEF navigation, towns
<1>3. /\ Handled(h) \in {"listed", "geocoding", "placed"}
      /\ (Handled(h) = "listed" <=> kind[h] = "search") /\ (Handled(h) = "geocoding" <=> kind[h] = "fuels")
  BY DEF Handled
<1>4. /\ phase' \in [Screens -> Phases] /\ phase'[h] = Handled(h)
      /\ \A c \in Screens : c # h => phase'[c] = phase[c]
  BY <1>0, <1>1, <1>3 DEF TypeOK, Phases
<1> HIDE DEF h
<1>5. TypeOK'
  BY <1>0, <1>1, <1>2, <1>4 DEF TypeOK
<1>6. ScreenOK'
  BY <1>1, <1>2, <1>3, <1>4 DEF IInv, ScreenOK, h
<1>7. TownOK'
  BY <1>0, <1>1, <1>2, <1>3, <1>4 DEF IInv, TownOK, TypeOK
<1>8. StackOK'
  <2>1. \A n \in 1..Len(stack) : stack[n] \in Screens
    BY <1>0 DEF TypeOK
  <2> QED
    BY <1>1, <1>2, <1>3, <1>4, <2>1 DEF IInv, StackOK
<1>9. SilenceOK'
  BY <1>1, <1>2, <1>3, <1>4 DEF IInv, SilenceOK, h
<1>10. RobOK'
  <2>1. \A n \in 1..Len(stack) : stack[n] \in Screens
    BY <1>0 DEF TypeOK
  <2> QED
    BY <1>1, <1>2, <1>3, <1>4, <2>1 DEF IInv, RobOK, h
<1>11. TabOK'
  BY <1>1, <1>2, <1>3, <1>4 DEF IInv, TabOK, h
<1> QED
  BY <1>2, <1>5, <1>6, <1>7, <1>8, <1>9, <1>10, <1>11 DEF IInv, AlertOffersAnother

\* The geocoder and the towns answer or fail.
LEMMA CheckIInv ==
  ASSUME IInv, NEW c \in Screens,
         TownCheckFails(c) \/ TownsAnswer(c) \/ \E p \in Towns \cup Strange : GeocodeAnswers(c, p)
  PROVE  IInv'
<1>0. TypeOK
  BY DEF IInv
<1>1. /\ UNCHANGED <<layer, navigation, town, fetched, told, changes, failed>>
      /\ phase[c] \in {"geocoding", "towns"} /\ crashed' \in BOOLEAN
  BY <1>0 DEF TownCheckFails, TownsAnswer, GeocodeAnswers, TypeOK
<1>2. UNCHANGED <<permission, prompt, handler, updating, opened, kind, fuels, favorites, tab, stack>>
  BY <1>1 DEF layer, navigation
<1>3. /\ phase' \in [Screens -> Phases] /\ phase'[c] \in {"idle", "towns"}
      /\ \A s \in Screens : s # c => phase'[s] = phase[s]
      /\ city' \in [Screens -> Towns \cup Strange \cup {None}]
      /\ \A s \in Screens : s # c => city'[s] = city[s]
      /\ phase'[c] = "towns" => city'[c] # fetched[c]
  <2>1. CASE TownCheckFails(c) \/ TownsAnswer(c)
    BY <1>0, <2>1 DEF TownCheckFails, TownsAnswer, TypeOK, Phases
  <2>2. ASSUME NEW p \in Towns \cup Strange, GeocodeAnswers(c, p)
        PROVE  /\ phase' \in [Screens -> Phases] /\ phase'[c] \in {"idle", "towns"}
               /\ \A s \in Screens : s # c => phase'[s] = phase[s]
               /\ city' \in [Screens -> Towns \cup Strange \cup {None}]
               /\ \A s \in Screens : s # c => city'[s] = city[s]
               /\ phase'[c] = "towns" => city'[c] # fetched[c]
    BY <1>0, <2>2 DEF GeocodeAnswers, TypeOK, Phases
  <2> QED
    BY <2>1, <2>2
<1>4. /\ alert' \in Towns \cup {None}
      /\ alert' # alert => /\ alert' = city[c] /\ c = fuels /\ Visible(c) /\ phase[c] = "towns"
                           /\ phase'[c] = "idle" /\ alert' \in Towns
  BY <1>0 DEF TownCheckFails, TownsAnswer, GeocodeAnswers, TypeOK
<1>5. TypeOK'
  BY <1>0, <1>1, <1>2, <1>3, <1>4 DEF TypeOK
<1>6. ScreenOK'
  BY <1>0, <1>1, <1>2, <1>3 DEF IInv, ScreenOK, TypeOK
<1>7. StackOK' /\ RobOK' /\ TabOK'
  <2>1. \A n \in 1..Len(stack) : stack[n] \in Screens
    BY <1>0 DEF TypeOK
  <2>2. StackOK'
    BY <1>1, <1>2, <1>3, <2>1 DEF IInv, StackOK
  <2>3. RobOK'
    BY <1>1, <1>2, <1>3, <2>1 DEF IInv, RobOK
  <2>4. TabOK'
    BY <1>1, <1>2, <1>3 DEF IInv, TabOK
  <2> QED
    BY <2>2, <2>3, <2>4
<1>8. SilenceOK'
  BY <1>1, <1>2, <1>3 DEF IInv, SilenceOK
<1>9. (fuels # None => fuels \in Screens) /\ c # None
  BY <1>0, NearbyAssumption DEF TypeOK, Screens
<1>10. AlertOffersAnother'
  BY <1>1, <1>4, <1>9 DEF IInv, AlertOffersAnother, TownOK
<1>11. TownOK'
  <2>1. fuels # None /\ phase'[fuels] \in {"location", "geocoding", "towns"} =>
          fetched[fuels] = town
    BY <1>1, <1>3, <1>9 DEF IInv, TownOK
  <2>2. \A s \in Screens : phase'[s] = "towns" => city'[s] # fetched[s]
    BY <1>3 DEF IInv, TownOK
  <2>3. ASSUME alert' # None PROVE stack = <<>> /\ tab = "fuels" /\ fuels # None /\ phase'[fuels] = "idle"
    <3>1. CASE alert' = alert
      BY <1>1, <1>3, <1>9, <2>3, <3>1 DEF IInv, TownOK
    <3>2. CASE alert' # alert
      <4>1. fuels = c /\ fuels # None /\ phase'[fuels] = "idle" /\ Visible(fuels)
        BY <1>4, <1>9, <3>2
      <4>2. stack = <<>>
        <5>1. SUFFICES ASSUME stack # <<>> PROVE FALSE
          OBVIOUS
        <5>2. fuels = stack[Len(stack)] /\ Len(stack) \in 1..Len(stack)
          BY <1>0, <4>1, <5>1 DEF Visible, TypeOK
        <5> QED
          BY <4>1, <5>2 DEF IInv, StackOK, ScreenOK
      <4>3. tab = "fuels"
        BY <1>0, <4>1, <4>2, NearbyAssumption DEF Visible, IInv, ScreenOK, TypeOK, Screens
      <4> QED
        BY <4>1, <4>2, <4>3
    <3> QED
      BY <3>1, <3>2
  <2> QED
    BY <1>1, <1>2, <2>1, <2>2, <2>3 DEF TownOK
<1> QED
  BY <1>5, <1>6, <1>7, <1>8, <1>10, <1>11 DEF IInv

\* The alert is answered (fetchSelectedTown): nothing is checked then.
LEMMA AlertIInv ==
  ASSUME IInv, AcceptTown \/ CancelTown
  PROVE  IInv'
<1>0. TypeOK /\ None \notin Towns
  BY NearbyAssumption DEF IInv
<1>1. /\ UNCHANGED <<layer, navigation, phase, fetched, city, crashed, told, changes, failed>>
      /\ alert # None /\ alert' = None /\ town' \in {town, alert} /\ alert \in Towns
  BY <1>0 DEF AcceptTown, CancelTown, TypeOK
<1>2. UNCHANGED <<permission, prompt, handler, updating, opened, kind, fuels, favorites, tab, stack>>
  BY <1>1 DEF layer, navigation
<1>3. TypeOK'
  BY <1>0, <1>1, <1>2 DEF TypeOK
<1>4. ScreenOK' /\ StackOK'
  BY <1>1, <1>2 DEF IInv, ScreenOK, StackOK
<1>5. TownOK'
  BY <1>1, <1>2 DEF IInv, TownOK
<1>6. SilenceOK' /\ RobOK' /\ TabOK'
  BY <1>1, <1>2 DEF IInv, SilenceOK, RobOK, TabOK
<1> QED
  BY <1>0, <1>1, <1>3, <1>4, <1>5, <1>6 DEF IInv, AlertOffersAnother, TypeOK

\* Going back, and changing the tab without loading its screen.
LEMMA MoveIInv ==
  ASSUME IInv, Back \/ ShowFavorites \/ (ShowFuels /\ fuels # None)
  PROVE  IInv'
<1>0. TypeOK
  BY DEF IInv
<1>1. /\ UNCHANGED <<layer, opened, kind, fuels, favorites, phase, towns, told, changes, failed>>
      /\ tab' \in {"fuels", "favorites"} /\ alert = None
      /\ stack' = stack \/ (stack # <<>> /\ stack' = SubSeq(stack, 1, Len(stack) - 1))
  BY <1>0 DEF Back, ShowFuels, ShowFavorites, TypeOK, IInv, TownOK, towns
<1>2. UNCHANGED <<permission, prompt, handler, updating, town, fetched, city, alert, crashed>>
  BY <1>1 DEF layer, towns
<1>3. /\ stack' \in Seq(Screens) /\ Len(stack') <= Len(stack)
      /\ \A n \in 1..Len(stack') : n \in 1..Len(stack) /\ stack'[n] = stack[n]
      /\ stack' # stack => Len(stack') < Len(stack)
  <2>1. stack \in Seq(Screens) /\ Len(stack) \in Nat
    BY <1>0 DEF TypeOK
  <2>2. CASE stack' = stack
    BY <2>1, <2>2
  <2>3. CASE stack # <<>> /\ stack' = SubSeq(stack, 1, Len(stack) - 1)
    BY <2>1, <2>3
  <2> QED
    BY <1>1, <2>2, <2>3
<1>4. TypeOK'
  BY <1>0, <1>1, <1>2, <1>3 DEF TypeOK
<1>5. ScreenOK' /\ SilenceOK'
  BY <1>1, <1>2 DEF IInv, ScreenOK, SilenceOK
<1>6. TownOK' /\ AlertOffersAnother'
  BY <1>1, <1>2 DEF IInv, TownOK, AlertOffersAnother
<1>7. Len(stack) \in Nat /\ Len(stack') \in Nat
  BY <1>0, <1>3 DEF TypeOK
<1>8. StackOK'
  BY <1>1, <1>2, <1>3, <1>7 DEF IInv, StackOK
<1>9. RobOK'
  <2>1. CASE stack' = stack
    BY <1>1, <1>2, <2>1 DEF IInv, RobOK
  <2>2. CASE stack' # stack
    BY <1>1, <1>2, <1>3, <1>7, <2>2 DEF IInv, StackOK, RobOK
  <2> QED
    BY <2>1, <2>2
<1>10. TabOK'
  BY <1>1, <1>2 DEF IInv, TabOK
<1> QED
  BY <1>4, <1>5, <1>6, <1>8, <1>9, <1>10 DEF IInv

\* The prices of a search arrive or not, whether it is still there or was left.
LEMMA PricesIInv ==
  ASSUME IInv, NEW c \in Screens, PricesAnswer(c) \/ PricesFail(c)
  PROVE  IInv'
<1>0. TypeOK
  BY DEF IInv
<1>1. /\ UNCHANGED <<navigation, towns, told, changes, failed>>
      /\ phase[c] = "prices" /\ kind[c] = "search" /\ c # None /\ c \in Nat
      /\ phase' = [phase EXCEPT ![c] = phase'[c]] /\ phase'[c] \in {"location", "dead"}
      /\ phase' \in [Screens -> Phases]
      /\ \A s \in Screens : s # c => phase'[s] = phase[s]
  <2>1. kind[c] = "search" /\ phase[c] = "prices"
    BY DEF PricesAnswer, PricesFail, IInv, ScreenOK
  <2> QED
    BY <1>0, <2>1, NearbyAssumption DEF PricesAnswer, PricesFail, TypeOK, Phases, Screens
<1>2. UNCHANGED <<opened, kind, fuels, favorites, tab, stack, town, fetched, city, alert, crashed>>
  BY <1>1 DEF navigation, towns
<1>3. /\ permission' = permission /\ prompt' \in BOOLEAN /\ updating' \in BOOLEAN
      /\ handler' \in {handler, c} /\ (prompt' => prompt \/ permission = "undetermined")
      /\ phase'[c] = "location" =>
           handler' = c /\ (permission = "granted" => updating')
      /\ phase'[c] = "dead" => handler' = handler /\ updating' = updating
  <2>1. CASE PricesAnswer(c)
    <3>1. /\ permission' = permission /\ handler' = c /\ phase'[c] = "location"
          /\ prompt' = (prompt \/ permission = "undetermined")
          /\ updating' = (updating \/ permission = "granted")
      BY <1>0, <2>1 DEF PricesAnswer, getLocation, isLocationEnabled, TypeOK
    <3> QED
      BY <3>1
  <2>2. CASE PricesFail(c)
    BY <1>0, <2>2 DEF PricesFail, layer, TypeOK
  <2> QED
    BY <2>1, <2>2
<1>4. c <= opened
  BY <1>1 DEF IInv, ScreenOK
<1>5. TypeOK'
  BY <1>0, <1>1, <1>2, <1>3 DEF TypeOK
<1>6. ScreenOK'
  <2>1. updating' => phase'[handler'] = "location"
    BY <1>0, <1>1, <1>3 DEF IInv, ScreenOK, TypeOK
  <2> QED
    BY <1>1, <1>2, <1>3, <1>4, <2>1 DEF IInv, ScreenOK
<1>7. TownOK' /\ AlertOffersAnother'
  BY <1>0, <1>1, <1>2 DEF IInv, TownOK, AlertOffersAnother, ScreenOK, TypeOK
<1>8. SilenceOK'
  BY <1>1, <1>2, <1>3 DEF IInv, SilenceOK
<1>9. \A n \in 1..Len(stack) : stack[n] \in Screens
  BY <1>0 DEF TypeOK
<1>10. StackOK'
  BY <1>1, <1>2, <1>9 DEF IInv, StackOK
<1>11. RobOK'
  <2>1. \A n \in 1..Len(stack) : stack[n] = c => n = Len(stack)
    BY <1>0, <1>1 DEF IInv, StackOK, TypeOK
  <2> QED
    BY <1>1, <1>2, <1>3, <1>9, <2>1 DEF IInv, RobOK
<1>12. TabOK'
  BY <1>0, <1>1, <1>2, <1>3 DEF IInv, TabOK, ScreenOK, TypeOK
<1> QED
  BY <1>5, <1>6, <1>7, <1>8, <1>10, <1>11, <1>12 DEF IInv

-----------------------------------------------------------------------------
(* A screen is opened *)

\* A screen of kind k opens in phase p; with "location" it takes the handler.
Opens(k, p) ==
  /\ opened < MaxScreens /\ opened' = opened + 1
  /\ kind' = [kind EXCEPT ![opened'] = k] /\ phase' = [phase EXCEPT ![opened'] = p]
  /\ IF p = "location" THEN getLocation(opened') ELSE UNCHANGED layer
  /\ told \subseteq told' /\ told' \subseteq told \cup {opened'}
  /\ UNCHANGED <<city, alert, crashed, changes, failed>>

\* What a screen may open with: a search looks at the permission before it asks for
\* the prices, a station's screen before it asks for the location.
MayOpen(k, p) ==
  \/ k = "towns" /\ p = "idle"
  \/ k = "fuels" /\ p \in {"idle", "location"}
  \/ k = "favorites" /\ p = "location"
  \/ k = "search" /\ (p = "refused" \/ (p = "prices" /\ isLocationEnabled))
  \/ k = "detail" /\ ((p = "refused" /\ opened' \in told') \/ (p = "location" /\ isLocationEnabled))

\* The new screen is none of the old ones, which stay as they are.
LEMMA FreshScreen ==
  ASSUME IInv, NEW k, NEW p, Opens(k, p), MayOpen(k, p)
  PROVE  /\ opened' \in Screens /\ opened' # None /\ opened' = opened + 1
         /\ kind' \in [Screens -> Kinds] /\ phase' \in [Screens -> Phases]
         /\ kind'[opened'] = k /\ phase'[opened'] = p
         /\ \A s \in Screens : s # opened' => kind'[s] = kind[s] /\ phase'[s] = phase[s]
         /\ \A s \in Screens : s <= opened => s # opened' /\ s <= opened'
         /\ told' \subseteq Screens
<1>1. opened \in 1..MaxScreens /\ MaxScreens \in Nat /\ None \notin 1..MaxScreens
  BY NearbyAssumption DEF IInv, TypeOK, Screens
<1>2. opened' \in Screens /\ opened' # None /\ opened' = opened + 1 /\ opened \in Nat
  BY <1>1 DEF Opens, Screens
<1>3. k \in Kinds /\ p \in Phases
  BY DEF MayOpen, Kinds, Phases
<1>4. kind \in [Screens -> Kinds] /\ phase \in [Screens -> Phases] /\ told \subseteq Screens
  BY DEF IInv, TypeOK
<1>5. /\ kind' = [kind EXCEPT ![opened'] = k] /\ phase' = [phase EXCEPT ![opened'] = p]
      /\ told' \subseteq told \cup {opened'}
  BY DEF Opens
<1>6. \A s \in Screens : s <= opened => s # opened' /\ s <= opened'
  BY <1>1, <1>2 DEF Screens
<1> QED
  BY <1>2, <1>3, <1>4, <1>5, <1>6

\* The location layer when a screen opens.
LEMMA OpenLayer ==
  ASSUME IInv, NEW k, NEW p, Opens(k, p), MayOpen(k, p)
  PROVE  /\ permission' = permission /\ prompt' \in BOOLEAN /\ updating' \in BOOLEAN
         /\ prompt' => prompt \/ permission = "undetermined"
         /\ p = "location" => handler' = opened' /\ (permission = "granted" => updating')
         /\ p # "location" => handler' = handler /\ updating' = updating
<1>0. TypeOK
  BY DEF IInv
<1>1. CASE p = "location"
  <2>1. /\ permission' = permission /\ handler' = opened'
        /\ prompt' = (prompt \/ permission = "undetermined")
        /\ updating' = (updating \/ permission = "granted")
    BY <1>1 DEF Opens, getLocation, isLocationEnabled
  <2> QED
    BY <1>0, <1>1, <2>1 DEF TypeOK
<1>2. CASE p # "location"
  BY <1>0, <1>2 DEF Opens, layer, TypeOK
<1> QED
  BY <1>1, <1>2

\* Whatever else opening does, the screens and the silences stay explained.
LEMMA OpenScreens ==
  ASSUME IInv, NEW k, NEW p, Opens(k, p), MayOpen(k, p),
         fuels' \in {fuels, None} \/ (k = "fuels" /\ fuels' = opened'),
         IF k = "favorites" THEN favorites' = opened' /\ fuels' = None
         ELSE favorites' = favorites
  PROVE  ScreenOK' /\ SilenceOK' /\ TabOK'
<1> USE FreshScreen, OpenLayer
<1>0. TypeOK /\ handler \in Screens /\ favorites \in Screens /\ fuels \in Screens \cup {None}
  BY DEF IInv, TypeOK
<1>1. /\ \A s \in Screens : s # opened' => kind'[s] = kind[s] /\ phase'[s] = phase[s]
      /\ kind'[opened'] = k /\ phase'[opened'] = p /\ opened' \in Screens /\ opened' # None
      /\ \A s \in Screens : s <= opened => s # opened' /\ s <= opened'
      /\ opened' \in Nat
  BY NearbyAssumption DEF Screens
<1>2. fuels' # None => fuels' <= opened' /\ kind'[fuels'] = "fuels"
  BY <1>0, <1>1 DEF IInv, ScreenOK
<1>3. favorites' <= opened' /\ kind'[favorites'] = "favorites"
  BY <1>0, <1>1 DEF IInv, ScreenOK
<1>4. /\ handler' <= opened'
      /\ updating' => phase'[handler'] = "location"
  BY <1>0, <1>1 DEF IInv, ScreenOK
<1>5. /\ k = "fuels" => p \in {"idle", "location", "geocoding", "towns"}
      /\ p \in {"prices", "listed"} => k = "search"
      /\ k # "none"
  BY DEF MayOpen
<1>6. ASSUME NEW s \in Screens
      PROVE  /\ kind'[s] # "none" => s <= opened'
             /\ kind'[s] = "fuels" => phase'[s] \in {"idle", "location", "geocoding", "towns"}
             /\ phase'[s] \in {"prices", "listed"} => kind'[s] = "search"
  <2>1. CASE s = opened'
    BY <1>1, <1>5, <2>1
  <2>2. CASE s # opened'
    BY <1>1, <2>2 DEF IInv, ScreenOK
  <2> QED
    BY <2>1, <2>2
<1>7. ScreenOK'
  BY <1>2, <1>3, <1>4, <1>6 DEF ScreenOK
<1>8. changes' = changes /\ failed' = failed /\ told \subseteq told'
  BY DEF Opens
<1>9. /\ p = "prices" => permission = "granted"
      /\ k = "detail" /\ p = "refused" => opened' \in told'
      /\ k \in {"search", "detail"} /\ p = "location" => permission = "granted"
  BY DEF MayOpen, isLocationEnabled
<1>10. ASSUME NEW s \in Screens
       PROVE  /\ phase'[s] = "prices" => permission' = "granted" \/ changes' > 0
              /\ kind'[s] = "detail" /\ phase'[s] = "refused" => s \in told'
              /\ kind'[s] \in {"search", "detail"} /\ phase'[s] = "location" /\ handler' = s
                   /\ ~updating' => failed' \/ changes' > 0
  <2>1. CASE s = opened'
    BY <1>1, <1>8, <1>9, <2>1
  <2>2. CASE s # opened'
    BY <1>1, <1>8, <2>2 DEF IInv, SilenceOK
  <2> QED
    BY <2>1, <2>2
<1>11. prompt' => permission' = "undetermined"
  BY DEF IInv, SilenceOK
<1>12. TabOK'
  <2>1. SUFFICES ASSUME NEW s \in Screens, s \in {favorites', fuels'}, phase'[s] = "location",
                        handler' # s
                 PROVE  \/ kind'[handler'] = "search"
                        \/ handler' > s /\ kind'[handler'] \in {"fuels", "detail"}
    BY DEF TabOK
  <2>2. s # opened'
    BY <1>1, <2>1
  <2>3. s # None
    BY NearbyAssumption DEF Screens
  <2>4. s \in {favorites, fuels} /\ s <= opened /\ phase[s] = "location"
    BY <1>0, <1>1, <2>1, <2>2, <2>3 DEF IInv, ScreenOK
  <2>5. CASE p = "location"
    <3>1. k \in {"fuels", "detail"}
      BY <2>1, <2>2, <2>3, <2>5 DEF MayOpen
    <3> QED
      BY <1>1, <2>2, <2>4, <2>5, <3>1 DEF Screens
  <2>6. CASE p # "location"
    <3>1. handler' = handler /\ kind'[handler] = kind[handler]
      BY <1>0, <1>1, <2>6 DEF IInv, ScreenOK
    <3> QED
      BY <2>1, <2>4, <3>1 DEF IInv, TabOK
  <2> QED
    BY <2>5, <2>6
<1> QED
  BY <1>7, <1>10, <1>11, <1>12 DEF SilenceOK

\* The list of towns, a search or a station's screen is pushed, on the tab or on a
\* list that is there.
LEMMA PushIInv ==
  ASSUME IInv, NEW k, NEW p, Opens(k, p), MayOpen(k, p), k \in {"towns", "search", "detail"},
         stack # <<>> => phase[stack[Len(stack)]] = "listed", alert = None,
         stack' = Append(stack, opened'), UNCHANGED <<fuels, favorites, tab, towns>>
  PROVE  IInv'
<1> DEFINE c == opened + 1
<1>0. TypeOK /\ stack \in Seq(Screens) /\ Len(stack) \in Nat
  BY DEF IInv, TypeOK
<1>1. /\ \A s \in Screens : s # c => kind'[s] = kind[s] /\ phase'[s] = phase[s]
      /\ kind'[c] = k /\ phase'[c] = p /\ c \in Screens /\ c # None /\ opened' = c
      /\ \A s \in Screens : s <= opened => s # c /\ s <= c
      /\ kind' \in [Screens -> Kinds] /\ phase' \in [Screens -> Phases] /\ told' \subseteq Screens
      /\ c \in Nat
  BY FreshScreen, NearbyAssumption DEF Screens
<1>2. /\ permission' = permission /\ prompt' \in BOOLEAN /\ updating' \in BOOLEAN
      /\ p = "location" => handler' = c
      /\ p # "location" => handler' = handler
  BY <1>1, OpenLayer
<1>3. /\ UNCHANGED <<town, fetched, city, alert, crashed, fuels, favorites, tab, changes, failed>>
  BY DEF towns, Opens
<1>4. /\ stack' \in Seq(Screens) /\ Len(stack') = Len(stack) + 1
      /\ stack'[Len(stack) + 1] = c
      /\ \A n \in 1..Len(stack) : stack'[n] = stack[n] /\ stack[n] \in Screens
  BY <1>0, <1>1, AppendProperties
<1> HIDE DEF c
<1>5. TypeOK'
  BY <1>0, <1>1, <1>2, <1>3, <1>4 DEF TypeOK
<1>6. ScreenOK' /\ SilenceOK' /\ TabOK'
  <2>1. /\ fuels' \in {fuels, None} \/ (k = "fuels" /\ fuels' = opened')
        /\ IF k = "favorites" THEN favorites' = opened' /\ fuels' = None
           ELSE favorites' = favorites
    BY <1>3
  <2> QED
    BY <2>1, OpenScreens, Zenon
<1>7. TownOK' /\ AlertOffersAnother'
  <2>1. fuels # None => fuels \in Screens /\ fuels # c
    BY <1>0, <1>1 DEF IInv, ScreenOK, TypeOK
  <2>2. p # "towns"
    BY DEF MayOpen
  <2>3. \A s \in Screens : phase'[s] = "towns" => city'[s] # fetched'[s]
    BY <1>1, <1>3, <2>2 DEF IInv, TownOK
  <2> QED
    BY <1>1, <1>3, <2>1, <2>3 DEF IInv, TownOK, AlertOffersAnother
<1>8. StackOK'
  <2>1. ASSUME NEW n \in 1..Len(stack')
        PROVE  /\ stack'[n] <= opened' /\ kind'[stack'[n]] \in {"towns", "search", "detail"}
               /\ n < Len(stack') => phase'[stack'[n]] = "listed"
    <3>1. CASE n = Len(stack) + 1
      BY <1>1, <1>4, <3>1
    <3>2. CASE n # Len(stack) + 1
      <4>1. n \in 1..Len(stack)
        BY <1>0, <1>4, <3>2
      <4>2. phase[stack[n]] = "listed"
        <5>1. CASE n < Len(stack)
          BY <4>1, <5>1 DEF IInv, StackOK
        <5>2. CASE n = Len(stack)
          BY <1>0, <4>1, <5>2
        <5> QED
          BY <1>0, <4>1, <5>1, <5>2
      <4>3. stack[n] <= opened /\ kind[stack[n]] \in {"towns", "search", "detail"}
        BY <4>1 DEF IInv, StackOK
      <4> QED
        BY <1>1, <1>4, <4>1, <4>2, <4>3
    <3> QED
      BY <3>1, <3>2
  <2> QED
    BY <2>1 DEF StackOK
<1>9. RobOK'
  BY <1>0, <1>1, <1>2, <1>4 DEF RobOK
<1> QED
  BY <1>5, <1>6, <1>7, <1>8, <1>9 DEF IInv

\* Opening what is pushed.
LEMMA OpenIInv ==
  ASSUME IInv, OpenTowns \/ OpenSearch \/ OpenDetail
  PROVE  IInv'
<1>0. TypeOK
  BY DEF IInv
<1>1. CASE OpenTowns
  <2>1. Opens("towns", "idle") /\ MayOpen("towns", "idle")
    BY <1>1 DEF OpenTowns, Opens, MayOpen, towns
  <2>2. stack = <<>> /\ stack' = Append(stack, opened') /\ alert = None
    BY <1>1 DEF OpenTowns
  <2> QED
    BY <1>1, <2>1, <2>2, PushIInv DEF OpenTowns
<1>2. CASE OpenSearch
  <2>1. PICK p : p = IF isLocationEnabled THEN "prices" ELSE "refused"
    OBVIOUS
  <2>2. Opens("search", p) /\ MayOpen("search", p)
    <3>1. /\ phase' = [phase EXCEPT ![opened'] = p] /\ p \in {"prices", "refused"}
          /\ told' = told \/ told' = told \cup {opened'}
          /\ (p = "prices" => isLocationEnabled)
      BY <1>2, <2>1 DEF OpenSearch, searchFuel
    <3>2. told \subseteq told' /\ told' \subseteq told \cup {opened'}
      BY <3>1
    <3> QED
      BY <1>2, <3>1, <3>2 DEF OpenSearch, Opens, MayOpen, towns
  <2>3. stack = <<>> /\ stack' = Append(stack, opened') /\ alert = None
    BY <1>2 DEF OpenSearch
  <2> QED
    BY <1>2, <2>2, <2>3, PushIInv DEF OpenSearch
<1>3. CASE OpenDetail
  <2>1. PICK p : p = IF isLocationEnabled THEN "location" ELSE "refused"
    OBVIOUS
  <2>2. Opens("detail", p) /\ MayOpen("detail", p)
    <3>1. /\ phase' = [phase EXCEPT ![opened'] = p] /\ p \in {"location", "refused"}
          /\ p = "location" => isLocationEnabled /\ getLocation(opened') /\ told' = told
          /\ p = "refused" => UNCHANGED layer /\ told' = told \cup {opened'}
      BY <1>3, <2>1 DEF OpenDetail, showLocation
    <3>2. told \subseteq told' /\ told' \subseteq told \cup {opened'}
      BY <3>1
    <3>3. MayOpen("detail", p)
      BY <3>1 DEF MayOpen
    <3>4. IF p = "location" THEN getLocation(opened') ELSE UNCHANGED layer
      BY <3>1
    <3> QED
      BY <1>3, <3>1, <3>2, <3>3, <3>4 DEF OpenDetail, Opens, towns
  <2>3. /\ stack # <<>> => phase[stack[Len(stack)]] = "listed"
        /\ stack' = Append(stack, opened') /\ alert = None
    BY <1>3 DEF OpenDetail, IInv, TownOK
  <2> QED
    BY <1>3, <2>2, <2>3, PushIInv DEF OpenDetail
<1> QED
  BY <1>1, <1>2, <1>3

\* A tab is loaded: the fuels the first time they are shown, or the favourites of the
\* tab bar that is built after a town was selected.
LEMMA TabIInv ==
  ASSUME IInv, (ShowFuels /\ fuels = None) \/ \E t \in Towns : ChooseTown(t)
  PROVE  IInv'
<1> DEFINE c == opened + 1
<1>0. TypeOK /\ None \notin Towns
  BY NearbyAssumption DEF IInv
<1>1. /\ alert = None /\ stack' = <<>> /\ alert' = None
      /\ \E k \in {"fuels", "favorites"}, p \in {"idle", "location"} :
           /\ Opens(k, p) /\ MayOpen(k, p) /\ tab' = k
           /\ k = "fuels" => /\ fuels' = opened' /\ UNCHANGED <<favorites, town>>
                             /\ fetched' = [fetched EXCEPT ![opened'] = town]
           /\ k = "favorites" => /\ favorites' = opened' /\ fuels' = None
                                 /\ town' \in Towns /\ UNCHANGED fetched
  <2>1. CASE ShowFuels /\ fuels = None
    <3>1. PICK p : p = IF isLocationEnabled THEN "location" ELSE "idle"
      OBVIOUS
    <3>2. Opens("fuels", p) /\ MayOpen("fuels", p)
      BY <2>1, <3>1 DEF ShowFuels, fetchSelectedTown, Opens, MayOpen
    <3>3. alert = None
      BY <2>1 DEF IInv, TownOK
    <3> QED
      BY <2>1, <3>1, <3>2, <3>3 DEF ShowFuels, fetchSelectedTown
  <2>2. ASSUME NEW t \in Towns, ChooseTown(t)
        PROVE  /\ alert = None /\ stack' = <<>> /\ alert' = None
               /\ Opens("favorites", "location") /\ MayOpen("favorites", "location")
               /\ tab' = "favorites" /\ favorites' = opened' /\ fuels' = None
               /\ town' = t /\ UNCHANGED fetched
    <3>1. Opens("favorites", "location") /\ MayOpen("favorites", "location")
      BY <2>2 DEF ChooseTown, Opens, MayOpen
    <3>2. alert = None
      BY <2>2 DEF ChooseTown, IInv, TownOK
    <3> QED
      BY <2>2, <3>1, <3>2 DEF ChooseTown
  <2> QED
    BY <2>1, <2>2
<1>2. PICK k \in {"fuels", "favorites"}, p \in {"idle", "location"} :
        /\ Opens(k, p) /\ MayOpen(k, p) /\ tab' = k
        /\ k = "fuels" => /\ fuels' = opened' /\ UNCHANGED <<favorites, town>>
                          /\ fetched' = [fetched EXCEPT ![opened'] = town]
        /\ k = "favorites" => /\ favorites' = opened' /\ fuels' = None
                              /\ town' \in Towns /\ UNCHANGED fetched
  BY <1>1
<1>3. /\ \A s \in Screens : s # c => kind'[s] = kind[s] /\ phase'[s] = phase[s]
      /\ kind'[c] = k /\ phase'[c] = p /\ c \in Screens /\ c # None /\ opened' = c
      /\ kind' \in [Screens -> Kinds] /\ phase' \in [Screens -> Phases] /\ told' \subseteq Screens
  BY <1>2, FreshScreen, NearbyAssumption DEF Screens
<1>4. /\ permission' = permission /\ prompt' \in BOOLEAN /\ updating' \in BOOLEAN
      /\ handler' \in {c, handler}
  BY <1>2, <1>3, OpenLayer
<1>5. UNCHANGED <<city, alert, crashed, changes, failed>>
  BY <1>2 DEF Opens
<1> HIDE DEF c
<1>6. town' \in Towns /\ fetched' \in [Screens -> Towns \cup {None}]
  BY <1>0, <1>2, <1>3 DEF TypeOK
<1>7. /\ k = "fuels" => fetched'[c] = town'
      /\ \A s \in Screens : s # c => fetched'[s] = fetched[s]
  BY <1>0, <1>2, <1>3 DEF TypeOK
<1>8. stack' \in Seq(Screens) /\ Len(stack') = 0
  BY <1>1
<1>9. favorites' \in Screens /\ fuels' \in Screens \cup {None} /\ tab' \in {"fuels", "favorites"}
  BY <1>0, <1>2, <1>3 DEF TypeOK
<1>10. TypeOK'
  BY <1>0, <1>3, <1>4, <1>5, <1>6, <1>8, <1>9 DEF TypeOK
<1>11. ScreenOK' /\ SilenceOK' /\ TabOK'
  <2>1. /\ fuels' \in {fuels, None} \/ (k = "fuels" /\ fuels' = opened')
        /\ IF k = "favorites" THEN favorites' = opened' /\ fuels' = None
           ELSE favorites' = favorites
        /\ Opens(k, p) /\ MayOpen(k, p)
    BY <1>2
  <2> QED
    BY <2>1, OpenScreens, Zenon
<1>12. TownOK'
  <2>1. fuels' # None => fuels' = c /\ k = "fuels"
    BY <1>2, <1>3
  <2>2. \A s \in Screens : phase'[s] = "towns" => city'[s] # fetched'[s]
    BY <1>2, <1>3, <1>5, <1>7 DEF IInv, TownOK
  <2> QED
    BY <1>1, <1>7, <2>1, <2>2 DEF TownOK
<1>13. StackOK' /\ RobOK'
  BY <1>8 DEF StackOK, RobOK
<1> QED
  BY <1>0, <1>1, <1>6, <1>10, <1>11, <1>12, <1>13 DEF IInv, AlertOffersAnother

-----------------------------------------------------------------------------
\* Every step keeps the invariant.
LEMMA NextIInv == IInv /\ [Next]_vars => IInv'
<1> SUFFICES ASSUME IInv, [Next]_vars PROVE IInv'
  OBVIOUS
<1>1. CASE AnswerPrompt \/ ChangeSettings \/ LocationFails
  BY <1>1, LayerIInv
<1>2. CASE LocationArrives
  BY <1>2, ArrivesIInv
<1>3. CASE AcceptTown \/ CancelTown
  BY <1>3, AlertIInv
<1>4. CASE OpenTowns \/ OpenSearch \/ OpenDetail
  BY <1>4, OpenIInv
<1>5. CASE Back \/ ShowFuels \/ ShowFavorites
  BY <1>5, MoveIInv, TabIInv
<1>6. CASE \E t \in Towns : ChooseTown(t)
  BY <1>6, TabIInv
<1>7. ASSUME NEW c \in Screens, Screen(c) PROVE IInv'
  BY <1>7, CheckIInv, PricesIInv DEF Screen
<1>8. CASE UNCHANGED vars
  <2>1. /\ UNCHANGED <<permission, prompt, handler, updating, opened, kind, fuels, favorites, tab, stack>>
        /\ UNCHANGED <<town, fetched, city, alert, crashed, phase, told, changes, failed>>
    BY <1>8 DEF vars, layer, navigation, towns
  <2>2. TypeOK' /\ ScreenOK' /\ StackOK'
    BY <2>1 DEF IInv, TypeOK, ScreenOK, StackOK
  <2>3. TownOK' /\ SilenceOK' /\ RobOK' /\ TabOK' /\ AlertOffersAnother'
    BY <2>1 DEF IInv, TownOK, SilenceOK, RobOK, TabOK, AlertOffersAnother
  <2> QED
    BY <2>2, <2>3 DEF IInv
<1> QED
  BY <1>1, <1>2, <1>3, <1>4, <1>5, <1>6, <1>7, <1>8 DEF Next

\* IInv is an invariant.
LEMMA SpecIInv == Spec => []IInv
<1> QED
  BY InitIInv, NextIInv, PTL DEF Spec

\* The variables keep their types.
THEOREM NearbyTypes == Spec => []TypeOK
<1>1. IInv => TypeOK
  BY DEF IInv
<1> QED
  BY <1>1, SpecIInv, PTL

\* The alert never offers the town that is already selected (fetchSelectedTown), for
\* any number of screens and of changes in the settings.
THEOREM AlertOffersAnotherTown == Spec => []AlertOffersAnother
<1>1. IInv => AlertOffersAnother
  BY DEF IInv
<1> QED
  BY <1>1, SpecIInv, PTL

\* A screen that waits in front of the user lost the handler to a search that was
\* left, or is a tab that lost it to a screen opened after it
\* (Repository.getLocation).
THEOREM RobbersKnown == Spec => []RobbersAreKnown
<1>1. ASSUME IInv PROVE RobbersAreKnown
  <2>1. SUFFICES ASSUME NEW c \in Screens, Visible(c), phase[c] = "location", handler # c
                 PROVE  \/ kind[handler] = "search" /\ ~OnStack(handler)
                        \/ stack = <<>> /\ handler > c /\ kind[handler] \in {"fuels", "detail"}
    BY DEF RobbersAreKnown
  <2>2. CASE stack # <<>>
    <3>1. Len(stack) \in 1..Len(stack) /\ stack[Len(stack)] = c
      BY <1>1, <2>1, <2>2 DEF Visible, IInv, TypeOK
    <3> QED
      BY <1>1, <2>1, <3>1 DEF IInv, RobOK, OnStack
  <2>3. CASE stack = <<>>
    <3>1. c \in {favorites, fuels} /\ ~OnStack(handler)
      BY <2>1, <2>3 DEF Visible, OnStack
    <3> QED
      BY <1>1, <2>1, <2>3, <3>1 DEF IInv, TabOK
  <2> QED
    BY <2>2, <2>3
<1> QED
  BY <1>1, SpecIInv, PTL

\* A search or a station's screen is given up on in silence only for the listed
\* reasons (didFailWithError, startGettingLocation, viewDidLoad).
THEOREM SilenceExplained == Spec => []SilenceIsExplained
<1>1. IInv => SilenceIsExplained
  BY DEF IInv, SilenceOK, SilenceIsExplained, GivenUp
<1> QED
  BY <1>1, SpecIInv, PTL
=============================================================================
