--------------------------- MODULE Session_proofs ---------------------------
(***************************************************************************)
(* Proofs about Session, for every set of accounts, every number of        *)
(* requests open at once and every number of kills.                        *)
(***************************************************************************)
EXTENDS Session, SequenceTheorems, TLAPS

\* A non-empty stack of screens has a top.
LEMMA TopFacts ==
  ASSUME NEW stack \in Seq(Screens), stack # <<>>
  PROVE  Len(stack) \in Nat /\ Len(stack) >= 1 /\ stack[Len(stack)] \in Screens
  OBVIOUS

\* Pushing a screen keeps what lies below it.
LEMMA PushFacts ==
  ASSUME NEW stack \in Seq(Screens), NEW x \in Screens
  PROVE  /\ Append(stack, x) \in Seq(Screens)
         /\ Append(stack, x) # <<>>
         /\ Len(Append(stack, x)) = Len(stack) + 1
         /\ Append(stack, x)[Len(stack) + 1] = x
         /\ \A k \in 1..Len(stack) : Append(stack, x)[k] = stack[k]
  OBVIOUS

\* A stack with screens in it is not empty.
LEMMA NonEmpty ==
  ASSUME NEW stack \in Seq(Screens), Len(stack) > 0
  PROVE  stack # <<>>
  OBVIOUS

\* Popping keeps everything but the top.
LEMMA PopFacts ==
  ASSUME NEW stack \in Seq(Screens), Len(stack) > 1,
         NEW rest, rest = SubSeq(stack, 1, Len(stack) - 1)
  PROVE  /\ rest \in Seq(Screens)
         /\ rest # <<>>
         /\ Len(rest) = Len(stack) - 1
         /\ \A k \in 1..Len(rest) : rest[k] = stack[k]
<1>1. /\ rest \in Seq(Screens)
      /\ Len(rest) = Len(stack) - 1
      /\ \A k \in 1..(Len(stack) - 1) : rest[k] = stack[k]
  BY SubSeqProperties
<1>2. Len(rest) > 0
  BY <1>1
<1>3. rest # <<>>
  BY <1>1, <1>2, NonEmpty, Zenon
<1> QED
  BY <1>1, <1>3

\* A one-screen stack.
LEMMA RootFacts ==
  ASSUME NEW x \in Screens
  PROVE  <<x>> \in Seq(Screens) /\ <<x>> # <<>> /\ Len(<<x>>) = 1 /\ <<x>>[1] = x
  OBVIOUS

-----------------------------------------------------------------------------
(* The inductive invariant *)

\* Login and the tab bar are only ever the root, SignUp lies on Login.
StackOK(stack) ==
  /\ stack \in Seq(Screens) /\ stack # <<>>
  /\ \A k \in 1..Len(stack) :
       /\ stack[k] \in {"Login", "TabBar"} => k = 1
       /\ stack[k] = "SignUp" => k = 2

\* A live sign-up request still has its screen in the stack.
LiveIn(rq, stack) ==
  \A s \in Slots : rq[s].op = "signUp" /\ rq[s].live => Len(stack) >= 2 /\ stack[2] = "SignUp"

TownIn(stack, town) == stack[1] = "TabBar" => town

\* The properties of the session and what makes them inductive.
IInv ==
  /\ TypeOK
  /\ StackOK(nav)
  /\ LiveIn(req, nav)
  /\ TownIn(nav, townKey)
  /\ LoginMeansLoggedOut

\* A new root is a legal stack.
LEMMA RootStack ==
  ASSUME NEW x \in Screens, x # "SignUp"
  PROVE  StackOK(<<x>>)
  BY RootFacts DEF StackOK

\* Pushing the town list, or SignUp on Login, gives a legal stack.
LEMMA PushStack ==
  ASSUME NEW stack, StackOK(stack), NEW x \in Screens,
         x = "TownSelection" \/ (x = "SignUp" /\ stack[Len(stack)] = "Login"),
         NEW more, more = Append(stack, x)
  PROVE  /\ StackOK(more)
         /\ more[1] = stack[1]
         /\ more[Len(more)] = x
         /\ Len(stack) >= 2 => Len(more) >= 2 /\ more[2] = stack[2]
<1>1. Len(stack) \in Nat /\ Len(stack) >= 1
  BY TopFacts DEF StackOK
<1>2. /\ more \in Seq(Screens) /\ more # <<>>
      /\ Len(more) = Len(stack) + 1
      /\ more[Len(stack) + 1] = x
      /\ \A k \in 1..Len(stack) : more[k] = stack[k]
  BY PushFacts DEF StackOK
<1>3. ASSUME x = "SignUp" PROVE Len(stack) = 1
  <2>1. stack[Len(stack)] = "Login" /\ Len(stack) \in 1..Len(stack)
    BY <1>1, <1>3
  <2> QED
    BY <2>1, Zenon DEF StackOK
<1>4. ASSUME NEW k \in 1..Len(more)
      PROVE  /\ more[k] \in {"Login", "TabBar"} => k = 1
             /\ more[k] = "SignUp" => k = 2
  <2>1. CASE k \in 1..Len(stack)
    BY <1>2, <2>1 DEF StackOK
  <2>2. CASE k = Len(stack) + 1
    BY <1>2, <1>3, <2>2
  <2> QED
    BY <1>1, <1>2, <2>1, <2>2
<1> QED
  BY <1>1, <1>2, <1>4 DEF StackOK

\* Popping a legal stack gives one, with the same root; a SignUp that was not on
\* top stays.
LEMMA PopStack ==
  ASSUME NEW stack, StackOK(stack), Len(stack) > 1,
         NEW rest, rest = SubSeq(stack, 1, Len(stack) - 1)
  PROVE  /\ StackOK(rest)
         /\ rest[1] = stack[1]
         /\ stack[2] = "SignUp" /\ stack[Len(stack)] # "SignUp" =>
              Len(rest) >= 2 /\ rest[2] = "SignUp"
<1>1. Len(stack) \in Nat
  BY DEF StackOK
<1>2. /\ rest \in Seq(Screens) /\ rest # <<>>
      /\ Len(rest) = Len(stack) - 1
      /\ \A k \in 1..Len(rest) : rest[k] = stack[k]
  BY PopFacts DEF StackOK
<1>3. stack[2] = "SignUp" /\ stack[Len(stack)] # "SignUp" => Len(stack) > 2
  BY <1>1
<1> QED
  BY <1>1, <1>2, <1>3 DEF StackOK

-----------------------------------------------------------------------------
(* What navigation does to the invariant's parts *)

\* An empty request table, a closed request and an orphaned table are tables.
LEMMA RequestFacts ==
  /\ Idle \in Request
  /\ \A rq \in [Slots -> Request] :
       /\ Orphans(rq) \in [Slots -> Request]
       /\ SignUpGone(rq) \in [Slots -> Request]
  BY DEF Idle, Request, SignOps, Phases, Orphans, SignUpGone

\* SceneDelegate.changeRootViewController orphans every request.
LEMMA ChangeRootStep ==
  ASSUME NEW x \in Screens, x # "SignUp", x = "TabBar" => townKey',
         NEW rq \in [Slots -> Request], ChangeRoot(x, rq)
  PROVE  /\ req' \in [Slots -> Request]
         /\ appeared' = (x # "Login")
         /\ nav'[Len(nav')] = x
         /\ StackOK(nav') /\ LiveIn(req', nav') /\ TownIn(nav', townKey')
<1>1. nav' = <<x>> /\ nav'[Len(nav')] = x /\ nav'[1] = x /\ appeared' = (x # "Login")
  BY RootFacts DEF ChangeRoot, Show
<1>2. req' = Orphans(rq) /\ req' \in [Slots -> Request]
  BY RequestFacts DEF ChangeRoot
<1>3. LiveIn(req', nav')
  BY <1>2 DEF LiveIn, Orphans, Request
<1>4. StackOK(nav')
  BY <1>1, RootStack
<1> QED
  BY <1>1, <1>2, <1>3, <1>4 DEF TownIn

\* Pushing a screen keeps live requests live and the root where it is.
LEMMA PushStep ==
  ASSUME StackOK(nav), NEW rq, LiveIn(rq, nav), NEW x \in Screens,
         x = "TownSelection" \/ (x = "SignUp" /\ Top = "Login"),
         Show(Append(nav, x))
  PROVE  /\ appeared' = TRUE
         /\ nav'[Len(nav')] = x /\ nav'[1] = nav[1]
         /\ StackOK(nav') /\ LiveIn(rq, nav')
<1>1. /\ StackOK(nav') /\ nav'[1] = nav[1] /\ nav'[Len(nav')] = x
      /\ Len(nav) >= 2 => Len(nav') >= 2 /\ nav'[2] = nav[2]
  BY PushStack DEF Show, Top
<1>2. appeared' = TRUE
  BY <1>1 DEF Show
<1>3. LiveIn(rq, nav')
  BY <1>1 DEF LiveIn
<1> QED
  BY <1>1, <1>2, <1>3

\* Popping announces Login through viewDidAppear and orphans a popped SignUp.
LEMMA PopStep ==
  ASSUME StackOK(nav), NEW rq \in [Slots -> Request], LiveIn(rq, nav),
         Len(nav) > 1, Pop(rq)
  PROVE  /\ req' \in [Slots -> Request]
         /\ appeared' = (nav'[Len(nav')] # "Login")
         /\ nav'[1] = nav[1]
         /\ StackOK(nav') /\ LiveIn(req', nav')
<1>1. /\ nav' = SubSeq(nav, 1, Len(nav) - 1)
      /\ appeared' = (nav'[Len(nav')] # "Login")
      /\ req' = IF Top = "SignUp" THEN SignUpGone(rq) ELSE rq
  BY DEF Pop, Show
<1>2. /\ StackOK(nav') /\ nav'[1] = nav[1]
      /\ nav[2] = "SignUp" /\ nav[Len(nav)] # "SignUp" =>
           Len(nav') >= 2 /\ nav'[2] = "SignUp"
  BY <1>1, PopStack
<1>3. req' \in [Slots -> Request]
  BY <1>1, RequestFacts
<1>4. LiveIn(req', nav')
  <2>1. CASE Top = "SignUp"
    BY <1>1, <2>1 DEF LiveIn, SignUpGone, Request
  <2>2. CASE Top # "SignUp"
    BY <1>1, <1>2, <2>2 DEF LiveIn, Top
  <2> QED
    BY <2>1, <2>2
<1> QED
  BY <1>1, <1>2, <1>3, <1>4

\* checkTown leaves Login when its screen is live.
LEMMA CheckTownStep ==
  ASSUME StackOK(nav), TownIn(nav, townKey), appeared \in BOOLEAN, townKey' = townKey,
         NEW rq \in [Slots -> Request], LiveIn(rq, nav),
         NEW live \in BOOLEAN, checkTown(live, rq)
  PROVE  /\ req' \in [Slots -> Request]
         /\ appeared' \in BOOLEAN
         /\ live => nav'[Len(nav')] # "Login"
         /\ StackOK(nav') /\ LiveIn(req', nav') /\ TownIn(nav', townKey')
<1>1. CASE townKey
  <2>1. ChangeRoot("TabBar", rq)
    BY <1>1 DEF checkTown
  <2> QED
    BY <1>1, <2>1, ChangeRootStep DEF Screens
<1>2. CASE ~townKey /\ live
  <2>1. Show(Append(nav, "TownSelection")) /\ req' = rq
    BY <1>2 DEF checkTown
  <2> QED
    BY <2>1, PushStep DEF Screens, TownIn
<1>3. CASE ~townKey /\ ~live
  BY <1>3 DEF checkTown
<1> QED
  BY <1>1, <1>2, <1>3

-----------------------------------------------------------------------------
(* The invariant holds initially and every step preserves it *)

\* A fresh installation satisfies the invariant.
LEMMA InitIInv == Init => IInv
<1> SUFFICES ASSUME Init PROVE IInv
  OBVIOUS
<1>1. StackOK(nav) /\ nav[1] = "Login" /\ Top = "Login"
  BY RootStack, RootFacts DEF Init, Screens, Top
<1>2. req \in [Slots -> Request] /\ LiveIn(req, nav)
  BY RequestFacts DEF Init, LiveIn, Idle
<1>3. /\ acct \in [Accounts -> {"unborn", "registered", "deleted"}]
      /\ mainQ \in Seq(Slots)
  BY DEF Init
<1>4. TypeOK
  BY <1>1, <1>2, <1>3 DEF TypeOK, Init, StackOK
<1> QED
  BY <1>1, <1>2, <1>4 DEF IInv, Init, TownIn, LoginMeansLoggedOut, On

\* Opening a request of a screen that is on top keeps the table well-formed.
LEMMA OpenStep ==
  ASSUME TypeOK, LiveIn(req, nav), NEW op \in SignOps \cup {"delete"},
         op = "signUp" => Len(nav) >= 2 /\ nav[2] = "SignUp",
         NEW i \in Ids \cup {None}, NEW u \in Accounts \cup {None}, Open(op, i, u)
  PROVE  req' \in [Slots -> Request] /\ LiveIn(req', nav)
  BY DEF Open, TypeOK, Request, LiveIn, Phases

\* What the user taps preserves the invariant.
LEMMA UserIInv == IInv /\ User => IInv'
<1> SUFFICES ASSUME IInv, User PROVE IInv'
  OBVIOUS
<1> USE DEF IInv, LoginMeansLoggedOut, On, Top
<1>0. TypeOK /\ StackOK(nav) /\ LiveIn(req, nav) /\ TownIn(nav, townKey)
  OBVIOUS
<1>1. CASE EmailLogin
  <2>1. req' \in [Slots -> Request] /\ LiveIn(req', nav)
    BY <1>0, <1>1, OpenStep DEF EmailLogin, SignOps
  <2> QED
    BY <1>0, <1>1, <2>1 DEF EmailLogin, TypeOK, persistent, backend, history
<1>2. CASE GoogleLogin
  <2>1. req' \in [Slots -> Request] /\ LiveIn(req', nav)
    BY <1>0, <1>2, OpenStep DEF GoogleLogin, SignOps
  <2> QED
    BY <1>0, <1>2, <2>1 DEF GoogleLogin, TypeOK, backend, history
<1>3. CASE AppleLogin
  <2>1. req' \in [Slots -> Request] /\ LiveIn(req', nav)
    BY <1>0, <1>3, OpenStep DEF AppleLogin, SignOps
  <2> QED
    BY <1>0, <1>3, <2>1 DEF AppleLogin, TypeOK, persistent, backend, history
<1>4. CASE SignUpScreen
  <2>1. /\ appeared' = TRUE /\ nav'[Len(nav')] = "SignUp" /\ nav'[1] = nav[1]
        /\ StackOK(nav') /\ LiveIn(req, nav')
    BY <1>0, <1>4, PushStep DEF SignUpScreen, Screens
  <2> QED
    BY <1>0, <1>4, <2>1
    DEF SignUpScreen, TypeOK, StackOK, TownIn, persistent, backend, history
<1>5. CASE SignUp
  <2>1. Len(nav) \in 1..Len(nav) /\ nav[Len(nav)] = "SignUp"
    BY <1>0, <1>5, TopFacts DEF SignUp, StackOK
  <2>2. Len(nav) = 2
    BY <1>0, <2>1 DEF StackOK
  <2>3. req' \in [Slots -> Request] /\ LiveIn(req', nav)
    BY <1>0, <1>5, <2>1, <2>2, OpenStep DEF SignUp, SignOps
  <2> QED
    BY <1>0, <1>5, <2>3 DEF SignUp, TypeOK, persistent, backend, history
<1>6. CASE NotNow
  <2>1. checkTown(TRUE, req) /\ townKey' = townKey
    BY <1>6 DEF NotNow, persistent
  <2>2. /\ req' \in [Slots -> Request] /\ appeared' \in BOOLEAN
        /\ nav'[Len(nav')] # "Login"
        /\ StackOK(nav') /\ LiveIn(req', nav') /\ TownIn(nav', townKey')
    BY <1>0, <2>1, CheckTownStep DEF TypeOK
  <2> QED
    BY <1>0, <1>6, <2>2 DEF NotNow, TypeOK, StackOK, persistent, backend, history
<1>7. CASE Back
  <2>1. /\ req' \in [Slots -> Request] /\ appeared' = (nav'[Len(nav')] # "Login")
        /\ nav'[1] = nav[1] /\ StackOK(nav') /\ LiveIn(req', nav')
    BY <1>0, <1>7, PopStep DEF Back, TypeOK
  <2> QED
    BY <1>0, <1>7, <2>1 DEF Back, TypeOK, StackOK, TownIn, persistent, backend, history
<1>8. CASE SaveTown
  <2>1. /\ req' \in [Slots -> Request] /\ appeared' = TRUE
        /\ nav'[Len(nav')] = "TabBar"
        /\ StackOK(nav') /\ LiveIn(req', nav') /\ TownIn(nav', townKey')
    BY <1>0, <1>8, ChangeRootStep DEF SaveTown, TypeOK, Screens
  <2> QED
    BY <1>0, <1>8, <2>1 DEF SaveTown, TypeOK, StackOK, backend, history
<1>9. CASE SelectTown
  <2>1. /\ appeared' = TRUE /\ nav'[Len(nav')] = "TownSelection" /\ nav'[1] = nav[1]
        /\ StackOK(nav') /\ LiveIn(req, nav')
    BY <1>0, <1>9, PushStep DEF SelectTown, Screens
  <2> QED
    BY <1>0, <1>9, <2>1
    DEF SelectTown, TypeOK, StackOK, TownIn, persistent, backend, history
<1>10. CASE LoginOption
  <2>1. /\ req' \in [Slots -> Request] /\ appeared' = FALSE
        /\ StackOK(nav') /\ LiveIn(req', nav') /\ TownIn(nav', townKey')
    BY <1>0, <1>10, ChangeRootStep DEF LoginOption, TypeOK, Screens
  <2> QED
    BY <1>0, <1>10, <2>1 DEF LoginOption, TypeOK, StackOK, persistent, backend, history
<1>11. CASE SaveFavorite
  BY <1>0, <1>11 DEF SaveFavorite, TypeOK, persistent, history, process
<1>12. CASE Logout
  <2>1. PICK throws \in BOOLEAN : signOut(throws, req)
    BY <1>12 DEF Logout
  <2>2. /\ req' \in [Slots -> Request] /\ appeared' = FALSE
        /\ StackOK(nav') /\ LiveIn(req', nav') /\ TownIn(nav', townKey')
    BY <1>0, <2>1, ChangeRootStep DEF signOut, TypeOK, Screens
  <2> QED
    BY <1>0, <1>12, <2>1, <2>2 DEF Logout, signOut, AuthSignOut, TypeOK, StackOK, backend
<1>13. CASE DeleteAccount
  <2>1. req' \in [Slots -> Request] /\ LiveIn(req', nav)
    BY <1>0, <1>13, OpenStep DEF DeleteAccount, TypeOK
  <2> QED
    BY <1>0, <1>13, <2>1 DEF DeleteAccount, TypeOK, persistent, backend, history
<1> QED
  BY <1>1, <1>2, <1>3, <1>4, <1>5, <1>6, <1>7, <1>8, <1>9, <1>10, <1>11, <1>12, <1>13
  DEF User

\* Login's viewDidAppear preserves the invariant.
LEMMA AppearIInv == IInv /\ LoginDidAppear => IInv'
<1> SUFFICES ASSUME IInv, LoginDidAppear PROVE IInv'
  OBVIOUS
<1> USE DEF IInv, LoginMeansLoggedOut, On, Top
<1>0. TypeOK /\ StackOK(nav) /\ LiveIn(req, nav) /\ TownIn(nav, townKey)
  OBVIOUS
<1>1. townKey' = townKey
  BY DEF LoginDidAppear, persistent
<1>2. CASE userKey # None
  <2>1. checkTown(TRUE, req)
    BY <1>2 DEF LoginDidAppear
  <2>2. /\ req' \in [Slots -> Request] /\ appeared' \in BOOLEAN
        /\ nav'[Len(nav')] # "Login"
        /\ StackOK(nav') /\ LiveIn(req', nav') /\ TownIn(nav', townKey')
    BY <1>0, <1>1, <2>1, CheckTownStep DEF TypeOK
  <2> QED
    BY <1>0, <2>2 DEF LoginDidAppear, TypeOK, StackOK, persistent, backend, history
<1>3. CASE userKey = None
  BY <1>0, <1>3 DEF LoginDidAppear, TypeOK, persistent, backend, history
<1> QED
  BY <1>2, <1>3

\* Firebase's steps change neither the screens nor "User".
LEMMA BackendIInv ==
  ASSUME NEW s \in Slots, IInv,
         BackendAccepts(s) \/ AnswerArrives(s) \/ RequestFails(s)
  PROVE  IInv'
<1> USE DEF IInv, LoginMeansLoggedOut, On, Top
<1>0. TypeOK /\ LiveIn(req, nav)
  OBVIOUS
<1>1. CASE BackendAccepts(s)
  <2>1. PICK u \in Accounts :
          /\ acct' = [acct EXCEPT ![u] =
               IF req[s].op = "delete" THEN "deleted" ELSE "registered"]
          /\ req' = [req EXCEPT ![s].phase = "accepted", ![s].uid = u]
    BY <1>1 DEF BackendAccepts
  <2>2. req' \in [Slots -> Request] /\ LiveIn(req', nav)
    <3>1. req' = [req EXCEPT ![s] = [req[s] EXCEPT !.phase = "accepted", !.uid = u]]
      BY <2>1
    <3>2. [req[s] EXCEPT !.phase = "accepted", !.uid = u] \in Request
      BY <1>0 DEF TypeOK, Request, Phases
    <3> QED
      BY <1>0, <3>1, <3>2 DEF TypeOK, Request, LiveIn
  <2>3. acct' \in [Accounts -> {"unborn", "registered", "deleted"}]
    BY <1>0, <2>1 DEF TypeOK
  <2> QED
    BY <1>0, <1>1, <2>2, <2>3 DEF BackendAccepts, TypeOK, persistent, history
<1>2. CASE AnswerArrives(s)
  <2>1. req' \in [Slots -> Request] /\ LiveIn(req', nav)
    <3>1. req' = [req EXCEPT ![s] = [req[s] EXCEPT !.phase = "okQueued"]]
      BY <1>2 DEF AnswerArrives
    <3>2. [req[s] EXCEPT !.phase = "okQueued"] \in Request
      BY <1>0, <1>2 DEF AnswerArrives, TypeOK, Request, Phases
    <3> QED
      BY <1>0, <3>1, <3>2 DEF TypeOK, Request, LiveIn
  <2>2. currentUser' \in Accounts \cup {None}
    BY <1>0, <1>2 DEF AnswerArrives, TypeOK, Request
  <2>3. mainQ' \in Seq(Slots)
    BY <1>0, <1>2 DEF AnswerArrives, TypeOK
  <2> QED
    BY <1>0, <1>2, <2>1, <2>2, <2>3 DEF AnswerArrives, TypeOK, backend
<1>3. CASE RequestFails(s)
  <2>1. req' \in [Slots -> Request] /\ LiveIn(req', nav)
    <3>1. req' = [req EXCEPT ![s] = [req[s] EXCEPT !.phase = "errQueued"]]
      BY <1>3 DEF RequestFails
    <3>2. [req[s] EXCEPT !.phase = "errQueued"] \in Request
      BY <1>0, <1>3 DEF RequestFails, TypeOK, Request, Phases
    <3> QED
      BY <1>0, <3>1, <3>2 DEF TypeOK, Request, LiveIn
  <2>2. mainQ' \in Seq(Slots)
    BY <1>0, <1>3 DEF RequestFails, TypeOK
  <2> QED
    BY <1>0, <1>3, <2>1, <2>2 DEF RequestFails, TypeOK, persistent, backend, history
<1> QED
  BY <1>1, <1>2, <1>3

\* Closing a request keeps the table well-formed.
LEMMA ClosedFacts ==
  ASSUME TypeOK, LiveIn(req, nav), NEW s \in Slots
  PROVE  Closed(s) \in [Slots -> Request] /\ LiveIn(Closed(s), nav)
  BY RequestFacts DEF Closed, TypeOK, LiveIn, Idle

\* Taking a completion off the main queue.
LEMMA DeliversFacts ==
  ASSUME TypeOK, NEW s, Delivers(s)
  PROVE  mainQ' \in Seq(Slots)
  BY DEF Delivers, TypeOK

\* The completions preserve the invariant.
LEMMA CompletesIInv ==
  ASSUME NEW s \in Slots, IInv, Completes(s)
  PROVE  IInv'
<1> USE DEF IInv, LoginMeansLoggedOut, On, Top
<1>0. /\ TypeOK /\ StackOK(nav) /\ LiveIn(req, nav) /\ TownIn(nav, townKey)
      /\ req[s].live \in BOOLEAN /\ req[s].uid \in Accounts \cup {None}
  BY DEF TypeOK, Request
<1>c. Closed(s) \in [Slots -> Request] /\ LiveIn(Closed(s), nav)
  BY <1>0, ClosedFacts
<1>1. CASE SignInCompletes(s)
  <2>1. checkTown(req[s].live, Closed(s)) /\ townKey' = townKey
    BY <1>1 DEF SignInCompletes
  <2>2. /\ req' \in [Slots -> Request] /\ appeared' \in BOOLEAN
        /\ req[s].live => nav'[Len(nav')] # "Login"
        /\ StackOK(nav') /\ LiveIn(req', nav') /\ TownIn(nav', townKey')
    BY <1>0, <1>c, <2>1, CheckTownStep DEF TypeOK
  <2>3. userKey' \in {Mail[i] : i \in Ids}
    BY <1>0, <1>1, SessionAssumption DEF SignInCompletes, TypeOK, Request, MailOf
  <2> QED
    BY <1>0, <1>1, <2>2, <2>3, DeliversFacts DEF SignInCompletes, TypeOK, StackOK, backend
<1>2. CASE SignUpCompletes(s)
  <2>0. userKey' \in {Mail[i] : i \in Ids}
    BY <1>0, <1>2, SessionAssumption DEF SignUpCompletes, TypeOK, Request, MailOf
  <2>1. CASE req[s].live
    <3>1. Len(nav) > 1 /\ Pop(Closed(s))
      BY <1>0, <1>2, <2>1, TopFacts DEF SignUpCompletes, LiveIn, StackOK
    <3>2. /\ req' \in [Slots -> Request] /\ appeared' = (nav'[Len(nav')] # "Login")
          /\ nav'[1] = nav[1] /\ StackOK(nav') /\ LiveIn(req', nav')
      BY <1>0, <1>c, <3>1, PopStep
    <3> QED
      BY <1>0, <1>2, <2>0, <3>2, DeliversFacts
      DEF SignUpCompletes, TypeOK, StackOK, TownIn, backend
  <2>2. CASE ~req[s].live
    BY <1>0, <1>2, <1>c, <2>0, <2>2, DeliversFacts DEF SignUpCompletes, TypeOK, backend
  <2> QED
    BY <2>1, <2>2
<1>3. CASE SignInErrs(s)
  BY <1>0, <1>3, <1>c, DeliversFacts DEF SignInErrs, TypeOK, persistent, backend, history
<1>4. CASE DeleteCompletes(s)
  <2>1. PICK throws \in BOOLEAN : signOut(throws, Closed(s))
    BY <1>4 DEF DeleteCompletes
  <2>2. /\ req' \in [Slots -> Request] /\ appeared' = FALSE
        /\ StackOK(nav') /\ LiveIn(req', nav') /\ TownIn(nav', townKey')
    BY <1>0, <1>c, <2>1, ChangeRootStep DEF signOut, Screens
  <2> QED
    BY <1>0, <1>4, <2>1, <2>2, DeliversFacts
    DEF DeleteCompletes, DataAfter, signOut, AuthSignOut, TypeOK, StackOK
<1> QED
  BY <1>1, <1>2, <1>3, <1>4 DEF Completes

\* Firebase's forced sign-out changes neither the screens nor "User".
LEMMA ForcedIInv == IInv /\ ForcedSignOut => IInv'
  BY DEF ForcedSignOut, IInv, TypeOK, LoginMeansLoggedOut, On, Top, backend, process

\* A kill launches the app with the screen its keys ask for.
LEMMA KilledStep ==
  ASSUME Killed, UNCHANGED <<userKey, townKey>>, kills \in Nat, cut \in BOOLEAN
  PROVE  /\ StackOK(nav') /\ TownIn(nav', townKey')
         /\ req' \in [Slots -> Request] /\ LiveIn(req', nav')
         /\ appeared' \in BOOLEAN /\ mainQ' \in Seq(Slots)
         /\ kills' \in Nat /\ cut' \in BOOLEAN
         /\ nav'[Len(nav')] = "Login" => userKey' = None
<1>1. LaunchScreen \in Screens \ {"SignUp"} /\ (LaunchScreen = "TabBar" => townKey)
      /\ (LaunchScreen = "Login" => userKey = None)
  BY DEF LaunchScreen, Screens
<1>2. /\ StackOK(nav') /\ nav'[1] = LaunchScreen
      /\ nav'[Len(nav')] = LaunchScreen /\ appeared' \in BOOLEAN
  BY <1>1, RootStack, RootFacts DEF Killed, Show
<1>3. req' \in [Slots -> Request] /\ LiveIn(req', nav')
  BY RequestFacts DEF Killed, LiveIn, Idle
<1>4. mainQ' \in Seq(Slots) /\ kills' \in Nat /\ cut' \in BOOLEAN
  BY DEF Killed
<1> QED
  BY <1>1, <1>2, <1>3, <1>4 DEF TownIn

\* So a kill, at rest or inside a logout, preserves the invariant.
LEMMA RelaunchIInv == IInv /\ (Relaunch \/ KilledInSignOut) => IInv'
<1> SUFFICES ASSUME IInv, Relaunch \/ KilledInSignOut PROVE IInv'
  OBVIOUS
<1>1. Killed /\ UNCHANGED <<acct, userKey, townKey, orphaned>> /\ TypeOK
  BY DEF Relaunch, KilledInSignOut, backend, persistent, IInv
<1>2. /\ StackOK(nav') /\ TownIn(nav', townKey')
      /\ req' \in [Slots -> Request] /\ LiveIn(req', nav')
      /\ appeared' \in BOOLEAN /\ mainQ' \in Seq(Slots)
      /\ kills' \in Nat /\ cut' \in BOOLEAN
      /\ nav'[Len(nav')] = "Login" => userKey' = None
  BY <1>1, KilledStep DEF TypeOK
<1>3. /\ hasData' \subseteq Accounts /\ currentUser' \in Accounts \cup {None}
      /\ gid' \in Ids \cup {None} /\ lost' \in BOOLEAN
  BY <1>1 DEF Relaunch, KilledInSignOut, DataAfter, AuthSignOut, backend, persistent, TypeOK
<1>4. TypeOK'
  BY <1>1, <1>2, <1>3 DEF TypeOK, StackOK
<1> QED
  BY <1>2, <1>4 DEF IInv, LoginMeansLoggedOut, On, Top

\* Every step preserves the invariant.
LEMMA NextIInv == IInv /\ [Next]_vars => IInv'
<1> SUFFICES ASSUME IInv, [Next]_vars PROVE IInv'
  OBVIOUS
<1>1. CASE Next
  BY <1>1, UserIInv, AppearIInv, BackendIInv, CompletesIInv, ForcedIInv, RelaunchIInv DEF Next
<1>2. CASE UNCHANGED vars
  BY <1>2 DEF vars, backend, persistent, process, history, IInv, TypeOK, StackOK,
              LiveIn, TownIn, LoginMeansLoggedOut, On, Top
<1> QED
  BY <1>1, <1>2

\* In a legal stack the tab bar can only be the root.
LEMMA TownInMeansTabBarHasTown == StackOK(nav) /\ TownIn(nav, townKey) => TabBarHasTown
  BY DEF StackOK, TownIn, TabBarHasTown, Stacked

-----------------------------------------------------------------------------
(* The identity of the user: an inductive invariant on top of the first *)

\* A sign-in succeeded, and its completion waits on the main queue.
SignDone(s) == req[s].op \in SignOps /\ req[s].phase = "okQueued"

\* A deletion Firebase has accepted has deleted its account.
DeletedOK ==
  \A s \in Slots : req[s].phase \in {"accepted", "okQueued"} =>
    /\ req[s].op # "none"
    /\ req[s].op = "delete" => acct[req[s].uid] = "deleted"

\* The main queue holds answered requests, each once.
QueueOK ==
  /\ \A k \in 1..Len(mainQ) : req[mainQ[k]].phase \in {"okQueued", "errQueued"}
  /\ \A j, k \in 1..Len(mainQ) : mainQ[j] = mainQ[k] => j = k

\* The completion of this sign-in will agree with currentUser, or there is no
\* current user because the account is deleted, the screen is gone or Firebase lost
\* its user.
Settled(s) ==
  \/ req[s].uid = currentUser
  \/ currentUser = None /\ (acct[req[s].uid] = "deleted" \/ ~req[s].live \/ lost)

\* From any queued sign-in on, some queued sign-in is settled: whichever completes
\* last agrees with Firebase.
LastSignInOK ==
  \A k \in 1..Len(mainQ) : SignDone(mainQ[k]) =>
    \E j \in k..Len(mainQ) : SignDone(mainQ[j]) /\ Settled(mainQ[j])

\* What makes SameIdentity and FlagIsBacked inductive.
JInv == DeletedOK /\ QueueOK /\ LastSignInOK /\ SameIdentity /\ FlagIsBacked

\* A step keeps a request, apart from orphaning it.
Kept(s) ==
  /\ req'[s].op = req[s].op /\ req'[s].phase = req[s].phase /\ req'[s].uid = req[s].uid
  /\ req'[s].live => req[s].live

\* A step opens a request in a free slot.
Opened(s) == req[s].op = "none" /\ req[s].phase = "idle" /\ req'[s].phase = "sent"

\* Navigation does no more to a table of requests than orphan some of them.
LEMMA NavigationKeeps ==
  ASSUME NEW rq \in [Slots -> Request],
         \/ \E x \in Screens : ChangeRoot(x, rq)
         \/ Pop(rq)
         \/ \E live \in BOOLEAN : checkTown(live, rq)
         \/ req' = rq,
         NEW s \in Slots
  PROVE  /\ req'[s].op = rq[s].op /\ req'[s].phase = rq[s].phase /\ req'[s].uid = rq[s].uid
         /\ req'[s].live => rq[s].live
<1>1. req' = rq \/ req' = Orphans(rq) \/ req' = SignUpGone(rq)
  BY DEF ChangeRoot, Pop, checkTown
<1> QED
  BY <1>1 DEF Orphans, SignUpGone, Request

\* A closed slot is free, the others keep their requests.
LEMMA ClosedSlot ==
  ASSUME TypeOK, NEW s \in Slots
  PROVE  /\ Closed(s)[s].op = "none" /\ Closed(s)[s].phase = "idle"
         /\ \A r \in Slots \ {s} : Closed(s)[r] = req[r]
  BY DEF TypeOK, Closed, Idle

\* The first of a queue and the rest.
LEMMA TailFacts ==
  ASSUME NEW q \in Seq(Slots), q # <<>>
  PROVE  /\ Len(Tail(q)) = Len(q) - 1 /\ Len(q) \in Nat /\ Len(q) >= 1
         /\ \A k \in 1..Len(Tail(q)) : Tail(q)[k] = q[k + 1]
         /\ Head(q) = q[1]
         /\ \A k \in 1..Len(q) : q[k] \in Slots
  OBVIOUS

\* A queue and what is put at its end.
LEMMA AppendFacts ==
  ASSUME NEW q \in Seq(Slots), NEW s \in Slots
  PROVE  /\ Len(Append(q, s)) = Len(q) + 1 /\ Len(q) \in Nat
         /\ Append(q, s)[Len(q) + 1] = s
         /\ \A k \in 1..Len(q) : Append(q, s)[k] = q[k] /\ q[k] \in Slots
  OBVIOUS

\* A step that leaves the queue alone, opens and orphans requests, and at most signs
\* out with every screen gone.
LEMMA QuietStep ==
  ASSUME TypeOK, DeletedOK, QueueOK, LastSignInOK, UNCHANGED <<mainQ, acct>>,
         \/ UNCHANGED <<currentUser, lost>>
         \/ currentUser' \in {currentUser, None} /\ \A r \in Slots : ~req'[r].live,
         \A r \in Slots : Kept(r) \/ Opened(r)
  PROVE  /\ DeletedOK' /\ QueueOK' /\ LastSignInOK'
         /\ \A u \in Accounts : SignInQueued(u) => SignInQueued(u)'
<1>0. \A k \in 1..Len(mainQ) : mainQ[k] \in Slots
  BY DEF TypeOK
<1>1. \A k \in 1..Len(mainQ) : Kept(mainQ[k])
  BY <1>0 DEF QueueOK, Opened
<1>2. DeletedOK'
  BY DEF DeletedOK, Kept, Opened
<1>3. QueueOK'
  BY <1>1 DEF QueueOK, Kept
<1>4. \A k \in 1..Len(mainQ) : SignDone(mainQ[k])' <=> SignDone(mainQ[k])
  BY <1>1 DEF SignDone, Kept
<1>5. \A k \in 1..Len(mainQ) : Settled(mainQ[k]) => Settled(mainQ[k])'
  BY <1>0, <1>1 DEF Settled, Kept
<1>6. LastSignInOK'
  <2> SUFFICES ASSUME NEW k \in 1..Len(mainQ), SignDone(mainQ[k])'
               PROVE  \E j \in k..Len(mainQ) : SignDone(mainQ[j])' /\ Settled(mainQ[j])'
    BY DEF LastSignInOK
  <2>1. PICK j \in k..Len(mainQ) : SignDone(mainQ[j]) /\ Settled(mainQ[j])
    BY <1>4 DEF LastSignInOK
  <2>2. j \in 1..Len(mainQ)
    BY DEF TypeOK
  <2> QED
    BY <1>4, <1>5, <2>1, <2>2
<1>7. \A u \in Accounts : SignInQueued(u) => SignInQueued(u)'
  BY DEF SignInQueued, Kept, Opened
<1> QED
  BY <1>2, <1>3, <1>6, <1>7

\* A completion is taken off the queue and its slot is freed.
LEMMA DeliverStep ==
  ASSUME TypeOK, DeletedOK, QueueOK, LastSignInOK, NEW s \in Slots, Delivers(s), acct' = acct,
         \/ UNCHANGED <<currentUser, lost>>
         \/ currentUser' \in {currentUser, None} /\ \A r \in Slots : ~req'[r].live,
         \A r \in Slots \ {s} : Kept(r), req'[s].phase = "idle"
  PROVE  /\ DeletedOK' /\ QueueOK' /\ LastSignInOK'
         /\ SignDone(s) =>
              \/ Settled(s)
              \/ \E r \in Slots : SignDone(r)' /\ Settled(r) /\ req'[r].uid = req[r].uid
<1>1. /\ mainQ \in Seq(Slots) /\ mainQ # <<>> /\ Head(mainQ) = s /\ mainQ' = Tail(mainQ)
  BY DEF TypeOK, Delivers
<1>2. /\ Len(mainQ') = Len(mainQ) - 1 /\ Len(mainQ) \in Nat /\ Len(mainQ) >= 1
      /\ \A k \in 1..Len(mainQ') : mainQ'[k] = mainQ[k + 1]
      /\ mainQ[1] = s
      /\ \A k \in 1..Len(mainQ) : mainQ[k] \in Slots
  BY <1>1, TailFacts
<1>3. \A k \in 2..Len(mainQ) : mainQ[k] \in Slots \ {s} /\ Kept(mainQ[k])
  <2> SUFFICES ASSUME NEW k \in 2..Len(mainQ) PROVE mainQ[k] # s
    BY <1>2
  <2>1. 1 \in 1..Len(mainQ) /\ k \in 1..Len(mainQ) /\ k # 1
    BY <1>2
  <2> QED
    BY <1>2, <2>1 DEF QueueOK
<1>4. \A k \in 1..Len(mainQ') : k + 1 \in 2..Len(mainQ) /\ k + 1 \in 1..Len(mainQ)
  BY <1>2
<1>5. DeletedOK'
  BY DEF DeletedOK, Kept
<1>6. QueueOK'
  <2>1. \A k \in 1..Len(mainQ') : req'[mainQ'[k]].phase \in {"okQueued", "errQueued"}
    BY <1>2, <1>3, <1>4 DEF QueueOK, Kept
  <2>2. ASSUME NEW j \in 1..Len(mainQ'), NEW k \in 1..Len(mainQ'), mainQ'[j] = mainQ'[k]
        PROVE  j = k
    <3>1. mainQ[j + 1] = mainQ[k + 1]
      BY <1>2, <2>2
    <3>2. j + 1 = k + 1
      BY <1>4, <3>1 DEF QueueOK
    <3> QED
      BY <1>2, <3>2
  <2> QED
    BY <2>1, <2>2 DEF QueueOK
<1>7. \A k \in 2..Len(mainQ) :
        /\ SignDone(mainQ[k]) <=> req'[mainQ[k]].op \in SignOps /\ req'[mainQ[k]].phase = "okQueued"
        /\ Settled(mainQ[k]) =>
             \/ req'[mainQ[k]].uid = currentUser'
             \/ currentUser' = None /\ (acct'[req'[mainQ[k]].uid] = "deleted" \/ ~req'[mainQ[k]].live \/ lost')
  BY <1>3 DEF SignDone, Settled, Kept
<1>8. LastSignInOK'
  <2> SUFFICES ASSUME NEW k \in 1..Len(mainQ'), SignDone(mainQ[k + 1])
               PROVE  \E j \in k..Len(mainQ') : SignDone(mainQ[j + 1]) /\ Settled(mainQ[j + 1])
    <3> SUFFICES ASSUME NEW k \in 1..Len(mainQ'), SignDone(mainQ[k])'
                 PROVE  \E j \in k..Len(mainQ') : SignDone(mainQ[j])' /\ Settled(mainQ[j])'
      BY DEF LastSignInOK
    <3>1. SignDone(mainQ[k + 1])
      BY <1>2, <1>4, <1>7 DEF SignDone
    <3>2. PICK j \in k..Len(mainQ') : SignDone(mainQ[j + 1]) /\ Settled(mainQ[j + 1])
      BY <3>1
    <3>3. j \in 1..Len(mainQ')
      BY <1>2
    <3>4. mainQ'[j] = mainQ[j + 1] /\ j + 1 \in 2..Len(mainQ)
      BY <1>2, <1>4, <3>3
    <3> QED
      BY <1>7, <3>2, <3>4 DEF SignDone, Settled
  <2>1. k + 1 \in 1..Len(mainQ)
    BY <1>4
  <2>2. PICK j \in (k + 1)..Len(mainQ) : SignDone(mainQ[j]) /\ Settled(mainQ[j])
    BY <2>1 DEF LastSignInOK
  <2>3. j - 1 \in k..Len(mainQ') /\ (j - 1) + 1 = j
    BY <1>2
  <2> QED
    BY <2>2, <2>3
<1>9. ASSUME SignDone(s), ~Settled(s)
      PROVE  \E r \in Slots : SignDone(r)' /\ Settled(r) /\ req'[r].uid = req[r].uid
  <2>1. 1 \in 1..Len(mainQ)
    BY <1>2
  <2>2. PICK j \in 1..Len(mainQ) : SignDone(mainQ[j]) /\ Settled(mainQ[j])
    BY <1>2, <1>9, <2>1 DEF LastSignInOK
  <2>3. j \in 2..Len(mainQ)
    BY <1>2, <1>9, <2>2
  <2> QED
    BY <1>3, <2>2, <2>3 DEF SignDone, Kept
<1> QED
  BY <1>5, <1>6, <1>8, <1>9

\* The two properties survive while neither "User" nor the current user changes and
\* no queued sign-in is lost.
LEMMA IdentityKept ==
  ASSUME TypeOK, SameIdentity, FlagIsBacked, UNCHANGED <<userKey, orphaned, cut, lost, currentUser>>,
         \A u \in Accounts : acct[u] = "deleted" => acct'[u] = "deleted",
         \A u \in Accounts : SignInQueued(u) => SignInQueued(u)'
  PROVE  SameIdentity' /\ FlagIsBacked'
<1>1. SameIdentity'
  BY DEF SameIdentity, TypeOK, MailOf
<1>2. FlagIsBacked'
  BY DEF FlagIsBacked, MailOf
<1> QED
  BY <1>1, <1>2

\* What the user taps, and Login's viewDidAppear, open requests, orphan requests or
\* log out.
LEMMA TapsKeep ==
  ASSUME TypeOK, User \/ LoginDidAppear
  PROVE  /\ \A r \in Slots : Kept(r) \/ Opened(r)
         /\ UNCHANGED <<mainQ, acct, kills>>
         /\ \/ UNCHANGED <<currentUser, userKey, orphaned, cut, lost>>
            \/ /\ currentUser' \in {currentUser, None}
               /\ userKey' = None /\ \A r \in Slots : ~req'[r].live
<1>0. req \in [Slots -> Request]
  BY DEF TypeOK
<1>1. ASSUME NEW op, NEW i, NEW u, Open(op, i, u) PROVE \A r \in Slots : Kept(r) \/ Opened(r)
  BY <1>0, <1>1 DEF Open, Idle, Kept, Opened
<1>2. ASSUME \/ \E x \in Screens : ChangeRoot(x, req)
             \/ Pop(req)
             \/ \E live \in BOOLEAN : checkTown(live, req)
             \/ req' = req
      PROVE  \A r \in Slots : Kept(r)
  BY <1>0, <1>2, NavigationKeeps DEF Kept
<1>3. CASE EmailLogin \/ GoogleLogin \/ AppleLogin \/ SignUp \/ DeleteAccount
  BY <1>1, <1>3 DEF EmailLogin, GoogleLogin, AppleLogin, SignUp, DeleteAccount,
                    backend, persistent, history
<1>4. CASE SignUpScreen \/ SelectTown \/ SaveFavorite
  BY <1>2, <1>4 DEF SignUpScreen, SelectTown, SaveFavorite, backend, persistent, history, process
<1>5. CASE NotNow \/ Back \/ SaveTown \/ LoginOption
  BY <1>2, <1>5 DEF NotNow, Back, SaveTown, LoginOption, backend, persistent, history, Screens
<1>6. CASE LoginDidAppear
  BY <1>2, <1>6 DEF LoginDidAppear, backend, persistent, history
<1>7. CASE Logout
  <2>1. PICK throws \in BOOLEAN : signOut(throws, req)
    BY <1>7 DEF Logout
  <2>2. ChangeRoot("Login", req) /\ userKey' = None
        /\ currentUser' \in {currentUser, None}
    BY <2>1 DEF signOut, AuthSignOut
  <2>3. \A r \in Slots : Kept(r)
    BY <1>2, <2>2 DEF Screens
  <2>4. \A r \in Slots : ~req'[r].live
    BY <1>0, <2>2 DEF ChangeRoot, Orphans, Request
  <2> QED
    BY <1>7, <2>2, <2>3, <2>4 DEF Logout, backend
<1> QED
  BY <1>3, <1>4, <1>5, <1>6, <1>7 DEF User

\* So they preserve the invariant.
LEMMA TapsJInv ==
  ASSUME TypeOK, JInv, User \/ LoginDidAppear
  PROVE  JInv'
<1>1. /\ \A r \in Slots : Kept(r) \/ Opened(r)
      /\ UNCHANGED <<mainQ, acct>>
      /\ \/ UNCHANGED <<currentUser, userKey, orphaned, cut, lost>>
         \/ /\ currentUser' \in {currentUser, None}
            /\ userKey' = None /\ \A r \in Slots : ~req'[r].live
  BY TapsKeep
<1>2. /\ DeletedOK' /\ QueueOK' /\ LastSignInOK'
      /\ \A u \in Accounts : SignInQueued(u) => SignInQueued(u)'
  BY <1>1, QuietStep DEF JInv
<1>3. CASE UNCHANGED <<currentUser, userKey, orphaned, cut, lost>>
  BY <1>1, <1>2, <1>3, IdentityKept DEF JInv
<1>4. CASE userKey' = None
  BY <1>2, <1>4 DEF JInv, SameIdentity, FlagIsBacked
<1> QED
  BY <1>1, <1>3, <1>4

\* Firebase accepts a request: only unborn and registered accounts change.
LEMMA AcceptsJInv ==
  ASSUME TypeOK, JInv, NEW s \in Slots, BackendAccepts(s)
  PROVE  JInv'
<1>1. PICK u \in Accounts :
        /\ Admits(req[s], u)
        /\ acct' = [acct EXCEPT ![u] =
             IF req[s].op = "delete" THEN "deleted" ELSE "registered"]
        /\ req' = [req EXCEPT ![s].phase = "accepted", ![s].uid = u]
  BY DEF BackendAccepts
<1>2. req[s].phase = "sent" /\ UNCHANGED <<mainQ, currentUser, userKey, orphaned, cut, lost>>
  BY DEF BackendAccepts, persistent, history
<1>3. /\ req \in [Slots -> Request] /\ acct \in [Accounts -> {"unborn", "registered", "deleted"}]
      /\ \A k \in 1..Len(mainQ) : mainQ[k] \in Slots
  BY DEF TypeOK
<1>4. acct[u] # "deleted" /\ req[s].op # "none" /\ (req[s].op = "delete" => u = req[s].uid)
  BY <1>1 DEF Admits
<1>5. \A v \in Accounts : acct[v] = "deleted" => acct'[v] = "deleted"
  BY <1>1, <1>3, <1>4
<1>6. /\ \A r \in Slots \ {s} : req'[r] = req[r]
      /\ req'[s].op = req[s].op /\ req'[s].phase = "accepted" /\ req'[s].uid = u
  BY <1>1, <1>3 DEF Request
<1>7. DeletedOK'
  <2>1. req[s].op = "delete" => acct'[u] = "deleted"
    BY <1>1, <1>3
  <2>2. \A r \in Slots : req[r].phase \in {"accepted", "okQueued"} => req[r].uid \in Accounts
    BY <1>3 DEF Request
  <2> QED
    BY <1>4, <1>5, <1>6, <2>1, <2>2 DEF JInv, DeletedOK
<1>8. \A k \in 1..Len(mainQ) : mainQ[k] \in Slots \ {s} /\ req'[mainQ[k]] = req[mainQ[k]]
  BY <1>2, <1>3, <1>6 DEF JInv, QueueOK
<1>9. QueueOK'
  BY <1>2, <1>8 DEF JInv, QueueOK
<1>10. LastSignInOK'
  <2>1. \A k \in 1..Len(mainQ) : req[mainQ[k]].phase = "okQueued" => req[mainQ[k]].uid \in Accounts
    BY <1>3 DEF Request
  <2>2. \A k \in 1..Len(mainQ) : SignDone(mainQ[k]) /\ Settled(mainQ[k]) =>
           \/ req'[mainQ[k]].uid = currentUser
           \/ currentUser = None /\ (acct'[req'[mainQ[k]].uid] = "deleted" \/ ~req'[mainQ[k]].live \/ lost)
    BY <1>5, <1>8, <2>1 DEF SignDone, Settled
  <2> SUFFICES ASSUME NEW k \in 1..Len(mainQ), SignDone(mainQ[k])
               PROVE  \E j \in k..Len(mainQ) : SignDone(mainQ[j]) /\ Settled(mainQ[j])'
    <3>1. \A k \in 1..Len(mainQ) : SignDone(mainQ[k])' <=> SignDone(mainQ[k])
      BY <1>2, <1>8 DEF SignDone
    <3>2. \A k \in 1..Len(mainQ) : \A j \in k..Len(mainQ) : j \in 1..Len(mainQ)
      BY DEF TypeOK
    <3> QED
      BY <1>2, <3>1, <3>2 DEF LastSignInOK
  <2>3. PICK j \in k..Len(mainQ) : SignDone(mainQ[j]) /\ Settled(mainQ[j])
    BY DEF JInv, LastSignInOK
  <2>4. j \in 1..Len(mainQ)
    BY DEF TypeOK
  <2> QED
    BY <1>2, <2>2, <2>3, <2>4 DEF Settled
<1>11. \A v \in Accounts : SignInQueued(v) => SignInQueued(v)'
  BY <1>2, <1>6 DEF SignInQueued
<1>12. SameIdentity' /\ FlagIsBacked'
  BY <1>2, <1>5, <1>11, IdentityKept DEF JInv
<1> QED
  BY <1>7, <1>9, <1>10, <1>12 DEF JInv

\* An answer, good or bad, goes to the end of the main queue.
LEMMA EnqueueStep ==
  ASSUME TypeOK, QueueOK, NEW s \in Slots, req[s].phase \in {"sent", "accepted"},
         NEW x \in {"okQueued", "errQueued"}, req' = [req EXCEPT ![s].phase = x],
         mainQ' = Append(mainQ, s)
  PROVE  /\ QueueOK'
         /\ \A r \in Slots \ {s} : req'[r] = req[r]
         /\ req'[s].op = req[s].op /\ req'[s].uid = req[s].uid /\ req'[s].phase = x
         /\ Len(mainQ') = Len(mainQ) + 1 /\ Len(mainQ) \in Nat
         /\ mainQ'[Len(mainQ) + 1] = s
         /\ \A k \in 1..Len(mainQ) :
              mainQ'[k] = mainQ[k] /\ mainQ[k] \in Slots \ {s} /\ req'[mainQ[k]] = req[mainQ[k]]
<1>1. /\ Len(mainQ') = Len(mainQ) + 1 /\ Len(mainQ) \in Nat
      /\ mainQ'[Len(mainQ) + 1] = s
      /\ \A k \in 1..Len(mainQ) : mainQ'[k] = mainQ[k] /\ mainQ[k] \in Slots
  BY AppendFacts DEF TypeOK
<1>2. /\ \A r \in Slots \ {s} : req'[r] = req[r]
      /\ req'[s].op = req[s].op /\ req'[s].uid = req[s].uid /\ req'[s].phase = x
  BY DEF TypeOK, Request
<1>3. \A k \in 1..Len(mainQ) : mainQ[k] # s
  BY DEF QueueOK
<1>4. \A k \in 1..Len(mainQ') : k \in 1..Len(mainQ) \/ k = Len(mainQ) + 1
  BY <1>1
<1>5. QueueOK'
  BY <1>1, <1>2, <1>3, <1>4 DEF QueueOK
<1> QED
  BY <1>1, <1>2, <1>3, <1>5

\* A good answer: a sign-in that is last in the queue is settled, and a deletion
\* signs out only the account it has deleted.
LEMMA AnswerJInv ==
  ASSUME TypeOK, JInv, NEW s \in Slots, AnswerArrives(s)
  PROVE  JInv'
<1>1. /\ req[s].phase = "accepted" /\ req' = [req EXCEPT ![s].phase = "okQueued"]
      /\ currentUser' = IF req[s].op # "delete" THEN req[s].uid
                        ELSE IF currentUser = req[s].uid THEN None ELSE currentUser
      /\ mainQ' = Append(mainQ, s)
      /\ lost' = (lost /\ req[s].op = "delete")
      /\ UNCHANGED <<acct, userKey, orphaned, cut>>
  BY DEF AnswerArrives, backend
<1>2. /\ QueueOK'
      /\ \A r \in Slots \ {s} : req'[r] = req[r]
      /\ req'[s].op = req[s].op /\ req'[s].uid = req[s].uid /\ req'[s].phase = "okQueued"
      /\ Len(mainQ') = Len(mainQ) + 1 /\ Len(mainQ) \in Nat
      /\ mainQ'[Len(mainQ) + 1] = s
      /\ \A k \in 1..Len(mainQ) :
           mainQ'[k] = mainQ[k] /\ mainQ[k] \in Slots \ {s} /\ req'[mainQ[k]] = req[mainQ[k]]
  BY <1>1, EnqueueStep DEF JInv
<1>3. DeletedOK'
  BY <1>1, <1>2 DEF JInv, DeletedOK
<1>4. req[s].uid \in Accounts /\ req[s].op \in SignOps \cup {"delete", "none"}
  BY <1>1 DEF TypeOK, Request
<1>5. \A u \in Accounts : SignInQueued(u) => SignInQueued(u)'
  BY <1>1, <1>2 DEF SignInQueued
<1>6. CASE req[s].op \in SignOps
  <2>1. currentUser' = req[s].uid
    BY <1>1, <1>6 DEF SignOps
  <2>2. SignDone(mainQ[Len(mainQ)])' /\ Settled(mainQ[Len(mainQ)])'
    <3>1. mainQ'[Len(mainQ')] = s
      BY <1>2
    <3> QED
      BY <1>2, <1>6, <2>1, <3>1 DEF SignDone, Settled
  <2>3. LastSignInOK'
    <3>1. \A k \in 1..Len(mainQ') : Len(mainQ') \in k..Len(mainQ')
      BY <1>2
    <3> QED
      BY <2>2, <3>1 DEF LastSignInOK
  <2>4. SignInQueued(currentUser)' /\ currentUser' # None
    BY <1>2, <1>4, <1>6, <2>1, SessionAssumption DEF SignInQueued
  <2>5. SameIdentity' /\ FlagIsBacked'
    BY <2>4 DEF SameIdentity, FlagIsBacked
  <2> QED
    BY <1>2, <1>3, <2>3, <2>5 DEF JInv
<1>7. CASE req[s].op \notin SignOps
  <2>3. req[s].op = "delete" /\ acct[req[s].uid] = "deleted"
    BY <1>1, <1>4, <1>7 DEF JInv, DeletedOK
  <2>4. currentUser' = IF currentUser = req[s].uid THEN None ELSE currentUser
    BY <1>1, <2>3
  <2>5. ~SignDone(s)'
    BY <1>2, <1>7 DEF SignDone
  <2>l. UNCHANGED lost
    BY <1>1, <2>3 DEF TypeOK
  <2>6. \A k \in 1..Len(mainQ) : Settled(mainQ[k]) =>
           \/ req'[mainQ[k]].uid = currentUser'
           \/ currentUser' = None /\ (acct'[req'[mainQ[k]].uid] = "deleted" \/ ~req'[mainQ[k]].live \/ lost')
    BY <1>1, <1>2, <1>4, <2>3, <2>4, <2>l, SessionAssumption DEF Settled
  <2>7. LastSignInOK'
    <3> SUFFICES ASSUME NEW k \in 1..Len(mainQ'), SignDone(mainQ[k])'
                 PROVE  \E j \in k..Len(mainQ') : SignDone(mainQ[j])' /\ Settled(mainQ[j])'
      BY DEF LastSignInOK
    <3>1. k \in 1..Len(mainQ)
      <4>1. k # Len(mainQ) + 1
        BY <1>2, <2>5 DEF SignDone
      <4> QED
        BY <1>2, <4>1
    <3>2. SignDone(mainQ[k])
      BY <1>2, <3>1 DEF SignDone
    <3>3. PICK j \in k..Len(mainQ) : SignDone(mainQ[j]) /\ Settled(mainQ[j])
      BY <3>1, <3>2 DEF JInv, LastSignInOK
    <3>4. j \in 1..Len(mainQ) /\ j \in k..Len(mainQ')
      BY <1>2, <3>1
    <3> QED
      BY <1>2, <2>6, <3>3, <3>4 DEF SignDone, Settled
  <2>8. SameIdentity'
    BY <1>1, <1>5, <2>4 DEF JInv, SameIdentity, TypeOK, MailOf
  <2>9. FlagIsBacked'
    <3> SUFFICES ASSUME userKey # None, currentUser' = None, ~orphaned, ~cut, ~lost
                 PROVE  \/ \E u \in Accounts : acct[u] = "deleted" /\ MailOf(u) = userKey
                        \/ \E u \in Accounts : SignInQueued(u)'
      BY <1>1, <2>l DEF FlagIsBacked, MailOf
    <3>1. CASE currentUser = None
      BY <1>5, <3>1 DEF JInv, FlagIsBacked
    <3>2. CASE currentUser # None
      <4>1. currentUser = req[s].uid
        BY <2>4, <3>2
      <4> QED
        BY <1>4, <1>5, <2>3, <3>2, <4>1 DEF JInv, SameIdentity
    <3> QED
      BY <3>1, <3>2
  <2> QED
    BY <1>2, <1>3, <2>7, <2>8, <2>9 DEF JInv
<1> QED
  BY <1>6, <1>7

\* A failed request only takes a place in the queue.
LEMMA FailsJInv ==
  ASSUME TypeOK, JInv, NEW s \in Slots, RequestFails(s)
  PROVE  JInv'
<1>1. /\ req[s].phase \in {"sent", "accepted"} /\ req' = [req EXCEPT ![s].phase = "errQueued"]
      /\ mainQ' = Append(mainQ, s)
      /\ UNCHANGED <<acct, currentUser, userKey, orphaned, cut, lost>>
  BY DEF RequestFails, backend, persistent, history
<1>2. /\ QueueOK'
      /\ \A r \in Slots \ {s} : req'[r] = req[r]
      /\ req'[s].op = req[s].op /\ req'[s].uid = req[s].uid /\ req'[s].phase = "errQueued"
      /\ Len(mainQ') = Len(mainQ) + 1 /\ Len(mainQ) \in Nat
      /\ mainQ'[Len(mainQ) + 1] = s
      /\ \A k \in 1..Len(mainQ) :
           mainQ'[k] = mainQ[k] /\ mainQ[k] \in Slots \ {s} /\ req'[mainQ[k]] = req[mainQ[k]]
  BY <1>1, EnqueueStep DEF JInv
<1>3. DeletedOK'
  BY <1>1, <1>2 DEF JInv, DeletedOK
<1>4. LastSignInOK'
  <2> SUFFICES ASSUME NEW k \in 1..Len(mainQ'), SignDone(mainQ[k])'
               PROVE  \E j \in k..Len(mainQ') : SignDone(mainQ[j])' /\ Settled(mainQ[j])'
    BY DEF LastSignInOK
  <2>1. k \in 1..Len(mainQ)
    <3>1. k # Len(mainQ) + 1
      BY <1>2 DEF SignDone
    <3> QED
      BY <1>2, <3>1
  <2>2. SignDone(mainQ[k])
    BY <1>2, <2>1 DEF SignDone
  <2>3. PICK j \in k..Len(mainQ) : SignDone(mainQ[j]) /\ Settled(mainQ[j])
    BY <2>1, <2>2 DEF JInv, LastSignInOK
  <2>4. j \in 1..Len(mainQ) /\ j \in k..Len(mainQ')
    BY <1>2, <2>1
  <2> QED
    BY <1>1, <1>2, <2>3, <2>4 DEF SignDone, Settled
<1>5. \A u \in Accounts : SignInQueued(u) => SignInQueued(u)'
  BY <1>1, <1>2 DEF SignInQueued
<1>6. SameIdentity' /\ FlagIsBacked'
  BY <1>1, <1>5, IdentityKept DEF JInv
<1> QED
  BY <1>2, <1>3, <1>4, <1>6 DEF JInv

\* What a completion does to the table of requests.
LEMMA CompletionKeeps ==
  ASSUME TypeOK, NEW s \in Slots, Completes(s)
  PROVE  /\ \A r \in Slots \ {s} : Kept(r)
         /\ req'[s].phase = "idle" /\ Delivers(s) /\ UNCHANGED <<acct, kills>>
<1>1. Closed(s) \in [Slots -> Request]
  BY RequestFacts DEF TypeOK, Closed
<1>2. /\ Delivers(s) /\ UNCHANGED <<acct, kills>>
      /\ \/ ChangeRoot("Login", Closed(s))
         \/ Pop(Closed(s))
         \/ checkTown(req[s].live, Closed(s))
         \/ req' = Closed(s)
  BY DEF Completes, SignInCompletes, SignUpCompletes, SignInErrs, DeleteCompletes, signOut,
         backend, history
<1>3. "Login" \in Screens /\ req[s].live \in BOOLEAN
  BY DEF Screens, TypeOK, Request
<1>4. \A r \in Slots :
        /\ req'[r].op = Closed(s)[r].op /\ req'[r].phase = Closed(s)[r].phase
        /\ req'[r].uid = Closed(s)[r].uid /\ (req'[r].live => Closed(s)[r].live)
  BY <1>1, <1>2, <1>3, NavigationKeeps
<1> QED
  BY <1>2, <1>4, ClosedSlot DEF Kept

\* The completion of a sign-in makes "User" and the current user agree, or another
\* one is still queued that will.
LEMMA SignInDoneJInv ==
  ASSUME TypeOK, JInv, NEW s \in Slots, SignInCompletes(s) \/ SignUpCompletes(s)
  PROVE  JInv'
<1>1. /\ SignDone(s) /\ userKey' = MailOf(req[s].uid)
      /\ orphaned' = (orphaned \/ ~req[s].live)
      /\ UNCHANGED <<acct, currentUser, cut, lost>> /\ Completes(s)
  BY DEF SignInCompletes, SignUpCompletes, SignDone, backend, SignOps, Completes
<1>2. /\ \A r \in Slots \ {s} : Kept(r)
      /\ req'[s].phase = "idle" /\ Delivers(s)
  BY <1>1, CompletionKeeps
<1>3. /\ DeletedOK' /\ QueueOK' /\ LastSignInOK'
      /\ \/ Settled(s)
         \/ \E r \in Slots : SignDone(r)' /\ Settled(r) /\ req'[r].uid = req[r].uid
  BY <1>1, <1>2, DeliverStep DEF JInv
<1>4. req[s].uid \in Accounts
  BY <1>1 DEF SignDone, TypeOK, Request
<1>5. \A r \in Slots : SignDone(r)' /\ req'[r].uid = req[r].uid => req[r].uid \in Accounts
  <2>1. \A r \in Slots \ {s} : req[r].phase = "okQueued" => req[r].uid \in Accounts
    BY DEF TypeOK, Request
  <2> QED
    BY <1>2, <2>1 DEF Kept, SignDone
<1>6. SameIdentity'
  <2>1. CASE Settled(s)
    BY <1>1, <2>1 DEF Settled, SameIdentity, MailOf
  <2>2. ASSUME NEW r \in Slots, SignDone(r)', Settled(r), req'[r].uid = req[r].uid
        PROVE  SameIdentity'
    <3>1. currentUser # None => req'[r].uid = currentUser
      BY <2>2 DEF Settled
    <3> QED
      BY <1>1, <2>2, <3>1 DEF SameIdentity, SignInQueued, SignDone
  <2> QED
    BY <1>3, <2>1, <2>2
<1>7. FlagIsBacked'
  <2> SUFFICES ASSUME currentUser = None, req[s].live, ~lost
               PROVE  \/ \E u \in Accounts : acct[u] = "deleted" /\ MailOf(u) = userKey'
                      \/ \E u \in Accounts : SignInQueued(u)'
    <3>1. req[s].live \in BOOLEAN
      BY DEF TypeOK, Request
    <3> QED
      BY <1>1, <3>1 DEF FlagIsBacked, MailOf
  <2>1. CASE Settled(s)
    BY <1>1, <1>4, <2>1, SessionAssumption DEF Settled
  <2>2. ASSUME NEW r \in Slots, SignDone(r)', req'[r].uid = req[r].uid
        PROVE  \E u \in Accounts : SignInQueued(u)'
    BY <1>5, <2>2 DEF SignDone, SignInQueued
  <2> QED
    BY <1>3, <2>1, <2>2
<1> QED
  BY <1>3, <1>6, <1>7 DEF JInv

\* The other completions: an error changes nothing, a deletion logs out.
LEMMA OtherDoneJInv ==
  ASSUME TypeOK, JInv, NEW s \in Slots, SignInErrs(s) \/ DeleteCompletes(s)
  PROVE  JInv'
<1>1. /\ \A r \in Slots \ {s} : Kept(r)
      /\ req'[s].phase = "idle" /\ Delivers(s) /\ acct' = acct
  BY CompletionKeeps DEF Completes
<1>2. CASE SignInErrs(s)
  <2>1. UNCHANGED <<currentUser, userKey, orphaned, cut, lost>> /\ req[s].phase = "errQueued"
    BY <1>2 DEF SignInErrs, persistent, history
  <2>2. DeletedOK' /\ QueueOK' /\ LastSignInOK'
    BY <1>1, <2>1, DeliverStep DEF JInv
  <2>3. \A u \in Accounts : SignInQueued(u) => SignInQueued(u)'
    BY <1>1, <2>1 DEF SignInQueued, Kept
  <2>4. SameIdentity' /\ FlagIsBacked'
    BY <1>1, <2>1, <2>3, IdentityKept DEF JInv
  <2> QED
    BY <2>2, <2>4 DEF JInv
<1>3. CASE DeleteCompletes(s)
  <2>1. PICK throws \in BOOLEAN : signOut(throws, Closed(s))
    BY <1>3 DEF DeleteCompletes
  <2>2. ChangeRoot("Login", Closed(s)) /\ userKey' = None
        /\ currentUser' \in {currentUser, None}
    BY <2>1 DEF signOut, AuthSignOut
  <2>3. Closed(s) \in [Slots -> Request]
    BY RequestFacts DEF TypeOK, Closed
  <2>4. \A r \in Slots : ~req'[r].live
    BY <2>2, <2>3 DEF ChangeRoot, Orphans, Request
  <2>5. DeletedOK' /\ QueueOK' /\ LastSignInOK'
    BY <1>1, <2>2, <2>4, DeliverStep DEF JInv
  <2> QED
    BY <2>2, <2>5 DEF JInv, SameIdentity, FlagIsBacked
<1> QED
  BY <1>2, <1>3

\* A forced sign-out is remembered until somebody signs in or logs out.
LEMMA ForcedJInv ==
  ASSUME TypeOK, JInv, ForcedSignOut
  PROVE  JInv'
<1>1. currentUser' = None /\ lost' = TRUE /\ UNCHANGED <<acct, req, mainQ>>
  BY DEF ForcedSignOut, backend, process
<1>2. DeletedOK' /\ QueueOK'
  BY <1>1 DEF JInv, DeletedOK, QueueOK
<1>3. LastSignInOK'
  <2>1. \A k \in 1..Len(mainQ) : k \in k..Len(mainQ)
    BY DEF TypeOK
  <2> QED
    BY <1>1, <2>1 DEF LastSignInOK, Settled
<1> QED
  BY <1>1, <1>2, <1>3 DEF JInv, SameIdentity, FlagIsBacked

\* A kill that swallows a queued sign-in, or comes inside a logout, is remembered.
LEMMA RelaunchJInv ==
  ASSUME TypeOK, JInv, Relaunch \/ KilledInSignOut
  PROVE  JInv'
<1>1. /\ req' = [s \in Slots |-> Idle] /\ mainQ' = <<>> /\ Len(mainQ') = 0
      /\ UNCHANGED <<acct, userKey, orphaned>>
      /\ currentUser' \in {currentUser, None}
      /\ lost' = (lost \/ currentUser' # currentUser)
  BY DEF Relaunch, KilledInSignOut, Killed, AuthSignOut, backend, persistent, TypeOK
<1>2. cut' = (cut \/ \E s \in Slots : SignDone(s))
  BY DEF Relaunch, KilledInSignOut, Killed, SignDone
<1>3. DeletedOK' /\ QueueOK' /\ LastSignInOK'
  BY <1>1 DEF DeletedOK, QueueOK, LastSignInOK, Idle
<1>4. \A u \in Accounts : SignInQueued(u) => cut'
  BY <1>2 DEF SignInQueued, SignDone
<1>5. SameIdentity'
  BY <1>1, <1>2, <1>4 DEF JInv, SameIdentity, TypeOK, MailOf
<1>6. FlagIsBacked'
  BY <1>1, <1>2, <1>4 DEF JInv, FlagIsBacked, MailOf
<1> QED
  BY <1>3, <1>5, <1>6 DEF JInv

\* The two invariants hold in every behaviour.
LEMMA SessionInvariant == Spec => [](IInv /\ JInv)
<1>1. Init => JInv
  BY DEF Init, JInv, DeletedOK, QueueOK, LastSignInOK, SameIdentity, FlagIsBacked, Idle
<1>2. IInv /\ JInv /\ [Next]_vars => JInv'
  <2> SUFFICES ASSUME TypeOK, JInv, [Next]_vars PROVE JInv'
    BY DEF IInv
  <2>1. CASE User \/ LoginDidAppear
    BY <2>1, TapsJInv
  <2>2. ASSUME NEW s \in Slots,
               BackendAccepts(s) \/ AnswerArrives(s) \/ RequestFails(s) \/ Completes(s)
        PROVE  JInv'
    BY <2>2, AcceptsJInv, AnswerJInv, FailsJInv, SignInDoneJInv, OtherDoneJInv DEF Completes
  <2>3. CASE ForcedSignOut \/ Relaunch \/ KilledInSignOut
    BY <2>3, ForcedJInv, RelaunchJInv
  <2>4. CASE UNCHANGED vars
    BY <2>4 DEF vars, backend, persistent, process, history, JInv, DeletedOK, QueueOK,
                LastSignInOK, SignDone, Settled, SameIdentity, FlagIsBacked, SignInQueued, MailOf
  <2> QED
    BY <2>1, <2>2, <2>3, <2>4 DEF Next
<1> QED
  BY InitIInv, NextIInv, <1>1, <1>2, PTL DEF Spec

-----------------------------------------------------------------------------
(* Theorems *)

\* The session keeps its types: requests, screens and keys stay well-formed in
\* every interleaving of taps, answers, completions and kills.
THEOREM SessionTypes == Spec => []TypeOK
<1>1. IInv => TypeOK
  BY DEF IInv
<1> QED
  BY InitIInv, NextIInv, <1>1, PTL DEF Spec

\* The tab bar is never shown without a saved town.
THEOREM TabBarNeedsTown == Spec => []TabBarHasTown
<1>1. IInv => TabBarHasTown
  BY TownInMeansTabBarHasTown DEF IInv
<1> QED
  BY InitIInv, NextIInv, <1>1, PTL DEF Spec

\* A logged user is not left on the login screen, unless a sign-in finished after
\* its screen had gone.
THEOREM LoginScreenIsForLoggedOut == Spec => []LoginMeansLoggedOut
<1>1. IInv => LoginMeansLoggedOut
  BY DEF IInv
<1> QED
  BY InitIInv, NextIInv, <1>1, PTL DEF Spec

\* The user the screens name is the user whose data is read and written, but for the
\* completion that is queued or was swallowed by a kill, however many sign-ins,
\* deletions and logouts overlap (emailSignIn, googleSignIn, signOut).
THEOREM OneIdentity == Spec => []SameIdentity
<1>1. JInv => SameIdentity
  BY DEF JInv
<1> QED
  BY SessionInvariant, <1>1, PTL

\* "User" without a Firebase user names a deleted account, or sign-ins overlapped, or
\* Firebase lost its user by itself or to a kill inside a logout
\* (AuthenticationLayer.signOut, Repository.signOut, UserDefaults "User").
THEOREM FlagNeedsUser == Spec => []FlagIsBacked
<1>1. JInv => FlagIsBacked
  BY DEF JInv
<1> QED
  BY SessionInvariant, <1>1, PTL

\* A deletion's request is closed only by the completion that logs out, or by a kill
\* (FuelsViewModel.deletedAccount).
THEOREM DeletionEndsSession == Spec => DeletionLogsOut
<1>1. IInv /\ [Next]_vars =>
        [\A s \in Slots :
           req[s].op = "delete" /\ req'[s].op # "delete" /\ kills' = kills =>
             userKey' = None /\ nav' = <<"Login">>]_vars
  <2> SUFFICES ASSUME TypeOK, Next, NEW s \in Slots,
                      req[s].op = "delete", req'[s].op # "delete", kills' = kills
               PROVE  userKey' = None /\ nav' = <<"Login">>
    BY DEF IInv
  <2>0. req \in [Slots -> Request] /\ kills \in Nat
    BY DEF TypeOK
  <2>1. ~(User \/ LoginDidAppear)
    BY TapsKeep DEF Kept, Opened
  <2>2. ASSUME NEW r \in Slots PROVE ~BackendAccepts(r)
    <3> SUFFICES ASSUME BackendAccepts(r) PROVE FALSE
      OBVIOUS
    <3>1. PICK u \in Accounts : req' = [req EXCEPT ![r].phase = "accepted", ![r].uid = u]
      BY DEF BackendAccepts
    <3> QED
      BY <2>0, <3>1 DEF Request
  <2>3. ASSUME NEW r \in Slots PROVE ~AnswerArrives(r) /\ ~RequestFails(r)
    BY <2>0 DEF AnswerArrives, RequestFails, Request
  <2>4. ~ForcedSignOut /\ ~Relaunch /\ ~KilledInSignOut
    BY <2>0 DEF ForcedSignOut, process, Relaunch, KilledInSignOut, Killed
  <2>5. PICK r \in Slots : Completes(r)
    BY <2>1, <2>2, <2>3, <2>4 DEF Next
  <2>6. r = s
    BY <2>5, CompletionKeeps DEF Kept
  <2>7. DeleteCompletes(s)
    BY <2>5, <2>6 DEF Completes, SignInCompletes, SignUpCompletes, SignInErrs, SignOps
  <2> QED
    BY <2>7 DEF DeleteCompletes, signOut, ChangeRoot, Show
<1> QED
  BY SessionInvariant, <1>1, PTL DEF Spec, DeletionLogsOut
=============================================================================
