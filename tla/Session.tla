------------------------------ MODULE Session ------------------------------
(***************************************************************************)
(* The account session of one MasGas installation: the persisted keys      *)
(* "User" and "Town" of UserDefaults, Firebase's currentUser, Google's     *)
(* saved sign-in, the navigation stack, and the authentication requests    *)
(* whose completions arrive later on the main queue.                       *)
(*                                                                         *)
(* The app decides "is somebody logged in" from the key "User", and every  *)
(* access to the database from currentUser.  The two are written at        *)
(* different moments, by different threads, and the process can be killed  *)
(* in between: that is what this module is about.                          *)
(***************************************************************************)
EXTENDS Naturals, Sequences

CONSTANTS
  Accounts,   \* Firebase uids
  Ids,        \* what a person signs in with: an email, a Google or an Apple ID
  IdOf,       \* the identity an account belongs to
  Provider,   \* the provider of an identity: "password", "google", "apple"
  Mail,       \* the email Firebase reports for an identity, or None
  Slots,      \* BOUND: authentication requests that can be open at once
  MaxKills,   \* BOUND: how often the process is killed
  None        \* nil

ASSUME SessionAssumption ==
  /\ IdOf \in [Accounts -> Ids]
  /\ Provider \in [Ids -> {"password", "google", "apple"}]
  /\ None \notin Accounts /\ None \notin Ids
  /\ MaxKills \in Nat

VARIABLES
  \* The Firebase backend
  acct,         \* [Accounts -> {"unborn", "registered", "deleted"}]
  hasData,      \* the accounts with favourites under users/ that the app has saved
  \* What survives the process: the keychain and UserDefaults
  currentUser,  \* Auth.auth().currentUser
  gid,          \* the identity GIDSignIn would restore
  userKey,      \* UserDefaults "User"
  townKey,      \* UserDefaults "Town" holds a town
  \* The running process
  nav,          \* the view controllers of the window's navigation controller
  appeared,     \* the top controller's viewDidAppear has run
  req,          \* the open authentication requests
  mainQ,        \* their completions, in the order they reached the main queue
  \* History
  kills,
  orphaned,     \* a sign-in finished after its screen had gone, since the last logout
  cut,          \* a kill swallowed the completion of a sign-in, since the last logout
  lost          \* Firebase lost its user without a logout, and nobody signed in since

backend == <<acct, hasData>>
persistent == <<currentUser, gid, userKey, townKey>>
process == <<nav, appeared, req, mainQ>>
history == <<kills, orphaned, cut, lost>>
vars == <<backend, persistent, process, history>>

Screens == {"Login", "SignUp", "TownSelection", "TabBar"}
SignOps == {"signIn", "signUp", "google", "apple"}
Phases == {"idle", "sent", "accepted", "okQueued", "errQueued"}

MailOf(u) == Mail[IdOf[u]]

Idle == [op |-> "none", id |-> None, uid |-> None, live |-> FALSE, phase |-> "idle"]

\* What a request asks, of whom, and how far it has come.  Firebase names the
\* account in its answer.
Request ==
  {r \in [op : SignOps \cup {"delete", "none"}, id : Ids \cup {None},
          uid : Accounts \cup {None}, live : BOOLEAN, phase : Phases] :
     r.phase \in {"accepted", "okQueued"} => r.uid \in Accounts}

-----------------------------------------------------------------------------
(* Navigation *)

Top == nav[Len(nav)]

\* Makes a stack the window's; Login announces itself later, in viewDidAppear.
Show(stack) ==
  /\ nav' = stack
  /\ appeared' = (stack[Len(stack)] # "Login")

\* A completion that still finds the screen of its request is live.  A new root
\* controller (SceneDelegate.changeRootViewController) leaves every open request
\* with a screen that is in no window.
Orphans(rq) == [s \in Slots |-> [rq[s] EXCEPT !.live = FALSE]]

\* A popped SignUp screen orphans the requests it made.
SignUpGone(rq) ==
  [s \in Slots |-> IF rq[s].op = "signUp" THEN [rq[s] EXCEPT !.live = FALSE] ELSE rq[s]]

\* navigationController.popViewController: the root stays.
Pop(rq) ==
  IF Len(nav) > 1
  THEN /\ Show(SubSeq(nav, 1, Len(nav) - 1))
       /\ req' = IF Top = "SignUp" THEN SignUpGone(rq) ELSE rq
  ELSE /\ UNCHANGED <<nav, appeared>>
       /\ req' = rq

ChangeRoot(screen, rq) ==
  /\ Show(<<screen>>)
  /\ req' = Orphans(rq)

\* LoginViewModel.checkTown on behalf of a Login screen that is live or not: the
\* tab bar replaces the root from anywhere, the town list is pushed on the
\* screen's own navigation controller, which an orphan no longer has.
checkTown(live, rq) ==
  IF townKey THEN ChangeRoot("TabBar", rq)
  ELSE IF live THEN Show(Append(nav, "TownSelection")) /\ req' = rq
  ELSE UNCHANGED <<nav, appeared>> /\ req' = rq

-----------------------------------------------------------------------------
(* What the user taps *)

On(screen) == Top = screen /\ appeared

Open(op, i, u) ==
  \E s \in Slots :
    /\ req[s] = Idle
    /\ req' = [req EXCEPT ![s] =
         [op |-> op, id |-> i, uid |-> u, live |-> TRUE, phase |-> "sent"]]

EmailLogin ==
  /\ On("Login")
  /\ \E i \in Ids : Provider[i] = "password" /\ Open("signIn", i, None)
  /\ UNCHANGED <<backend, persistent, history, nav, appeared, mainQ>>

\* With a saved sign-in Google restores it, otherwise the user chooses one; a
\* cancelled choice returns without any effect.
GoogleLogin ==
  /\ On("Login")
  /\ \E i \in Ids :
       /\ Provider[i] = "google"
       /\ gid \in {None, i}
       /\ Open("google", i, None)
       /\ gid' = i
  /\ UNCHANGED <<backend, history, currentUser, userKey, townKey,
                 nav, appeared, mainQ>>

AppleLogin ==
  /\ On("Login")
  /\ \E i \in Ids : Provider[i] = "apple" /\ Open("apple", i, None)
  /\ UNCHANGED <<backend, persistent, history, nav, appeared, mainQ>>

SignUpScreen ==
  /\ On("Login")
  /\ Show(Append(nav, "SignUp"))
  /\ UNCHANGED <<backend, persistent, history, req, mainQ>>

SignUp ==
  /\ On("SignUp")
  /\ \E i \in Ids : Provider[i] = "password" /\ Open("signUp", i, None)
  /\ UNCHANGED <<backend, persistent, history, nav, appeared, mainQ>>

NotNow ==
  /\ On("Login")
  /\ checkTown(TRUE, req)
  /\ UNCHANGED <<backend, persistent, history, mainQ>>

\* The back button or swipe.
Back ==
  /\ Top \in {"SignUp", "TownSelection"}
  /\ Len(nav) > 1
  /\ Pop(req)
  /\ UNCHANGED <<backend, persistent, history, mainQ>>

\* Mutant: viewDidAppear without checkLogin.
LoginDidAppear_NoCheck ==
  /\ Top = "Login" /\ ~appeared
  /\ appeared' = TRUE
  /\ UNCHANGED <<backend, persistent, history, nav, req, mainQ>>

LoginDidAppear ==
  /\ Top = "Login" /\ ~appeared
  /\ IF userKey # None
     THEN checkTown(TRUE, req)
     ELSE appeared' = TRUE /\ UNCHANGED <<nav, req>>
  /\ UNCHANGED <<backend, persistent, history, mainQ>>

SaveTown ==
  /\ On("TownSelection")
  /\ townKey' = TRUE
  /\ ChangeRoot("TabBar", req)
  /\ UNCHANGED <<backend, history, currentUser, gid, userKey, mainQ>>

\* FuelsViewController.selectTown: the town label of the fuels, the second tab.
SelectTown ==
  /\ On("TabBar")
  /\ Show(Append(nav, "TownSelection"))
  /\ UNCHANGED <<backend, persistent, history, req, mainQ>>

\* The option "log in" of the menu, shown when no user is logged.
LoginOption ==
  /\ On("TabBar") /\ userKey = None
  /\ ChangeRoot("Login", req)
  /\ UNCHANGED <<backend, persistent, history, mainQ>>

\* Mutant: saveFavorite without its guard on currentUser.
SaveFavorite_NoGuard ==
  /\ On("TabBar") /\ userKey # None
  /\ hasData' = hasData \cup {currentUser}
  /\ UNCHANGED <<acct, persistent, history, process>>

SaveFavorite ==
  /\ On("TabBar") /\ userKey # None
  /\ currentUser # None
  /\ hasData' = hasData \cup {currentUser}
  /\ UNCHANGED <<acct, persistent, history, process>>

\* AuthenticationLayer.signOut: Google forgets its sign-in, then Firebase its user.
\* Auth.signOut may throw (the keychain); the error is printed.
AuthSignOut(throws) ==
  /\ gid' = IF currentUser # None /\ Provider[IdOf[currentUser]] = "google" THEN None ELSE gid
  /\ currentUser' = IF throws THEN currentUser ELSE None

\* Mutant: "User" survives a logout.
signOut_KeepsUser(throws, rq) ==
  /\ AuthSignOut(throws)
  /\ townKey' = FALSE
  /\ ChangeRoot("Login", rq)
  /\ orphaned' = FALSE /\ cut' = FALSE /\ lost' = FALSE
  /\ UNCHANGED userKey

\* Repository.signOut then wipes UserDefaults, whatever Auth.signOut did, and
\* FuelsViewModel.logout shows Login.
signOut(throws, rq) ==
  /\ AuthSignOut(throws)
  /\ userKey' = None
  /\ townKey' = FALSE
  /\ ChangeRoot("Login", rq)
  /\ orphaned' = FALSE /\ cut' = FALSE /\ lost' = FALSE

Logout ==
  /\ On("TabBar") /\ userKey # None
  /\ \E throws \in BOOLEAN : signOut(throws, req)
  /\ UNCHANGED <<backend, kills, mainQ>>

\* user?.delete: without a current user there is no request and no completion.
DeleteAccount ==
  /\ On("TabBar") /\ userKey # None
  /\ currentUser # None
  /\ Open("delete", None, currentUser)
  /\ UNCHANGED <<backend, persistent, history, nav, appeared, mainQ>>

-----------------------------------------------------------------------------
(* Firebase Auth: external, modelled from how the app uses it *)

\* An existing account signs in; signing up, Google and Apple create one.
Admits(r, u) ==
  CASE r.op = "delete" -> u = r.uid /\ acct[u] = "registered"
    [] r.op = "signIn" -> IdOf[u] = r.id /\ acct[u] = "registered"
    [] r.op = "signUp" ->
         /\ IdOf[u] = r.id /\ acct[u] = "unborn"
         /\ \A v \in Accounts : IdOf[v] = r.id => acct[v] # "registered"
    [] r.op \in {"google", "apple"} ->
         /\ IdOf[u] = r.id
         /\ \/ acct[u] = "registered"
            \/ /\ acct[u] = "unborn"
               /\ \A v \in Accounts : IdOf[v] = r.id => acct[v] # "registered"
    [] OTHER -> FALSE

BackendAccepts(s) ==
  /\ req[s].phase = "sent"
  /\ \E u \in Accounts :
       /\ Admits(req[s], u)
       /\ acct' = [acct EXCEPT ![u] =
            IF req[s].op = "delete" THEN "deleted" ELSE "registered"]
       /\ req' = [req EXCEPT ![s].phase = "accepted", ![s].uid = u]
  /\ UNCHANGED <<hasData, persistent, history, nav, appeared, mainQ>>

\* The answer arrives on a background thread: currentUser changes there, and the
\* completion is dispatched to the main queue.  A deletion signs out only the
\* user it deleted (signOutByForce).
AnswerArrives(s) ==
  /\ req[s].phase = "accepted"
  /\ currentUser' =
       IF req[s].op # "delete" THEN req[s].uid
       ELSE IF currentUser = req[s].uid THEN None
       ELSE currentUser
  /\ req' = [req EXCEPT ![s].phase = "okQueued"]
  /\ lost' = (lost /\ req[s].op = "delete")
  /\ mainQ' = Append(mainQ, s)
  /\ UNCHANGED <<backend, kills, orphaned, cut, gid, userKey, townKey, nav, appeared>>

\* A refusal, a lost request, or a lost answer: an AuthenticationError, whichever.
RequestFails(s) ==
  /\ req[s].phase \in {"sent", "accepted"}
  /\ req' = [req EXCEPT ![s].phase = "errQueued"]
  /\ mainQ' = Append(mainQ, s)
  /\ UNCHANGED <<backend, persistent, history, nav, appeared>>

\* A refresh of the token finds it invalid or expired, or the account disabled:
\* Firebase signs its user out (signOutByForce), and no code of the app runs.
ForcedSignOut ==
  /\ currentUser # None
  /\ currentUser' = None
  /\ lost' = TRUE
  /\ UNCHANGED <<backend, gid, userKey, townKey, process, kills, orphaned, cut>>

-----------------------------------------------------------------------------
(* Completions on the main queue *)

Delivers(s) == mainQ # <<>> /\ Head(mainQ) = s /\ mainQ' = Tail(mainQ)

Closed(s) == [req EXCEPT ![s] = Idle]

\* Mutant: "User" is set only if it is missing.
SignInCompletes_KeepsUser(s) ==
  /\ Delivers(s)
  /\ req[s].op \in SignOps \ {"signUp"} /\ req[s].phase = "okQueued"
  /\ userKey' = IF userKey = None THEN MailOf(req[s].uid) ELSE userKey
  /\ orphaned' = (orphaned \/ ~req[s].live)
  /\ checkTown(req[s].live, Closed(s))
  /\ UNCHANGED <<backend, currentUser, gid, townKey, kills, cut, lost>>

\* emailSignIn, googleSignIn and the Apple delegate: set "User", go on to the town or
\* the tab bar.  The migration check they start is module Migration's subject and
\* changes nothing here.
SignInCompletes(s) ==
  /\ Delivers(s)
  /\ req[s].op \in SignOps \ {"signUp"} /\ req[s].phase = "okQueued"
  /\ userKey' = MailOf(req[s].uid)
  /\ orphaned' = (orphaned \/ ~req[s].live)
  /\ checkTown(req[s].live, Closed(s))
  /\ UNCHANGED <<backend, currentUser, gid, townKey, kills, cut, lost>>

\* emailSignUp: the same, and SignUpViewController.navigateToLogin pops.
SignUpCompletes(s) ==
  /\ Delivers(s)
  /\ req[s].op = "signUp" /\ req[s].phase = "okQueued"
  /\ userKey' = MailOf(req[s].uid)
  /\ orphaned' = (orphaned \/ ~req[s].live)
  /\ IF req[s].live
     THEN Pop(Closed(s))
     ELSE UNCHANGED <<nav, appeared>> /\ req' = Closed(s)
  /\ UNCHANGED <<backend, currentUser, gid, townKey, kills, cut, lost>>

\* An alert, or nothing at all for Apple.
SignInErrs(s) ==
  /\ Delivers(s)
  /\ req[s].op \in SignOps /\ req[s].phase = "errQueued"
  /\ req' = Closed(s)
  /\ UNCHANGED <<backend, persistent, history, nav, appeared>>

\* Mutant: a failed deletion never calls its completion.
DeleteCompletes_OnlyOk(s) ==
  /\ Delivers(s)
  /\ req[s].op = "delete" /\ req[s].phase = "okQueued"
  /\ hasData' = hasData \ {currentUser}
  /\ \E throws \in BOOLEAN : signOut(throws, Closed(s))
  /\ UNCHANGED <<acct, kills>>

\* Mutant: a failed deletion leaves the user where they are.
DeleteCompletes_ErrorStays(s) ==
  /\ Delivers(s)
  /\ req[s].op = "delete"
  /\ \/ /\ req[s].phase = "okQueued"
        /\ hasData' = hasData \ {currentUser}
        /\ \E throws \in BOOLEAN : signOut(throws, Closed(s))
     \/ /\ req[s].phase = "errQueued"
        /\ req' = Closed(s)
        /\ UNCHANGED <<hasData, persistent, nav, appeared, orphaned, cut, lost>>
  /\ UNCHANGED <<acct, kills>>

\* deleteUserData of whoever is the current user now, unless the deletion failed.
DataAfter(s) == IF req[s].phase = "okQueued" THEN hasData \ {currentUser} ELSE hasData

\* deletedAccount ignores the error and logs out.
DeleteCompletes(s) ==
  /\ Delivers(s)
  /\ req[s].op = "delete"
  /\ hasData' = DataAfter(s)
  /\ \E throws \in BOOLEAN : signOut(throws, Closed(s))
  /\ UNCHANGED <<acct, kills>>

-----------------------------------------------------------------------------
(* Launch *)

\* Mutant: the launch does not ask for a town.
LaunchScreen_TownUnchecked == IF userKey = None THEN "Login" ELSE "TabBar"

\* SceneDelegate.scene(_:willConnectTo:options:)
LaunchScreen ==
  IF userKey = None THEN "Login" ELSE IF townKey THEN "TabBar" ELSE "TownSelection"

\* The process is killed and launched again: what it had open is gone.
Killed ==
  /\ kills < MaxKills
  /\ kills' = kills + 1
  /\ cut' = (cut \/ \E s \in Slots : req[s].op \in SignOps /\ req[s].phase = "okQueued")
  /\ Show(<<LaunchScreen>>)
  /\ req' = [s \in Slots |-> Idle]
  /\ mainQ' = <<>>

Relaunch ==
  /\ Killed
  /\ UNCHANGED <<backend, persistent, orphaned, lost>>

\* Killed inside Repository.signOut, which the menu or the completion of a deletion
\* has called: what Google and Firebase have forgotten so far is forgotten, while
\* the keys have not been removed.
KilledInSignOut ==
  /\ \/ On("TabBar") /\ userKey # None /\ UNCHANGED hasData
     \/ /\ mainQ # <<>> /\ req[Head(mainQ)].op = "delete"
        /\ hasData' \in {hasData, DataAfter(Head(mainQ))}
  /\ \/ \E throws \in BOOLEAN : AuthSignOut(throws)
     \/ UNCHANGED <<currentUser, gid>>
  /\ lost' = (lost \/ currentUser' # currentUser)
  /\ Killed
  /\ UNCHANGED <<acct, userKey, townKey, orphaned>>

-----------------------------------------------------------------------------
\* A fresh installation; other installations may have created accounts before.
Init ==
  /\ acct \in [Accounts -> {"unborn", "registered"}]
  /\ \A u, v \in Accounts :
       u # v /\ IdOf[u] = IdOf[v] => ~(acct[u] = "registered" /\ acct[v] = "registered")
  /\ hasData = {}
  /\ currentUser = None /\ gid = None /\ userKey = None /\ townKey = FALSE
  /\ nav = <<"Login">> /\ appeared = FALSE
  /\ req = [s \in Slots |-> Idle] /\ mainQ = <<>>
  /\ kills = 0 /\ orphaned = FALSE /\ cut = FALSE /\ lost = FALSE

User ==
  \/ EmailLogin \/ GoogleLogin \/ AppleLogin \/ SignUpScreen \/ SignUp
  \/ NotNow \/ Back \/ SaveTown \/ SelectTown \/ LoginOption
  \/ SaveFavorite \/ Logout \/ DeleteAccount

Completes(s) ==
  SignInCompletes(s) \/ SignUpCompletes(s) \/ SignInErrs(s) \/ DeleteCompletes(s)

Next ==
  \/ User
  \/ LoginDidAppear
  \/ \E s \in Slots : BackendAccepts(s) \/ AnswerArrives(s) \/ RequestFails(s) \/ Completes(s)
  \/ ForcedSignOut
  \/ Relaunch \/ KilledInSignOut

\* Firebase answers or times out, and the main queue keeps running what it holds.
Fairness ==
  /\ \A s \in Slots :
       /\ WF_vars(BackendAccepts(s) \/ AnswerArrives(s) \/ RequestFails(s))
       /\ WF_vars(Completes(s))
  /\ WF_vars(LoginDidAppear)

Spec == Init /\ [][Next]_vars /\ Fairness

-----------------------------------------------------------------------------
(* Properties *)

\* The variables keep their types.
TypeOK ==
  /\ acct \in [Accounts -> {"unborn", "registered", "deleted"}]
  /\ hasData \subseteq Accounts
  /\ currentUser \in Accounts \cup {None}
  /\ gid \in Ids \cup {None}
  /\ userKey \in {Mail[i] : i \in Ids} \cup {None}
  /\ townKey \in BOOLEAN
  /\ nav \in Seq(Screens) /\ nav # <<>>
  /\ appeared \in BOOLEAN
  /\ req \in [Slots -> Request]
  /\ mainQ \in Seq(Slots)
  /\ kills \in Nat
  /\ orphaned \in BOOLEAN
  /\ cut \in BOOLEAN
  /\ lost \in BOOLEAN

Stacked(screen) == \E k \in 1..Len(nav) : nav[k] = screen

\* The tab bar is in the window only while a town is saved, although a completion
\* that comes late can replace the root and a late deletion wipes the town
\* (checkTown, saveTown, SceneDelegate, Repository.signOut).  Every tab takes
\* the town for granted.
TabBarHasTown == Stacked("TabBar") => townKey

\* Nobody who is logged in is left on the login screen, unless a sign-in finished
\* after its screen had gone: then "User" is set and no viewDidAppear follows
\* (LoginViewController.viewDidAppear, LoginViewModel.checkLogin).
LoginMeansLoggedOut == On("Login") /\ ~orphaned => userKey = None

SignInQueued(u) ==
  \E s \in Slots : /\ req[s].op \in SignOps /\ req[s].phase = "okQueued"
                   /\ req[s].uid = u

\* When "User" is set but Firebase has no user (favourites, the star and the
\* account's deletion then do nothing), the account "User" names was deleted at
\* the backend, unless sign-ins overlapped (one is still queued, was swallowed by
\* a kill, or finished after its screen had gone) or, since the last sign-in,
\* Firebase lost its user by itself or to a kill inside Repository.signOut,
\* between Auth.signOut and the removal of the key.
FlagIsBacked ==
  userKey # None /\ currentUser = None /\ ~orphaned /\ ~cut /\ ~lost =>
    \/ \E u \in Accounts : acct[u] = "deleted" /\ MailOf(u) = userKey
    \/ \E u \in Accounts : SignInQueued(u)

\* The user the screens name and the user whose data is read and written are the
\* same, except while the completion that will make them agree is queued, or
\* after a kill swallowed it (Repository.emailSignIn sets "User" after Firebase
\* has changed currentUser).
SameIdentity ==
  currentUser # None /\ userKey # None /\ MailOf(currentUser) # userKey =>
    SignInQueued(currentUser) \/ cut

\* A deletion that was requested does not stay open: its completion comes, also
\* when it failed, and logs out (AuthenticationLayer.deleteAccount,
\* FuelsViewModel.deletedAccount).
DeletionSettles ==
  \A s \in Slots : (req[s].op = "delete") ~> (req[s].op # "delete")

\* A completed deletion ends the session, whoever the user is by then.
DeletionLogsOut ==
  [][\A s \in Slots :
       req[s].op = "delete" /\ req'[s].op # "delete" /\ kills' = kills =>
         userKey' = None /\ nav' = <<"Login">>]_vars

\* "Se borrarán todos tus datos": when the completion of a deletion that succeeded
\* has run, the account's data is gone (AuthenticationLayer.deleteAccount,
\* deleteUserData).
DeletedDataIsGone ==
  [][\A s \in Slots :
       /\ req[s].op = "delete" /\ req[s].phase = "okQueued"
       /\ req'[s].op # "delete" /\ kills' = kills
       => req[s].uid \notin hasData']_vars
=============================================================================
