----------------------------- MODULE Migration -----------------------------
(***************************************************************************)
(* The migration of a user's favourites from the node named after the      *)
(* email (up to its first dot) to users/<uid>, which every sign-in starts: *)
(* RemoteDataStore.checkUserMigration, migrateUserData, deleteOldUserData. *)
(*                                                                         *)
(* The app talks to Firebase's Realtime Database over one connection that  *)
(* serves requests and delivers answers in order.  Every callback runs     *)
(* later, on the main queue, and reads the key "User" again at that time:  *)
(* the user may have logged out or changed in between, and the process may *)
(* be killed with requests unsent.                                         *)
(***************************************************************************)
EXTENDS Naturals, Sequences, FiniteSets

CONSTANTS
  Accounts,    \* Firebase uids
  OldKeys,     \* names of old nodes: "User" up to its first "."
  OldKey,      \* the old node's name for an account, None if it has no email
  ChildIds,    \* the stations' ids
  Legacy,      \* what the old nodes hold when the app is installed
  Plain,       \* ids whose old value is not a dictionary
  MaxSignIns,  \* BOUND: sign-ins
  MaxSaves,    \* BOUND: favourites saved
  MaxKills,    \* BOUND: kills of the process
  None

ASSUME MigrationAssumption ==
  /\ None \notin Accounts \cup OldKeys \cup ChildIds \cup {"saved"} /\ "saved" \notin OldKeys
  /\ OldKey \in [Accounts -> OldKeys \cup {None}]
  /\ IsFiniteSet(ChildIds)
  /\ Legacy \in [OldKeys -> SUBSET ChildIds]
  /\ Plain \subseteq ChildIds
  /\ MaxSignIns \in Nat /\ MaxSaves \in Nat /\ MaxKills \in Nat

VARIABLES
  \* The database
  old,          \* the ids under each old node
  users,        \* users/<uid>/<id>: None, "saved", or the old node it came from
  \* The device
  currentUser,  \* Auth.auth().currentUser
  userKey,      \* UserDefaults "User", up to its first "."
  wire,         \* requests not yet served
  answers,      \* answers not yet delivered on the main queue
  \* History
  signIns, saves, kills,
  rejected,     \* <<old node, id>> whose write under users/ was refused
  mixed,        \* what sign-ins met of another account's migration
  disturbed,    \* a sign-in, a sign-out or a kill met a migration
  early         \* a favourite was saved before its account's check was answered

database == <<old, users>>
device == <<currentUser, userKey, wire, answers>>
history == <<signIns, saves, kills, rejected, mixed, disturbed, early>>
vars == <<database, device, history>>

Kinds == {"check", "old", "child", "put", "del", "save"}

Message == [t : Kinds, u : Accounts, k : OldKeys \cup {None},
            c : ChildIds \cup {None}, yes : BOOLEAN, ids : SUBSET ChildIds]

\* A request; its answer is the same record with "yes" or "ids" filled in.
Ask(t, u, k, c) == [t |-> t, u |-> u, k |-> k, c |-> c, yes |-> FALSE, ids |-> {}]

Messages == {wire[n] : n \in 1..Len(wire)} \cup {answers[n] : n \in 1..Len(answers)}

\* What is in flight on behalf of a migration.
Migrating == {m \in Messages : m.t # "save"}

\* The device has sent such a request for the user, and the server has not served it.
Pending(t, u) == \E n \in 1..Len(wire) : wire[n].t = t /\ wire[n].u = u

-----------------------------------------------------------------------------
(* The user *)

\* A completed sign-in: "User" is set and checkUserMigration reads users/<uid>.
SignIn(u) ==
  /\ signIns < MaxSignIns
  /\ currentUser = None
  /\ signIns' = signIns + 1
  /\ currentUser' = u
  /\ userKey' = OldKey[u]
  /\ wire' = Append(wire, Ask("check", u, None, None))
  /\ mixed' = mixed \cup {m.t : m \in {n \in Migrating : n.u # u}}
  /\ disturbed' = (disturbed \/ Migrating # {})
  /\ UNCHANGED <<database, answers, saves, kills, rejected, early>>

SignOut ==
  /\ currentUser # None
  /\ currentUser' = None
  /\ userKey' = None
  /\ disturbed' = (disturbed \/ Migrating # {})
  /\ UNCHANGED <<database, wire, answers, signIns, saves, kills, rejected, mixed, early>>

\* RemoteDataStore.saveFavorite; its five writes are module Favorites' subject.
SaveFavorite ==
  /\ saves < MaxSaves
  /\ currentUser # None /\ userKey # None
  /\ saves' = saves + 1
  /\ \E c \in ChildIds : wire' = Append(wire, Ask("save", currentUser, None, c))
  /\ early' = (early \/ Pending("check", currentUser))
  /\ UNCHANGED <<database, currentUser, userKey, answers,
                 signIns, kills, rejected, mixed, disturbed>>

\* The session is in the keychain and in UserDefaults, requests are in memory.
Kill ==
  /\ kills < MaxKills
  /\ kills' = kills + 1
  /\ wire' = <<>>
  /\ answers' = <<>>
  /\ disturbed' = (disturbed \/ Migrating # {})
  /\ UNCHANGED <<database, currentUser, userKey, signIns, saves, rejected, mixed, early>>

-----------------------------------------------------------------------------
(* The database serves the first request: external *)

Exists(u) == \E c \in ChildIds : users[u][c] # None

\* A device's own writes overlay what it reads, whether the server has them or not:
\* users/<uid> exists for it as soon as it has written there ...
FoundAt(u) == Exists(u) \/ Pending("put", u) \/ Pending("save", u)

\* ... and a node it removes is empty for it at once.
OldAt(k) ==
  IF \E n \in 1..Len(wire) : wire[n].t = "del" /\ wire[n].k = k THEN {} ELSE old[k]

Serves(t) == wire # <<>> /\ Head(wire).t = t /\ wire' = Tail(wire)

Reply(m) == answers' = Append(answers, m)

ServeRead ==
  /\ LET m == Head(wire) IN
       \/ /\ Serves("check")
          /\ Reply([m EXCEPT !.yes = FoundAt(m.u)])
       \/ /\ Serves("old")
          /\ Reply([m EXCEPT !.ids = OldAt(m.k)])
       \/ /\ Serves("child")
          /\ Reply([m EXCEPT !.yes = m.c \in OldAt(m.k) \ Plain])
  /\ UNCHANGED <<database, currentUser, userKey, history>>

\* A write is applied or refused (security rules).
ServeWrite ==
  /\ \/ Serves("put") \/ Serves("save")
  /\ LET m == Head(wire) IN
       \/ /\ users' = [users EXCEPT ![m.u][m.c] = IF m.t = "put" THEN m.k ELSE "saved"]
          /\ rejected' = rejected
          /\ Reply([m EXCEPT !.yes = TRUE])
       \/ /\ users' = users
          /\ rejected' = IF m.t = "put" THEN rejected \cup {<<m.k, m.c>>} ELSE rejected
          /\ Reply(m)
  /\ UNCHANGED <<old, currentUser, userKey, signIns, saves, kills, mixed, disturbed, early>>

ServeRemove ==
  /\ Serves("del")
  /\ LET m == Head(wire) IN
       \/ old' = [old EXCEPT ![m.k] = {}] /\ Reply([m EXCEPT !.yes = TRUE])
       \/ old' = old /\ Reply(m)
  /\ UNCHANGED <<users, currentUser, userKey, history>>

-----------------------------------------------------------------------------
(* The callbacks on the main queue *)

Receives(t) == answers # <<>> /\ Head(answers).t = t /\ answers' = Tail(answers)

Local == <<database, currentUser, userKey, history>>

\* Mutant: the check the wrong way round.
CheckAnswered_Inverted ==
  /\ Receives("check")
  /\ LET a == Head(answers) IN
       wire' = IF a.yes /\ userKey # None
               THEN Append(wire, Ask("old", a.u, userKey, None))
               ELSE wire
  /\ UNCHANGED Local

\* checkUserMigration: nothing under users/<uid>, so migrateUserData reads the
\* node that "User" names now; without "User" it returns.
CheckAnswered ==
  /\ Receives("check")
  /\ LET a == Head(answers) IN
       wire' = IF ~a.yes /\ userKey # None
               THEN Append(wire, Ask("old", a.u, userKey, None))
               ELSE wire
  /\ UNCHANGED Local

\* The orders in which a snapshot may list its children.
Listings(ids) ==
  LET D == 1..Cardinality(ids) IN {q \in [D -> ids] : {q[n] : n \in D} = ids}

\* Mutant: the loop over the children returns after the first.
OldAnswered_First ==
  /\ Receives("old")
  /\ LET a == Head(answers) IN
       \E q \in Listings(a.ids) :
         wire' = IF q = <<>> THEN wire ELSE Append(wire, Ask("child", a.u, a.k, q[1]))
  /\ UNCHANGED Local

\* migrateUserData: reads every child of the old node on its own.
OldAnswered ==
  /\ Receives("old")
  /\ LET a == Head(answers) IN
       \E q \in Listings(a.ids) :
         wire' = wire \o [n \in 1..Cardinality(a.ids) |-> Ask("child", a.u, a.k, q[n])]
  /\ UNCHANGED Local

\* Mutant: the old node is removed without waiting for the write.
ChildAnswered_RemovesAtOnce ==
  /\ Receives("child")
  /\ LET a == Head(answers) IN
       wire' = IF a.yes
               THEN wire \o <<Ask("put", a.u, a.k, a.c), Ask("del", a.u, a.k, None)>>
               ELSE wire
  /\ UNCHANGED Local

\* Mutant: the uid is read again, as "User" is.
ChildAnswered_LateUid ==
  /\ Receives("child")
  /\ LET a == Head(answers) IN
       wire' = IF a.yes /\ currentUser # None
               THEN Append(wire, Ask("put", currentUser, a.k, a.c))
               ELSE wire
  /\ UNCHANGED Local

\* A dictionary is written under users/<uid>, anything else is skipped.
ChildAnswered ==
  /\ Receives("child")
  /\ LET a == Head(answers) IN
       wire' = IF a.yes THEN Append(wire, Ask("put", a.u, a.k, a.c)) ELSE wire
  /\ UNCHANGED Local

\* deleteOldUserData: each successful write removes the whole node that "User"
\* names now.
PutAnswered ==
  /\ Receives("put")
  /\ LET a == Head(answers) IN
       wire' = IF a.yes /\ userKey # None
               THEN Append(wire, Ask("del", a.u, userKey, None))
               ELSE wire
  /\ UNCHANGED Local

\* The outcome of a removal or of a saved favourite is at most printed.
OutcomeIgnored ==
  /\ Receives("del") \/ Receives("save")
  /\ UNCHANGED <<Local, wire>>

-----------------------------------------------------------------------------
Init ==
  /\ old = Legacy
  /\ users = [u \in Accounts |-> [c \in ChildIds |-> None]]
  /\ currentUser = None /\ userKey = None
  /\ wire = <<>> /\ answers = <<>>
  /\ signIns = 0 /\ saves = 0 /\ kills = 0
  /\ rejected = {} /\ mixed = {} /\ disturbed = FALSE /\ early = FALSE

Server == ServeRead \/ ServeWrite \/ ServeRemove

Client == CheckAnswered \/ OldAnswered \/ ChildAnswered \/ PutAnswered \/ OutcomeIgnored

Next ==
  \/ \E u \in Accounts : SignIn(u)
  \/ SignOut \/ SaveFavorite \/ Kill
  \/ Server \/ Client

\* The connection serves what it is sent and the main queue runs its callbacks.
Spec == Init /\ [][Next]_vars /\ WF_vars(Server) /\ WF_vars(Client)

-----------------------------------------------------------------------------
(* Properties *)

\* The variables keep their types.
TypeOK ==
  /\ old \in [OldKeys -> SUBSET ChildIds]
  /\ users \in [Accounts -> [ChildIds -> OldKeys \cup {None, "saved"}]]
  /\ currentUser \in Accounts \cup {None}
  /\ userKey \in OldKeys \cup {None}
  /\ wire \in Seq(Message) /\ answers \in Seq(Message)
  /\ signIns \in Nat /\ saves \in Nat /\ kills \in Nat
  /\ rejected \subseteq OldKeys \X ChildIds
  /\ mixed \subseteq Kinds /\ disturbed \in BOOLEAN /\ early \in BOOLEAN

Moved(k, c) == \E u \in Accounts : OldKey[u] = k /\ users[u][c] # None

\* The whole old node is removed after the first child has been copied, and still
\* no dictionary in it is lost: all children's writes are ahead of the removal on
\* the connection, so a kill cannot let the removal through without them.  Not
\* so when a write is refused or another account signs in meanwhile
\* (migrateUserData, deleteOldUserData).
NothingLost ==
  mixed = {} =>
    \A k \in OldKeys : \A c \in Legacy[k] \ Plain :
      c \in old[k] \/ Moved(k, c) \/ <<k, c>> \in rejected

\* Data moves only to the account whose email named the old node, unless another
\* account signs in while the check is unanswered: "User" is read late
\* (migrateUserData).
OwnDataOnly ==
  "check" \notin mixed => \A u \in Accounts : \A c \in ChildIds :
    users[u][c] \in OldKeys => users[u][c] = OldKey[u]

\* A user who stays signed in and undisturbed ends up with their favourites (the
\* chain of callbacks from checkUserMigration on), unless they saved a favourite
\* before the check was answered: it makes snapshot.exists() true and the
\* migration is skipped.
MigrationFinishes ==
  \A u \in Accounts :
    (currentUser = u /\ userKey # None) ~>
      \/ \A c \in Legacy[OldKey[u]] \ Plain : Moved(OldKey[u], c)
      \/ currentUser # u \/ disturbed \/ rejected # {} \/ early

OnItsWay(u, c) == \E m \in Messages : m.t \in {"child", "put"} /\ m.u = u /\ m.c = c

\* "Los datos ya están migrados": when the check finds users/<uid>, every
\* favourite of the user's old node is there or on its way.  Any child counts as
\* proof, so not when a favourite was saved before the answer, a kill fell between
\* two children of an earlier migration, a write was refused or another account
\* signed in meanwhile (checkUserMigration).
FoundMeansMigrated ==
  saves = 0 /\ kills = 0 /\ rejected = {} /\ mixed = {} =>
    \A n \in 1..Len(answers) : answers[n].t = "check" /\ answers[n].yes =>
      LET u == answers[n].u IN
      \A c \in Legacy[OldKey[u]] \ Plain : users[u][c] # None \/ OnItsWay(u, c)
=============================================================================
