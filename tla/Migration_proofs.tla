-------------------------- MODULE Migration_proofs --------------------------
(***************************************************************************)
(* Proofs about Migration, for every set of accounts, old nodes and        *)
(* children, whatever the old nodes hold and however often users sign in   *)
(* and out, save favourites and kill the process.                          *)
(***************************************************************************)
EXTENDS Migration, FiniteSetTheorems, SequenceTheorems, TLAPS

Elements(q) == {q[n] : n \in 1..Len(q)}

Asked == Elements(wire)
Answered == Elements(answers)

\* What is put on a queue is what is in it.
LEMMA AppendElements ==
  ASSUME NEW S, NEW q \in Seq(S), NEW m
  PROVE  Elements(Append(q, m)) = Elements(q) \cup {m}
<1> DEFINE r == Append(q, m)
<1>1. /\ Len(r) = Len(q) + 1 /\ Len(q) \in Nat /\ r[Len(q) + 1] = m
      /\ \A k \in 1..Len(q) : r[k] = q[k]
  OBVIOUS
<1> HIDE DEF r
<1>2. \A k \in 1..Len(r) : k \in 1..Len(q) \/ k = Len(q) + 1
  BY <1>1
<1>3. \A k \in 1..Len(q) : k \in 1..Len(r)
  BY <1>1
<1>4. Len(q) + 1 \in 1..Len(r)
  BY <1>1
<1> QED
  BY <1>1, <1>2, <1>3, <1>4 DEF Elements, r

\* What is taken off a queue is its first element.
LEMMA TailElements ==
  ASSUME NEW S, NEW q \in Seq(S), q # <<>>
  PROVE  /\ Elements(Tail(q)) \subseteq Elements(q)
         /\ Elements(q) \subseteq Elements(Tail(q)) \cup {Head(q)}
         /\ Head(q) \in Elements(q) /\ Head(q) \in S /\ Tail(q) \in Seq(S)
<1> DEFINE r == Tail(q)
<1>1. /\ Len(r) = Len(q) - 1 /\ Len(q) \in Nat /\ Len(q) >= 1
      /\ \A k \in 1..Len(r) : r[k] = q[k + 1]
      /\ Head(q) = q[1] /\ Head(q) \in S /\ r \in Seq(S)
  OBVIOUS
<1> HIDE DEF r
<1>2. \A k \in 1..Len(r) : k + 1 \in 1..Len(q)
  BY <1>1
<1>3. \A k \in 1..Len(q) : k = 1 \/ (k - 1 \in 1..Len(r) /\ (k - 1) + 1 = k)
  BY <1>1
<1>4. 1 \in 1..Len(q)
  BY <1>1
<1>5. Elements(r) \subseteq Elements(q) /\ Head(q) \in Elements(q)
  BY <1>1, <1>2, <1>4 DEF Elements
<1>6. ASSUME NEW x \in Elements(q) PROVE x \in Elements(r) \cup {Head(q)}
  <2>1. PICK k \in 1..Len(q) : x = q[k]
    BY DEF Elements
  <2>2. CASE k = 1
    BY <1>1, <2>1, <2>2
  <2>3. CASE k - 1 \in 1..Len(r) /\ (k - 1) + 1 = k
    BY <1>1, <2>1, <2>3 DEF Elements
  <2> QED
    BY <1>3, <2>2, <2>3
<1> QED
  BY <1>1, <1>5, <1>6 DEF r

\* Two queues in a row.
LEMMA ConcatElements ==
  ASSUME NEW S, NEW q \in Seq(S), NEW r \in Seq(S)
  PROVE  Elements(q \o r) = Elements(q) \cup Elements(r) /\ q \o r \in Seq(S)
<1> DEFINE z == q \o r
<1>1. /\ Len(z) = Len(q) + Len(r) /\ Len(q) \in Nat /\ Len(r) \in Nat /\ z \in Seq(S)
      /\ \A k \in 1..Len(z) : z[k] = IF k <= Len(q) THEN q[k] ELSE r[k - Len(q)]
  OBVIOUS
<1> HIDE DEF z
<1>2. \A k \in 1..Len(z) : (k <= Len(q) /\ k \in 1..Len(q)) \/ (~(k <= Len(q)) /\ k - Len(q) \in 1..Len(r))
  BY <1>1
<1>3. Elements(z) \subseteq Elements(q) \cup Elements(r)
  BY <1>1, <1>2 DEF Elements
<1>4. \A k \in 1..Len(q) : k \in 1..Len(z) /\ z[k] = q[k]
  BY <1>1
<1>5. ASSUME NEW k \in 1..Len(r) PROVE r[k] \in Elements(z)
  <2>1. k + Len(q) \in 1..Len(z) /\ ~(k + Len(q) <= Len(q)) /\ (k + Len(q)) - Len(q) = k
    BY <1>1
  <2>2. z[k + Len(q)] = r[k]
    BY <1>1, <2>1
  <2> QED
    BY <2>1, <2>2 DEF Elements
<1>6. Elements(q) \cup Elements(r) \subseteq Elements(z)
  BY <1>4, <1>5 DEF Elements
<1> QED
  BY <1>1, <1>3, <1>6 DEF z

\* A request is a message.
LEMMA AskType ==
  ASSUME NEW t \in Kinds, NEW u \in Accounts, NEW k \in OldKeys \cup {None},
         NEW c \in ChildIds \cup {None}
  PROVE  /\ Ask(t, u, k, c) \in Message
         /\ Ask(t, u, k, c).t = t /\ Ask(t, u, k, c).u = u /\ Ask(t, u, k, c).k = k
         /\ Ask(t, u, k, c).c = c /\ ~Ask(t, u, k, c).yes
  BY DEF Ask, Message

\* A listing of a set of children has all of them.
LEMMA ListingFacts ==
  ASSUME NEW ids \in SUBSET ChildIds, NEW q \in Listings(ids)
  PROVE  /\ Cardinality(ids) \in Nat /\ q \in [1..Cardinality(ids) -> ids]
         /\ \A c \in ids : \E n \in 1..Cardinality(ids) : q[n] = c
<1>1. Cardinality(ids) \in Nat
  BY FS_Subset, FS_CardinalityType, MigrationAssumption
<1> QED
  BY <1>1 DEF Listings

-----------------------------------------------------------------------------
(* The messages name the right user and node *)

\* What kinds of messages carry.
Carries(m) ==
  /\ m.t \in {"old", "child", "put", "del"} => m.k \in OldKeys
  /\ m.t \in {"child", "put", "save"} => m.c \in ChildIds

KindOK == \A m \in Asked \cup Answered : Carries(m)

\* A migration reads the node of the email of its user, and "User" is still that
\* email or gone.
OwnKey(m) ==
  /\ m.t \in {"old", "child", "put"} => m.k = OldKey[m.u]
  /\ m.t = "check" /\ userKey # None => userKey = OldKey[m.u]

KeyOK == "check" \notin mixed => \A m \in Asked \cup Answered : OwnKey(m)

\* While accounts do not mix, one user at a time migrates.
OneUser ==
  mixed = {} => \A m \in Asked \cup Answered : m.t # "save" =>
    /\ userKey # None => userKey = OldKey[m.u]
    /\ m.t = "del" => m.k = OldKey[m.u]
    /\ \A n \in Asked \cup Answered : n.t # "save" => m.u = n.u

\* A list of children had all of them when it was given, and nodes are only
\* removed; it is empty when the device removes the node itself.
SnapOK == \A m \in Answered : m.t = "old" => old[m.k] \subseteq m.ids \/ m.ids = {}

KeyInv == TypeOK /\ KindOK /\ KeyOK /\ OneUser /\ SnapOK /\ OwnDataOnly

\* Traffic that goes on with what is in flight, or saves a favourite.
LEMMA TrafficStep ==
  ASSUME KeyInv, UNCHANGED <<mixed, userKey>>, NEW E,
         Asked' \cup Answered' \subseteq Asked \cup Answered \cup E,
         \A m \in E :
           /\ Carries(m)
           /\ "check" \notin mixed => OwnKey(m)
           /\ mixed = {} /\ m.t = "del" => m.k = OldKey[m.u]
           /\ m.t = "save" \/ \E h \in Asked \cup Answered : h.t # "save" /\ m.u = h.u
  PROVE  KindOK' /\ KeyOK' /\ OneUser'
<1>1. KindOK'
  BY DEF KeyInv, KindOK, Carries
<1>2. KeyOK'
  BY DEF KeyInv, KeyOK, OwnKey
<1>3. OneUser'
  <2> SUFFICES ASSUME mixed = {}, NEW m \in Asked' \cup Answered', m.t # "save"
               PROVE  /\ userKey # None => userKey = OldKey[m.u]
                      /\ m.t = "del" => m.k = OldKey[m.u]
                      /\ \A n \in Asked' \cup Answered' : n.t # "save" => m.u = n.u
    BY DEF OneUser
  <2>1. \A n \in Asked' \cup Answered' : n.t # "save" =>
          \E h \in Asked \cup Answered : h.t # "save" /\ n.u = h.u
    OBVIOUS
  <2>2. \A n \in Asked' \cup Answered' : n.t = "del" => n.k = OldKey[n.u]
    BY DEF KeyInv, OneUser
  <2> QED
    BY <2>1, <2>2 DEF KeyInv, OneUser
<1> QED
  BY <1>1, <1>2, <1>3

-----------------------------------------------------------------------------
(* What the server and the callbacks do to the messages *)

\* The answer to a request, and what serving it does to the database.
ServedAs(h, a) ==
  /\ a.t = h.t /\ a.u = h.u /\ a.k = h.k /\ a.c = h.c
  /\ \/ h.t = "check" /\ a.yes = FoundAt(h.u) /\ UNCHANGED <<old, users, rejected>>
     \/ h.t = "old" /\ a.ids = OldAt(h.k) /\ UNCHANGED <<old, users, rejected>>
     \/ h.t = "child" /\ a.yes = (h.c \in OldAt(h.k) \ Plain) /\ UNCHANGED <<old, users, rejected>>
     \/ /\ h.t \in {"put", "save"} /\ UNCHANGED <<old, rejected>>
        /\ users' = [users EXCEPT ![h.u][h.c] = IF h.t = "put" THEN h.k ELSE "saved"]
     \/ /\ h.t \in {"put", "save"} /\ UNCHANGED <<old, users>>
        /\ rejected' = IF h.t = "put" THEN rejected \cup {<<h.k, h.c>>} ELSE rejected
     \/ h.t = "del" /\ old' = [old EXCEPT ![h.k] = {}] /\ UNCHANGED <<users, rejected>>
     \/ h.t = "del" /\ UNCHANGED <<old, users, rejected>>

\* The database serves the first request.
LEMMA ServerFacts ==
  ASSUME TypeOK, KindOK, Server
  PROVE  \E a \in Message :
           /\ wire # <<>> /\ wire' = Tail(wire) /\ answers' = Append(answers, a)
           /\ ServedAs(Head(wire), a)
           /\ UNCHANGED <<currentUser, userKey, signIns, saves, kills, mixed, disturbed, early>>
<1> DEFINE h == Head(wire)
<1>0. wire # <<>> /\ wire' = Tail(wire)
  BY DEF Server, ServeRead, ServeWrite, ServeRemove, Serves
<1>1. h \in Message /\ Carries(h) /\ old \in [OldKeys -> SUBSET ChildIds]
  BY <1>0, TailElements DEF TypeOK, KindOK, Asked
<1> HIDE DEF h
<1>2. \A y \in BOOLEAN :
        /\ [h EXCEPT !.yes = y] \in Message
        /\ [h EXCEPT !.yes = y].t = h.t /\ [h EXCEPT !.yes = y].u = h.u
        /\ [h EXCEPT !.yes = y].k = h.k /\ [h EXCEPT !.yes = y].c = h.c
        /\ [h EXCEPT !.yes = y].yes = y
  BY <1>1 DEF Message
<1>3. CASE ServeRead
  <2>1. UNCHANGED <<old, users, rejected>>
        /\ UNCHANGED <<currentUser, userKey, signIns, saves, kills, mixed, disturbed, early>>
    BY <1>3 DEF ServeRead, database, history
  <2>2. CASE Serves("check") /\ Reply([h EXCEPT !.yes = FoundAt(h.u)])
    <3>1. FoundAt(h.u) \in BOOLEAN
      BY DEF FoundAt, Exists, Pending
    <3>2. answers' = Append(answers, [h EXCEPT !.yes = FoundAt(h.u)]) /\ h.t = "check"
      BY <2>2 DEF Reply, Serves, h
    <3>3. ServedAs(h, [h EXCEPT !.yes = FoundAt(h.u)])
      BY <1>2, <2>1, <3>1, <3>2 DEF ServedAs
    <3> QED
      BY <1>0, <1>2, <2>1, <3>1, <3>2, <3>3 DEF h
  <2>3. CASE Serves("child") /\ Reply([h EXCEPT !.yes = h.c \in OldAt(h.k) \ Plain])
    <3>1. (h.c \in OldAt(h.k) \ Plain) \in BOOLEAN
      OBVIOUS
    <3>2. answers' = Append(answers, [h EXCEPT !.yes = h.c \in OldAt(h.k) \ Plain]) /\ h.t = "child"
      BY <2>3 DEF Reply, Serves, h
    <3>3. ServedAs(h, [h EXCEPT !.yes = h.c \in OldAt(h.k) \ Plain])
      BY <1>2, <2>1, <3>1, <3>2 DEF ServedAs
    <3> QED
      BY <1>0, <1>2, <2>1, <3>1, <3>2, <3>3 DEF h
  <2>4. CASE Serves("old") /\ Reply([h EXCEPT !.ids = OldAt(h.k)])
    <3>1. h.t = "old" /\ answers' = Append(answers, [h EXCEPT !.ids = OldAt(h.k)])
      BY <2>4 DEF Reply, Serves, h
    <3>2. OldAt(h.k) \in SUBSET ChildIds
      BY <1>1, <3>1 DEF Carries, OldAt
    <3>3. [h EXCEPT !.ids = OldAt(h.k)] \in Message
      BY <1>1, <3>2 DEF Message
    <3>4. ServedAs(h, [h EXCEPT !.ids = OldAt(h.k)])
      BY <1>1, <2>1, <3>1 DEF Message, ServedAs
    <3> QED
      BY <1>0, <2>1, <3>1, <3>3, <3>4 DEF h
  <2> QED
    BY <1>3, <2>2, <2>3, <2>4 DEF ServeRead, h
<1>4. CASE ServeWrite
  <2>1. /\ UNCHANGED <<currentUser, userKey, signIns, saves, kills, mixed, disturbed, early>>
        /\ h.t \in {"put", "save"} /\ old' = old
    BY <1>4 DEF ServeWrite, Serves, h
  <2>2. CASE /\ users' = [users EXCEPT ![h.u][h.c] = IF h.t = "put" THEN h.k ELSE "saved"]
             /\ rejected' = rejected
             /\ Reply([h EXCEPT !.yes = TRUE])
    <3>1. ServedAs(h, [h EXCEPT !.yes = TRUE])
      BY <1>2, <2>1, <2>2 DEF ServedAs
    <3> QED
      BY <1>0, <1>2, <2>1, <2>2, <3>1 DEF Reply, h
  <2>3. CASE /\ users' = users
             /\ rejected' = IF h.t = "put" THEN rejected \cup {<<h.k, h.c>>} ELSE rejected
             /\ Reply(h)
    <3>1. ServedAs(h, h)
      BY <2>1, <2>3 DEF ServedAs
    <3> QED
      BY <1>0, <1>1, <2>1, <2>3, <3>1 DEF Reply, h
  <2> QED
    BY <1>4, <2>2, <2>3 DEF ServeWrite, h
<1>5. CASE ServeRemove
  <2>1. /\ UNCHANGED <<currentUser, userKey, signIns, saves, kills, mixed, disturbed, early>>
        /\ h.t = "del" /\ UNCHANGED <<users, rejected>>
    BY <1>5 DEF ServeRemove, Serves, history, h
  <2>2. CASE old' = [old EXCEPT ![h.k] = {}] /\ Reply([h EXCEPT !.yes = TRUE])
    <3>1. ServedAs(h, [h EXCEPT !.yes = TRUE])
      BY <1>2, <2>1, <2>2 DEF ServedAs
    <3> QED
      BY <1>0, <1>2, <2>1, <2>2, <3>1 DEF Reply, h
  <2>3. CASE old' = old /\ Reply(h)
    <3>1. ServedAs(h, h)
      BY <2>1, <2>3 DEF ServedAs
    <3> QED
      BY <1>0, <1>1, <2>1, <2>3, <3>1 DEF Reply, h
  <2> QED
    BY <1>5, <2>2, <2>3 DEF ServeRemove, h
<1> QED
  BY <1>3, <1>4, <1>5 DEF Server

\* A request that the callback of an answer sends.
Follows(h, m) ==
  /\ m.u = h.u
  /\ \/ h.t = "check" /\ m.t = "old" /\ userKey # None /\ m.k = userKey
     \/ h.t = "old" /\ m.t = "child" /\ m.k = h.k /\ m.c \in h.ids
     \/ h.t = "child" /\ h.yes /\ m.t = "put" /\ m.k = h.k /\ m.c = h.c
     \/ h.t = "put" /\ m.t = "del" /\ userKey # None /\ m.k = userKey

\* The callback of the first answer sends nothing but what follows, and all of it.
LEMMA ClientFacts ==
  ASSUME TypeOK, Client
  PROVE  \E sent \in Seq(Message) :
           /\ answers # <<>> /\ answers' = Tail(answers) /\ wire' = wire \o sent
           /\ \A n \in 1..Len(sent) : Follows(Head(answers), sent[n])
           /\ Head(answers).t = "old" => \A c \in Head(answers).ids : \E n \in 1..Len(sent) :
                sent[n].t = "child" /\ sent[n].u = Head(answers).u /\ sent[n].c = c
           /\ Head(answers).t = "child" /\ Head(answers).yes => \E n \in 1..Len(sent) :
                sent[n].t = "put" /\ sent[n].u = Head(answers).u /\ sent[n].c = Head(answers).c
           /\ UNCHANGED Local
<1> DEFINE h == Head(answers)
<1>0. answers # <<>> /\ answers' = Tail(answers) /\ UNCHANGED Local
  BY DEF Client, CheckAnswered, OldAnswered, ChildAnswered, PutAnswered, OutcomeIgnored, Receives
<1>1. h \in Message /\ wire \in Seq(Message) /\ userKey \in OldKeys \cup {None}
  BY <1>0, TailElements DEF TypeOK
<1>2. h.u \in Accounts /\ h.k \in OldKeys \cup {None} /\ h.c \in ChildIds \cup {None}
      /\ h.ids \in SUBSET ChildIds
  BY <1>1 DEF Message
<1> HIDE DEF h
<1>3. <<>> \in Seq(Message) /\ Len(<<>>) = 0 /\ wire \o <<>> = wire
  BY <1>1, ConcatEmptySeq
<1>4. ASSUME NEW m \in Message
      PROVE  <<m>> \in Seq(Message) /\ Len(<<m>>) = 1 /\ <<m>>[1] = m /\ Append(wire, m) = wire \o <<m>>
  BY <1>1, AppendIsConcat
<1>5. ASSUME wire' = wire, h.t # "old", ~(h.t = "child" /\ h.yes)
      PROVE  \E sent \in Seq(Message) :
               /\ wire' = wire \o sent
               /\ \A n \in 1..Len(sent) : Follows(h, sent[n])
               /\ h.t = "old" => \A c \in h.ids : \E n \in 1..Len(sent) :
                    sent[n].t = "child" /\ sent[n].u = h.u /\ sent[n].c = c
               /\ h.t = "child" /\ h.yes => \E n \in 1..Len(sent) :
                    sent[n].t = "put" /\ sent[n].u = h.u /\ sent[n].c = h.c
  <2> WITNESS <<>> \in Seq(Message)
  <2> QED
    BY <1>3, <1>5
<1>6. ASSUME NEW m \in Message, wire' = Append(wire, m), h.t # "old", Follows(h, m),
             h.t = "child" => m.c = h.c
      PROVE  \E sent \in Seq(Message) :
               /\ wire' = wire \o sent
               /\ \A n \in 1..Len(sent) : Follows(h, sent[n])
               /\ h.t = "old" => \A c \in h.ids : \E n \in 1..Len(sent) :
                    sent[n].t = "child" /\ sent[n].u = h.u /\ sent[n].c = c
               /\ h.t = "child" /\ h.yes => \E n \in 1..Len(sent) :
                    sent[n].t = "put" /\ sent[n].u = h.u /\ sent[n].c = h.c
  <2>1. <<m>> \in Seq(Message) /\ wire' = wire \o <<m>>
    BY <1>4, <1>6
  <2> WITNESS <<m>> \in Seq(Message)
  <2>2. \A n \in 1..Len(<<m>>) : n = 1 /\ <<m>>[n] = m
    BY <1>4
  <2>3. 1 \in 1..Len(<<m>>) /\ <<m>>[1] = m
    BY <1>4
  <2>4. h.t = "child" => m.t = "put" /\ m.u = h.u /\ m.c = h.c
    BY <1>6 DEF Follows
  <2> QED
    BY <1>6, <2>1, <2>2, <2>3, <2>4
<1>7. \E sent \in Seq(Message) :
               /\ wire' = wire \o sent
               /\ \A n \in 1..Len(sent) : Follows(h, sent[n])
               /\ h.t = "old" => \A c \in h.ids : \E n \in 1..Len(sent) :
                    sent[n].t = "child" /\ sent[n].u = h.u /\ sent[n].c = c
               /\ h.t = "child" /\ h.yes => \E n \in 1..Len(sent) :
                    sent[n].t = "put" /\ sent[n].u = h.u /\ sent[n].c = h.c
  <2>1. CASE CheckAnswered
    <3>1. h.t = "check" /\ wire' = IF ~h.yes /\ userKey # None
               THEN Append(wire, Ask("old", h.u, userKey, None)) ELSE wire
      BY <2>1 DEF CheckAnswered, Receives, h
    <3>2. CASE ~h.yes /\ userKey # None
      <4>1. Ask("old", h.u, userKey, None) \in Message /\ Follows(h, Ask("old", h.u, userKey, None))
        BY <1>1, <1>2, <3>1, <3>2, AskType DEF Follows, Kinds
      <4> QED
        BY <1>6, <3>1, <3>2, <4>1
    <3> QED
      BY <1>5, <3>1, <3>2
  <2>2. CASE OldAnswered
    <3>1. PICK q \in Listings(h.ids) : h.t = "old" /\
             wire' = wire \o [n \in 1..Cardinality(h.ids) |-> Ask("child", h.u, h.k, q[n])]
      BY <2>2 DEF OldAnswered, Receives, h
    <3>a. /\ Cardinality(h.ids) \in Nat /\ q \in [1..Cardinality(h.ids) -> h.ids]
          /\ \A c \in h.ids : \E n \in 1..Cardinality(h.ids) : q[n] = c
      BY <1>2, ListingFacts
    <3> DEFINE reads == [n \in 1..Cardinality(h.ids) |-> Ask("child", h.u, h.k, q[n])]
    <3>b. \A c \in h.ids : Ask("child", h.u, h.k, c) \in Message
      BY <1>2, AskType DEF Kinds
    <3>c. reads \in Seq(Message) /\ Len(reads) = Cardinality(h.ids)
      BY <3>a, <3>b
    <3>2. /\ \A n \in 1..Len(reads) : q[n] \in h.ids /\ reads[n] = Ask("child", h.u, h.k, q[n])
          /\ \A c \in h.ids : \E n \in 1..Len(reads) : reads[n] = Ask("child", h.u, h.k, c)
      BY <3>a, <3>c
    <3>3. wire' = wire \o reads
      BY <3>1
    <3> HIDE DEF reads
    <3>4. \A c \in h.ids : /\ Ask("child", h.u, h.k, c).t = "child"
                           /\ Ask("child", h.u, h.k, c).u = h.u
                           /\ Ask("child", h.u, h.k, c).k = h.k
                           /\ Ask("child", h.u, h.k, c).c = c
      BY DEF Ask
    <3>5. \A n \in 1..Len(reads) : Follows(h, reads[n])
      BY <3>1, <3>2, <3>4 DEF Follows
    <3>6. \A c \in h.ids : \E n \in 1..Len(reads) :
             reads[n].t = "child" /\ reads[n].u = h.u /\ reads[n].c = c
      <4> SUFFICES ASSUME NEW c \in h.ids
                   PROVE  \E n \in 1..Len(reads) :
                            reads[n].t = "child" /\ reads[n].u = h.u /\ reads[n].c = c
        OBVIOUS
      <4>1. PICK n \in 1..Len(reads) : reads[n] = Ask("child", h.u, h.k, c)
        BY <3>2
      <4>2. reads[n].t = "child" /\ reads[n].u = h.u /\ reads[n].c = c
        BY <3>4, <4>1
      <4> QED
        BY <4>2
    <3> QED
      BY <3>1, <3>3, <3>5, <3>6, <3>c
  <2>3. CASE ChildAnswered
    <3>1. h.t = "child" /\ wire' = IF h.yes THEN Append(wire, Ask("put", h.u, h.k, h.c)) ELSE wire
      BY <2>3 DEF ChildAnswered, Receives, h
    <3>2. CASE h.yes
      <4>1. /\ Ask("put", h.u, h.k, h.c) \in Message /\ Follows(h, Ask("put", h.u, h.k, h.c))
            /\ Ask("put", h.u, h.k, h.c).c = h.c
        <5>1. /\ Ask("put", h.u, h.k, h.c) \in Message /\ Ask("put", h.u, h.k, h.c).t = "put"
              /\ Ask("put", h.u, h.k, h.c).u = h.u /\ Ask("put", h.u, h.k, h.c).k = h.k
              /\ Ask("put", h.u, h.k, h.c).c = h.c
          BY <1>2, AskType DEF Kinds
        <5> QED
          BY <3>1, <3>2, <5>1 DEF Follows
      <4> QED
        BY <1>6, <3>1, <3>2, <4>1
    <3> QED
      BY <1>5, <3>1, <3>2
  <2>4. CASE PutAnswered
    <3>1. h.t = "put" /\ wire' = IF h.yes /\ userKey # None
               THEN Append(wire, Ask("del", h.u, userKey, None)) ELSE wire
      BY <2>4 DEF PutAnswered, Receives, h
    <3>2. CASE h.yes /\ userKey # None
      <4>1. Ask("del", h.u, userKey, None) \in Message /\ Follows(h, Ask("del", h.u, userKey, None))
        BY <1>1, <1>2, <3>1, <3>2, AskType DEF Follows, Kinds
      <4> QED
        BY <1>6, <3>1, <3>2, <4>1
    <3> QED
      BY <1>5, <3>1, <3>2
  <2>5. CASE OutcomeIgnored
    BY <1>5, <2>5 DEF OutcomeIgnored, Receives, h
  <2> QED
    BY <2>1, <2>2, <2>3, <2>4, <2>5 DEF Client
<1> QED
  BY <1>0, <1>7 DEF h

-----------------------------------------------------------------------------
(* KeyInv is inductive *)

\* A fresh installation.
LEMMA InitKeyInv == Init => KeyInv
<1> SUFFICES ASSUME Init PROVE KeyInv
  OBVIOUS
<1>1. <<>> \in Seq(Message) /\ Asked = {} /\ Answered = {}
  BY DEF Init, Asked, Answered, Elements
<1>2. TypeOK
  BY <1>1, MigrationAssumption DEF Init, TypeOK
<1>3. OwnDataOnly
  BY MigrationAssumption DEF Init, OwnDataOnly
<1> QED
  BY <1>1, <1>2, <1>3 DEF KeyInv, KindOK, KeyOK, OneUser, SnapOK

\* Messages and sets of messages while the server works.
LEMMA ServeSets ==
  ASSUME TypeOK, NEW a \in Message, wire # <<>>, wire' = Tail(wire), answers' = Append(answers, a)
  PROVE  /\ wire' \in Seq(Message) /\ answers' \in Seq(Message)
         /\ Head(wire) \in Message /\ Head(wire) \in Asked
         /\ Asked' \subseteq Asked /\ Asked \subseteq Asked' \cup {Head(wire)}
         /\ Answered' = Answered \cup {a}
<1>1. wire \in Seq(Message) /\ answers \in Seq(Message)
  BY DEF TypeOK
<1>2. Append(answers, a) \in Seq(Message) /\ Elements(Append(answers, a)) = Answered \cup {a}
  BY <1>1, AppendElements DEF Answered
<1> QED
  BY <1>1, <1>2, TailElements DEF Asked, Answered

\* Messages and sets of messages while a callback runs.
LEMMA ReceiveSets ==
  ASSUME TypeOK, NEW sent \in Seq(Message), answers # <<>>, answers' = Tail(answers),
         wire' = wire \o sent
  PROVE  /\ wire' \in Seq(Message) /\ answers' \in Seq(Message)
         /\ Head(answers) \in Message /\ Head(answers) \in Answered
         /\ Answered' \subseteq Answered /\ Answered \subseteq Answered' \cup {Head(answers)}
         /\ Asked' = Asked \cup Elements(sent)
<1>1. wire \in Seq(Message) /\ answers \in Seq(Message)
  BY DEF TypeOK
<1>2. wire \o sent \in Seq(Message) /\ Elements(wire \o sent) = Asked \cup Elements(sent)
  BY <1>1, ConcatElements DEF Asked
<1> QED
  BY <1>1, <1>2, TailElements DEF Asked, Answered

\* Messages and sets of messages while the user starts something.
LEMMA SendSets ==
  ASSUME TypeOK, NEW m \in Message, wire' = Append(wire, m), answers' = answers
  PROVE  wire' \in Seq(Message) /\ Asked' = Asked \cup {m} /\ Answered' = Answered
<1>1. wire \in Seq(Message)
  BY DEF TypeOK
<1>2. Append(wire, m) \in Seq(Message) /\ Elements(Append(wire, m)) = Asked \cup {m}
  BY <1>1, AppendElements DEF Asked
<1> QED
  BY <1>2 DEF Asked, Answered

\* The messages of the specification are those of the two queues.
LEMMA MigratingMessages == Migrating = {m \in Asked \cup Answered : m.t # "save"}
  BY DEF Migrating, Messages, Asked, Answered, Elements

\* The database's steps.
LEMMA ServerKeyInv == KeyInv /\ Server => KeyInv'
<1> SUFFICES ASSUME KeyInv, Server PROVE KeyInv'
  OBVIOUS
<1>0. TypeOK /\ KindOK
  BY DEF KeyInv
<1> DEFINE h == Head(wire)
<1>1. PICK a \in Message :
        /\ wire # <<>> /\ wire' = Tail(wire) /\ answers' = Append(answers, a)
        /\ ServedAs(h, a)
        /\ UNCHANGED <<currentUser, userKey, signIns, saves, kills, mixed, disturbed, early>>
  BY <1>0, ServerFacts
<1>2. /\ wire' \in Seq(Message) /\ answers' \in Seq(Message)
      /\ h \in Message /\ h \in Asked
      /\ Asked' \subseteq Asked /\ Answered' = Answered \cup {a}
  BY <1>0, <1>1, ServeSets
<1> HIDE DEF h
<1>3. /\ Carries(h) /\ a.t = h.t /\ a.u = h.u /\ a.k = h.k /\ a.c = h.c
      /\ h.u \in Accounts
  BY <1>1, <1>2 DEF KeyInv, KindOK, ServedAs, Message
<1>4. KindOK' /\ KeyOK' /\ OneUser'
  <2>1. /\ Carries(a)
        /\ "check" \notin mixed => OwnKey(a)
        /\ mixed = {} /\ a.t = "del" => a.k = OldKey[a.u]
        /\ a.t = "save" \/ \E m \in Asked \cup Answered : m.t # "save" /\ a.u = m.u
    BY <1>2, <1>3 DEF Carries, KeyInv, KeyOK, OwnKey, OneUser
  <2>2. Asked' \cup Answered' \subseteq Asked \cup Answered \cup {a}
    BY <1>2
  <2> QED
    BY <1>1, <2>1, <2>2, TrafficStep
<1>5. /\ old' \in [OldKeys -> SUBSET ChildIds] /\ \A k \in OldKeys : old'[k] \subseteq old[k]
      /\ users' \in [Accounts -> [ChildIds -> OldKeys \cup {None, "saved"}]]
      /\ rejected' \subseteq OldKeys \X ChildIds
  <2>0. /\ old \in [OldKeys -> SUBSET ChildIds] /\ rejected \subseteq OldKeys \X ChildIds
        /\ users \in [Accounts -> [ChildIds -> OldKeys \cup {None, "saved"}]]
    BY <1>0 DEF TypeOK
  <2>1. CASE UNCHANGED <<old, users, rejected>>
    BY <2>0, <2>1
  <2>2. CASE /\ h.t \in {"put", "save"} /\ UNCHANGED <<old, rejected>>
             /\ users' = [users EXCEPT ![h.u][h.c] = IF h.t = "put" THEN h.k ELSE "saved"]
    BY <1>3, <2>0, <2>2 DEF Carries
  <2>3. CASE /\ h.t \in {"put", "save"} /\ UNCHANGED <<old, users>>
             /\ rejected' = IF h.t = "put" THEN rejected \cup {<<h.k, h.c>>} ELSE rejected
    BY <1>3, <2>0, <2>3 DEF Carries
  <2>4. CASE h.t = "del" /\ old' = [old EXCEPT ![h.k] = {}] /\ UNCHANGED <<users, rejected>>
    BY <1>3, <2>0, <2>4 DEF Carries
  <2> QED
    BY <1>1, <2>1, <2>2, <2>3, <2>4 DEF ServedAs
<1>6. TypeOK'
  BY <1>0, <1>1, <1>2, <1>5 DEF TypeOK
<1>7. SnapOK'
  <2>1. ASSUME NEW m \in Answered
        PROVE  m.t = "old" => old'[m.k] \subseteq m.ids \/ m.ids = {}
    <3>1. m.t = "old" => m.k \in OldKeys
      BY <1>0 DEF KindOK, Carries
    <3> QED
      BY <1>5, <3>1 DEF KeyInv, SnapOK
  <2>2. a.t = "old" => old'[a.k] \subseteq a.ids \/ a.ids = {}
    BY <1>1 DEF ServedAs, OldAt
  <2> QED
    BY <1>2, <2>1, <2>2 DEF SnapOK
<1>8. OwnDataOnly'
  <2> SUFFICES ASSUME "check" \notin mixed, NEW u \in Accounts, NEW c \in ChildIds,
                      users'[u][c] \in OldKeys
               PROVE  users'[u][c] = OldKey[u]
    BY <1>1 DEF OwnDataOnly
  <2>1. h.t = "put" => h.k = OldKey[h.u]
    BY <1>2 DEF KeyInv, KeyOK, OwnKey
  <2>2. users[u][c] \in OldKeys => users[u][c] = OldKey[u]
    BY DEF KeyInv, OwnDataOnly
  <2>3. CASE users' = users
    BY <2>2, <2>3
  <2>4. CASE /\ h.t \in {"put", "save"}
             /\ users' = [users EXCEPT ![h.u][h.c] = IF h.t = "put" THEN h.k ELSE "saved"]
    <3>1. h.c \in ChildIds
      BY <1>3, <2>4 DEF Carries
    <3>2. CASE u = h.u /\ c = h.c
      BY <1>0, <1>3, <2>1, <2>4, <3>1, <3>2, MigrationAssumption DEF TypeOK
    <3>3. CASE ~(u = h.u /\ c = h.c)
      <4>1. users'[u][c] = users[u][c]
        BY <1>0, <1>3, <2>4, <3>1, <3>3 DEF TypeOK
      <4> QED
        BY <2>2, <4>1
    <3> QED
      BY <3>2, <3>3
  <2> QED
    BY <1>1, <2>3, <2>4 DEF ServedAs
<1> QED
  BY <1>4, <1>6, <1>7, <1>8 DEF KeyInv

\* The callbacks.
LEMMA ClientKeyInv == KeyInv /\ Client => KeyInv'
<1> SUFFICES ASSUME KeyInv, Client PROVE KeyInv'
  OBVIOUS
<1>0. TypeOK /\ KindOK
  BY DEF KeyInv
<1> DEFINE h == Head(answers)
<1>1. PICK sent \in Seq(Message) :
        /\ answers # <<>> /\ answers' = Tail(answers) /\ wire' = wire \o sent
        /\ \A n \in 1..Len(sent) : Follows(h, sent[n])
        /\ UNCHANGED Local
  BY <1>0, ClientFacts
<1>2. /\ wire' \in Seq(Message) /\ answers' \in Seq(Message)
      /\ h \in Message /\ h \in Answered
      /\ Answered' \subseteq Answered /\ Asked' = Asked \cup Elements(sent)
  BY <1>0, <1>1, ReceiveSets
<1> HIDE DEF h
<1>3. UNCHANGED <<old, users, currentUser, userKey, signIns, saves, kills, rejected, mixed, disturbed, early>>
  BY <1>1 DEF Local, database, history
<1>4. \A m \in Elements(sent) : Follows(h, m)
  BY <1>1 DEF Elements
<1>5. Carries(h) /\ h.ids \subseteq ChildIds /\ h.u \in Accounts
  BY <1>2 DEF KeyInv, KindOK, Message
<1>6. KindOK' /\ KeyOK' /\ OneUser'
  <2> SUFFICES ASSUME NEW m \in Elements(sent)
               PROVE  /\ Carries(m)
                      /\ "check" \notin mixed => OwnKey(m)
                      /\ mixed = {} /\ m.t = "del" => m.k = OldKey[m.u]
                      /\ m.t = "save" \/ \E n \in Asked \cup Answered : n.t # "save" /\ m.u = n.u
    <3>1. Asked' \cup Answered' \subseteq Asked \cup Answered \cup Elements(sent)
      BY <1>2
    <3> QED
      BY <1>3, <3>1, TrafficStep
  <2>1. Follows(h, m) /\ userKey \in OldKeys \cup {None}
    BY <1>0, <1>4 DEF TypeOK
  <2>2. Carries(m)
    BY <1>5, <2>1 DEF Follows, Carries
  <2>3. "check" \notin mixed => OwnKey(m)
    BY <1>2, <2>1 DEF Follows, KeyInv, KeyOK, OwnKey
  <2>4. mixed = {} /\ m.t = "del" => m.k = OldKey[m.u]
    BY <1>2, <2>1 DEF Follows, KeyInv, OneUser
  <2>5. h.t # "save" /\ m.u = h.u
    BY <2>1 DEF Follows
  <2> QED
    BY <1>2, <2>2, <2>3, <2>4, <2>5
<1>7. TypeOK'
  BY <1>0, <1>2, <1>3 DEF TypeOK
<1>8. SnapOK' /\ OwnDataOnly'
  BY <1>2, <1>3 DEF KeyInv, SnapOK, OwnDataOnly
<1> QED
  BY <1>6, <1>7, <1>8 DEF KeyInv

\* A sign-in notes whose migrations it meets.
LEMMA SignInKeyInv ==
  ASSUME KeyInv, NEW u \in Accounts, SignIn(u)
  PROVE  KeyInv'
<1> DEFINE m == Ask("check", u, None, None)
<1>0. TypeOK
  BY DEF KeyInv
<1>1. m \in Message /\ m.t = "check" /\ m.u = u
  BY AskType DEF Kinds
<1>2. /\ wire' = Append(wire, m) /\ answers' = answers /\ userKey' = OldKey[u]
      /\ mixed' = mixed \cup {n.t : n \in {x \in Migrating : x.u # u}}
      /\ UNCHANGED <<old, users, saves, kills, rejected, early>>
      /\ currentUser' = u /\ signIns' = signIns + 1 /\ disturbed' \in BOOLEAN
  BY <1>0 DEF SignIn, database, TypeOK
<1> HIDE DEF m
<1>3. wire' \in Seq(Message) /\ Asked' = Asked \cup {m} /\ Answered' = Answered
  BY <1>0, <1>1, <1>2, SendSets
<1>4. mixed' \subseteq Kinds
  <2>1. \A x \in Migrating : x.t \in Kinds
    <3>1. \A n \in 1..Len(wire) : wire[n] \in Message
      BY <1>0 DEF TypeOK
    <3>2. \A n \in 1..Len(answers) : answers[n] \in Message
      BY <1>0 DEF TypeOK
    <3> QED
      BY <3>1, <3>2 DEF Migrating, Messages, Message
  <2> QED
    BY <1>0, <1>2, <2>1 DEF TypeOK
<1>5. TypeOK'
  BY <1>0, <1>2, <1>3, <1>4, MigrationAssumption DEF TypeOK
<1>6. \A x \in Asked \cup Answered : x.t # "save" /\ x.u # u => x.t \in mixed'
  BY <1>2, MigratingMessages
<1>7. KindOK'
  BY <1>1, <1>3 DEF KeyInv, KindOK, Carries
<1>8. KeyOK'
  <2> SUFFICES ASSUME "check" \notin mixed', NEW x \in Asked \cup Answered \cup {m}
               PROVE  /\ x.t \in {"old", "child", "put"} => x.k = OldKey[x.u]
                      /\ x.t = "check" => OldKey[u] = OldKey[x.u]
    BY <1>2, <1>3 DEF KeyOK, OwnKey
  <2>1. x.t = "check" => x.u = u
    BY <1>1, <1>6
  <2> QED
    BY <1>1, <1>2, <2>1 DEF KeyInv, KeyOK, OwnKey
<1>9. OneUser'
  <2> SUFFICES ASSUME mixed' = {}
               PROVE  \A x \in Asked \cup Answered \cup {m} : x.t # "save" =>
                        x.u = u /\ (x.t = "del" => x.k = OldKey[x.u])
    BY <1>2, <1>3 DEF OneUser
  <2>1. \A x \in Asked \cup Answered : x.t # "save" => x.u = u
    BY <1>6
  <2> QED
    BY <1>1, <1>2, <2>1 DEF KeyInv, OneUser
<1>10. SnapOK' /\ OwnDataOnly'
  BY <1>2, <1>3 DEF KeyInv, SnapOK, OwnDataOnly
<1> QED
  BY <1>5, <1>7, <1>8, <1>9, <1>10 DEF KeyInv

\* Every step preserves KeyInv.
LEMMA NextKeyInv == KeyInv /\ [Next]_vars => KeyInv'
<1> SUFFICES ASSUME KeyInv, [Next]_vars PROVE KeyInv'
  OBVIOUS
<1>0. TypeOK
  BY DEF KeyInv
<1>1. CASE SignOut
  <2>1. UNCHANGED <<old, users, wire, answers, signIns, saves, kills, rejected, mixed, early>>
        /\ currentUser' = None /\ userKey' = None /\ disturbed' \in BOOLEAN
    BY <1>0, <1>1 DEF SignOut, database, TypeOK
  <2>2. Asked' = Asked /\ Answered' = Answered
    BY <2>1 DEF Asked, Answered
  <2>3. TypeOK'
    BY <1>0, <2>1 DEF TypeOK
  <2> QED
    BY <2>1, <2>2, <2>3 DEF KeyInv, KindOK, KeyOK, OwnKey, OneUser, SnapOK, OwnDataOnly
<1>2. CASE SaveFavorite
  <2>1. PICK c \in ChildIds : wire' = Append(wire, Ask("save", currentUser, None, c))
    BY <1>2 DEF SaveFavorite
  <2>2. currentUser \in Accounts /\ saves' = saves + 1 /\ early' \in BOOLEAN
        /\ UNCHANGED <<old, users, currentUser, userKey, answers, signIns, kills, rejected, mixed, disturbed>>
    BY <1>0, <1>2 DEF SaveFavorite, TypeOK, database, Pending
  <2> DEFINE m == Ask("save", currentUser, None, c)
  <2>3. m \in Message /\ m.t = "save" /\ m.c = c
    BY <2>2, AskType DEF Kinds
  <2>4. wire' = Append(wire, m)
    BY <2>1
  <2> HIDE DEF m
  <2>5. wire' \in Seq(Message) /\ Asked' = Asked \cup {m} /\ Answered' = Answered
    BY <1>0, <2>2, <2>3, <2>4, SendSets
  <2>6. KindOK' /\ KeyOK' /\ OneUser'
    <3>1. Carries(m) /\ OwnKey(m)
      BY <2>3 DEF Carries, OwnKey
    <3>2. Asked' \cup Answered' \subseteq Asked \cup Answered \cup {m}
      BY <2>5
    <3>3. \A x \in {m} :
            /\ Carries(x)
            /\ "check" \notin mixed => OwnKey(x)
            /\ mixed = {} /\ x.t = "del" => x.k = OldKey[x.u]
            /\ x.t = "save" \/ \E n \in Asked \cup Answered : n.t # "save" /\ x.u = n.u
      BY <2>3, <3>1
    <3>4. UNCHANGED <<mixed, userKey>>
      BY <2>2
    <3> QED
      BY <3>2, <3>3, <3>4, TrafficStep, Zenon
  <2>7. TypeOK'
    BY <1>0, <2>2, <2>5 DEF TypeOK
  <2> QED
    BY <2>2, <2>5, <2>6, <2>7 DEF KeyInv, SnapOK, OwnDataOnly
<1>3. CASE Kill
  <2>1. wire' = <<>> /\ answers' = <<>> /\ kills' = kills + 1 /\ disturbed' \in BOOLEAN
        /\ UNCHANGED <<old, users, currentUser, userKey, signIns, saves, rejected, mixed, early>>
    BY <1>0, <1>3 DEF Kill, database, TypeOK
  <2>2. Asked' = {} /\ Answered' = {} /\ <<>> \in Seq(Message)
    BY <2>1 DEF Asked, Answered, Elements
  <2>3. TypeOK'
    BY <1>0, <2>1, <2>2 DEF TypeOK
  <2> QED
    BY <2>1, <2>2, <2>3 DEF KeyInv, KindOK, KeyOK, OneUser, SnapOK, OwnDataOnly
<1>4. CASE UNCHANGED vars
  BY <1>4 DEF vars, database, device, history, KeyInv, TypeOK, KindOK, KeyOK, OwnKey, OneUser,
              SnapOK, OwnDataOnly, Asked, Answered
<1> QED
  BY <1>1, <1>2, <1>3, <1>4, SignInKeyInv, ServerKeyInv, ClientKeyInv DEF Next

-----------------------------------------------------------------------------
(* The order of the messages: answers come before what is still on the wire *)

Flow(a, w, i) == IF i <= Len(a) THEN a[i] ELSE w[i - Len(a)]

Total == Len(answers) + Len(wire)
At(i) == Flow(answers, wire, i)

InPlace(a, w, x, a2, w2) ==
  /\ Len(a) \in Nat /\ Len(w) \in Nat /\ Len(w) >= 1
  /\ Len(a2) = Len(a) + 1 /\ Len(a2) + Len(w2) = Len(a) + Len(w)
  /\ Flow(a, w, Len(a) + 1) = Head(w) /\ Flow(a2, w2, Len(a) + 1) = x
  /\ \A i \in 1..(Len(a) + Len(w)) : i # Len(a) + 1 => Flow(a2, w2, i) = Flow(a, w, i)

\* Serving a request replaces it by its answer, in its place.
LEMMA FlowServe ==
  ASSUME NEW a \in Seq(Message), NEW w \in Seq(Message), w # <<>>, NEW x \in Message,
         NEW a2, a2 = Append(a, x), NEW w2, w2 = Tail(w)
  PROVE  InPlace(a, w, x, a2, w2)
<1>1. /\ Len(a) \in Nat /\ Len(w) \in Nat /\ Len(w) >= 1
      /\ Len(a2) = Len(a) + 1 /\ Len(w2) = Len(w) - 1 /\ Head(w) = w[1]
      /\ a2[Len(a) + 1] = x /\ \A k \in 1..Len(a) : a2[k] = a[k]
      /\ \A k \in 1..Len(w2) : w2[k] = w[k + 1]
  OBVIOUS
<1>2. Flow(a, w, Len(a) + 1) = Head(w) /\ Flow(a2, w2, Len(a) + 1) = x
  BY <1>1 DEF Flow
<1>3. ASSUME NEW i \in 1..(Len(a) + Len(w)), i # Len(a) + 1
      PROVE  Flow(a2, w2, i) = Flow(a, w, i)
  <2>1. CASE i <= Len(a)
    BY <1>1, <2>1 DEF Flow
  <2>2. CASE ~(i <= Len(a))
    <3>1. /\ ~(i <= Len(a2)) /\ i - Len(a2) \in 1..Len(w2)
          /\ (i - Len(a2)) + 1 = i - Len(a)
      BY <1>1, <1>3, <2>2
    <3> QED
      BY <1>1, <2>2, <3>1 DEF Flow
  <2> QED
    BY <2>1, <2>2
<1> QED
  BY <1>1, <1>2, <1>3 DEF InPlace

Shifted(a, w, s, a2, w2) ==
  /\ Len(a) \in Nat /\ Len(w) \in Nat /\ Len(s) \in Nat /\ Len(a) >= 1
  /\ Len(a2) = Len(a) - 1 /\ Len(a2) + Len(w2) = (Len(a) + Len(w)) - 1 + Len(s)
  /\ Flow(a, w, 1) = Head(a)
  /\ \A i \in 1..((Len(a) + Len(w)) - 1) : Flow(a2, w2, i) = Flow(a, w, i + 1)
  /\ \A n \in 1..Len(s) : Flow(a2, w2, (Len(a) + Len(w)) - 1 + n) = s[n]

\* A callback takes the first message away and puts others at the end.
LEMMA FlowReceive ==
  ASSUME NEW a \in Seq(Message), NEW w \in Seq(Message), a # <<>>, NEW s \in Seq(Message),
         NEW a2, a2 = Tail(a), NEW w2, w2 = w \o s
  PROVE  Shifted(a, w, s, a2, w2)
<1>1. /\ Len(a) \in Nat /\ Len(w) \in Nat /\ Len(s) \in Nat /\ Len(a) >= 1
      /\ Len(a2) = Len(a) - 1 /\ Head(a) = a[1]
      /\ \A k \in 1..Len(a2) : a2[k] = a[k + 1]
  OBVIOUS
<1>2. /\ Len(w2) = Len(w) + Len(s)
      /\ \A k \in 1..(Len(w) + Len(s)) : w2[k] = IF k <= Len(w) THEN w[k] ELSE s[k - Len(w)]
  OBVIOUS
<1>3. ASSUME NEW i \in 1..((Len(a) + Len(w)) - 1)
      PROVE  Flow(a2, w2, i) = Flow(a, w, i + 1)
  <2>1. CASE i <= Len(a2)
    <3>1. i \in 1..Len(a2) /\ i + 1 <= Len(a)
      BY <1>1, <2>1
    <3> QED
      BY <1>1, <3>1 DEF Flow
  <2>2. CASE ~(i <= Len(a2))
    <3>1. /\ ~(i + 1 <= Len(a)) /\ i - Len(a2) \in 1..Len(w)
          /\ i - Len(a2) = (i + 1) - Len(a) /\ i - Len(a2) <= Len(w)
          /\ i - Len(a2) \in 1..(Len(w) + Len(s))
      BY <1>1, <2>2
    <3> QED
      BY <1>2, <2>2, <3>1 DEF Flow
  <2> QED
    BY <2>1, <2>2
<1>4. ASSUME NEW n \in 1..Len(s)
      PROVE  Flow(a2, w2, (Len(a) + Len(w)) - 1 + n) = s[n]
  <2> DEFINE i == (Len(a) + Len(w)) - 1 + n
  <2>1. /\ ~(i <= Len(a2)) /\ i - Len(a2) = Len(w) + n
    BY <1>1
  <2>2. /\ Len(w) + n \in 1..(Len(w) + Len(s)) /\ ~(Len(w) + n <= Len(w))
        /\ (Len(w) + n) - Len(w) = n
    BY <1>1
  <2> QED
    BY <1>2, <2>1, <2>2 DEF Flow
<1>5. Flow(a, w, 1) = Head(a) /\ Len(a2) + Len(w2) = (Len(a) + Len(w)) - 1 + Len(s)
  BY <1>1, <1>2 DEF Flow
<1> QED
  BY <1>1, <1>3, <1>4, <1>5 DEF Shifted

Extended(a, w, x, w2) ==
  /\ Len(a) \in Nat /\ Len(w) \in Nat /\ Len(w2) = Len(w) + 1
  /\ \A i \in 1..(Len(a) + Len(w)) : Flow(a, w2, i) = Flow(a, w, i)
  /\ Flow(a, w2, Len(a) + Len(w) + 1) = x

\* A new request goes to the end.
LEMMA FlowSend ==
  ASSUME NEW a \in Seq(Message), NEW w \in Seq(Message), NEW x \in Message,
         NEW w2, w2 = Append(w, x)
  PROVE  Extended(a, w, x, w2)
<1>1. /\ Len(a) \in Nat /\ Len(w) \in Nat /\ Len(w2) = Len(w) + 1 /\ w2[Len(w) + 1] = x
      /\ \A k \in 1..Len(w) : w2[k] = w[k]
  OBVIOUS
<1>2. ASSUME NEW i \in 1..(Len(a) + Len(w)) PROVE Flow(a, w2, i) = Flow(a, w, i)
  BY <1>1 DEF Flow
<1>3. /\ ~(Len(a) + Len(w) + 1 <= Len(a)) /\ (Len(a) + Len(w) + 1) - Len(a) = Len(w) + 1
  BY <1>1
<1> QED
  BY <1>1, <1>2, <1>3 DEF Flow, Extended

\* The message at a position is asked or answered.
LEMMA AtMember ==
  ASSUME TypeOK, NEW i \in 1..Total
  PROVE  /\ At(i) \in Asked \cup Answered
         /\ i <= Len(answers) => At(i) \in Answered
<1>1. /\ answers \in Seq(Message) /\ wire \in Seq(Message) /\ Len(answers) \in Nat /\ Len(wire) \in Nat
  BY DEF TypeOK
<1>2. CASE i <= Len(answers)
  BY <1>1, <1>2 DEF At, Flow, Answered, Elements
<1>3. CASE ~(i <= Len(answers))
  <2>1. i - Len(answers) \in 1..Len(wire)
    BY <1>1, <1>3 DEF Total
  <2> QED
    BY <1>3, <2>1 DEF At, Flow, Asked, Elements
<1> QED
  BY <1>2, <1>3

-----------------------------------------------------------------------------
(* Every child is copied before its node is removed *)

Copied(u, k, c) == users[u][c] # None \/ <<k, c>> \in rejected

\* A write that has not been served.
PutAt(i, u, c) ==
  i \in (Len(answers) + 1)..Total /\ At(i).t = "put" /\ At(i).u = u /\ At(i).c = c

\* A read that has not been served, or was answered with a dictionary.
ChildAt(i, u, c) ==
  /\ i \in 1..Total /\ At(i).t = "child" /\ At(i).u = u /\ At(i).c = c
  /\ i <= Len(answers) => At(i).yes

\* The child c is copied, or what will copy it is far enough ahead of message i.
Secured(i, c) ==
  LET m == At(i) IN
  \/ Copied(m.u, m.k, c)
  \/ m.t = "del" /\ i <= Len(answers)
  \/ m.t = "del" /\ \E j \in 1..Total : j < i /\ PutAt(j, m.u, c)
  \/ m.t # "del" /\ \E j \in 1..Total : PutAt(j, m.u, c)
  \/ m.t = "put" /\ \E j \in 1..Total : j < i /\ ChildAt(j, m.u, c)
  \/ m.t = "child" /\ \E j \in 1..Total : ChildAt(j, m.u, c)

CopyOK ==
  mixed = {} =>
    \A i \in 1..Total : At(i).t \in {"child", "put", "del"} =>
      \A c \in old[At(i).k] \ Plain : Secured(i, c)

CopyInv == CopyOK /\ NothingLost

\* While accounts do not mix, the messages of a migration name the node of its user.
LEMMA OneKey ==
  ASSUME KeyInv, mixed = {}, NEW i \in 1..Total, At(i).t \in {"child", "put", "del"}
  PROVE  At(i).k = OldKey[At(i).u] /\ At(i).k \in OldKeys /\ At(i).u \in Accounts
<1>1. At(i) \in Asked \cup Answered
  BY AtMember DEF KeyInv
<1>2. At(i).k = OldKey[At(i).u] /\ At(i).k \in OldKeys
  BY <1>1 DEF KeyInv, KeyOK, OwnKey, OneUser, KindOK, Carries
<1>3. \A m \in Asked \cup Answered : m \in Message
  BY DEF KeyInv, TypeOK, Asked, Answered, Elements
<1> QED
  BY <1>1, <1>2, <1>3 DEF Message

\* A write that has not been served is on the wire.
LEMMA PutIsAsked ==
  ASSUME TypeOK, NEW u, NEW c, NEW j, PutAt(j, u, c)
  PROVE  \E m \in Asked : m.t = "put" /\ m.u = u /\ m.c = c
<1>1. Len(answers) \in Nat /\ Len(wire) \in Nat
  BY DEF TypeOK
<1>2. j \in (Len(answers) + 1)..(Len(answers) + Len(wire))
  BY DEF PutAt, Total
<1>3. j - Len(answers) \in 1..Len(wire) /\ ~(j <= Len(answers))
  BY <1>1, <1>2
<1> QED
  BY <1>3 DEF PutAt, At, Flow, Asked, Elements

\* A node that only the device sees empty has its children's writes ahead of the
\* removal.
LEMMA HiddenIsCopied ==
  ASSUME KeyInv, CopyInv, mixed = {}, NEW h \in Asked \cup Answered, h.t # "save",
         NEW k, NEW c \in old[k] \ Plain, c \notin OldAt(k)
  PROVE  Copied(h.u, k, c) \/ \E j : PutAt(j, h.u, c)
<1>1. Len(answers) \in Nat /\ Len(wire) \in Nat
  BY DEF KeyInv, TypeOK
<1>2. PICK n \in 1..Len(wire) : wire[n].t = "del" /\ wire[n].k = k
  BY DEF OldAt
<1>3. PICK i : i = Len(answers) + n
  OBVIOUS
<1>4. i \in 1..Total /\ ~(i <= Len(answers)) /\ i - Len(answers) = n
  BY <1>1, <1>3 DEF Total
<1>5. At(i) = wire[n] /\ wire[n] \in Asked
  BY <1>4 DEF At, Flow, Asked, Elements
<1>6. Secured(i, c)
  BY <1>2, <1>4, <1>5 DEF CopyInv, CopyOK
<1>7. wire[n].u = h.u
  BY <1>2, <1>5 DEF KeyInv, OneUser
<1> QED
  BY <1>2, <1>4, <1>5, <1>6, <1>7 DEF Secured

\* The database's steps: a served write is in, a served read says yes or its child
\* is copied.
LEMMA ServerCopyInv ==
  ASSUME KeyInv, CopyInv, Server
  PROVE  CopyInv'
<1>0. TypeOK /\ KindOK /\ answers \in Seq(Message) /\ wire \in Seq(Message)
  BY DEF KeyInv, TypeOK
<1> DEFINE h == Head(wire)
<1>1. PICK a \in Message :
        /\ wire # <<>> /\ wire' = Tail(wire) /\ answers' = Append(answers, a)
        /\ ServedAs(h, a) /\ mixed' = mixed
  BY <1>0, ServerFacts
<1>2. PICK p : p = Len(answers) + 1
  OBVIOUS
<1>3. /\ p \in 1..Total /\ Len(answers) \in Nat /\ Len(wire) \in Nat /\ Total' = Total /\ Len(answers)' = p
      /\ At(p) = h /\ At(p)' = a
      /\ \A i \in 1..Total : i # p => At(i)' = At(i)
  <2>1. PICK a2, w2 : a2 = answers' /\ w2 = wire'
    OBVIOUS
  <2>2. a2 = Append(answers, a) /\ w2 = Tail(wire)
    BY <1>1, <2>1
  <2>3. InPlace(answers, wire, a, a2, w2)
    BY <1>0, <1>1, <2>2, FlowServe, Zenon
  <2> QED
    BY <1>2, <2>1, <2>3 DEF Total, At, InPlace
<1> HIDE DEF h
<1>4. /\ Carries(h) /\ h.u \in Accounts /\ a.t = h.t /\ a.u = h.u /\ a.k = h.k /\ a.c = h.c
  <2>1. h \in Asked \cup Answered /\ h \in Message
    BY <1>0, <1>1, TailElements DEF h, Asked
  <2> QED
    BY <1>1, <2>1 DEF KeyInv, KindOK, ServedAs, Message
<1>5. /\ \A u \in Accounts, c \in ChildIds : users[u][c] # None => users'[u][c] # None
      /\ rejected \subseteq rejected'
      /\ \A k \in OldKeys : old'[k] \subseteq old[k] /\ old[k] \subseteq ChildIds
  <2>0. /\ old \in [OldKeys -> SUBSET ChildIds]
        /\ users \in [Accounts -> [ChildIds -> OldKeys \cup {None, "saved"}]]
    BY <1>0 DEF TypeOK
  <2>1. CASE UNCHANGED <<old, users, rejected>>
    BY <2>0, <2>1
  <2>2. CASE /\ h.t \in {"put", "save"} /\ UNCHANGED <<old, rejected>>
             /\ users' = [users EXCEPT ![h.u][h.c] = IF h.t = "put" THEN h.k ELSE "saved"]
    <3>1. h.c \in ChildIds /\ (h.t = "put" => h.k # None) /\ "saved" # None
      BY <1>4, <2>2, MigrationAssumption DEF Carries
    <3> QED
      BY <1>4, <2>0, <2>2, <3>1
  <2>3. CASE /\ h.t \in {"put", "save"} /\ UNCHANGED <<old, users>>
             /\ rejected' = IF h.t = "put" THEN rejected \cup {<<h.k, h.c>>} ELSE rejected
    BY <2>0, <2>3
  <2>4. CASE h.t = "del" /\ old' = [old EXCEPT ![h.k] = {}] /\ UNCHANGED <<users, rejected>>
    BY <1>4, <2>0, <2>4 DEF Carries
  <2> QED
    BY <1>1, <2>1, <2>2, <2>3, <2>4 DEF ServedAs
<1>6. ASSUME NEW i \in 1..Total PROVE At(i)'.t = At(i).t /\ At(i)'.u = At(i).u /\ At(i)'.k = At(i).k
  BY <1>3, <1>4
<1>7. ASSUME NEW u \in Accounts, NEW c \in ChildIds, NEW j, PutAt(j, u, c), mixed = {}
      PROVE  PutAt(j, u, c)' \/ Copied(u, OldKey[u], c)'
  <2>1. CASE j # p
    <3>1. j \in (p + 1)..Total /\ j \in 1..Total
      BY <1>2, <1>3, <1>7, <2>1 DEF PutAt
    <3> QED
      BY <1>3, <1>7, <2>1, <3>1 DEF PutAt
  <2>2. CASE j = p
    <3>1. h.t = "put" /\ h.u = u /\ h.c = c /\ h.k = OldKey[u] /\ h.k \in OldKeys
      BY <1>3, <1>7, <2>2, OneKey DEF PutAt
    <3>2. users'[u][c] # None \/ <<h.k, c>> \in rejected'
      <4>1. CASE users' = [users EXCEPT ![h.u][h.c] = IF h.t = "put" THEN h.k ELSE "saved"]
        <5>1. users'[u][c] = h.k
          BY <1>0, <3>1, <4>1 DEF TypeOK
        <5> QED
          BY <3>1, <5>1, MigrationAssumption
      <4>2. CASE rejected' = IF h.t = "put" THEN rejected \cup {<<h.k, h.c>>} ELSE rejected
        BY <3>1, <4>2
      <4> QED
        BY <1>1, <3>1, <4>1, <4>2 DEF ServedAs
    <3> QED
      BY <3>1, <3>2 DEF Copied
  <2> QED
    BY <2>1, <2>2
<1>8. ASSUME NEW u \in Accounts, NEW c \in old[OldKey[u]] \ Plain, NEW j, ChildAt(j, u, c), mixed = {}
      PROVE  ChildAt(j, u, c)' \/ Copied(u, OldKey[u], c)' \/ \E l \in 1..Total : PutAt(l, u, c)'
  <2>1. CASE j # p
    BY <1>2, <1>3, <1>8, <2>1 DEF ChildAt
  <2>2. CASE j = p
    <3>1. h.t = "child" /\ h.u = u /\ h.c = c /\ h.k = OldKey[u] /\ h.k \in OldKeys
      BY <1>3, <1>8, <2>2, OneKey DEF ChildAt
    <3>2. CASE a.yes
      BY <1>3, <1>4, <2>2, <3>1, <3>2 DEF ChildAt
    <3>3. CASE ~a.yes
      <4>1. c \notin OldAt(h.k) /\ c \in ChildIds
        BY <1>1, <1>5, <1>8, <3>1, <3>3 DEF ServedAs
      <4>2. h \in Asked \cup Answered /\ h.t # "save"
        BY <1>0, <1>3, <3>1, AtMember
      <4>3. Copied(u, OldKey[u], c) \/ \E l : PutAt(l, u, c)
        BY <1>8, <3>1, <4>1, <4>2, HiddenIsCopied
      <4>4. CASE Copied(u, OldKey[u], c)
        BY <1>5, <4>1, <4>4 DEF Copied
      <4>5. ASSUME NEW l, PutAt(l, u, c)
            PROVE  Copied(u, OldKey[u], c)' \/ \E n \in 1..Total : PutAt(n, u, c)'
        <5>1. l \in 1..Total
          BY <1>3, <4>5 DEF PutAt
        <5> QED
          BY <1>7, <1>8, <4>1, <4>5, <5>1
      <4> QED
        BY <4>3, <4>4, <4>5
    <3> QED
      BY <3>2, <3>3
  <2> QED
    BY <2>1, <2>2
<1>9. CopyOK'
  <2> SUFFICES ASSUME mixed = {}, NEW i \in 1..Total, At(i).t \in {"child", "put", "del"},
                      NEW c \in old'[At(i).k] \ Plain
               PROVE  Secured(i, c)'
    BY <1>1, <1>3, <1>6 DEF CopyOK
  <2>0. PICK u : u = At(i).u
    OBVIOUS
  <2>1. At(i).k = OldKey[u] /\ At(i).k \in OldKeys /\ u \in Accounts
    BY <2>0, OneKey
  <2>2. c \in ChildIds /\ c \in old[OldKey[u]] \ Plain
    BY <1>5, <2>1
  <2>3. Secured(i, c)
    BY <2>1, <2>2 DEF CopyInv, CopyOK
  <2>4. Copied(u, OldKey[u], c) => Copied(u, OldKey[u], c)'
    BY <1>5, <2>1, <2>2 DEF Copied
  <2>5. At(i)'.t = At(i).t /\ At(i)'.u = u /\ At(i)'.k = OldKey[u]
    BY <1>6, <2>0, <2>1
  <2>6. i <= Len(answers) => i <= Len(answers)'
    BY <1>2, <1>3
  <2>7. CASE Copied(u, OldKey[u], c)'
    BY <2>5, <2>7 DEF Secured, Copied
  <2>8. CASE ~Copied(u, OldKey[u], c)'
    <3>1. \A j : PutAt(j, u, c) => PutAt(j, u, c)'
      BY <1>7, <2>1, <2>2, <2>8
    <3>2. \A j : ChildAt(j, u, c) => ChildAt(j, u, c)' \/ \E l \in 1..Total : PutAt(l, u, c)'
      BY <1>8, <2>1, <2>2, <2>8
    <3>3. \/ At(i).t = "del" /\ i <= Len(answers)
          \/ At(i).t = "del" /\ \E j \in 1..Total : j < i /\ PutAt(j, u, c)
          \/ At(i).t # "del" /\ \E j \in 1..Total : PutAt(j, u, c)
          \/ At(i).t = "put" /\ \E j \in 1..Total : j < i /\ ChildAt(j, u, c)
          \/ At(i).t = "child" /\ \E j \in 1..Total : ChildAt(j, u, c)
      BY <2>0, <2>1, <2>3, <2>4, <2>8 DEF Secured
    <3>4. \/ At(i)'.t = "del" /\ i <= Len(answers)'
          \/ At(i)'.t = "del" /\ \E j \in 1..Total' : j < i /\ PutAt(j, u, c)'
          \/ At(i)'.t # "del" /\ \E j \in 1..Total' : PutAt(j, u, c)'
          \/ At(i)'.t = "put" /\ \E j \in 1..Total' : j < i /\ ChildAt(j, u, c)'
          \/ At(i)'.t = "child" /\ \E j \in 1..Total' : ChildAt(j, u, c)'
      BY <1>3, <2>5, <2>6, <3>1, <3>2, <3>3
    <3> QED
      BY <2>5, <3>4 DEF Secured, PutAt, ChildAt
  <2> QED
    BY <2>7, <2>8
<1>10. NothingLost'
  <2> SUFFICES ASSUME mixed = {}, NEW k \in OldKeys, NEW c \in Legacy[k] \ Plain
               PROVE  c \in old'[k] \/ Moved(k, c)' \/ <<k, c>> \in rejected'
    BY <1>1 DEF NothingLost
  <2>0. c \in ChildIds
    BY MigrationAssumption
  <2>1. c \in old[k] \/ Moved(k, c) \/ <<k, c>> \in rejected
    BY DEF CopyInv, NothingLost
  <2>2. Moved(k, c) => Moved(k, c)'
    BY <1>5, <2>0 DEF Moved
  <2>3. CASE c \in old[k] /\ c \notin old'[k]
    <3>1. h.t = "del" /\ h.k = k
      BY <1>0, <1>1, <1>4, <2>3 DEF ServedAs, TypeOK, Carries
    <3>2. h.k = OldKey[h.u]
      BY <1>3, <3>1, OneKey
    <3>3. Secured(p, c)
      BY <1>3, <2>3, <3>1 DEF CopyInv, CopyOK
    <3>4. ~(p <= Len(answers)) /\ \A j \in 1..Total : j < p => ~PutAt(j, h.u, c)
      BY <1>2, <1>3 DEF PutAt
    <3>5. Copied(h.u, k, c)
      BY <1>3, <3>1, <3>3, <3>4 DEF Secured
    <3> QED
      BY <1>4, <1>5, <2>0, <3>1, <3>2, <3>5 DEF Copied, Moved
  <2> QED
    BY <1>5, <2>1, <2>2, <2>3
<1> QED
  BY <1>9, <1>10 DEF CopyInv

\* The callbacks: a child that was read is written, and the reads and writes of all
\* children are ahead of the removal that follows the first write.
LEMMA ClientCopyInv ==
  ASSUME KeyInv, CopyInv, Client
  PROVE  CopyInv'
<1>0. TypeOK /\ answers \in Seq(Message) /\ wire \in Seq(Message)
  BY DEF KeyInv, TypeOK
<1>1. PICK sent \in Seq(Message) :
        /\ answers # <<>> /\ answers' = Tail(answers) /\ wire' = wire \o sent
        /\ \A n \in 1..Len(sent) : Follows(Head(answers), sent[n])
        /\ Head(answers).t = "old" => \A c \in Head(answers).ids : \E n \in 1..Len(sent) :
             sent[n].t = "child" /\ sent[n].u = Head(answers).u /\ sent[n].c = c
        /\ Head(answers).t = "child" /\ Head(answers).yes => \E n \in 1..Len(sent) :
             sent[n].t = "put" /\ sent[n].u = Head(answers).u /\ sent[n].c = Head(answers).c
        /\ UNCHANGED Local
  BY <1>0, ClientFacts, Zenon
<1>2. PICK h, T, L : h = Head(answers) /\ T = Total /\ L = Len(answers)
  OBVIOUS
<1>3. /\ T \in Nat /\ L \in Nat /\ L >= 1 /\ L <= T /\ Len(sent) \in Nat
      /\ Total' = T - 1 + Len(sent) /\ Len(answers)' = L - 1
      /\ At(1) = h
      /\ \A i \in 1..(T - 1) : At(i)' = At(i + 1)
      /\ \A n \in 1..Len(sent) : At(T - 1 + n)' = sent[n]
  <2>1. PICK a2, w2 : a2 = answers' /\ w2 = wire'
    OBVIOUS
  <2>2. a2 = Tail(answers) /\ w2 = wire \o sent
    BY <1>1, <2>1
  <2>3. Shifted(answers, wire, sent, a2, w2)
    BY <1>0, <1>1, <2>2, FlowReceive, Zenon
  <2> QED
    BY <1>2, <2>1, <2>3 DEF Total, At, Shifted
<1>4. UNCHANGED <<old, users, rejected, mixed, userKey>>
  BY <1>1 DEF Local, database, history
<1>5. ASSUME NEW u, NEW c, NEW j, PutAt(j, u, c)
      PROVE  j - 1 \in 1..(T - 1) /\ j - 1 < j /\ j - 1 \in 1..Total' /\ PutAt(j - 1, u, c)'
  <2>1. j \in (L + 1)..T /\ At(j).t = "put" /\ At(j).u = u /\ At(j).c = c
    BY <1>2, <1>5 DEF PutAt
  <2>2. /\ j - 1 \in 1..(T - 1) /\ (j - 1) + 1 = j /\ j - 1 < j
        /\ j - 1 \in ((L - 1) + 1)..(T - 1 + Len(sent)) /\ j - 1 \in 1..(T - 1 + Len(sent))
    BY <1>3, <2>1
  <2>3. At(j - 1)' = At(j)
    BY <1>3, <2>2
  <2> QED
    BY <1>3, <2>1, <2>2, <2>3 DEF PutAt
<1>6. ASSUME NEW n \in 1..Len(sent)
      PROVE  /\ T - 1 + n \in 1..Total' /\ T - 1 + n \in (Len(answers)' + 1)..Total'
             /\ At(T - 1 + n)' = sent[n] /\ ~(T - 1 + n <= Len(answers)')
             /\ \A j \in 1..(T - 1) : j < T - 1 + n
  BY <1>3
<1>7. ASSUME NEW u, NEW c, ChildAt(1, u, c)
      PROVE  \E j \in 1..Total' : PutAt(j, u, c)'
  <2>1. h.t = "child" /\ h.u = u /\ h.c = c /\ h.yes
    BY <1>2, <1>3, <1>7 DEF ChildAt
  <2>2. PICK n \in 1..Len(sent) : sent[n].t = "put" /\ sent[n].u = u /\ sent[n].c = c
    BY <1>1, <1>2, <2>1
  <2>3. PutAt(T - 1 + n, u, c)'
    BY <1>6, <2>2 DEF PutAt
  <2> QED
    BY <1>6, <2>3
<1>8. ASSUME NEW u, NEW c, NEW j, ChildAt(j, u, c), j # 1
      PROVE  j - 1 \in 1..(T - 1) /\ j - 1 \in 1..Total' /\ ChildAt(j - 1, u, c)'
  <2>1. j \in 1..T /\ At(j).t = "child" /\ At(j).u = u /\ At(j).c = c /\ (j <= L => At(j).yes)
    BY <1>2, <1>8 DEF ChildAt
  <2>2. /\ j - 1 \in 1..(T - 1) /\ (j - 1) + 1 = j
        /\ j - 1 \in 1..(T - 1 + Len(sent)) /\ (j - 1 <= L - 1 => j <= L)
    BY <1>3, <1>8, <2>1
  <2>3. At(j - 1)' = At(j)
    BY <1>3, <2>2
  <2> QED
    BY <1>3, <2>1, <2>2, <2>3 DEF ChildAt
<1>9. CopyOK'
  <2> SUFFICES ASSUME mixed = {}, NEW i \in 1..Total', At(i)'.t \in {"child", "put", "del"},
                      NEW c \in old[At(i)'.k] \ Plain
               PROVE  Secured(i, c)'
    BY <1>4 DEF CopyOK
  <2>0. PICK m : m = At(i)'
    OBVIOUS
  <2>1. ASSUME \/ Copied(m.u, m.k, c)
               \/ m.t = "del" /\ i <= L - 1
               \/ m.t = "del" /\ \E j \in 1..Total' : j < i /\ PutAt(j, m.u, c)'
               \/ m.t # "del" /\ \E j \in 1..Total' : PutAt(j, m.u, c)'
               \/ m.t = "put" /\ \E j \in 1..Total' : j < i /\ ChildAt(j, m.u, c)'
               \/ m.t = "child" /\ \E j \in 1..Total' : ChildAt(j, m.u, c)'
        PROVE  Secured(i, c)'
    <3>1. Copied(m.u, m.k, c) => Copied(m.u, m.k, c)'
      BY <1>4 DEF Copied
    <3> QED
      BY <1>3, <2>0, <2>1, <3>1 DEF Secured, PutAt, ChildAt, Copied
  <2>2. CASE i \in 1..(T - 1)
    <3>1. i + 1 \in 1..T /\ m = At(i + 1) /\ (i + 1 <= L => i <= L - 1)
      BY <1>3, <2>0, <2>2
    <3>2. Secured(i + 1, c)
      BY <1>2, <2>0, <3>1 DEF CopyInv, CopyOK
    <3>3. \A j : PutAt(j, m.u, c) => j - 1 \in 1..Total' /\ PutAt(j - 1, m.u, c)' /\ (j < i + 1 => j - 1 < i)
      <4> SUFFICES ASSUME NEW j, PutAt(j, m.u, c)
                   PROVE  j - 1 \in 1..Total' /\ PutAt(j - 1, m.u, c)' /\ (j < i + 1 => j - 1 < i)
        OBVIOUS
      <4>1. j \in (L + 1)..T
        BY <1>2 DEF PutAt
      <4>2. j < i + 1 => j - 1 < i
        BY <1>3, <2>2, <4>1
      <4> QED
        BY <1>5, <4>2
    <3>4. \A j : ChildAt(j, m.u, c) =>
            \/ \E l \in 1..Total' : PutAt(l, m.u, c)'
            \/ j - 1 \in 1..Total' /\ ChildAt(j - 1, m.u, c)' /\ (j < i + 1 => j - 1 < i)
      <4> SUFFICES ASSUME NEW j, ChildAt(j, m.u, c)
                   PROVE  \/ \E l \in 1..Total' : PutAt(l, m.u, c)'
                          \/ j - 1 \in 1..Total' /\ ChildAt(j - 1, m.u, c)' /\ (j < i + 1 => j - 1 < i)
        OBVIOUS
      <4>1. CASE j = 1
        BY <1>7, <4>1
      <4>2. CASE j # 1
        <5>1. j \in 1..T
          BY <1>2 DEF ChildAt
        <5> QED
          BY <1>3, <1>8, <2>2, <4>2, <5>1
      <4> QED
        BY <4>1, <4>2
    <3>5. \/ Copied(m.u, m.k, c)
          \/ m.t = "del" /\ i + 1 <= L
          \/ m.t = "del" /\ \E j \in 1..T : j < i + 1 /\ PutAt(j, m.u, c)
          \/ m.t # "del" /\ \E j \in 1..T : PutAt(j, m.u, c)
          \/ m.t = "put" /\ \E j \in 1..T : j < i + 1 /\ ChildAt(j, m.u, c)
          \/ m.t = "child" /\ \E j \in 1..T : ChildAt(j, m.u, c)
      BY <1>2, <3>1, <3>2 DEF Secured
    <3>6. m.t \in {"put", "child"} => m.t # "del"
      OBVIOUS
    <3> QED
      BY <2>1, <3>1, <3>3, <3>4, <3>5, <3>6
  <2>3. CASE i \notin 1..(T - 1)
    <3>1. PICK n \in 1..Len(sent) : i = T - 1 + n /\ m = sent[n]
      <4>1. i - (T - 1) \in 1..Len(sent) /\ T - 1 + (i - (T - 1)) = i
        BY <1>3, <2>3
      <4> QED
        BY <1>6, <2>0, <4>1
    <3>2. Follows(h, m) /\ m.u = h.u
      BY <1>1, <1>2, <3>1 DEF Follows
    <3>3. /\ 1 \in 1..T /\ 1 <= L /\ h \in Answered /\ 1 \in 1..Total
      <4>1. 1 \in 1..T /\ 1 <= L
        BY <1>3
      <4> QED
        BY <1>0, <1>2, <1>3, <4>1, AtMember
    <3>4. \A j \in 1..(T - 1) : j < i
      BY <1>6, <3>1
    <3>5. CASE m.t = "child"
      <4>1. h.t = "old" /\ m.k = h.k
        BY <3>2, <3>5 DEF Follows
      <4>2. c \in h.ids
        <5>1. h.ids # {}
          BY <3>2, <3>5 DEF Follows
        <5> QED
          BY <2>0, <3>3, <4>1, <5>1 DEF KeyInv, SnapOK
      <4>3. PICK l \in 1..Len(sent) : sent[l].t = "child" /\ sent[l].u = m.u /\ sent[l].c = c
        BY <1>1, <1>2, <3>2, <4>1, <4>2
      <4>4. ChildAt(T - 1 + l, m.u, c)'
        BY <1>6, <4>3 DEF ChildAt
      <4> QED
        BY <1>6, <2>1, <3>5, <4>4
    <3>6. CASE m.t = "put"
      <4>1. h.t = "child" /\ m.k = h.k
        BY <3>2, <3>6 DEF Follows
      <4>2. Secured(1, c)
        BY <1>3, <2>0, <3>3, <4>1 DEF CopyInv, CopyOK
      <4>3. Copied(m.u, m.k, c) \/ (\E j : PutAt(j, m.u, c)) \/ (\E j : ChildAt(j, m.u, c))
        BY <1>3, <3>2, <4>1, <4>2 DEF Secured
      <4>4. CASE Copied(m.u, m.k, c)
        BY <2>1, <4>4
      <4>5. ASSUME NEW j, PutAt(j, m.u, c) PROVE Secured(i, c)'
        BY <1>5, <2>1, <3>6, <4>5
      <4>6. ASSUME NEW j, ChildAt(j, m.u, c) PROVE Secured(i, c)'
        <5>1. CASE j = 1
          BY <1>7, <2>1, <3>6, <4>6, <5>1
        <5>2. CASE j # 1
          BY <1>8, <2>1, <3>4, <3>6, <4>6, <5>2
        <5> QED
          BY <5>1, <5>2
      <4> QED
        BY <4>3, <4>4, <4>5, <4>6
    <3>7. CASE m.t = "del"
      <4>1. h.t = "put" /\ userKey # None /\ m.k = userKey
        BY <3>2, <3>7 DEF Follows
      <4>2. userKey = OldKey[h.u] /\ h.k = OldKey[h.u]
        BY <1>3, <3>3, <4>1, OneKey DEF KeyInv, OneUser
      <4>3. Secured(1, c)
        BY <1>3, <2>0, <3>3, <4>1, <4>2 DEF CopyInv, CopyOK
      <4>4. Copied(m.u, m.k, c) \/ (\E j : PutAt(j, m.u, c))
        <5>1. \A j \in 1..Total : ~(j < 1)
          BY <1>2, <1>3
        <5> QED
          BY <1>3, <3>2, <4>1, <4>2, <4>3, <5>1 DEF Secured
      <4>5. CASE Copied(m.u, m.k, c)
        BY <2>1, <4>5
      <4>6. ASSUME NEW j, PutAt(j, m.u, c) PROVE Secured(i, c)'
        BY <1>5, <2>1, <3>4, <3>7, <4>6
      <4> QED
        BY <4>4, <4>5, <4>6
    <3> QED
      BY <2>0, <3>5, <3>6, <3>7
  <2> QED
    BY <2>2, <2>3
<1>10. NothingLost'
  BY <1>4 DEF CopyInv, NothingLost, Moved
<1> QED
  BY <1>9, <1>10 DEF CopyInv

\* A request at the end that is no part of a copy.
LEMMA SendCopyInv ==
  ASSUME TypeOK, CopyInv, NEW x \in Message, x.t \notin {"child", "put", "del"},
         wire' = Append(wire, x), UNCHANGED <<answers, old, users, rejected>>,
         mixed' = {} => mixed = {}
  PROVE  CopyInv'
<1>0. answers \in Seq(Message) /\ wire \in Seq(Message)
  BY DEF TypeOK
<1>1. PICK T : T = Total
  OBVIOUS
<1>2. /\ T \in Nat /\ Total' = T + 1 /\ Len(answers)' = Len(answers) /\ At(T + 1)' = x
      /\ \A i \in 1..T : At(i)' = At(i)
  <2>1. PICK w2 : w2 = wire'
    OBVIOUS
  <2>2. Extended(answers, wire, x, w2)
    BY <1>0, <2>1, FlowSend, Zenon
  <2> QED
    BY <1>1, <2>1, <2>2 DEF Total, At, Extended
<1>3. \A j \in 1..T : j \in 1..Total'
  BY <1>2
<1>4. ASSUME NEW u, NEW c, NEW j, PutAt(j, u, c) PROVE PutAt(j, u, c)'
  <2>1. j \in (Len(answers) + 1)..T /\ j \in 1..T /\ j \in (Len(answers)' + 1)..Total'
    BY <1>0, <1>1, <1>2, <1>4 DEF PutAt
  <2> QED
    BY <1>2, <1>4, <2>1 DEF PutAt
<1>5. ASSUME NEW u, NEW c, NEW j, ChildAt(j, u, c) PROVE ChildAt(j, u, c)'
  BY <1>1, <1>2, <1>3, <1>5 DEF ChildAt
<1>6. CopyOK'
  <2> SUFFICES ASSUME mixed = {}, NEW i \in 1..Total', At(i)'.t \in {"child", "put", "del"},
                      NEW c \in old[At(i)'.k] \ Plain
               PROVE  Secured(i, c)'
    BY DEF CopyOK
  <2>1. PICK m : m = At(i)'
    OBVIOUS
  <2>2. i \in 1..T
    <3>1. i # T + 1
      BY <1>2
    <3> QED
      BY <1>2, <3>1
  <2>3. At(i) = m /\ Secured(i, c)
    BY <1>1, <1>2, <2>1, <2>2 DEF CopyInv, CopyOK
  <2>4. Copied(m.u, m.k, c) => Copied(m.u, m.k, c)'
    BY DEF Copied
  <2>5. \/ Copied(m.u, m.k, c)'
        \/ m.t = "del" /\ i <= Len(answers)'
        \/ m.t = "del" /\ \E j \in 1..Total' : j < i /\ PutAt(j, m.u, c)'
        \/ m.t # "del" /\ \E j \in 1..Total' : PutAt(j, m.u, c)'
        \/ m.t = "put" /\ \E j \in 1..Total' : j < i /\ ChildAt(j, m.u, c)'
        \/ m.t = "child" /\ \E j \in 1..Total' : ChildAt(j, m.u, c)'
    BY <1>1, <1>2, <1>3, <1>4, <1>5, <2>3, <2>4 DEF Secured
  <2> QED
    BY <2>1, <2>5 DEF Secured, PutAt, ChildAt, Copied
<1>7. NothingLost'
  BY DEF CopyInv, NothingLost, Moved
<1> QED
  BY <1>6, <1>7 DEF CopyInv

\* Initially the old nodes are whole and nothing is in flight.
LEMMA InitCopyInv ==
  ASSUME Init
  PROVE  CopyInv
<1>1. wire = <<>> /\ answers = <<>> /\ Total = 0
  BY DEF Init, Total
<1>2. CopyOK
  BY <1>1 DEF CopyOK
<1>3. NothingLost
  BY DEF Init, NothingLost
<1> QED
  BY <1>2, <1>3 DEF CopyInv

\* Every step keeps the copies ahead of the removals.
LEMMA NextCopyInv ==
  ASSUME KeyInv, CopyInv, [Next]_vars
  PROVE  CopyInv'
<1>0. TypeOK
  BY DEF KeyInv
<1>1. ASSUME NEW u \in Accounts, SignIn(u) PROVE CopyInv'
  <2>1. PICK x : x = Ask("check", u, None, None)
    OBVIOUS
  <2>2. x \in Message /\ x.t = "check"
    BY <2>1, AskType DEF Kinds
  <2>3. /\ wire' = Append(wire, x) /\ UNCHANGED <<answers, old, users, rejected>>
        /\ (mixed' = {} => mixed = {})
    BY <1>1, <2>1 DEF SignIn, database
  <2>4. x.t \notin {"child", "put", "del"}
    BY <2>2
  <2> QED
    BY <1>0, <2>2, <2>3, <2>4, SendCopyInv
<1>2. CASE SaveFavorite
  <2>1. PICK c \in ChildIds : wire' = Append(wire, Ask("save", currentUser, None, c))
    BY <1>2 DEF SaveFavorite
  <2>2. PICK x : x = Ask("save", currentUser, None, c)
    OBVIOUS
  <2>3. currentUser \in Accounts
    BY <1>0, <1>2 DEF SaveFavorite, TypeOK
  <2>4. x \in Message /\ x.t = "save"
    BY <2>2, <2>3, AskType DEF Kinds
  <2>5. /\ wire' = Append(wire, x) /\ UNCHANGED <<answers, old, users, rejected>>
        /\ (mixed' = {} => mixed = {})
    BY <1>2, <2>1, <2>2 DEF SaveFavorite, database
  <2>6. x.t \notin {"child", "put", "del"}
    BY <2>4
  <2> QED
    BY <1>0, <2>4, <2>5, <2>6, SendCopyInv
<1>3. CASE Kill
  <2>1. wire' = <<>> /\ answers' = <<>> /\ UNCHANGED <<old, users, rejected, mixed>>
    BY <1>3 DEF Kill, database
  <2>2. Total' = 0
    BY <2>1 DEF Total
  <2>3. CopyOK'
    BY <2>2 DEF CopyOK
  <2> QED
    BY <2>1, <2>3 DEF CopyInv, NothingLost, Moved
<1>4. CASE SignOut \/ UNCHANGED vars
  <2>1. UNCHANGED <<wire, answers, old, users, rejected, mixed>>
    BY <1>4 DEF SignOut, vars, database, device, history
  <2>2. Total' = Total /\ \A i : At(i)' = At(i)
    BY <2>1 DEF Total, At
  <2> QED
    BY <2>1, <2>2 DEF CopyInv, CopyOK, Secured, Copied, PutAt, ChildAt, NothingLost, Moved
<1> QED
  BY <1>1, <1>2, <1>3, <1>4, ServerCopyInv, ClientCopyInv DEF Next

\* The old node is removed after the first child's copy, but never before all
\* children's writes: no dictionary is lost unless a write is refused or another
\* account signs in meanwhile (migrateUserData, deleteOldUserData).
THEOREM NothingIsLost == Spec => []NothingLost
<1>1. Init => KeyInv /\ CopyInv
  BY InitKeyInv, InitCopyInv
<1>2. KeyInv /\ CopyInv /\ [Next]_vars => (KeyInv /\ CopyInv)'
  BY NextKeyInv, NextCopyInv
<1>3. KeyInv /\ CopyInv => NothingLost
  BY DEF CopyInv
<1> QED
  BY <1>1, <1>2, <1>3, PTL DEF Spec

\* Favourites move only to the account whose email named their node, unless
\* another account signs in while the check is unanswered: "User" is read late
\* (migrateUserData).
THEOREM OwnData == Spec => []OwnDataOnly
<1>1. Init => KeyInv
  BY InitKeyInv
<1>2. KeyInv /\ [Next]_vars => KeyInv'
  BY NextKeyInv
<1>3. KeyInv => OwnDataOnly
  BY DEF KeyInv
<1> QED
  BY <1>1, <1>2, <1>3, PTL DEF Spec

-----------------------------------------------------------------------------
(* A found node means a migration that is done or on its way *)

\* No favourite saved, no kill, no refused write, no other account.
Calm == saves = 0 /\ kills = 0 /\ rejected = {} /\ mixed = {}

SaveOK == saves = 0 => \A m \in Asked \cup Answered : m.t # "save"

\* Nodes are removed as a whole.
WholeOK == \A k \in OldKeys : old[k] = Legacy[k] \/ old[k] = {}

AnswerOK ==
  \A m \in Answered :
    /\ m.t = "old" => m.ids = Legacy[m.k] \/ m.ids = {}
    /\ m.t = "put" => Copied(m.u, m.k, m.c)

Kept(m, c) == c \in old[m.k] \/ users[m.u][c] # None

Written(u, c) == users[u][c] # None \/ \E m \in Asked : m.t = "put" /\ m.u = u /\ m.c = c

\* A child that a migration will not find in the old node is copied already, or its
\* write is on the wire.
GoneOK ==
  Calm =>
    /\ \A m \in Answered : m.t = "old" => \A c \in m.ids \ Plain : Kept(m, c)
    /\ \A m \in Asked : m.t = "child" /\ m.c \notin Plain => Kept(m, m.c)
    /\ \A m \in Answered : m.t = "child" /\ ~m.yes /\ m.c \notin Plain => Written(m.u, m.c)

Way(u, c) ==
  \/ users[u][c] # None
  \/ \E m \in Asked \cup Answered : m.t \in {"child", "put"} /\ m.u = u /\ m.c = c

AllOnWay(u) == OldKey[u] \in OldKeys /\ \A c \in Legacy[OldKey[u]] \ Plain : Way(u, c)

\* Once a migration handles one child it has handled all.
WayOK ==
  Calm => /\ \A u \in Accounts : Exists(u) => AllOnWay(u)
          /\ \A m \in Asked \cup Answered : m.t \in {"child", "put"} => AllOnWay(m.u)
          /\ \A m \in Answered : m.t = "check" /\ m.yes => AllOnWay(m.u)

FoundInv == SaveOK /\ WholeOK /\ AnswerOK /\ GoneOK /\ WayOK

\* A removal that is served comes after the copies.
LEMMA RemovalIsLate ==
  ASSUME KeyInv, CopyInv, wire # <<>>, Head(wire).t = "del", mixed = {},
         NEW c \in old[Head(wire).k] \ Plain
  PROVE  Copied(Head(wire).u, Head(wire).k, c)
<1>1. answers \in Seq(Message) /\ wire \in Seq(Message)
  BY DEF KeyInv, TypeOK
<1>2. PICK p : p = Len(answers) + 1
  OBVIOUS
<1>3. Len(answers) \in Nat /\ Len(wire) \in Nat /\ Len(wire) >= 1 /\ Head(wire) = wire[1]
  BY <1>1
<1>4. p \in 1..Total /\ ~(p <= Len(answers)) /\ p - Len(answers) = 1
  BY <1>2, <1>3 DEF Total
<1>5. At(p) = Head(wire)
  BY <1>3, <1>4 DEF At, Flow
<1>6. Secured(p, c)
  BY <1>4, <1>5 DEF CopyInv, CopyOK
<1>7. \A j \in 1..Total : j < p => ~PutAt(j, Head(wire).u, c)
  BY <1>2, <1>3 DEF PutAt
<1> QED
  BY <1>4, <1>5, <1>6, <1>7 DEF Secured

\* The database's steps.
LEMMA ServerFoundInv ==
  ASSUME KeyInv, CopyInv, FoundInv, Server
  PROVE  FoundInv'
<1>0. TypeOK /\ KindOK
  BY DEF KeyInv
<1>1. PICK a \in Message :
        /\ wire # <<>> /\ wire' = Tail(wire) /\ answers' = Append(answers, a)
        /\ ServedAs(Head(wire), a)
        /\ UNCHANGED <<currentUser, userKey, signIns, saves, kills, mixed, disturbed, early>>
  BY <1>0, ServerFacts
<1>2. PICK h : h = Head(wire)
  OBVIOUS
<1>3. /\ h \in Message /\ h \in Asked
      /\ Asked' \subseteq Asked /\ Asked \subseteq Asked' \cup {h} /\ Answered' = Answered \cup {a}
  BY <1>0, <1>1, <1>2, ServeSets
<1>4. /\ Carries(h) /\ a.t = h.t /\ a.u = h.u /\ a.k = h.k /\ a.c = h.c
      /\ h.u \in Accounts /\ ServedAs(h, a)
  BY <1>1, <1>2, <1>3 DEF KeyInv, KindOK, ServedAs, Message
<1>5. /\ old \in [OldKeys -> SUBSET ChildIds]
      /\ users \in [Accounts -> [ChildIds -> OldKeys \cup {None, "saved"}]]
  BY <1>0 DEF TypeOK
<1>6. \A m \in Asked \cup Answered : m \in Message
  BY <1>0 DEF TypeOK, Asked, Answered, Elements
<1>7. \A u \in Accounts, c \in ChildIds : users[u][c] # None => users'[u][c] # None
  <2>1. CASE users' = users
    BY <2>1
  <2>2. CASE /\ h.t \in {"put", "save"}
             /\ users' = [users EXCEPT ![h.u][h.c] = IF h.t = "put" THEN h.k ELSE "saved"]
    <3>1. h.c \in ChildIds /\ (h.t = "put" => h.k # None) /\ "saved" # None
      BY <1>4, <2>2, MigrationAssumption DEF Carries
    <3> QED
      BY <1>4, <1>5, <2>2, <3>1
  <2> QED
    BY <1>4, <2>1, <2>2 DEF ServedAs
<1>8. rejected \subseteq rejected'
  BY <1>4 DEF ServedAs
<1>9. Calm' => Calm
  BY <1>1, <1>8 DEF Calm
<1>10. SaveOK'
  BY <1>1, <1>3, <1>4 DEF FoundInv, SaveOK
<1>11. WholeOK'
  <2>1. CASE old' = old
    BY <2>1 DEF FoundInv, WholeOK
  <2>2. CASE h.t = "del" /\ old' = [old EXCEPT ![h.k] = {}]
    BY <1>5, <2>2 DEF FoundInv, WholeOK
  <2> QED
    BY <1>4, <2>1, <2>2 DEF ServedAs
<1>12. AnswerOK'
  <2>1. ASSUME NEW m \in Answered
        PROVE  /\ m.t = "old" => m.ids = Legacy[m.k] \/ m.ids = {}
               /\ m.t = "put" => Copied(m.u, m.k, m.c)'
    <3>1. m.u \in Accounts /\ Carries(m)
      BY <1>0, <1>6 DEF Message, KindOK
    <3>2. m.t = "put" => Copied(m.u, m.k, m.c)'
      BY <1>7, <1>8, <3>1 DEF FoundInv, AnswerOK, Copied, Carries
    <3> QED
      BY <3>2 DEF FoundInv, AnswerOK
  <2>2. a.t = "old" => a.ids = Legacy[a.k] \/ a.ids = {}
    BY <1>4 DEF ServedAs, FoundInv, WholeOK, Carries, OldAt
  <2>3. a.t = "put" => Copied(a.u, a.k, a.c)'
    <3> SUFFICES ASSUME h.t = "put" PROVE users'[h.u][h.c] # None \/ <<h.k, h.c>> \in rejected'
      BY <1>4 DEF Copied
    <3>1. CASE users' = [users EXCEPT ![h.u][h.c] = IF h.t = "put" THEN h.k ELSE "saved"]
      <4>1. users'[h.u][h.c] = h.k
        BY <1>4, <1>5, <3>1 DEF Carries
      <4> QED
        BY <1>4, <4>1, MigrationAssumption DEF Carries
    <3>2. CASE rejected' = IF h.t = "put" THEN rejected \cup {<<h.k, h.c>>} ELSE rejected
      BY <3>2
    <3> QED
      BY <1>4, <3>1, <3>2 DEF ServedAs
  <2> QED
    BY <1>3, <2>1, <2>2, <2>3 DEF AnswerOK
<1>13. ASSUME Calm, NEW m \in Asked \cup Answered, m.t \in {"old", "child"}, NEW c \in ChildIds \ Plain,
              Kept(m, c)
       PROVE  Kept(m, c)'
  <2>1. m.u \in Accounts /\ m.k \in OldKeys
    BY <1>0, <1>6, <1>13 DEF Message, KindOK, Carries
  <2>2. CASE users[m.u][c] # None
    BY <1>7, <2>1, <2>2 DEF Kept
  <2>3. CASE c \in old'[m.k]
    BY <2>3 DEF Kept
  <2>4. CASE c \in old[m.k] /\ c \notin old'[m.k]
    <3>1. h.t = "del" /\ h.k = m.k
      BY <1>4, <1>5, <2>1, <2>4 DEF ServedAs, Carries
    <3>2. Copied(h.u, h.k, c)
      BY <1>1, <1>2, <1>13, <2>4, <3>1, RemovalIsLate DEF Calm
    <3>3. users[h.u][c] # None
      BY <1>13, <3>2 DEF Copied, Calm
    <3>4. m.u = h.u
      BY <1>3, <1>13, <3>1 DEF KeyInv, OneUser, Calm
    <3> QED
      BY <1>7, <2>1, <3>3, <3>4 DEF Kept
  <2> QED
    BY <1>13, <2>2, <2>3, <2>4 DEF Kept
<1>14. GoneOK'
  <2> SUFFICES ASSUME Calm, Calm'
               PROVE  /\ \A m \in Answered' : m.t = "old" => \A c \in m.ids \ Plain : Kept(m, c)'
                      /\ \A m \in Asked' : m.t = "child" /\ m.c \notin Plain => Kept(m, m.c)'
                      /\ \A m \in Answered' : m.t = "child" /\ ~m.yes /\ m.c \notin Plain => Written(m.u, m.c)'
    BY <1>9 DEF GoneOK
  <2>0. ASSUME NEW u \in Accounts, NEW c \in ChildIds, Written(u, c) PROVE Written(u, c)'
    <3>1. CASE users[u][c] # None
      BY <1>7, <3>1 DEF Written
    <3>2. ASSUME NEW m \in Asked, m.t = "put", m.u = u, m.c = c PROVE Written(u, c)'
      <4>1. CASE m \in Asked'
        BY <3>2, <4>1 DEF Written
      <4>2. CASE m = h
        <5>1. Copied(u, h.k, c)'
          BY <1>3, <1>4, <1>12, <3>2, <4>2 DEF AnswerOK
        <5> QED
          BY <5>1 DEF Copied, Calm, Written
      <4> QED
        BY <1>3, <4>1, <4>2
    <3> QED
      BY <2>0, <3>1, <3>2 DEF Written
  <2>1. \A m \in Asked \cup Answered : m.ids \subseteq ChildIds /\ (m.t = "child" => m.c \in ChildIds)
    BY <1>0, <1>6 DEF Message, KindOK, Carries
  <2>2. \A m \in Answered : m.t = "old" => \A c \in m.ids \ Plain : Kept(m, c)'
    BY <1>13, <2>1 DEF FoundInv, GoneOK
  <2>3. \A m \in Asked : m.t = "child" /\ m.c \notin Plain => Kept(m, m.c)'
    BY <1>13, <2>1 DEF FoundInv, GoneOK
  <2>4. \A m \in Answered : m.t = "child" /\ ~m.yes /\ m.c \notin Plain => Written(m.u, m.c)'
    <3>1. \A m \in Answered : m.u \in Accounts
      BY <1>6 DEF Message
    <3> QED
      BY <2>0, <2>1, <3>1 DEF FoundInv, GoneOK
  <2>5. a.t = "old" => \A c \in a.ids \ Plain : Kept(a, c)'
    BY <1>4 DEF ServedAs, Kept, OldAt
  <2>6. ASSUME a.t = "child", ~a.yes, a.c \notin Plain PROVE Written(a.u, a.c)'
    <3>1. h.t = "child" /\ h.c \notin Plain /\ Kept(h, h.c) /\ h.c \in ChildIds
      BY <1>3, <1>4, <2>1, <2>6 DEF FoundInv, GoneOK
    <3>2. CASE users[h.u][h.c] # None
      BY <1>4, <2>0, <3>1, <3>2 DEF Written
    <3>3. CASE h.c \in old[h.k]
      <4>1. h.c \notin OldAt(h.k)
        BY <1>4, <2>6, <3>1 DEF ServedAs
      <4>2. Copied(h.u, h.k, h.c) \/ \E j : PutAt(j, h.u, h.c)
        BY <1>3, <3>1, <3>3, <4>1, HiddenIsCopied DEF Calm
      <4>3. Written(h.u, h.c)
        BY <1>0, <4>2, PutIsAsked DEF Copied, Calm, Written
      <4> QED
        BY <1>4, <2>0, <3>1, <4>3
    <3> QED
      BY <3>1, <3>2, <3>3 DEF Kept
  <2> QED
    BY <1>3, <2>2, <2>3, <2>4, <2>5, <2>6
<1>15. ASSUME NEW u \in Accounts, AllOnWay(u) PROVE AllOnWay(u)'
  <2> SUFFICES ASSUME NEW c \in Legacy[OldKey[u]] \ Plain PROVE Way(u, c)'
    BY <1>15 DEF AllOnWay
  <2>1. Way(u, c) /\ c \in ChildIds
    BY <1>15, MigrationAssumption DEF AllOnWay
  <2>2. CASE users[u][c] # None
    BY <1>7, <2>1, <2>2 DEF Way
  <2>3. ASSUME NEW m \in Asked \cup Answered, m.t \in {"child", "put"}, m.u = u, m.c = c
        PROVE  Way(u, c)'
    <3>1. m \in Asked' \cup Answered' \/ m = h
      BY <1>3
    <3>2. a \in Answered'
      BY <1>3
    <3> QED
      BY <1>4, <2>3, <3>1, <3>2 DEF Way
  <2> QED
    BY <2>1, <2>2, <2>3 DEF Way
<1>16. WayOK'
  <2> SUFFICES ASSUME Calm
               PROVE  /\ \A u \in Accounts : Exists(u)' => AllOnWay(u)'
                      /\ \A m \in Asked' \cup Answered' : m.t \in {"child", "put"} => AllOnWay(m.u)'
                      /\ \A m \in Answered' : m.t = "check" /\ m.yes => AllOnWay(m.u)'
    BY <1>9 DEF WayOK
  <2>1. h.t \in {"child", "put"} => AllOnWay(h.u)
    BY <1>3 DEF FoundInv, WayOK
  <2>2. ASSUME NEW m \in Asked' \cup Answered', m.t \in {"child", "put"} PROVE AllOnWay(m.u)'
    <3>1. CASE m \in Asked \cup Answered
      <4>1. m.u \in Accounts /\ AllOnWay(m.u)
        BY <1>6, <2>2, <3>1 DEF Message, FoundInv, WayOK
      <4> QED
        BY <1>15, <4>1
    <3>2. CASE m = a
      BY <1>4, <1>15, <2>1, <2>2, <3>2
    <3> QED
      BY <1>3, <3>1, <3>2
  <2>3. ASSUME NEW u \in Accounts, Exists(u)' PROVE AllOnWay(u)
    <3>1. CASE Exists(u)
      BY <3>1 DEF FoundInv, WayOK
    <3>2. CASE ~Exists(u)
      <4>1. users'[u] # users[u]
        BY <2>3, <3>2 DEF Exists
      <4>2. h.t \in {"put", "save"} /\ h.u = u
        BY <1>4, <1>5, <4>1 DEF ServedAs
      <4>3. h.t # "save"
        BY <1>3 DEF FoundInv, SaveOK, Calm
      <4> QED
        BY <2>1, <4>2, <4>3
    <3> QED
      BY <3>1, <3>2
  <2>4. ASSUME NEW m \in Answered', m.t = "check", m.yes PROVE AllOnWay(m.u)'
    <3>1. CASE m \in Answered
      <4>1. m.u \in Accounts /\ AllOnWay(m.u)
        BY <1>6, <2>4, <3>1 DEF Message, FoundInv, WayOK
      <4> QED
        BY <1>15, <4>1
    <3>2. CASE m = a
      <4>1. FoundAt(h.u)
        BY <1>4, <2>4, <3>2 DEF ServedAs
      <4>2. ~Pending("save", h.u)
        BY DEF FoundInv, SaveOK, Calm, Pending, Asked, Elements
      <4>3. Pending("put", h.u) => \E x \in Asked : x.t = "put" /\ x.u = h.u
        BY DEF Pending, Asked, Elements
      <4>4. AllOnWay(h.u)
        BY <1>4, <4>1, <4>2, <4>3 DEF FoundAt, FoundInv, WayOK
      <4> QED
        BY <1>4, <1>15, <3>2, <4>4
    <3> QED
      BY <1>3, <3>1, <3>2
  <2> QED
    BY <1>15, <2>2, <2>3, <2>4
<1> QED
  BY <1>10, <1>11, <1>12, <1>14, <1>16 DEF FoundInv

\* The callbacks: what leaves the queue is replaced or no longer needed.
LEMMA ClientFoundInv ==
  ASSUME KeyInv, FoundInv, Client
  PROVE  FoundInv'
<1>0. TypeOK /\ KindOK
  BY DEF KeyInv
<1>1. PICK sent \in Seq(Message) :
        /\ answers # <<>> /\ answers' = Tail(answers) /\ wire' = wire \o sent
        /\ \A n \in 1..Len(sent) : Follows(Head(answers), sent[n])
        /\ Head(answers).t = "old" => \A c \in Head(answers).ids : \E n \in 1..Len(sent) :
             sent[n].t = "child" /\ sent[n].u = Head(answers).u /\ sent[n].c = c
        /\ Head(answers).t = "child" /\ Head(answers).yes => \E n \in 1..Len(sent) :
             sent[n].t = "put" /\ sent[n].u = Head(answers).u /\ sent[n].c = Head(answers).c
        /\ UNCHANGED Local
  BY <1>0, ClientFacts, Zenon
<1>2. PICK h : h = Head(answers)
  OBVIOUS
<1>3. /\ h \in Message /\ h \in Answered /\ Answered' \subseteq Answered
      /\ Answered \subseteq Answered' \cup {h} /\ Asked' = Asked \cup Elements(sent)
  BY <1>0, <1>1, <1>2, ReceiveSets
<1>4. UNCHANGED <<old, users, saves, kills, rejected, mixed, userKey>>
  BY <1>1 DEF Local, database, history
<1>5. /\ \A m \in Elements(sent) : Follows(h, m)
      /\ h.t = "old" => \A c \in h.ids : \E m \in Elements(sent) : m.t = "child" /\ m.u = h.u /\ m.c = c
      /\ h.t = "child" /\ h.yes => \E m \in Elements(sent) : m.t = "put" /\ m.u = h.u /\ m.c = h.c
  BY <1>1, <1>2 DEF Elements
<1>6. h.u \in Accounts /\ Carries(h)
  BY <1>0, <1>3 DEF Message, KindOK
<1>7. (Calm' => Calm) /\ \A u : Exists(u)' = Exists(u)
  BY <1>4 DEF Calm, Exists
<1>8. SaveOK'
  <2>1. \A m \in Elements(sent) : m.t # "save"
    BY <1>5 DEF Follows
  <2> QED
    BY <1>3, <1>4, <2>1 DEF FoundInv, SaveOK
<1>9. WholeOK' /\ AnswerOK'
  BY <1>3, <1>4, <1>7 DEF FoundInv, WholeOK, AnswerOK, Copied
<1>10. GoneOK'
  <2> SUFFICES ASSUME Calm
               PROVE  \A m \in Elements(sent) : m.t = "child" /\ m.c \notin Plain => Kept(m, m.c)
    BY <1>3, <1>4, <1>7 DEF FoundInv, GoneOK, Kept, Written
  <2> SUFFICES ASSUME NEW m \in Elements(sent), m.t = "child", m.c \notin Plain PROVE Kept(m, m.c)
    OBVIOUS
  <2>1. h.t = "old" /\ m.k = h.k /\ m.u = h.u /\ m.c \in h.ids
    BY <1>5 DEF Follows
  <2>2. Kept(h, m.c)
    BY <1>3, <2>1 DEF FoundInv, GoneOK
  <2> QED
    BY <2>1, <2>2 DEF Kept
<1>11. ASSUME Calm, NEW u \in Accounts, AllOnWay(u) PROVE AllOnWay(u)'
  <2> SUFFICES ASSUME NEW c \in Legacy[OldKey[u]] \ Plain PROVE Way(u, c)'
    BY <1>11 DEF AllOnWay
  <2>1. Way(u, c)
    BY <1>11 DEF AllOnWay
  <2>2. CASE users[u][c] # None
    BY <1>4, <2>2 DEF Way
  <2>3. ASSUME NEW m \in Asked \cup Answered, m.t \in {"child", "put"}, m.u = u, m.c = c
        PROVE  Way(u, c)'
    <3>1. CASE m \in Asked' \cup Answered'
      BY <2>3, <3>1 DEF Way
    <3>2. CASE m = h /\ h.t = "child" /\ h.yes
      BY <1>3, <1>5, <2>3, <3>2 DEF Way
    <3>3. CASE m = h /\ h.t = "child" /\ ~h.yes
      <4>1. Written(u, c)
        BY <1>3, <1>11, <2>3, <3>3 DEF FoundInv, GoneOK
      <4> QED
        BY <1>3, <1>4, <4>1 DEF Written, Way
    <3>4. CASE m = h /\ h.t = "put"
      <4>1. Copied(h.u, h.k, h.c)
        BY <1>3, <3>4 DEF FoundInv, AnswerOK
      <4> QED
        BY <1>4, <1>11, <2>3, <3>4, <4>1 DEF Copied, Calm, Way
    <3> QED
      BY <1>3, <2>3, <3>1, <3>2, <3>3, <3>4
  <2> QED
    BY <2>1, <2>2, <2>3 DEF Way
<1>12. WayOK'
  <2> SUFFICES ASSUME Calm
               PROVE  /\ \A u \in Accounts : Exists(u) => AllOnWay(u)'
                      /\ \A m \in Asked' \cup Answered' : m.t \in {"child", "put"} => AllOnWay(m.u)'
                      /\ \A m \in Answered' : m.t = "check" /\ m.yes => AllOnWay(m.u)'
    BY <1>7 DEF WayOK
  <2>1. \A u \in Accounts : Exists(u) => AllOnWay(u)'
    BY <1>11 DEF FoundInv, WayOK
  <2>2. ASSUME NEW m \in Asked \cup Answered, m.t \in {"child", "put"} PROVE AllOnWay(m.u)'
    <3>1. m \in Message
      BY <1>0 DEF TypeOK, Asked, Answered, Elements
    <3> QED
      BY <1>11, <2>2, <3>1 DEF FoundInv, WayOK, Message
  <2>3. ASSUME NEW m \in Elements(sent), m.t = "put" PROVE AllOnWay(m.u)'
    <3>1. h.t = "child" /\ m.u = h.u
      BY <1>5, <2>3 DEF Follows
    <3> QED
      BY <1>3, <2>2, <3>1
  <2>4. ASSUME NEW m \in Elements(sent), m.t = "child" PROVE AllOnWay(m.u)'
    <3>1. h.t = "old" /\ m.u = h.u /\ m.c \in h.ids
      BY <1>5, <2>4 DEF Follows
    <3>2. h.k = OldKey[h.u] /\ h.k \in OldKeys
      BY <1>3, <1>6, <3>1 DEF KeyInv, KeyOK, OwnKey, Calm, Carries
    <3>3. h.ids = Legacy[h.k]
      BY <1>3, <3>1 DEF FoundInv, AnswerOK
    <3>4. \A c \in Legacy[h.k] : Way(h.u, c)'
      BY <1>3, <1>5, <3>1, <3>3 DEF Way
    <3> QED
      BY <3>1, <3>2, <3>4 DEF AllOnWay
  <2>5. \A m \in Asked' \cup Answered' : m \in Asked \cup Answered \/ m \in Elements(sent)
    BY <1>3
  <2>6. ASSUME NEW m \in Answered', m.t = "check", m.yes PROVE AllOnWay(m.u)'
    <3>0. m \in Answered
      BY <1>3
    <3>1. m \in Answered /\ m \in Message
      BY <1>0, <3>0 DEF TypeOK, Answered, Elements
    <3> QED
      BY <1>11, <2>6, <3>1 DEF FoundInv, WayOK, Message
  <2> QED
    BY <2>1, <2>2, <2>3, <2>4, <2>5, <2>6
<1> QED
  BY <1>8, <1>9, <1>10, <1>12 DEF FoundInv

\* Initially nothing is migrated.
LEMMA InitFoundInv ==
  ASSUME Init
  PROVE  FoundInv
<1>1. Asked = {} /\ Answered = {}
  BY DEF Init, Asked, Answered, Elements
<1>2. \A u \in Accounts : ~Exists(u)
  BY DEF Init, Exists
<1> QED
  BY <1>1, <1>2 DEF Init, FoundInv, SaveOK, WholeOK, AnswerOK, GoneOK, WayOK

\* Every step keeps a found node's migration on its way.
LEMMA NextFoundInv ==
  ASSUME KeyInv, CopyInv, FoundInv, [Next]_vars
  PROVE  FoundInv'
<1>0. TypeOK
  BY DEF KeyInv
<1>1. ASSUME NEW x \in Message, wire' = Append(wire, x),
             UNCHANGED <<answers, old, users, rejected, kills>>,
             saves' = 0 => saves = 0 /\ x.t # "save", mixed' = {} => mixed = {},
             x.t \notin {"child", "put"}
      PROVE  FoundInv'
  <2>1. Asked' = Asked \cup {x} /\ Answered' = Answered
    BY <1>0, <1>1, SendSets
  <2>2. (Calm' => Calm) /\ \A u : Exists(u)' = Exists(u)
    BY <1>1 DEF Calm, Exists
  <2>3. SaveOK' /\ WholeOK' /\ AnswerOK' /\ GoneOK'
    BY <1>1, <2>1, <2>2 DEF FoundInv, SaveOK, WholeOK, AnswerOK, GoneOK, Copied, Kept, Written
  <2>4. \A u : AllOnWay(u) => AllOnWay(u)'
    BY <1>1, <2>1 DEF AllOnWay, Way
  <2>5. WayOK'
    BY <1>1, <2>1, <2>2, <2>4 DEF FoundInv, WayOK
  <2> QED
    BY <2>3, <2>5 DEF FoundInv
<1>2. ASSUME NEW u \in Accounts, SignIn(u) PROVE FoundInv'
  <2>1. PICK x : x = Ask("check", u, None, None)
    OBVIOUS
  <2>2. x \in Message /\ x.t = "check"
    BY <2>1, AskType DEF Kinds
  <2>3. /\ wire' = Append(wire, x) /\ UNCHANGED <<answers, old, users, rejected, kills, saves>>
        /\ (mixed' = {} => mixed = {})
    BY <1>2, <2>1 DEF SignIn, database
  <2>4. x.t \notin {"child", "put"} /\ x.t # "save"
    BY <2>2
  <2> QED
    BY <1>1, <2>2, <2>3, <2>4
<1>3. CASE SaveFavorite
  <2>1. PICK c \in ChildIds : wire' = Append(wire, Ask("save", currentUser, None, c))
    BY <1>3 DEF SaveFavorite
  <2>2. PICK x : x = Ask("save", currentUser, None, c)
    OBVIOUS
  <2>3. currentUser \in Accounts
    BY <1>0, <1>3 DEF SaveFavorite, TypeOK
  <2>4. x \in Message /\ x.t = "save"
    BY <2>2, <2>3, AskType DEF Kinds
  <2>5. /\ wire' = Append(wire, x) /\ UNCHANGED <<answers, old, users, rejected, kills, mixed>>
        /\ saves' # 0
    BY <1>0, <1>3, <2>1, <2>2 DEF SaveFavorite, database, TypeOK
  <2>6. x.t \notin {"child", "put"}
    BY <2>4
  <2> QED
    BY <1>1, <2>4, <2>5, <2>6
<1>4. CASE Kill
  <2>1. wire' = <<>> /\ answers' = <<>> /\ kills' # 0 /\ UNCHANGED old
    BY <1>0, <1>4 DEF Kill, database, TypeOK
  <2>2. Asked' = {} /\ Answered' = {}
    BY <2>1 DEF Asked, Answered, Elements
  <2> QED
    BY <2>1, <2>2 DEF FoundInv, SaveOK, WholeOK, AnswerOK, GoneOK, WayOK, Calm
<1>5. CASE SignOut \/ UNCHANGED vars
  <2>1. UNCHANGED <<wire, answers, old, users, saves, kills, rejected, mixed>>
    BY <1>5 DEF SignOut, vars, database, device, history
  <2>2. Asked' = Asked /\ Answered' = Answered /\ Calm' = Calm
    BY <2>1 DEF Asked, Answered, Calm
  <2>3. \A u : Exists(u)' = Exists(u) /\ (AllOnWay(u) => AllOnWay(u)')
    BY <2>1, <2>2 DEF Exists, AllOnWay, Way
  <2>4. SaveOK' /\ WholeOK' /\ AnswerOK' /\ GoneOK'
    BY <2>1, <2>2, <2>3 DEF FoundInv, SaveOK, WholeOK, AnswerOK, GoneOK, Copied, Kept, Written
  <2>5. WayOK'
    BY <2>2, <2>3 DEF FoundInv, WayOK
  <2> QED
    BY <2>4, <2>5 DEF FoundInv
<1> QED
  BY <1>2, <1>3, <1>4, <1>5, ServerFoundInv, ClientFoundInv DEF Next

\* "Los datos ya están migrados": when the check finds users/<uid>, every
\* favourite of the old node is there or on its way, unless a favourite was saved,
\* the process killed, a write refused or another account signed in
\* (checkUserMigration).
THEOREM FoundIsMigrated == Spec => []FoundMeansMigrated
<1>1. Init => KeyInv /\ CopyInv /\ FoundInv
  BY InitKeyInv, InitCopyInv, InitFoundInv
<1>2. KeyInv /\ CopyInv /\ FoundInv /\ [Next]_vars => (KeyInv /\ CopyInv /\ FoundInv)'
  BY NextKeyInv, NextCopyInv, NextFoundInv
<1>3. KeyInv /\ CopyInv /\ FoundInv => FoundMeansMigrated
  <2> SUFFICES ASSUME KeyInv, FoundInv, Calm, NEW n \in 1..Len(answers),
                      answers[n].t = "check", answers[n].yes,
                      NEW c \in Legacy[OldKey[answers[n].u]] \ Plain
               PROVE  users[answers[n].u][c] # None \/ OnItsWay(answers[n].u, c)
    BY DEF FoundMeansMigrated, Calm
  <2>0. answers[n] \in Answered /\ answers[n] \in Message
    BY DEF Answered, Elements, KeyInv, TypeOK
  <2>1. answers[n] \in Answered /\ answers[n].u \in Accounts
    BY <2>0 DEF Message
  <2>2. AllOnWay(answers[n].u)
    BY <2>1 DEF FoundInv, WayOK
  <2>3. Way(answers[n].u, c)
    BY <2>2 DEF AllOnWay
  <2>4. Messages = Asked \cup Answered
    BY DEF Messages, Asked, Answered, Elements
  <2> QED
    BY <2>3, <2>4 DEF Way, OnItsWay
<1> QED
  BY <1>1, <1>2, <1>3, PTL DEF Spec

=============================================================================
