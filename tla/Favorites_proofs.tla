--------------------------- MODULE Favorites_proofs ---------------------------
(***************************************************************************)
(* Proofs about Favorites, for any number of devices, stations and fields. *)
(***************************************************************************)
EXTENDS Favorites, SequenceTheorems, TLAPS

-----------------------------------------------------------------------------
(* Requests *)

\* The parts of the assumption the proofs use.
LEMMA Constants ==
  /\ Len(Fields) \in Nat /\ Len(Fields) >= 1
  /\ \A n \in 1..Len(Fields) : Fields[n] \in FieldSet
  /\ \A f \in FieldSet : \E n \in 1..Len(Fields) : f = Fields[n]
  /\ \A m, n \in 1..Len(Fields) : Fields[m] = Fields[n] => m = n
  BY FavoritesAssumption DEF FieldSet

\* What a request is, by its kind.
LEMMA Kinds ==
  ASSUME NEW o \in Op
  PROVE  /\ o.t \in {"set", "rm", "isFav", "list"}
         /\ o.t = "set" => o \in [t : {"set"}, g : Stations, f : FieldSet]
         /\ o.t # "list" => o.g \in Stations
         /\ o.t = "set" => o.f \in FieldSet /\ o = [t |-> "set", g |-> o.g, f |-> o.f]
  BY DEF Op

\* The questions and removals the app sends are requests.
LEMMA Asked ==
  /\ \A g \in Stations : Ask("isFav", g) \in Op /\ Ask("rm", g) \in Op
  /\ \A g : Ask("isFav", g).t = "isFav" /\ Ask("rm", g).t = "rm"
  /\ Ask("list", None) \in Op /\ Ask("list", None).t = "list"
  BY DEF Ask, Op

\* The writes of a save, one per field.
LEMMA Saves ==
  ASSUME NEW g \in Stations
  PROVE  /\ SetOps(g) \in Seq(Op) /\ Len(SetOps(g)) = Len(Fields)
         /\ \A n \in 1..Len(Fields) : SetOps(g)[n] = [t |-> "set", g |-> g, f |-> Fields[n]]
<1>1. \A n \in 1..Len(Fields) : [t |-> "set", g |-> g, f |-> Fields[n]] \in Op
  BY Constants DEF Op
<1> QED
  BY <1>1, Constants DEF SetOps

-----------------------------------------------------------------------------
(* The inductive invariant, in parts *)

\* Around the write of the j-th field at position n stand the other writes of its
\* save; the ones before the first position have been served.
Block(q, n, j) ==
  \A i \in 1..Len(Fields) : n + i > j =>
    n + i - j <= Len(q) /\ q[n + i - j] = [t |-> "set", g |-> q[n].g, f |-> Fields[i]]

BlocksOK(q) ==
  \A n \in 1..Len(q), j \in 1..Len(Fields) :
    q[n].t = "set" /\ q[n].f = Fields[j] => Block(q, n, j)

\* The next request writes the j-th field of the station.
HeadIs(q, g, j) == Len(q) >= 1 /\ q[1].t = "set" /\ q[1].g = g /\ q[1].f = Fields[j]

\* The fields a save has already written are in the record.
ServedOK(g) ==
  \A d \in Devices, j \in 1..Len(Fields) :
    HeadIs(wire[d], g, j) => \A i \in 1..(j - 1) : Fields[i] \in node[g]

\* A record without all its fields is being saved.
WholeOK(g) ==
  node[g] \in {{}, FieldSet} \/ \E d \in Devices, j \in 2..Len(Fields) : HeadIs(wire[d], g, j)

RecordsOK == \A g \in Stations \ damaged : ServedOK(g) /\ WholeOK(g)

-----------------------------------------------------------------------------
(* Saves stay together on a connection *)

\* A save of which some fields have been served is at the head of the connection.
LEMMA MidSaveIsHead ==
  ASSUME NEW d \in Devices, NEW g \in Stations, wire[d] \in Seq(Op), BlocksOK(wire[d])
  PROVE  MidSave(d, g) <=> \E j \in 2..Len(Fields) : HeadIs(wire[d], g, j)
<1> DEFINE q == wire[d]
           sets == {n \in 1..Len(q) : q[n].t = "set" /\ q[n].g = g}
<1>0. q \in Seq(Op) /\ Len(q) \in Nat /\ BlocksOK(q)
  OBVIOUS
<1>a. MidSave(d, g) <=> \E n \in sets : q[n].f # Fields[1] /\ \A m \in sets : n <= m
  BY DEF MidSave
<1> HIDE DEF q
<1>1. ASSUME NEW n \in sets, q[n].f # Fields[1], \A m \in sets : n <= m
      PROVE  \E j \in 2..Len(Fields) : HeadIs(q, g, j)
  <2>1. n \in 1..Len(q) /\ q[n].t = "set" /\ q[n].g = g /\ q[n] \in Op
    BY <1>0, <1>1
  <2>2. PICK j \in 1..Len(Fields) : q[n].f = Fields[j]
    BY <2>1, Kinds, Constants
  <2>3. j \in 2..Len(Fields)
    BY <1>1, <2>2, Constants
  <2>4. CASE n = 1
    BY <1>0, <2>1, <2>2, <2>3, <2>4 DEF HeadIs
  <2>5. CASE n > 1
    <3>1. Block(q, n, j)
      BY <1>0, <2>1, <2>2 DEF BlocksOK
    <3>2. j - 1 \in 1..Len(Fields) /\ n + (j - 1) > j /\ n + (j - 1) - j = n - 1
      BY <2>1, <2>3, <2>5, Constants
    <3>3. q[n - 1] = [t |-> "set", g |-> g, f |-> Fields[j - 1]]
      BY <2>1, <3>1, <3>2 DEF Block
    <3>4. n - 1 \in sets
      BY <1>0, <2>1, <2>5, <3>3
    <3> QED
      BY <1>1, <2>1, <3>4
  <2> QED
    BY <2>1, <2>4, <2>5
<1>2. ASSUME NEW j \in 2..Len(Fields), HeadIs(q, g, j)
      PROVE  \E n \in sets : q[n].f # Fields[1] /\ \A m \in sets : n <= m
  <2>1. 1 \in sets /\ \A m \in sets : 1 <= m
    BY <1>0, <1>2 DEF HeadIs
  <2>2. q[1].f # Fields[1]
    BY <1>2, Constants DEF HeadIs
  <2> QED
    BY <2>1, <2>2
<1> QED
  BY <1>a, <1>1, <1>2 DEF q

\* Serving a request keeps the rest of every save together.
LEMMA BlocksTail ==
  ASSUME NEW q \in Seq(Op), q # <<>>, BlocksOK(q)
  PROVE  BlocksOK(Tail(q))
<1> DEFINE r == Tail(q)
<1>1. r \in Seq(Op) /\ Len(q) \in Nat /\ Len(r) = Len(q) - 1 /\ \A n \in 1..Len(r) : r[n] = q[n + 1]
  OBVIOUS
<1> HIDE DEF r
<1> SUFFICES ASSUME NEW n \in 1..Len(r), NEW j \in 1..Len(Fields), NEW i \in 1..Len(Fields),
                    r[n].t = "set", r[n].f = Fields[j], n + i > j
             PROVE  n + i - j <= Len(r) /\ r[n + i - j] = [t |-> "set", g |-> r[n].g, f |-> Fields[i]]
  BY DEF BlocksOK, Block, r
<1>2. r[n] = q[n + 1] /\ n + 1 \in 1..Len(q) /\ n \in Nat /\ i \in Nat /\ j \in Nat
  BY <1>1, Constants
<1>3. Block(q, n + 1, j)
  BY <1>2 DEF BlocksOK
<1>4. PICK k \in Nat \ {0} : k = n + i - j
  BY <1>2
<1>5. (n + 1) + i > j /\ (n + 1) + i - j = k + 1
  BY <1>2, <1>4
<1>6. k + 1 <= Len(q) /\ q[k + 1] = [t |-> "set", g |-> q[n + 1].g, f |-> Fields[i]]
  BY <1>3, <1>5 DEF Block
<1>7. Len(r) \in Nat /\ k <= Len(r) /\ k \in 1..Len(r)
  <2>1. Len(r) \in Nat /\ Len(q) = Len(r) + 1 /\ k \in Nat /\ k >= 1
    BY <1>1, <1>4
  <2>2. k + 1 <= Len(q)
    BY <1>6
  <2> QED
    BY <2>1, <2>2
<1>8. r[k] = [t |-> "set", g |-> r[n].g, f |-> Fields[i]]
  BY <1>1, <1>2, <1>6, <1>7
<1> QED
  BY <1>4, <1>7, <1>8

\* What stands behind a save does not part it.
LEMMA BlocksBefore ==
  ASSUME NEW q \in Seq(Op), NEW r \in Seq(Op), BlocksOK(q), Len(r) >= Len(q),
         \A n \in 1..Len(q) : r[n] = q[n],
         NEW n \in 1..Len(q), NEW j \in 1..Len(Fields), r[n].t = "set", r[n].f = Fields[j]
  PROVE  Block(r, n, j)
<1>1. Len(q) \in Nat /\ Len(r) \in Nat /\ n \in Nat /\ j \in Nat /\ r[n] = q[n]
  BY Constants
<1>2. Block(q, n, j)
  BY <1>1 DEF BlocksOK
<1> SUFFICES ASSUME NEW i \in 1..Len(Fields), n + i > j
             PROVE  n + i - j <= Len(r) /\ r[n + i - j] = [t |-> "set", g |-> r[n].g, f |-> Fields[i]]
  BY DEF Block
<1>3. n + i - j <= Len(q) /\ q[n + i - j] = [t |-> "set", g |-> q[n].g, f |-> Fields[i]]
  BY <1>2 DEF Block
<1>4. n + i - j \in 1..Len(q)
  BY <1>1, <1>3, Constants
<1> QED
  BY <1>1, <1>3, <1>4

\* A request that writes nothing is sent.
LEMMA BlocksAsk ==
  ASSUME NEW q \in Seq(Op), BlocksOK(q), NEW o \in Op, o.t # "set"
  PROVE  Append(q, o) \in Seq(Op) /\ q \o <<o>> = Append(q, o) /\ BlocksOK(Append(q, o))
<1> DEFINE r == Append(q, o)
<1>1. /\ r \in Seq(Op) /\ Len(q) \in Nat /\ Len(r) = Len(q) + 1 /\ r[Len(q) + 1] = o
      /\ \A n \in 1..Len(q) : r[n] = q[n]
  OBVIOUS
<1>2. q \o <<o>> = r
  OBVIOUS
<1> HIDE DEF r
<1>3. ASSUME NEW n \in 1..Len(r), NEW j \in 1..Len(Fields), r[n].t = "set", r[n].f = Fields[j]
      PROVE  Block(r, n, j)
  <2>1. n \in 1..Len(q) /\ Len(r) >= Len(q)
    BY <1>1, <1>3
  <2> QED
    BY <1>1, <1>3, <2>1, BlocksBefore
<1>4. BlocksOK(r)
  BY <1>3 DEF BlocksOK
<1> QED
  BY <1>1, <1>2, <1>4 DEF r

\* A save is sent.
LEMMA BlocksSave ==
  ASSUME NEW q \in Seq(Op), BlocksOK(q), NEW g \in Stations
  PROVE  q \o SetOps(g) \in Seq(Op) /\ BlocksOK(q \o SetOps(g))
<1> DEFINE s == SetOps(g)
           r == q \o s
<1>0. /\ s \in Seq(Op) /\ Len(s) = Len(Fields) /\ Len(s) \in Nat
      /\ \A n \in 1..Len(s) : s[n] = [t |-> "set", g |-> g, f |-> Fields[n]]
  BY Saves, Constants
<1> HIDE DEF s
<1>1. /\ r \in Seq(Op) /\ Len(q) \in Nat /\ Len(r) = Len(q) + Len(s)
      /\ \A n \in 1..Len(q) : r[n] = q[n]
      /\ \A n \in 1..Len(s) : r[Len(q) + n] = s[n]
  BY <1>0
<1> HIDE DEF r
<1>2. ASSUME NEW n \in 1..Len(r), NEW j \in 1..Len(Fields), r[n].t = "set", r[n].f = Fields[j]
      PROVE  Block(r, n, j)
  <2>1. CASE n \in 1..Len(q)
    <3>1. Len(r) >= Len(q)
      BY <1>0, <1>1
    <3> QED
      BY <1>1, <1>2, <2>1, <3>1, BlocksBefore
  <2>2. CASE n \notin 1..Len(q)
    <3>1. n - Len(q) \in 1..Len(s) /\ Len(q) + (n - Len(q)) = n
      BY <1>0, <1>1, <2>2
    <3>2. r[n] = [t |-> "set", g |-> g, f |-> Fields[n - Len(q)]]
      BY <1>0, <1>1, <3>1
    <3>3. n - Len(q) = j
      <4>1. n - Len(q) \in 1..Len(Fields) /\ Fields[n - Len(q)] = Fields[j]
        BY <1>0, <1>2, <3>1, <3>2
      <4> QED
        BY <4>1, Constants
    <3>4. ASSUME NEW i \in 1..Len(Fields), n + i > j
          PROVE  n + i - j <= Len(r) /\ r[n + i - j] = [t |-> "set", g |-> r[n].g, f |-> Fields[i]]
      <4>1. n + i - j = Len(q) + i /\ i \in 1..Len(s)
        <5>1. n \in Nat /\ i \in Nat /\ j \in Nat /\ Len(q) \in Nat /\ n = Len(q) + j
          BY <1>0, <1>1, <3>1, <3>3, Constants
        <5> QED
          BY <1>0, <5>1
      <4>2. r[Len(q) + i] = [t |-> "set", g |-> g, f |-> Fields[i]]
        BY <1>0, <1>1, <4>1
      <4>3. Len(q) + i <= Len(r)
        <5>1. Len(q) \in Nat /\ Len(s) \in Nat /\ Len(r) = Len(q) + Len(s)
          BY <1>0, <1>1
        <5> QED
          BY <4>1, <5>1
      <4> QED
        BY <3>2, <4>1, <4>2, <4>3
    <3> QED
      BY <3>4 DEF Block
  <2> QED
    BY <2>1, <2>2
<1>3. BlocksOK(r)
  BY <1>2 DEF BlocksOK
<1> QED
  BY <1>1, <1>3 DEF r, s
-----------------------------------------------------------------------------
(* What the connection serves next *)

\* The same save, of the same fields, is half served.
SameHead(q, r) ==
  \A g \in Stations, j \in 2..Len(Fields) : HeadIs(q, g, j) <=> HeadIs(r, g, j)

\* A request that writes nothing is sent: the head stays.
LEMMA HeadAsk ==
  ASSUME NEW q \in Seq(Op), NEW o \in Op, o.t # "set"
  PROVE  SameHead(q, Append(q, o))
<1>1. /\ Len(q) \in Nat /\ Len(Append(q, o)) = Len(q) + 1 /\ Append(q, o)[Len(q) + 1] = o
      /\ \A n \in 1..Len(q) : Append(q, o)[n] = q[n]
  OBVIOUS
<1>2. CASE Len(q) = 0
  BY <1>1, <1>2 DEF SameHead, HeadIs
<1>3. CASE Len(q) >= 1
  BY <1>1, <1>3 DEF SameHead, HeadIs
<1> QED
  BY <1>1, <1>2, <1>3

\* A save is sent: it begins with the first field.
LEMMA HeadSave ==
  ASSUME NEW q \in Seq(Op), NEW g \in Stations
  PROVE  SameHead(q, q \o SetOps(g))
<1> DEFINE s == SetOps(g)
           r == q \o s
<1>0. /\ s \in Seq(Op) /\ Len(s) \in Nat /\ Len(s) >= 1
      /\ s[1] = [t |-> "set", g |-> g, f |-> Fields[1]]
  BY Saves, Constants
<1> HIDE DEF s
<1>1. /\ Len(q) \in Nat /\ Len(r) = Len(q) + Len(s) /\ r[Len(q) + 1] = s[1]
      /\ \A n \in 1..Len(q) : r[n] = q[n]
  BY <1>0
<1> HIDE DEF r
<1>2. CASE Len(q) = 0
  <2>1. r[1].f = Fields[1]
    BY <1>0, <1>1, <1>2
  <2>2. \A h \in Stations, j \in 2..Len(Fields) : ~HeadIs(r, h, j) /\ ~HeadIs(q, h, j)
    BY <1>2, <2>1, Constants DEF HeadIs
  <2> QED
    BY <2>2 DEF SameHead, r, s
<1>3. CASE Len(q) >= 1
  <2>1. Len(r) >= 1 /\ r[1] = q[1]
    <3>1. Len(r) \in Nat /\ Len(r) >= Len(q) /\ 1 \in 1..Len(q)
      BY <1>0, <1>1, <1>3
    <3> QED
      BY <1>1, <1>3, <3>1
  <2> QED
    BY <1>3, <2>1 DEF SameHead, HeadIs, r, s
<1> QED
  BY <1>1, <1>2, <1>3

\* What follows a request that is no write begins a save or is none.
LEMMA NoHead ==
  ASSUME NEW q \in Seq(Op), BlocksOK(q), NEW n \in 1..Len(q), n + 1 <= Len(q), q[n].t # "set",
         NEW j \in 2..Len(Fields)
  PROVE  ~(q[n + 1].t = "set" /\ q[n + 1].f = Fields[j])
<1> SUFFICES ASSUME q[n + 1].t = "set", q[n + 1].f = Fields[j] PROVE FALSE
  OBVIOUS
<1>1. n + 1 \in 1..Len(q) /\ j \in 1..Len(Fields) /\ j - 1 \in 1..Len(Fields)
      /\ (n + 1) + (j - 1) > j /\ (n + 1) + (j - 1) - j = n
  BY Constants
<1>2. Block(q, n + 1, j)
  BY <1>1 DEF BlocksOK
<1>3. q[n] = [t |-> "set", g |-> q[n + 1].g, f |-> Fields[j - 1]]
  BY <1>1, <1>2 DEF Block
<1> QED
  BY <1>3

\* A request that writes nothing is served.
LEMMA HeadTail ==
  ASSUME NEW q \in Seq(Op), q # <<>>, BlocksOK(q), q[1].t # "set"
  PROVE  /\ \A g, j : ~HeadIs(q, g, j)
         /\ \A g \in Stations, j \in 2..Len(Fields) : ~HeadIs(Tail(q), g, j)
<1>1. Len(q) \in Nat /\ Len(q) >= 1 /\ 1 \in 1..Len(q)
      /\ Len(Tail(q)) = Len(q) - 1 /\ \A n \in 1..Len(Tail(q)) : Tail(q)[n] = q[n + 1]
  OBVIOUS
<1>2. \A g, j : ~HeadIs(q, g, j)
  BY DEF HeadIs
<1>3. ASSUME NEW g \in Stations, NEW j \in 2..Len(Fields), HeadIs(Tail(q), g, j) PROVE FALSE
  <2>1. Len(Tail(q)) >= 1 /\ Tail(q)[1].t = "set" /\ Tail(q)[1].f = Fields[j]
    BY <1>3 DEF HeadIs
  <2>2. 1 + 1 <= Len(q) /\ Tail(q)[1] = q[1 + 1]
    BY <1>1, <2>1
  <2> QED
    BY <1>1, <2>1, <2>2, NoHead
<1> QED
  BY <1>2, <1>3

\* The positions of a sequence without the k-th element.
LEMMA Removed ==
  ASSUME NEW q \in Seq(Op), NEW k \in 1..Len(q)
  PROVE  /\ RemoveAt(q, k) \in Seq(Op) /\ Len(q) \in Nat /\ Len(RemoveAt(q, k)) = Len(q) - 1
         /\ \A n \in 1..(k - 1) : RemoveAt(q, k)[n] = q[n]
         /\ \A n \in k..(Len(q) - 1) : RemoveAt(q, k)[n] = q[n + 1]
<1> DEFINE u == SubSeq(q, 1, k - 1)
           v == SubSeq(q, k + 1, Len(q))
<1>0. Len(q) \in Nat /\ k \in Nat /\ 1 <= k /\ k <= Len(q)
  OBVIOUS
<1>1. u \in Seq(Op) /\ Len(u) = k - 1 /\ \A n \in 1..(k - 1) : u[n] = q[n]
  BY <1>0
<1>2. v \in Seq(Op) /\ Len(v) = Len(q) - k /\ \A n \in 1..(Len(q) - k) : v[n] = q[k + n]
  <2>1. /\ v \in Seq(Op) /\ Len(v) = IF k + 1 <= Len(q) THEN Len(q) - (k + 1) + 1 ELSE 0
        /\ \A n \in 1..(Len(q) - (k + 1) + 1) : v[n] = q[(k + 1) + n - 1]
    <3>1. \A n \in (k + 1)..Len(q) : q[n] \in Op
      BY <1>0
    <3>2. k + 1 \in Int /\ Len(q) \in Int
      BY <1>0
    <3> QED
      BY <3>1, <3>2, SubSeqProperties
  <2>2. Len(q) - (k + 1) + 1 = Len(q) - k /\ (~(k + 1 <= Len(q)) => Len(q) - k = 0)
    BY <1>0
  <2>3. \A n \in 1..(Len(q) - k) : (k + 1) + n - 1 = k + n
    BY <1>0
  <2> QED
    BY <2>1, <2>2, <2>3
<1>3. RemoveAt(q, k) = u \o v
  BY DEF RemoveAt
<1> HIDE DEF u, v
<1>4. u \o v \in Seq(Op) /\ Len(u \o v) = Len(q) - 1
  <2>1. u \o v \in Seq(Op) /\ Len(u \o v) = Len(u) + Len(v)
    BY <1>1, <1>2, ConcatProperties
  <2>2. (k - 1) + (Len(q) - k) = Len(q) - 1
    BY <1>0
  <2> QED
    BY <1>1, <1>2, <2>1, <2>2
<1>5. \A n \in 1..(k - 1) : (u \o v)[n] = q[n]
  BY <1>0, <1>1, <1>2
<1>6. ASSUME NEW n \in k..(Len(q) - 1) PROVE (u \o v)[n] = q[n + 1]
  <2>1. n - (k - 1) \in 1..(Len(q) - k) /\ k + (n - (k - 1)) = n + 1 /\ n \in 1..(Len(q) - 1) /\ n > k - 1
    BY <1>0
  <2>2. (u \o v)[n] = v[n - (k - 1)]
    BY <1>0, <1>1, <1>2, <2>1
  <2>3. v[n - (k - 1)] = q[n + 1]
    BY <1>2, <2>1
  <2> QED
    BY <2>2, <2>3
<1> QED
  BY <1>0, <1>3, <1>4, <1>5, <1>6
\* A question that is dropped stands between saves, never in one.
LEMMA UnaskedOK ==
  ASSUME NEW q \in Seq(Op), BlocksOK(q)
  PROVE  Unasked(q) \in Seq(Op) /\ BlocksOK(Unasked(q)) /\ SameHead(q, Unasked(q))
<1> DEFINE asked == {n \in 1..Len(q) : q[n].t = "isFav"}
<1>1. CASE asked = {}
  BY <1>1 DEF Unasked, SameHead
<1>2. CASE asked # {}
  <2>1. PICK k \in asked : Unasked(q) = RemoveAt(q, k)
    BY <1>2 DEF Unasked
  <2> DEFINE r == RemoveAt(q, k)
  <2>2. k \in 1..Len(q) /\ q[k].t # "set" /\ k \in Nat /\ 1 <= k
    BY <2>1
  <2>3. /\ r \in Seq(Op) /\ Len(q) \in Nat /\ Len(r) = Len(q) - 1
        /\ \A n \in 1..(k - 1) : r[n] = q[n]
        /\ \A n \in k..(Len(q) - 1) : r[n] = q[n + 1]
    BY <2>2, Removed
  <2> HIDE DEF r, asked
  <2>4. Len(r) \in Nat /\ Len(q) = Len(r) + 1 /\ k <= Len(q)
    BY <2>2, <2>3
  <2>5. ASSUME NEW n \in 1..Len(r), NEW j \in 1..Len(Fields), NEW i \in 1..Len(Fields),
               r[n].t = "set", r[n].f = Fields[j], n + i > j
        PROVE  n + i - j <= Len(r) /\ r[n + i - j] = [t |-> "set", g |-> r[n].g, f |-> Fields[i]]
    <3>0. n \in Nat /\ n >= 1 /\ j \in Nat /\ i \in Nat /\ n <= Len(r)
      BY <2>4, Constants
    <3>1. PICK x \in Nat \ {0} : x = n + i - j
      BY <2>5, <3>0
    <3>2. CASE n < k
      <4>1. r[n] = q[n] /\ n \in 1..Len(q)
        BY <2>2, <2>3, <2>4, <3>0, <3>2
      <4>2. Block(q, n, j)
        BY <2>5, <4>1 DEF BlocksOK
      <4>3. x <= Len(q) /\ q[x] = [t |-> "set", g |-> q[n].g, f |-> Fields[i]]
        BY <2>5, <3>1, <4>2 DEF Block
      <4>4. x < k
        <5> SUFFICES ASSUME k <= x PROVE FALSE
          BY <2>2, <3>1
        <5>1. PICK y : y = k + j - n
          OBVIOUS
        <5>2. y \in 1..Len(Fields) /\ n + y > j /\ n + y - j = k
          BY <2>2, <3>0, <3>1, <3>2, <5>1, Constants
        <5>3. q[k] = [t |-> "set", g |-> q[n].g, f |-> Fields[y]]
          BY <4>2, <5>2 DEF Block
        <5> QED
          BY <2>2, <5>3
      <4>5. x \in 1..(k - 1) /\ x <= Len(r)
        BY <2>2, <2>4, <3>1, <4>4
      <4>6. r[x] = q[x]
        BY <2>3, <4>5
      <4> QED
        BY <3>1, <4>1, <4>3, <4>5, <4>6
    <3>3. CASE k <= n
      <4>1. r[n] = q[n + 1] /\ n + 1 \in 1..Len(q)
        <5>1. n \in k..(Len(q) - 1) /\ n + 1 \in 1..Len(q)
          BY <2>2, <2>4, <3>0, <3>3
        <5> QED
          BY <2>3, <5>1
      <4>2. Block(q, n + 1, j)
        BY <2>5, <4>1 DEF BlocksOK
      <4>3. (n + 1) + i > j /\ (n + 1) + i - j = x + 1
        BY <3>0, <3>1
      <4>4. x + 1 <= Len(q) /\ q[x + 1] = [t |-> "set", g |-> q[n + 1].g, f |-> Fields[i]]
        BY <4>2, <4>3 DEF Block
      <4>5. k <= x
        <5> SUFFICES ASSUME x < k PROVE FALSE
          BY <2>2, <3>1
        <5>1. PICK y : y = k + j - (n + 1)
          OBVIOUS
        <5>2. y \in 1..Len(Fields) /\ (n + 1) + y > j /\ (n + 1) + y - j = k
          BY <2>2, <3>0, <3>1, <3>3, <5>1, Constants
        <5>3. q[k] = [t |-> "set", g |-> q[n + 1].g, f |-> Fields[y]]
          BY <4>2, <5>2 DEF Block
        <5> QED
          BY <2>2, <5>3
      <4>6. x \in k..(Len(q) - 1) /\ x <= Len(r)
        <5>1. x + 1 <= Len(q)
          BY <4>4
        <5> QED
          BY <2>2, <2>4, <3>1, <4>5, <5>1
      <4>7. r[x] = q[x + 1]
        BY <2>3, <4>6
      <4> QED
        BY <3>1, <4>1, <4>4, <4>6, <4>7
    <3> QED
      BY <2>2, <3>0, <3>2, <3>3
  <2>6. BlocksOK(r)
    BY <2>5 DEF BlocksOK, Block
  <2>7. SameHead(q, r)
    <3>1. CASE k = 1
      <4>1. \A g \in Stations, j \in 2..Len(Fields) : ~HeadIs(q, g, j)
        BY <2>2, <3>1 DEF HeadIs
      <4>2. ASSUME NEW g \in Stations, NEW j \in 2..Len(Fields), HeadIs(r, g, j) PROVE FALSE
        <5>1. Len(r) >= 1 /\ r[1].t = "set" /\ r[1].f = Fields[j]
          BY <4>2 DEF HeadIs
        <5>2. 1 + 1 <= Len(q) /\ 1 \in k..(Len(q) - 1) /\ 1 \in 1..Len(q)
          BY <2>4, <3>1, <5>1
        <5>3. r[1] = q[1 + 1]
          BY <2>3, <5>2
        <5> QED
          BY <2>2, <3>1, <5>1, <5>2, <5>3, NoHead
      <4> QED
        BY <4>1, <4>2 DEF SameHead
    <3>2. CASE k > 1
      <4>1. 1 \in 1..(k - 1) /\ Len(r) >= 1 /\ Len(q) >= 1
        BY <2>2, <2>4, <3>2
      <4>2. r[1] = q[1]
        BY <2>3, <4>1
      <4> QED
        BY <4>1, <4>2 DEF SameHead, HeadIs
    <3> QED
      BY <2>2, <3>1, <3>2
  <2> QED
    BY <2>1, <2>3, <2>6, <2>7 DEF r
<1> QED
  BY <1>1, <1>2
-----------------------------------------------------------------------------
(* Types *)

\* The variables other than the records and the connections keep their types.
ScreenTypes ==
  /\ backed \in [Devices -> BOOLEAN]
  /\ at \in [Devices -> Places]
  /\ detail \in [Devices -> Detail]
  /\ listed \in [Devices -> SUBSET Stations]
  /\ fetch \in [Devices -> [Fetches -> (SUBSET Stations) \cup {None}]]
  /\ loading \in [Devices -> BOOLEAN]
  /\ answered \in [Devices -> {"none", "nil", "empty", "list"}]
  /\ taps \in Nat /\ visits \in Nat /\ kills \in Nat
  /\ stuck \in [Devices -> BOOLEAN]

\* The records and the connections keep theirs.
RecordTypes ==
  /\ node \in [Stations -> SUBSET FieldSet]
  /\ wire \in [Devices -> Seq(Op)]
  /\ damaged \subseteq Stations

\* The two groups together are the type invariant.
LEMMA TypeParts == TypeOK <=> ScreenTypes /\ RecordTypes
  BY DEF TypeOK, ScreenTypes, RecordTypes

\* A request at the head of a connection.
LEMMA Served ==
  ASSUME RecordTypes, NEW d \in Devices, NEW t, Serves(d, t)
  PROVE  /\ wire[d] \in Seq(Op) /\ wire[d] # <<>> /\ Head(wire[d]) = wire[d][1]
         /\ Head(wire[d]) \in Op /\ Head(wire[d]).t = t
         /\ Tail(wire[d]) \in Seq(Op) /\ wire' = [wire EXCEPT ![d] = Tail(wire[d])]
         /\ wire' \in [Devices -> Seq(Op)]
<1>1. wire[d] \in Seq(Op) /\ wire[d] # <<>> /\ wire \in [Devices -> Seq(Op)]
  BY DEF RecordTypes, Serves
<1>2. /\ Head(wire[d]) = wire[d][1] /\ Head(wire[d]) \in Op /\ Tail(wire[d]) \in Seq(Op)
  BY <1>1
<1>3. Head(wire[d]).t = t /\ wire' = [wire EXCEPT ![d] = Tail(wire[d])]
  BY DEF Serves
<1> QED
  BY <1>1, <1>2, <1>3

\* The user's steps keep the screens' types.
LEMMA UserScreens ==
  ASSUME ScreenTypes, NEW d \in Devices,
         \/ \E g \in Stations : OpenFromSearch(d, g) \/ OpenFromList(d, g) \/ RemoveRow(d, g)
         \/ AddFav(d) \/ CloseDetail(d)
         \/ ShowFavorites(d) \/ ShowSearch(d) \/ LoseUser(d) \/ Kill(d)
  PROVE  ScreenTypes'
<1> USE DEF ScreenTypes
<1>0. Closed \in Detail /\ "favorites" \in Places /\ "search" \in Places /\ "launch" \in Places
  BY DEF Closed, Detail, Places
<1>1. ASSUME NEW g \in Stations, OpenFromSearch(d, g) PROVE ScreenTypes'
  BY <1>1 DEF OpenFromSearch
<1>2. ASSUME NEW g \in Stations, OpenFromList(d, g) PROVE ScreenTypes'
  <2>1. [g |-> g, favorita |-> TRUE] \in Detail
    BY DEF Detail
  <2> QED
    BY <1>2, <2>1 DEF OpenFromList
<1>3. ASSUME NEW g \in Stations, RemoveRow(d, g) PROVE ScreenTypes'
  <2>1. listed' \in [Devices -> SUBSET Stations]
    BY <1>3 DEF RemoveRow
  <2> QED
    BY <1>3, <2>1 DEF RemoveRow
<1>4. ASSUME AddFav(d) PROVE ScreenTypes'
  BY <1>4 DEF AddFav
<1>5. ASSUME NEW q, viewWillAppear(d, q), UNCHANGED <<backed, listed, fetch, taps, kills>>,
             at' \in [Devices -> Places], detail' \in [Devices -> Detail]
      PROVE  ScreenTypes'
  <2>1. visits' \in Nat /\ loading' \in [Devices -> BOOLEAN] /\ stuck' \in [Devices -> BOOLEAN]
    <3>1. visits' = visits + 1 /\ stuck' = [stuck EXCEPT ![d] = FALSE]
      BY <1>5 DEF viewWillAppear
    <3>2. \E b \in BOOLEAN : loading' = [loading EXCEPT ![d] = b]
      BY <1>5 DEF viewWillAppear
    <3>3. loading' \in [Devices -> BOOLEAN]
      BY <3>2
    <3>4. stuck' \in [Devices -> BOOLEAN]
      BY <3>1
    <3>5. visits' \in Nat
      BY <3>1
    <3> QED
      BY <3>3, <3>4, <3>5
  <2>2. answered' \in [Devices -> {"none", "nil", "empty", "list"}]
    BY <1>5 DEF viewWillAppear
  <2> QED
    BY <1>5, <2>1, <2>2
<1>6. ASSUME CloseDetail(d) PROVE ScreenTypes'
  <2>1. detail' \in [Devices -> Detail] /\ UNCHANGED <<backed, at, listed, fetch, taps, kills>>
    BY <1>0, <1>6 DEF CloseDetail
  <2>2. CASE at[d] = "favorites"
    BY <1>5, <1>6, <2>1, <2>2 DEF CloseDetail
  <2>3. CASE at[d] # "favorites"
    BY <1>6, <2>1, <2>3 DEF CloseDetail
  <2> QED
    BY <2>2, <2>3
<1>7. ASSUME ShowFavorites(d) PROVE ScreenTypes'
  <2>1. at' \in [Devices -> Places] /\ UNCHANGED <<backed, detail, listed, fetch, taps, kills>>
    BY <1>0, <1>7 DEF ShowFavorites
  <2> QED
    BY <1>5, <1>7, <2>1 DEF ShowFavorites
<1>8. ASSUME ShowSearch(d) PROVE ScreenTypes'
  BY <1>0, <1>8 DEF ShowSearch, history
<1>9. ASSUME LoseUser(d) PROVE ScreenTypes'
  BY <1>9 DEF LoseUser, history
<1>10. ASSUME Kill(d) PROVE ScreenTypes'
  <2>1. fetch' \in [Devices -> [Fetches -> (SUBSET Stations) \cup {None}]]
    BY <1>10 DEF Kill
  <2>2. listed' \in [Devices -> SUBSET Stations]
    BY <1>10 DEF Kill
  <2> QED
    BY <1>0, <1>10, <2>1, <2>2 DEF Kill
<1> QED
  BY <1>1, <1>2, <1>3, <1>4, <1>6, <1>7, <1>8, <1>9, <1>10

\* So do the answers.
LEMMA AnswerScreens ==
  ASSUME ScreenTypes, RecordTypes, NEW d \in Devices,
         Answers(d) \/ \E i \in Fetches : PricesArrive(d, i) \/ PricesFail(d, i)
  PROVE  ScreenTypes'
<1> USE DEF ScreenTypes
<1>1. ASSUME ServeSet(d) \/ ServeRemove(d) PROVE ScreenTypes'
  BY <1>1 DEF ServeSet, ServeRemove
<1>2. ASSUME FavoriteAnswered(d) PROVE ScreenTypes'
  <2>1. Head(wire[d]).g \in Stations
    <3>1. Serves(d, "isFav")
      BY <1>2 DEF FavoriteAnswered
    <3>2. Head(wire[d]) \in Op /\ Head(wire[d]).t = "isFav"
      BY <3>1, Served
    <3> QED
      BY <3>2, Kinds
  <2>2. PICK b \in BOOLEAN : detail' = [detail EXCEPT ![d] = [g |-> Head(wire[d]).g, favorita |-> b]]
    BY <1>2 DEF FavoriteAnswered
  <2>3. [g |-> Head(wire[d]).g, favorita |-> b] \in Detail
    BY <2>1 DEF Detail
  <2> QED
    BY <1>2, <2>2, <2>3 DEF FavoriteAnswered, history
<1>3. ASSUME ListAnswered(d) PROVE ScreenTypes'
  <2> DEFINE found == {g \in Stations : Snapshot(d)[g] # {}}
  <2>1. UNCHANGED <<backed, at, detail, listed, taps, visits, kills>>
    BY <1>3 DEF ListAnswered
  <2>2. \/ stuck' = [stuck EXCEPT ![d] = TRUE] /\ UNCHANGED <<fetch, loading, answered>>
        \/ NoFavorites(d)
        \/ /\ \E i \in Fetches : fetch' = [fetch EXCEPT ![d][i] = found]
           /\ UNCHANGED <<loading, answered, stuck>>
    BY <1>3 DEF ListAnswered
  <2>3. found \in (SUBSET Stations) \cup {None}
    OBVIOUS
  <2> HIDE DEF found
  <2>4. CASE stuck' = [stuck EXCEPT ![d] = TRUE] /\ UNCHANGED <<fetch, loading, answered>>
    BY <2>1, <2>4
  <2>5. CASE NoFavorites(d)
    BY <2>1, <2>5 DEF NoFavorites
  <2>6. CASE /\ \E i \in Fetches : fetch' = [fetch EXCEPT ![d][i] = found]
             /\ UNCHANGED <<loading, answered, stuck>>
    <3>1. fetch' \in [Devices -> [Fetches -> (SUBSET Stations) \cup {None}]]
      BY <2>3, <2>6
    <3> QED
      BY <2>1, <2>6, <3>1
  <2> QED
    BY <2>2, <2>4, <2>5, <2>6
<1>4. ASSUME NEW i \in Fetches, PricesArrive(d, i) PROVE ScreenTypes'
  <2>1. listed' \in [Devices -> SUBSET Stations]
    <3>1. fetch[d][i] \in (SUBSET Stations) \cup {None} /\ fetch[d][i] # None
      BY <1>4 DEF PricesArrive
    <3> QED
      BY <1>4, <3>1 DEF PricesArrive
  <2>2. fetch' \in [Devices -> [Fetches -> (SUBSET Stations) \cup {None}]]
    BY <1>4 DEF PricesArrive
  <2> QED
    BY <1>4, <2>1, <2>2 DEF PricesArrive, history
<1>5. ASSUME NEW i \in Fetches, PricesFail(d, i) PROVE ScreenTypes'
  <2>1. fetch' \in [Devices -> [Fetches -> (SUBSET Stations) \cup {None}]]
    BY <1>5 DEF PricesFail
  <2> QED
    BY <1>5, <2>1 DEF PricesFail
<1> QED
  BY <1>1, <1>2, <1>3, <1>4, <1>5 DEF Answers
-----------------------------------------------------------------------------
(* What a step does to the records and the connections *)

\* A step that serves no write and no removal: a connection changes behind the save
\* that is half served.
Quiet ==
  /\ UNCHANGED <<node, damaged>>
  /\ \/ UNCHANGED wire
     \/ \E d \in Devices : \E q \in Seq(Op) :
          /\ wire' = [wire EXCEPT ![d] = q]
          /\ BlocksOK(q) /\ SameHead(wire[d], q)

RecordInv == RecordTypes /\ (\A d \in Devices : BlocksOK(wire[d])) /\ RecordsOK

\* Such a step keeps the invariant.
LEMMA QuietKeeps == RecordInv /\ Quiet => RecordInv'
<1> SUFFICES ASSUME RecordInv, Quiet PROVE RecordInv'
  OBVIOUS
<1>1. CASE UNCHANGED wire
  BY <1>1 DEF Quiet, RecordInv, RecordTypes, RecordsOK, ServedOK, WholeOK
<1>2. CASE \E d \in Devices : \E q \in Seq(Op) :
             wire' = [wire EXCEPT ![d] = q] /\ BlocksOK(q) /\ SameHead(wire[d], q)
  <2>1. PICK d \in Devices, q \in Seq(Op) :
          wire' = [wire EXCEPT ![d] = q] /\ BlocksOK(q) /\ SameHead(wire[d], q)
    BY <1>2
  <2>2. wire \in [Devices -> Seq(Op)] /\ node' = node /\ damaged' = damaged
    BY DEF RecordInv, RecordTypes, Quiet
  <2>3. RecordTypes'
    BY <2>1, <2>2 DEF RecordInv, RecordTypes
  <2>4. wire'[d] = q /\ \A e \in Devices : e # d => wire'[e] = wire[e]
    BY <2>1, <2>2
  <2>5. \A e \in Devices : BlocksOK(wire'[e])
    BY <2>1, <2>4 DEF RecordInv
  <2>6. \A e \in Devices, g \in Stations, j \in 2..Len(Fields) :
          HeadIs(wire[e], g, j) <=> HeadIs(wire'[e], g, j)
    BY <2>1, <2>4 DEF SameHead
  <2>7. ASSUME NEW g \in Stations \ damaged PROVE ServedOK(g)'
    <3> SUFFICES ASSUME NEW e \in Devices, NEW j \in 1..Len(Fields), HeadIs(wire'[e], g, j),
                        NEW i \in 1..(j - 1)
                 PROVE  Fields[i] \in node[g]
      BY <2>2 DEF ServedOK
    <3>1. j \in 2..Len(Fields)
      BY Constants
    <3>2. HeadIs(wire[e], g, j)
      BY <2>6, <3>1
    <3> QED
      BY <3>2 DEF RecordInv, RecordsOK, ServedOK
  <2>8. ASSUME NEW g \in Stations \ damaged PROVE WholeOK(g)'
    <3>1. WholeOK(g)
      BY DEF RecordInv, RecordsOK
    <3> QED
      BY <2>2, <2>6, <3>1 DEF WholeOK
  <2>9. RecordsOK'
    BY <2>2, <2>7, <2>8 DEF RecordsOK
  <2> QED
    BY <2>3, <2>5, <2>9 DEF RecordInv
<1> QED
  BY <1>1, <1>2 DEF Quiet

\* A request that writes nothing is sent.
LEMMA QuietAsk ==
  ASSUME RecordInv, UNCHANGED <<node, damaged>>, NEW d \in Devices, NEW o \in Op, o.t # "set",
         NEW q \in Seq(Op), BlocksOK(q), SameHead(wire[d], q),
         wire' = [wire EXCEPT ![d] = Append(q, o)]
  PROVE  Quiet
<1>1. Append(q, o) \in Seq(Op) /\ BlocksOK(Append(q, o)) /\ SameHead(q, Append(q, o))
  BY BlocksAsk, HeadAsk
<1>2. SameHead(wire[d], Append(q, o))
  BY <1>1 DEF SameHead
<1> QED
  BY <1>1, <1>2 DEF Quiet

\* The list is asked for, or not.
LEMMA QuietList ==
  ASSUME RecordInv, UNCHANGED <<node, damaged>>, NEW d \in Devices,
         NEW q \in Seq(Op), BlocksOK(q), SameHead(wire[d], q), viewWillAppear(d, q)
  PROVE  Quiet
<1>1. CASE wire' = [wire EXCEPT ![d] = q]
  BY <1>1 DEF Quiet
<1>2. CASE wire' = [wire EXCEPT ![d] = Append(q, Ask("list", None))]
  <2>1. Ask("list", None) \in Op /\ Ask("list", None).t # "set"
    BY Asked
  <2> QED
    BY <1>2, <2>1, QuietAsk
<1> QED
  BY <1>1, <1>2 DEF viewWillAppear

\* The user's steps are quiet, but for a kill.
LEMMA UserQuiet ==
  ASSUME RecordInv, ScreenTypes, NEW d \in Devices,
         \/ \E g \in Stations : OpenFromSearch(d, g) \/ OpenFromList(d, g) \/ RemoveRow(d, g)
         \/ AddFav(d) \/ CloseDetail(d)
         \/ ShowFavorites(d) \/ ShowSearch(d) \/ LoseUser(d)
  PROVE  Quiet
<1>0. wire[d] \in Seq(Op) /\ BlocksOK(wire[d]) /\ SameHead(wire[d], wire[d])
  BY DEF RecordInv, RecordTypes, SameHead
<1>ask. ASSUME NEW o \in Op, o.t # "set", UNCHANGED <<node, damaged>>, Send(d, <<o>>) PROVE Quiet
  <2>1. wire' = [wire EXCEPT ![d] = wire[d] \o <<o>>]
    BY <1>ask DEF Send
  <2>2. wire[d] \o <<o>> = Append(wire[d], o)
    BY <1>0, <1>ask, BlocksAsk
  <2> QED
    BY <1>0, <1>ask, <2>1, <2>2, QuietAsk
<1>1. ASSUME NEW g \in Stations, OpenFromSearch(d, g) PROVE Quiet
  <2>1. UNCHANGED <<node, damaged>> /\ (UNCHANGED wire \/ Send(d, <<Ask("isFav", g)>>))
    BY <1>1 DEF OpenFromSearch
  <2>2. Ask("isFav", g) \in Op /\ Ask("isFav", g).t # "set"
    BY Asked
  <2>3. CASE UNCHANGED wire
    BY <2>1, <2>3 DEF Quiet
  <2>4. CASE Send(d, <<Ask("isFav", g)>>)
    BY <1>ask, <2>1, <2>2, <2>4
  <2> QED
    BY <2>1, <2>3, <2>4
<1>2. ASSUME NEW g \in Stations, OpenFromList(d, g) PROVE Quiet
  BY <1>2 DEF OpenFromList, Quiet
<1>rm. ASSUME NEW g \in Stations, UNCHANGED <<node, damaged>>, Send(d, <<Ask("rm", g)>>) PROVE Quiet
  <2>1. Ask("rm", g) \in Op /\ Ask("rm", g).t # "set"
    BY Asked
  <2> QED
    BY <1>ask, <1>rm, <2>1
<1>3. ASSUME NEW g \in Stations, RemoveRow(d, g) PROVE Quiet
  <2>1. UNCHANGED <<node, damaged>> /\ (UNCHANGED wire \/ Send(d, <<Ask("rm", g)>>))
    BY <1>3 DEF RemoveRow
  <2>2. CASE UNCHANGED wire
    BY <2>1, <2>2 DEF Quiet
  <2>3. CASE Send(d, <<Ask("rm", g)>>)
    BY <1>rm, <2>1, <2>3
  <2> QED
    BY <2>1, <2>2, <2>3
<1>4. ASSUME AddFav(d) PROVE Quiet
  <2> DEFINE g == detail[d].g
  <2>0. g \in Stations
    BY <1>4 DEF AddFav, ScreenTypes, Detail
  <2>1. UNCHANGED <<node, damaged>>
        /\ (UNCHANGED wire \/ Send(d, <<Ask("rm", g)>>) \/ Send(d, SetOps(g)))
    BY <1>4 DEF AddFav
  <2> HIDE DEF g
  <2>2. CASE UNCHANGED wire
    BY <2>1, <2>2 DEF Quiet
  <2>3. CASE Send(d, <<Ask("rm", g)>>)
    BY <1>rm, <2>0, <2>1, <2>3
  <2>4. CASE Send(d, SetOps(g))
    <3>1. wire' = [wire EXCEPT ![d] = wire[d] \o SetOps(g)]
      BY <2>4 DEF Send
    <3>2. /\ wire[d] \o SetOps(g) \in Seq(Op) /\ BlocksOK(wire[d] \o SetOps(g))
          /\ SameHead(wire[d], wire[d] \o SetOps(g))
      BY <1>0, <2>0, BlocksSave, HeadSave
    <3> QED
      BY <2>1, <3>1, <3>2 DEF Quiet
  <2> QED
    BY <2>1, <2>2, <2>3, <2>4
<1>5. ASSUME CloseDetail(d) PROVE Quiet
  <2>1. UNCHANGED <<node, damaged>> /\ (viewWillAppear(d, wire[d]) \/ UNCHANGED wire)
    BY <1>5 DEF CloseDetail
  <2>2. CASE UNCHANGED wire
    BY <2>1, <2>2 DEF Quiet
  <2>3. CASE viewWillAppear(d, wire[d])
    BY <1>0, <2>1, <2>3, QuietList
  <2> QED
    BY <2>1, <2>2, <2>3
<1>6. ASSUME ShowFavorites(d) PROVE Quiet
  <2>1. UNCHANGED <<node, damaged>> /\ viewWillAppear(d, Unasked(wire[d]))
    BY <1>6 DEF ShowFavorites
  <2> QED
    BY <1>0, <2>1, UnaskedOK, QuietList
<1>7. ASSUME ShowSearch(d) \/ LoseUser(d) PROVE Quiet
  BY <1>7 DEF ShowSearch, LoseUser, history, Quiet
<1> QED
  BY <1>1, <1>2, <1>3, <1>4, <1>5, <1>6, <1>7
\* A connection that takes a step, and the others.
LEMMA OneWire ==
  ASSUME RecordTypes, NEW d \in Devices, NEW q, wire' = [wire EXCEPT ![d] = q]
  PROVE  wire'[d] = q /\ \A e \in Devices : e # d => wire'[e] = wire[e]
  BY DEF RecordTypes

\* A kill keeps the invariant: a save it cuts is damaged, or was of a whole record.
LEMMA KillKeeps == ASSUME NEW d \in Devices, RecordInv, Kill(d) PROVE RecordInv'
<1>1. /\ wire' = [wire EXCEPT ![d] = <<>>] /\ node' = node
      /\ damaged' = damaged \cup {g \in Stations : MidSave(d, g) /\ node[g] # FieldSet}
  BY DEF Kill
<1>2. RecordTypes /\ wire[d] \in Seq(Op) /\ BlocksOK(wire[d])
  BY DEF RecordInv, RecordTypes
<1>3. wire'[d] = <<>> /\ \A e \in Devices : e # d => wire'[e] = wire[e]
  BY <1>1, <1>2, OneWire
<1>4. RecordTypes'
  BY <1>1, <1>2 DEF RecordTypes
<1>5. ASSUME NEW e \in Devices PROVE BlocksOK(wire'[e])
  <2>1. CASE e = d
    BY <1>3, <2>1 DEF BlocksOK
  <2>2. CASE e # d
    BY <1>3, <2>2 DEF RecordInv
  <2> QED
    BY <2>1, <2>2
<1>6. \A g, j : ~HeadIs(wire'[d], g, j)
  BY <1>3 DEF HeadIs
<1>7. ASSUME NEW g \in Stations \ damaged' PROVE ServedOK(g)' /\ WholeOK(g)'
  <2>1. g \in Stations \ damaged /\ ServedOK(g) /\ WholeOK(g)
    BY <1>1 DEF RecordInv, RecordsOK
  <2>2. ServedOK(g)'
    BY <1>1, <1>3, <1>6, <2>1 DEF ServedOK
  <2>3. CASE node[g] \in {{}, FieldSet}
    BY <1>1, <2>2, <2>3 DEF WholeOK
  <2>4. CASE node[g] \notin {{}, FieldSet}
    <3>1. PICK e \in Devices, j \in 2..Len(Fields) : HeadIs(wire[e], g, j)
      BY <2>1, <2>4 DEF WholeOK
    <3>2. e # d
      <4>1. ~MidSave(d, g)
        BY <1>1, <2>4
      <4> QED
        BY <1>2, <2>1, <3>1, <4>1, MidSaveIsHead
    <3>3. HeadIs(wire'[e], g, j)
      BY <1>3, <3>1, <3>2
    <3> QED
      BY <2>2, <3>3 DEF WholeOK
  <2> QED
    BY <2>2, <2>3, <2>4
<1> QED
  BY <1>4, <1>5, <1>7 DEF RecordInv, RecordsOK

\* A removal that is served keeps it: a save it hits half-way is damaged.
LEMMA RemoveKeeps == ASSUME NEW d \in Devices, RecordInv, ServeRemove(d) PROVE RecordInv'
<1> DEFINE q == wire[d]
           h == Head(q).g
<1>1. RecordTypes /\ BlocksOK(q) /\ Serves(d, "rm")
  BY DEF RecordInv, ServeRemove
<1>2. /\ q \in Seq(Op) /\ q # <<>> /\ q[1].t # "set" /\ h \in Stations /\ Tail(q) \in Seq(Op)
      /\ wire' = [wire EXCEPT ![d] = Tail(q)] /\ wire' \in [Devices -> Seq(Op)]
  <2>1. /\ q \in Seq(Op) /\ q # <<>> /\ Head(q) = q[1] /\ Head(q) \in Op /\ Head(q).t = "rm"
        /\ Tail(q) \in Seq(Op)
        /\ wire' = [wire EXCEPT ![d] = Tail(q)] /\ wire' \in [Devices -> Seq(Op)]
    BY <1>1, Served
  <2> QED
    BY <2>1, Kinds
<1>3. /\ node' = [node EXCEPT ![h] = {}]
      /\ damaged' = IF \E e \in Devices \ {d} : MidSave(e, h) THEN damaged \cup {h} ELSE damaged \ {h}
  BY DEF ServeRemove
<1> HIDE DEF q, h
<1>4. wire'[d] = Tail(q) /\ \A e \in Devices : e # d => wire'[e] = wire[e]
  BY <1>1, <1>2, OneWire
<1>5. RecordTypes'
  <2>1. node' \in [Stations -> SUBSET FieldSet]
    BY <1>1, <1>3 DEF RecordTypes
  <2>2. damaged' \subseteq Stations
    BY <1>1, <1>2, <1>3 DEF RecordTypes
  <2> QED
    BY <1>2, <2>1, <2>2 DEF RecordTypes
<1>6. ASSUME NEW e \in Devices PROVE BlocksOK(wire'[e])
  <2>1. CASE e = d
    BY <1>1, <1>2, <1>4, <2>1, BlocksTail
  <2>2. CASE e # d
    BY <1>4, <2>2 DEF RecordInv
  <2> QED
    BY <2>1, <2>2
<1>7. /\ \A g, j : ~HeadIs(q, g, j)
      /\ \A g \in Stations, j \in 2..Len(Fields) : ~HeadIs(wire'[d], g, j)
  BY <1>1, <1>2, <1>4, HeadTail
<1>8. ASSUME NEW g \in Stations \ damaged' PROVE ServedOK(g)' /\ WholeOK(g)'
  <2>1. CASE g = h
    <3>1. node'[g] = {}
      BY <1>1, <1>2, <1>3, <2>1 DEF RecordTypes
    <3>2. ASSUME NEW e \in Devices, NEW j \in 2..Len(Fields), HeadIs(wire'[e], g, j) PROVE FALSE
      <4>1. e # d
        BY <1>7, <3>2
      <4>2. HeadIs(wire[e], g, j) /\ wire[e] \in Seq(Op) /\ BlocksOK(wire[e])
        BY <1>1, <1>4, <3>2, <4>1 DEF RecordInv, RecordTypes
      <4>3. MidSave(e, h)
        BY <2>1, <4>2, MidSaveIsHead
      <4> QED
        BY <1>3, <2>1, <4>1, <4>3
    <3>3. ServedOK(g)'
      <4> SUFFICES ASSUME NEW e \in Devices, NEW j \in 1..Len(Fields), HeadIs(wire'[e], g, j),
                          NEW i \in 1..(j - 1)
                   PROVE  FALSE
        BY DEF ServedOK
      <4>1. j \in 2..Len(Fields)
        BY Constants
      <4> QED
        BY <3>2, <4>1
    <3> QED
      BY <3>1, <3>3 DEF WholeOK
  <2>2. CASE g # h
    <3>1. node'[g] = node[g] /\ g \in Stations \ damaged
      BY <1>1, <1>2, <1>3, <2>2 DEF RecordTypes
    <3>2. ServedOK(g) /\ WholeOK(g)
      BY <3>1 DEF RecordInv, RecordsOK
    <3>3. ServedOK(g)'
      <4> SUFFICES ASSUME NEW e \in Devices, NEW j \in 1..Len(Fields), HeadIs(wire'[e], g, j),
                          NEW i \in 1..(j - 1)
                   PROVE  Fields[i] \in node[g]
        BY <3>1 DEF ServedOK
      <4>1. j \in 2..Len(Fields)
        BY Constants
      <4>2. HeadIs(wire[e], g, j)
        BY <1>4, <1>7, <4>1
      <4> QED
        BY <3>2, <4>2 DEF ServedOK
    <3>4. WholeOK(g)'
      BY <1>4, <1>7, <3>1, <3>2 DEF WholeOK, q
    <3> QED
      BY <3>3, <3>4
  <2> QED
    BY <2>1, <2>2
<1> QED
  BY <1>5, <1>6, <1>8 DEF RecordInv, RecordsOK

\* What a connection serves after the j-th field of a station.
LEMMA AfterField ==
  ASSUME NEW q \in Seq(Op), q # <<>>, BlocksOK(q), NEW g \in Stations, NEW j \in 1..Len(Fields),
         HeadIs(q, g, j)
  PROVE  /\ j < Len(Fields) => HeadIs(Tail(q), g, j + 1)
         /\ \A h \in Stations, k \in 2..Len(Fields) : HeadIs(Tail(q), h, k) => h = g /\ k = j + 1
<1>0. j \in Nat /\ Len(q) \in Nat /\ Len(q) >= 1 /\ 1 \in 1..Len(q)
      /\ q[1].t = "set" /\ q[1].g = g /\ q[1].f = Fields[j]
  BY Constants DEF HeadIs
<1>1. Len(Tail(q)) = Len(q) - 1 /\ \A n \in 1..Len(Tail(q)) : Tail(q)[n] = q[n + 1]
  OBVIOUS
<1>2. ASSUME j < Len(Fields) PROVE HeadIs(Tail(q), g, j + 1)
  <2>1. Block(q, 1, j)
    BY <1>0 DEF BlocksOK
  <2>2. j + 1 \in 1..Len(Fields) /\ 1 + (j + 1) > j /\ 1 + (j + 1) - j = 2
    BY <1>0, <1>2, Constants
  <2>3. 2 <= Len(q) /\ q[2] = [t |-> "set", g |-> g, f |-> Fields[j + 1]]
    BY <1>0, <2>1, <2>2 DEF Block
  <2>4. Len(Tail(q)) >= 1 /\ 1 \in 1..Len(Tail(q))
    <3>1. 2 <= Len(q)
      BY <2>3
    <3> QED
      BY <1>0, <1>1, <3>1
  <2>5. Tail(q)[1] = q[2]
    BY <1>1, <2>4
  <2> QED
    BY <2>3, <2>4, <2>5 DEF HeadIs
<1>3. ASSUME NEW h \in Stations, NEW k \in 2..Len(Fields), HeadIs(Tail(q), h, k)
      PROVE  h = g /\ k = j + 1
  <2>1. Len(Tail(q)) >= 1 /\ Tail(q)[1].t = "set" /\ Tail(q)[1].g = h /\ Tail(q)[1].f = Fields[k]
    BY <1>3 DEF HeadIs
  <2>2. 2 \in 1..Len(q) /\ Tail(q)[1] = q[2]
    BY <1>0, <1>1, <2>1
  <2>3. k \in 1..Len(Fields) /\ k - 1 \in 1..Len(Fields) /\ 2 + (k - 1) > k /\ 2 + (k - 1) - k = 1
    BY Constants
  <2>4. Block(q, 2, k)
    BY <2>1, <2>2, <2>3 DEF BlocksOK
  <2>5. q[1] = [t |-> "set", g |-> h, f |-> Fields[k - 1]]
    BY <2>1, <2>2, <2>3, <2>4 DEF Block
  <2>6. h = g /\ Fields[k - 1] = Fields[j]
    BY <1>0, <2>5
  <2>7. k - 1 = j
    BY <2>3, <2>6, Constants
  <2> QED
    BY <1>0, <2>3, <2>6, <2>7, Constants
<1> QED
  BY <1>2, <1>3
\* A field that is served keeps it: the next one follows, or the record is whole.
LEMMA SetKeeps == ASSUME NEW d \in Devices, RecordInv, ServeSet(d) PROVE RecordInv'
<1> DEFINE q == wire[d]
           h == Head(q).g
           f == Head(q).f
<1>1. RecordTypes /\ BlocksOK(q) /\ Serves(d, "set")
  BY DEF RecordInv, ServeSet
<1>2. /\ q \in Seq(Op) /\ q # <<>> /\ Head(q) = q[1] /\ q[1].t = "set" /\ h \in Stations /\ f \in FieldSet
      /\ Tail(q) \in Seq(Op) /\ wire' = [wire EXCEPT ![d] = Tail(q)] /\ wire' \in [Devices -> Seq(Op)]
  <2>1. /\ q \in Seq(Op) /\ q # <<>> /\ Head(q) = q[1] /\ Head(q) \in Op /\ Head(q).t = "set"
        /\ Tail(q) \in Seq(Op)
        /\ wire' = [wire EXCEPT ![d] = Tail(q)] /\ wire' \in [Devices -> Seq(Op)]
    BY <1>1, Served
  <2> QED
    BY <2>1, Kinds
<1>3. /\ node' = [node EXCEPT ![h] = @ \cup {f}]
      /\ damaged' = IF node'[h] = FieldSet THEN damaged \ {h} ELSE damaged
  BY DEF ServeSet
<1>4. PICK j \in 1..Len(Fields) : f = Fields[j]
  BY <1>2, Constants
<1>5. HeadIs(q, h, j)
  BY <1>2, <1>4 DEF HeadIs
<1> HIDE DEF q, h, f
<1>6. wire'[d] = Tail(q) /\ \A e \in Devices : e # d => wire'[e] = wire[e]
  BY <1>1, <1>2, OneWire
<1>7. /\ j < Len(Fields) => HeadIs(wire'[d], h, j + 1)
      /\ \A g \in Stations, k \in 2..Len(Fields) : HeadIs(wire'[d], g, k) => g = h /\ k = j + 1
  BY <1>1, <1>2, <1>5, <1>6, AfterField
<1>8. RecordTypes'
  <2>1. node' \in [Stations -> SUBSET FieldSet]
    BY <1>1, <1>2, <1>3 DEF RecordTypes
  <2>2. damaged' \subseteq Stations
    BY <1>1, <1>3 DEF RecordTypes
  <2> QED
    BY <1>2, <2>1, <2>2 DEF RecordTypes
<1>9. ASSUME NEW e \in Devices PROVE BlocksOK(wire'[e])
  <2>1. CASE e = d
    BY <1>1, <1>2, <1>6, <2>1, BlocksTail
  <2>2. CASE e # d
    BY <1>6, <2>2 DEF RecordInv
  <2> QED
    BY <2>1, <2>2
<1>10. node \in [Stations -> SUBSET FieldSet] /\ node'[h] = node[h] \cup {f}
       /\ \A g \in Stations : g # h => node'[g] = node[g]
  BY <1>1, <1>2, <1>3 DEF RecordTypes
<1>11. ASSUME NEW g \in Stations \ damaged' PROVE ServedOK(g)' /\ WholeOK(g)'
  <2>1. CASE g = h /\ node'[g] = FieldSet
    <3>1. ServedOK(g)'
      <4> SUFFICES ASSUME NEW e \in Devices, NEW k \in 1..Len(Fields), NEW i \in 1..(k - 1)
                   PROVE  Fields[i] \in node'[g]
        BY DEF ServedOK
      <4>1. i \in 1..Len(Fields)
        BY Constants
      <4> QED
        BY <2>1, <4>1, Constants
    <3> QED
      BY <2>1, <3>1 DEF WholeOK
  <2>2. CASE g = h /\ node'[g] # FieldSet
    <3>1. g \in Stations \ damaged /\ ServedOK(g)
      BY <1>3, <2>2 DEF RecordInv, RecordsOK
    <3>2. \A i \in 1..(j - 1) : Fields[i] \in node[g]
      BY <1>5, <2>2, <3>1 DEF ServedOK, q
    <3>3. \A i \in 1..j : Fields[i] \in node'[g]
      <4>1. \A i \in 1..j : i \in 1..(j - 1) \/ i = j
        BY Constants
      <4> QED
        BY <1>4, <1>10, <2>2, <3>2, <4>1
    <3>4. ServedOK(g)'
      <4> SUFFICES ASSUME NEW e \in Devices, NEW k \in 1..Len(Fields), HeadIs(wire'[e], g, k),
                          NEW i \in 1..(k - 1)
                   PROVE  Fields[i] \in node'[g]
        BY DEF ServedOK
      <4>1. k \in 2..Len(Fields)
        BY Constants
      <4>2. CASE e = d
        <5>1. k = j + 1
          BY <1>7, <4>1, <4>2
        <5>2. i \in 1..j
          BY <5>1, Constants
        <5> QED
          BY <3>3, <5>2
      <4>3. CASE e # d
        <5>1. HeadIs(wire[e], g, k)
          BY <1>6, <4>3
        <5>2. Fields[i] \in node[g]
          BY <3>1, <5>1 DEF ServedOK
        <5> QED
          BY <1>10, <2>2, <5>2
      <4> QED
        BY <4>2, <4>3
    <3>5. j < Len(Fields)
      <4> SUFFICES ASSUME ~(j < Len(Fields)) PROVE FALSE
        OBVIOUS
      <4>1. j = Len(Fields)
        BY Constants
      <4>2. FieldSet \subseteq node'[g]
        BY <3>3, <4>1, Constants
      <4>3. node'[g] \subseteq FieldSet
        BY <1>8 DEF RecordTypes
      <4> QED
        BY <2>2, <4>2, <4>3
    <3>6. HeadIs(wire'[d], g, j + 1) /\ j + 1 \in 2..Len(Fields)
      BY <1>7, <2>2, <3>5, Constants
    <3>7. WholeOK(g)'
      BY <3>6 DEF WholeOK
    <3> QED
      BY <3>4, <3>7
  <2>3. CASE g # h
    <3>1. node'[g] = node[g] /\ g \in Stations \ damaged
      BY <1>3, <1>10, <2>3
    <3>2. ServedOK(g) /\ WholeOK(g)
      BY <3>1 DEF RecordInv, RecordsOK
    <3>3. ServedOK(g)'
      <4> SUFFICES ASSUME NEW e \in Devices, NEW k \in 1..Len(Fields), HeadIs(wire'[e], g, k),
                          NEW i \in 1..(k - 1)
                   PROVE  Fields[i] \in node[g]
        BY <3>1 DEF ServedOK
      <4>1. k \in 2..Len(Fields)
        BY Constants
      <4>2. e # d
        BY <1>7, <2>3, <4>1
      <4>3. HeadIs(wire[e], g, k)
        BY <1>6, <4>2
      <4> QED
        BY <3>2, <4>3 DEF ServedOK
    <3>4. WholeOK(g)'
      <4>1. CASE node[g] \in {{}, FieldSet}
        BY <3>1, <4>1 DEF WholeOK
      <4>2. CASE node[g] \notin {{}, FieldSet}
        <5>1. PICK e \in Devices, k \in 2..Len(Fields) : HeadIs(wire[e], g, k)
          BY <3>2, <4>2 DEF WholeOK
        <5>2. e # d
          BY <1>5, <2>3, <5>1 DEF HeadIs, q
        <5>3. HeadIs(wire'[e], g, k)
          BY <1>6, <5>1, <5>2
        <5> QED
          BY <5>3 DEF WholeOK
      <4> QED
        BY <4>1, <4>2
    <3> QED
      BY <3>3, <3>4
  <2> QED
    BY <2>1, <2>2, <2>3
<1> QED
  BY <1>8, <1>9, <1>11 DEF RecordInv, RecordsOK

\* The answers to questions and the prices are quiet.
LEMMA AnswerQuiet ==
  ASSUME NEW d \in Devices, RecordInv,
         \/ FavoriteAnswered(d) \/ ListAnswered(d)
         \/ \E i \in Fetches : PricesArrive(d, i) \/ PricesFail(d, i)
  PROVE  Quiet
<1>1. ASSUME NEW t, t # "set", Serves(d, t), UNCHANGED <<node, damaged>> PROVE Quiet
  <2>1. RecordTypes /\ BlocksOK(wire[d])
    BY DEF RecordInv
  <2>2. /\ wire[d] \in Seq(Op) /\ wire[d] # <<>> /\ wire[d][1].t # "set" /\ Tail(wire[d]) \in Seq(Op)
        /\ wire' = [wire EXCEPT ![d] = Tail(wire[d])]
    BY <1>1, <2>1, Served
  <2>3. SameHead(wire[d], Tail(wire[d])) /\ BlocksOK(Tail(wire[d]))
    BY <2>1, <2>2, HeadTail, BlocksTail DEF SameHead
  <2> QED
    BY <1>1, <2>2, <2>3 DEF Quiet
<1>2. CASE FavoriteAnswered(d)
  <2>1. Serves(d, "isFav") /\ UNCHANGED <<node, damaged>>
    BY <1>2 DEF FavoriteAnswered, history
  <2> QED
    BY <1>1, <2>1
<1>3. CASE ListAnswered(d)
  <2>1. Serves(d, "list") /\ UNCHANGED <<node, damaged>>
    BY <1>3 DEF ListAnswered
  <2> QED
    BY <1>1, <2>1
<1>4. CASE \E i \in Fetches : PricesArrive(d, i) \/ PricesFail(d, i)
  BY <1>4 DEF PricesArrive, PricesFail, history, Quiet
<1> QED
  BY <1>2, <1>3, <1>4
-----------------------------------------------------------------------------
(* What a device sees *)

\* No removal stands between the writes of a save.
LEMMA RemovedBefore ==
  ASSUME NEW q \in Seq(Op), BlocksOK(q), NEW g \in Stations, NEW n \in 1..Len(q), NEW j \in 1..Len(Fields),
         q[n].t = "set", q[n].g = g, q[n].f = Fields[j], Survives(q, n), NEW m \in Removals(q, g)
  PROVE  m \in Nat /\ m >= 1 /\ m + j < n + 1
<1>1. m \in 1..Len(q) /\ q[m].t = "rm" /\ m < n /\ Len(q) \in Nat
  BY DEF Survives, Removals
<1>2. m \in Nat /\ n \in Nat /\ j \in Nat /\ m >= 1 /\ j >= 1 /\ j <= Len(Fields) /\ m < n
  BY <1>1, Constants
<1> SUFFICES ASSUME ~(m + j < n + 1) PROVE FALSE
  BY <1>2
<1>3. PICK y : y = m + j - n
  OBVIOUS
<1>4. y \in 1..Len(Fields) /\ n + y > j /\ n + y - j = m
  BY <1>2, <1>3, Constants
<1>5. Block(q, n, j)
  BY DEF BlocksOK
<1>6. q[m] = [t |-> "set", g |-> q[n].g, f |-> Fields[y]]
  BY <1>4, <1>5 DEF Block
<1> QED
  BY <1>1, <1>6

\* A save that no removal follows shows the device the whole record.
LEMMA SavedIsSeen ==
  ASSUME RecordInv, NEW d \in Devices, NEW g \in Stations \ damaged,
         NEW n \in 1..Len(wire[d]), wire[d][n].t = "set", wire[d][n].g = g, Survives(wire[d], n)
  PROVE  FieldSet \subseteq After(wire[d], g)
<1> DEFINE q == wire[d]
           seen == {q[x].f : x \in {m \in 1..Len(q) : q[m].t = "set" /\ q[m].g = g /\ Survives(q, m)}}
<1>1. q \in Seq(Op) /\ BlocksOK(q) /\ Len(q) \in Nat /\ n \in 1..Len(q) /\ Survives(q, n)
      /\ q[n].t = "set" /\ q[n].g = g /\ q[n] \in Op /\ g \in Stations
  BY DEF RecordInv, RecordTypes
<1>2. seen \subseteq After(q, g) /\ (Removals(q, g) = {} => node[g] \subseteq After(q, g))
  BY DEF After
<1>3. ServedOK(g)
  BY DEF RecordInv, RecordsOK
<1> HIDE DEF q
<1>4. PICK j \in 1..Len(Fields) : q[n].f = Fields[j]
  BY <1>1, Kinds, Constants
<1>5. Block(q, n, j)
  BY <1>1, <1>4 DEF BlocksOK
<1>6. n \in Nat /\ n >= 1 /\ j \in Nat /\ j >= 1 /\ j <= Len(Fields)
  BY <1>1, Constants
<1>7. \A m \in Removals(q, g) : m \in Nat /\ m >= 1 /\ m + j < n + 1
  BY <1>1, <1>4, RemovedBefore
<1>8. ASSUME NEW i \in 1..Len(Fields) PROVE Fields[i] \in After(q, g)
  <2>0. i \in Nat /\ i >= 1 /\ i <= Len(Fields)
    BY Constants
  <2>1. CASE n + i > j
    <3>1. PICK x \in Nat \ {0} : x = n + i - j
      BY <1>6, <2>0, <2>1
    <3>2. x <= Len(q) /\ q[x] = [t |-> "set", g |-> g, f |-> Fields[i]]
      BY <1>1, <1>5, <2>1, <3>1 DEF Block
    <3>3. x \in 1..Len(q)
      <4>1. x <= Len(q)
        BY <3>2
      <4> QED
        BY <1>1, <3>1, <4>1
    <3>4. \A m \in Removals(q, g) : m < x
      BY <1>6, <1>7, <2>0, <3>1
    <3>5. q[x].t = "set" /\ q[x].g = g /\ q[x].f = Fields[i]
      BY <3>2
    <3>6. Survives(q, x)
      BY <3>4, <3>5 DEF Survives
    <3>7. Fields[i] \in seen
      BY <3>3, <3>5, <3>6
    <3> QED
      BY <1>2, <3>7
  <2>2. CASE ~(n + i > j)
    <3>1. PICK y : y = j + 1 - n
      OBVIOUS
    <3>2. y \in 1..Len(Fields) /\ n + y > j /\ n + y - j = 1 /\ i \in 1..(y - 1)
      BY <1>6, <2>0, <2>2, <3>1, Constants
    <3>3. 1 <= Len(q) /\ q[1] = [t |-> "set", g |-> g, f |-> Fields[y]]
      BY <1>1, <1>5, <3>2 DEF Block
    <3>4. HeadIs(q, g, y)
      <4>1. Len(q) >= 1
        BY <1>1, <1>6
      <4> QED
        BY <3>3, <4>1 DEF HeadIs
    <3>5. Fields[i] \in node[g]
      BY <1>3, <3>2, <3>4 DEF ServedOK, q
    <3>6. Removals(q, g) = {}
      <4> SUFFICES ASSUME NEW m \in Removals(q, g) PROVE FALSE
        OBVIOUS
      <4>1. m \in Nat /\ m >= 1 /\ m + j < n + 1
        BY <1>7
      <4> QED
        BY <1>6, <2>0, <2>2, <4>1
    <3> QED
      BY <1>2, <3>5, <3>6
  <2> QED
    BY <2>1, <2>2
<1> QED
  BY <1>8, Constants DEF q

\* A device sees a record whole or not at all unless another device is saving it.
LEMMA SeenWhole ==
  ASSUME RecordInv, NEW d \in Devices, NEW g \in Stations \ damaged,
         \A e \in Devices \ {d} : ~MidSave(e, g)
  PROVE  After(wire[d], g) \in {{}, FieldSet}
<1> DEFINE q == wire[d]
           sets == {m \in 1..Len(q) : q[m].t = "set" /\ q[m].g = g /\ Survives(q, m)}
<1>1. q \in Seq(Op) /\ Len(q) \in Nat /\ g \in Stations /\ node[g] \subseteq FieldSet
  BY DEF RecordInv, RecordTypes
<1>2. After(q, g) = (IF Removals(q, g) = {} THEN node[g] ELSE {}) \cup {q[n].f : n \in sets}
  BY DEF After
<1>3. CASE sets = {}
  <2>1. After(q, g) = IF Removals(q, g) = {} THEN node[g] ELSE {}
    BY <1>2, <1>3
  <2>2. CASE Removals(q, g) # {}
    BY <2>1, <2>2
  <2>3. CASE Removals(q, g) = {}
    <3>1. ASSUME NEW j \in 2..Len(Fields), HeadIs(q, g, j) PROVE FALSE
      <4>1. 1 \in 1..Len(q) /\ q[1].t = "set" /\ q[1].g = g
        BY <1>1, <3>1 DEF HeadIs
      <4>2. Survives(q, 1)
        BY <2>3, <4>1 DEF Survives
      <4> QED
        BY <1>3, <4>1, <4>2
    <3>2. ASSUME NEW e \in Devices, NEW j \in 2..Len(Fields), HeadIs(wire[e], g, j) PROVE FALSE
      <4>1. CASE e = d
        BY <3>1, <3>2, <4>1
      <4>2. CASE e # d
        <5>1. wire[e] \in Seq(Op) /\ BlocksOK(wire[e]) /\ e \in Devices \ {d}
          BY <4>2 DEF RecordInv, RecordTypes
        <5>2. MidSave(e, g)
          BY <1>1, <3>2, <5>1, MidSaveIsHead
        <5> QED
          BY <5>1, <5>2
      <4> QED
        BY <4>1, <4>2
    <3>3. WholeOK(g)
      BY DEF RecordInv, RecordsOK
    <3>4. node[g] \in {{}, FieldSet}
      BY <3>2, <3>3 DEF WholeOK
    <3> QED
      BY <2>1, <2>3, <3>4
  <2> QED
    BY <2>2, <2>3
<1>4. CASE sets # {}
  <2>1. PICK n \in 1..Len(q) : q[n].t = "set" /\ q[n].g = g /\ Survives(q, n)
    BY <1>4
  <2>2. FieldSet \subseteq After(q, g)
    BY <2>1, SavedIsSeen
  <2>3. \A m \in sets : q[m].f \in FieldSet
    <3>1. \A m \in sets : q[m] \in Op /\ q[m].t = "set"
      BY <1>1
    <3> QED
      BY <3>1, Kinds
  <2>4. After(q, g) \subseteq FieldSet
    BY <1>1, <1>2, <2>3
  <2> QED
    BY <2>2, <2>4
<1> QED
  BY <1>3, <1>4

\* The invariant says that records are whole.
LEMMA RecordsWhole == RecordInv => WholeRecords
<1> SUFFICES ASSUME RecordInv, NEW g \in Stations \ damaged
             PROVE  /\ node[g] \in {{}, FieldSet} \/ Saving(g)
                    /\ \A d \in Devices :
                         After(wire[d], g) \in {{}, FieldSet} \/ \E e \in Devices \ {d} : MidSave(e, g)
  BY DEF WholeRecords
<1>1. \A d \in Devices : wire[d] \in Seq(Op) /\ BlocksOK(wire[d])
  BY DEF RecordInv, RecordTypes
<1>2. WholeOK(g)
  BY DEF RecordInv, RecordsOK
<1>3. node[g] \in {{}, FieldSet} \/ Saving(g)
  <2>1. CASE node[g] \in {{}, FieldSet}
    BY <2>1
  <2>2. CASE \E d \in Devices, j \in 2..Len(Fields) : HeadIs(wire[d], g, j)
    <3>1. PICK d \in Devices, j \in 2..Len(Fields) : HeadIs(wire[d], g, j)
      BY <2>2
    <3>2. MidSave(d, g)
      BY <1>1, <3>1, MidSaveIsHead
    <3> QED
      BY <3>2 DEF Saving
  <2> QED
    BY <1>2, <2>1, <2>2 DEF WholeOK
<1>4. ASSUME NEW d \in Devices
      PROVE  After(wire[d], g) \in {{}, FieldSet} \/ \E e \in Devices \ {d} : MidSave(e, g)
  BY SeenWhole
<1> QED
  BY <1>3, <1>4

-----------------------------------------------------------------------------
(* Theorems *)

\* The initial states satisfy the invariant.
LEMMA InitInv == Init => ScreenTypes /\ RecordInv
<1> SUFFICES ASSUME Init PROVE ScreenTypes /\ RecordInv
  OBVIOUS
<1>1. ScreenTypes
  <2>1. fetch \in [Devices -> [Fetches -> (SUBSET Stations) \cup {None}]]
    BY DEF Init
  <2>2. Closed \in Detail /\ "launch" \in Places
    BY DEF Detail, Places
  <2> QED
    BY <2>1, <2>2 DEF Init, ScreenTypes
<1>2. RecordTypes
  <2>1. <<>> \in Seq(Op)
    OBVIOUS
  <2> QED
    BY <2>1 DEF Init, RecordTypes
<1>3. \A d \in Devices : wire[d] = <<>> /\ Len(wire[d]) = 0
  BY DEF Init
<1>4. \A d \in Devices : BlocksOK(wire[d]) /\ \A g, j : ~HeadIs(wire[d], g, j)
  BY <1>3 DEF BlocksOK, HeadIs
<1>5. \A g \in Stations : node[g] \in {{}, FieldSet}
  BY DEF Init
<1>6. RecordsOK
  BY <1>4, <1>5 DEF RecordsOK, ServedOK, WholeOK
<1> QED
  BY <1>1, <1>2, <1>4, <1>6 DEF RecordInv

\* Every step keeps it.
LEMMA NextInv == ScreenTypes /\ RecordInv /\ [Next]_vars => ScreenTypes' /\ RecordInv'
<1> SUFFICES ASSUME ScreenTypes, RecordInv, [Next]_vars PROVE ScreenTypes' /\ RecordInv'
  OBVIOUS
<1>1. CASE UNCHANGED vars
  <2>1. ScreenTypes'
    BY <1>1 DEF vars, device, history, ScreenTypes
  <2>2. Quiet
    BY <1>1 DEF vars, device, history, Quiet
  <2> QED
    BY <2>1, <2>2, QuietKeeps
<1>2. ASSUME NEW d \in Devices,
             \/ \E g \in Stations : OpenFromSearch(d, g) \/ OpenFromList(d, g) \/ RemoveRow(d, g)
             \/ AddFav(d) \/ CloseDetail(d)
             \/ ShowFavorites(d) \/ ShowSearch(d) \/ LoseUser(d)
      PROVE  ScreenTypes' /\ RecordInv'
  BY <1>2, UserScreens, UserQuiet, QuietKeeps
<1>3. ASSUME NEW d \in Devices, Kill(d) PROVE ScreenTypes' /\ RecordInv'
  BY <1>3, UserScreens, KillKeeps
<1>4. ASSUME NEW d \in Devices,
             Answers(d) \/ \E i \in Fetches : PricesArrive(d, i) \/ PricesFail(d, i)
      PROVE  ScreenTypes' /\ RecordInv'
  <2>1. ScreenTypes'
    BY <1>4, AnswerScreens DEF RecordInv
  <2>2. CASE ServeSet(d)
    BY <2>1, <2>2, SetKeeps
  <2>3. CASE ServeRemove(d)
    BY <2>1, <2>3, RemoveKeeps
  <2>4. CASE \/ FavoriteAnswered(d) \/ ListAnswered(d)
             \/ \E i \in Fetches : PricesArrive(d, i) \/ PricesFail(d, i)
    BY <2>1, <2>4, AnswerQuiet, QuietKeeps
  <2> QED
    BY <1>4, <2>2, <2>3, <2>4 DEF Answers
<1> QED
  BY <1>1, <1>2, <1>3, <1>4 DEF Next

\* The variables keep their types, whatever the devices, stations and bounds.
THEOREM FavoritesTypes == Spec => []TypeOK
<1>1. ScreenTypes /\ RecordInv => TypeOK
  BY TypeParts DEF RecordInv
<1> QED
  BY <1>1, InitInv, NextInv, PTL DEF Spec

\* A record lacks fields only while it is being saved, and never for the device that
\* saves it, unless a kill or another device's removal hit the save half-way and the
\* record was neither removed nor completed since (saveFavorite, removeFavorite).
THEOREM RecordsAreWhole == Spec => []WholeRecords
  BY InitInv, NextInv, RecordsWhole, PTL DEF Spec
=============================================================================
