------------------------- MODULE DeviceCatalogProofs -------------------------
(***************************************************************************)
(* Proofs about DeviceCatalog, for every command line and account: however  *)
(* the probes answer, the registry is the reference's, and a startup fails  *)
(* for its configuration or for a probe or cloud that failed only.          *)
(*                                                                         *)
(* The registry is a list that is pushed together, and what is pushed is    *)
(* found by induction on the numbers: the first with each id, in their      *)
(* order.  The invariant says what each step of the startup leaves behind;  *)
(* of a code, that a device whose camera was attached has its best one, and *)
(* that any other has the one it came with.                                 *)
(***************************************************************************)
EXTENDS DeviceCatalog, SequenceTheorems, WellFoundedInduction, TLAPS

\* A set of numbers has a least one.
Less == {p \in Nat \X Nat : p[1] < p[2]}

LEMMA LeastNat ==
  ASSUME NEW S, S \subseteq Nat, S # {}
  PROVE  \E m \in S : \A n \in S : m <= n
<1>1. IsWellFoundedOn(Less, Nat)
  BY NatLessThanWellFounded DEF OpToRel, Less
<1>2. PICK m \in S : \A n \in S : <<n, m>> \notin Less
  BY <1>1, WFMin
<1>3. ASSUME NEW n \in S PROVE m <= n
  <2>1. <<n, m>> \in Nat \X Nat /\ <<n, m>>[1] = n /\ <<n, m>>[2] = m
    OBVIOUS
  <2> QED
    BY <1>2, <2>1 DEF Less
<1> QED
  BY <1>3

-----------------------------------------------------------------------------
(* The list that is pushed.                                                *)

\* A set of numbers that has 0, and the next of each below a bound, has all up to the bound.
LEMMA CountUp ==
  ASSUME NEW N \in Nat, NEW S, 0 \in S,
         \A k \in 1..N : k - 1 \in S => k \in S
  PROVE  \A k \in 0..N : k \in S
<1> DEFINE Missing == {k \in 0..N : k \notin S}
<1>1. SUFFICES ASSUME Missing # {} PROVE FALSE
  OBVIOUS
<1>2. PICK m \in Missing : \A k \in Missing : m <= k
  <2>1. Missing \subseteq Nat
    OBVIOUS
  <2> HIDE DEF Missing
  <2> QED
    BY <1>1, <2>1, LeastNat
<1>3. m \in 1..N /\ m - 1 \in 0..N /\ ~(m <= m - 1)
  BY <1>2
<1>4. m - 1 \in S
  BY <1>2, <1>3
<1> QED
  BY <1>2, <1>3, <1>4

\* What is pushed up to each place of the list.
LEMMA PushedUpTo ==
  ASSUME NEW list, NEW passed, Len(list) \in Nat
  PROVE  \E g : /\ PushAll(list, passed) = g[Len(list)] /\ g[0] = <<>>
                /\ \A k \in 1..Len(list) :
                     g[k] = IF list[k] \in passed THEN g[k - 1] ELSE Push(g[k - 1], list[k])
<1> DEFINE N == Len(list)
           Turn(g, k) == IF k = 0 THEN <<>>
                         ELSE IF list[k] \in passed THEN g[k - 1]
                         ELSE Push(g[k - 1], list[k])
           Upto(n) == \E g : g = [k \in 0..n |-> Turn(g, k)]
           S == {n \in 0..N : Upto(n)}
<1>1. 0 \in S
  <2> DEFINE h == [k \in 0..0 |-> <<>>]
  <2>1. h = [k \in 0..0 |-> Turn(h, k)]
    OBVIOUS
  <2> HIDE DEF h, Turn
  <2>2. Upto(0)
    BY <2>1
  <2> QED
    BY <2>2
<1>2. ASSUME NEW n \in 1..N, n - 1 \in S PROVE n \in S
  <2>1. PICK g : g = [k \in 0..(n - 1) |-> Turn(g, k)]
    BY <1>2
  <2> DEFINE h == [k \in 0..n |-> IF k = n THEN Turn(g, n) ELSE g[k]]
  <2>2. ASSUME NEW k \in 0..n PROVE h[k] = Turn(h, k)
    <3>1. CASE k = 0
      BY <2>1, <3>1
    <3>2. CASE k # 0
      <4>1. k - 1 \in 0..n /\ k - 1 # n /\ h[k - 1] = g[k - 1]
        BY <3>2
      <4>2. Turn(h, k) = Turn(g, k)
        BY <3>2, <4>1
      <4>3. h[k] = Turn(g, k)
        BY <2>1
      <4> QED
        BY <4>2, <4>3
    <3> QED
      BY <3>1, <3>2
  <2>3. h = [k \in 0..n |-> Turn(h, k)]
    BY <2>2
  <2> HIDE DEF h, Turn
  <2>4. Upto(n)
    BY <2>3
  <2> QED
    BY <2>4
<1>3. N \in S
  <2>1. N \in Nat /\ N \in 0..N
    OBVIOUS
  <2> HIDE DEF S, N
  <2>2. \A k \in 1..N : k - 1 \in S => k \in S
    BY <1>2
  <2>3. \A k \in 0..N : k \in S
    BY <1>1, <2>1, <2>2, CountUp
  <2> QED
    BY <2>1, <2>3
<1> DEFINE pushed == CHOOSE g : g = [k \in 0..N |-> Turn(g, k)]
<1>4. pushed = [k \in 0..N |-> Turn(pushed, k)]
  BY <1>3
<1>5. PushAll(list, passed) = pushed[N]
  BY DEF PushAll
<1> HIDE DEF pushed
<1>6. pushed[0] = <<>> /\ \A k \in 1..N : pushed[k] = Turn(pushed, k)
  BY <1>4
<1> QED
  BY <1>5, <1>6

\* A place of the list is the first with its id, those that are passed over not counted.
FirstAt(list, passed, i) ==
  /\ i \in DOMAIN list /\ list[i] \notin passed
  /\ \A k \in 1..(i - 1) : list[k] \in passed \/ list[k].id # list[i].id

\* What was pushed up to place k: the first with each id, in their order.
Firsts(b, list, passed, k) ==
  /\ b \in Seq(ToSet(list))
  /\ \A j \in DOMAIN b : \E i \in 1..k : FirstAt(list, passed, i) /\ b[j] = list[i]
  /\ \A i \in 1..k : list[i] \notin passed => \E j \in DOMAIN b : b[j].id = list[i].id
  /\ \A j1, j2 \in DOMAIN b : \A i1, i2 \in 1..k :
       (/\ j1 < j2 /\ FirstAt(list, passed, i1) /\ FirstAt(list, passed, i2)
        /\ b[j1].id = list[i1].id /\ b[j2].id = list[i2].id) => i1 < i2

\* One more is pushed.
LEMMA PushKeepsFirsts ==
  ASSUME NEW list, NEW passed, list \in Seq(ToSet(list)), NEW k \in 1..Len(list), NEW b,
         Firsts(b, list, passed, k - 1), list[k] \notin passed
  PROVE  Firsts(Push(b, list[k]), list, passed, k)
<1> DEFINE e == list[k]
           more == Push(b, e)
<1>0. /\ DOMAIN list = 1..Len(list) /\ Len(list) \in Nat /\ k \in Nat /\ k - 1 \in Nat
      /\ k \in 1..k /\ \A i \in 1..k : i = k \/ i \in 1..(k - 1)
      /\ \A i \in 1..(k - 1) : i \in 1..k /\ i < k /\ i \in Nat
      /\ DOMAIN b = 1..Len(b) /\ Len(b) \in Nat
  BY DEF Firsts
<1>1. CASE e.id \in IdSet(b)
  <2>1. more = b
    BY <1>1 DEF Push
  <2>2. PICK j \in DOMAIN b : b[j].id = e.id
    BY <1>1 DEF IdSet, Ids, ToSet
  <2>3. PICK i \in 1..(k - 1) : FirstAt(list, passed, i) /\ b[j] = list[i]
    BY DEF Firsts
  <2>4. ~FirstAt(list, passed, k)
    BY <2>2, <2>3 DEF FirstAt
  <2> HIDE DEF more, e
  <2>5. Firsts(b, list, passed, k)
    BY <1>0, <2>2, <2>4 DEF Firsts, e
  <2> QED
    BY <2>1, <2>5 DEF more, e
<1>2. CASE e.id \notin IdSet(b)
  <2>1. more = Append(b, e)
    BY <1>2 DEF Push
  <2>2. \A j \in DOMAIN b : b[j].id # e.id
    BY <1>2 DEF IdSet, Ids, ToSet
  <2>3. e \in ToSet(list)
    BY <1>0 DEF ToSet
  <2>4. /\ more \in Seq(ToSet(list)) /\ DOMAIN more = 1..(Len(b) + 1)
        /\ \A j \in DOMAIN b : more[j] = b[j]
        /\ more[Len(b) + 1] = e
    BY <2>1, <2>3 DEF Firsts
  <2>5. \A i \in 1..(k - 1) : list[i] \notin passed => list[i].id # e.id
    BY <2>2 DEF Firsts
  <2>6. FirstAt(list, passed, k)
    BY <1>0, <2>5 DEF FirstAt
  <2>7. /\ Len(b) + 1 \in DOMAIN more /\ Len(b) + 1 \notin DOMAIN b
        /\ \A j \in DOMAIN more : j = Len(b) + 1 \/ j \in DOMAIN b
        /\ \A j \in DOMAIN b : j \in DOMAIN more
    BY <1>0, <2>4
  <2> HIDE DEF more
  <2>8. \A j \in DOMAIN more : \E i \in 1..k : FirstAt(list, passed, i) /\ more[j] = list[i]
    <3>1. TAKE j \in DOMAIN more
    <3>2. CASE j = Len(b) + 1
      BY <1>0, <2>4, <2>6, <3>2
    <3>3. CASE j \in DOMAIN b
      BY <1>0, <2>4, <3>3 DEF Firsts
    <3> QED
      BY <2>7, <3>2, <3>3
  <2>9. \A i \in 1..k : list[i] \notin passed => \E j \in DOMAIN more : more[j].id = list[i].id
    <3>1. TAKE i \in 1..k
    <3>2. CASE i = k
      BY <2>4, <2>7, <3>2
    <3>3. CASE i \in 1..(k - 1)
      BY <2>4, <2>7, <3>3 DEF Firsts
    <3> QED
      BY <1>0, <3>2, <3>3
  <2>10. ASSUME NEW j1 \in DOMAIN more, NEW j2 \in DOMAIN more, NEW i1 \in 1..k, NEW i2 \in 1..k,
                j1 < j2, FirstAt(list, passed, i1), FirstAt(list, passed, i2),
                more[j1].id = list[i1].id, more[j2].id = list[i2].id
         PROVE  i1 < i2
    <3>1. list[i1] \notin passed /\ list[i2] \notin passed
      BY <2>10 DEF FirstAt
    <3>2. j1 \in DOMAIN b /\ more[j1] = b[j1]
      BY <1>0, <2>4, <2>7, <2>10
    <3>3. i1 \in 1..(k - 1)
      BY <1>0, <2>2, <2>10, <3>2
    <3>4. CASE j2 = Len(b) + 1
      <4>1. i2 = k
        BY <1>0, <2>4, <2>5, <2>10, <3>1, <3>4
      <4> QED
        BY <1>0, <3>3, <4>1
    <3>5. CASE j2 \in DOMAIN b
      <4>1. i2 \in 1..(k - 1)
        BY <1>0, <2>2, <2>4, <2>10, <3>5
      <4> QED
        BY <2>4, <2>10, <3>2, <3>3, <3>5, <4>1 DEF Firsts
    <3> QED
      BY <2>7, <3>4, <3>5
  <2> QED
    BY <2>4, <2>8, <2>9, <2>10 DEF Firsts, more
<1> QED
  BY <1>1, <1>2

\* What is pushed of a list: the first with each id, in their order.
LEMMA PushedFacts ==
  ASSUME NEW list, NEW passed, list \in Seq(ToSet(list))
  PROVE  Firsts(PushAll(list, passed), list, passed, Len(list))
<1>1. Len(list) \in Nat
  OBVIOUS
<1>2. PICK g : /\ PushAll(list, passed) = g[Len(list)] /\ g[0] = <<>>
               /\ \A k \in 1..Len(list) :
                    g[k] = IF list[k] \in passed THEN g[k - 1] ELSE Push(g[k - 1], list[k])
  BY <1>1, PushedUpTo
<1> DEFINE S == {k \in 0..Len(list) : Firsts(g[k], list, passed, k)}
<1>3. 0 \in S
  <2>1. g[0] \in Seq(ToSet(list)) /\ DOMAIN g[0] = {} /\ 1..0 = {}
    BY <1>2
  <2>2. Firsts(g[0], list, passed, 0)
    BY <2>1 DEF Firsts
  <2> QED
    BY <1>1, <2>2
<1>4. ASSUME NEW k \in 1..Len(list), k - 1 \in S PROVE k \in S
  <2>1. CASE list[k] \in passed
    <3>1. g[k] = g[k - 1] /\ Firsts(g[k - 1], list, passed, k - 1)
      BY <1>2, <1>4, <2>1
    <3>2. /\ ~FirstAt(list, passed, k) /\ \A i \in 1..k : i = k \/ i \in 1..(k - 1)
          /\ \A i \in 1..(k - 1) : i \in 1..k
      BY <1>1, <2>1 DEF FirstAt
    <3>3. Firsts(g[k], list, passed, k)
      BY <2>1, <3>1, <3>2 DEF Firsts
    <3> QED
      BY <1>1, <3>3
  <2>2. CASE list[k] \notin passed
    <3>1. g[k] = Push(g[k - 1], list[k]) /\ Firsts(g[k - 1], list, passed, k - 1)
      BY <1>2, <1>4, <2>2
    <3>2. Firsts(g[k], list, passed, k)
      BY <2>2, <3>1, PushKeepsFirsts
    <3> QED
      BY <1>1, <3>2
  <2> QED
    BY <2>1, <2>2
<1>5. \A k \in 0..Len(list) : k \in S
  <2> HIDE DEF S
  <2>1. \A k \in 1..Len(list) : k - 1 \in S => k \in S
    BY <1>4
  <2> QED
    BY <1>1, <1>3, <2>1, CountUp
<1> QED
  BY <1>1, <1>2, <1>5

LEMMA OfItsItems ==
  ASSUME NEW S, NEW t \in Seq(S)
  PROVE  IsList(t)
<1>1. Len(t) \in Nat /\ DOMAIN t = 1..Len(t)
  OBVIOUS
<1>2. t = [i \in 1..Len(t) |-> t[i]]
  BY SeqDef
<1>3. t \in [1..Len(t) -> ToSet(t)]
  BY <1>1, <1>2 DEF ToSet
<1> QED
  BY <1>1, <1>3, SeqDef DEF IsList

LEMMA ListIs ==
  ASSUME NEW s, IsList(s)
  PROVE  DOMAIN s = 1..Len(s) /\ Len(s) \in Nat /\ \A i \in DOMAIN s : s[i] \in ToSet(s)
BY DEF IsList, ToSet

\* Three lists after each other.
IsJoined(s, a, b, d) ==
  /\ IsList(s) /\ Len(s) = Len(a) + Len(b) + Len(d)
  /\ \A k \in 1..Len(a) : s[k] = a[k]
  /\ \A k \in 1..Len(b) : s[Len(a) + k] = b[k]
  /\ \A k \in 1..Len(d) : s[Len(a) + Len(b) + k] = d[k]
LEMMA Joined ==
  ASSUME NEW a, NEW b, NEW d, IsList(a), IsList(b), IsList(d),
         NEW s, s = a \o b \o d
  PROVE  IsJoined(s, a, b, d)
<1> DEFINE S == ToSet(a) \cup ToSet(b) \cup ToSet(d)
<1>1. a \in Seq(S) /\ b \in Seq(S) /\ d \in Seq(S)
  BY DEF IsList
<1>2. Len(a) \in Nat /\ Len(b) \in Nat /\ Len(d) \in Nat
  BY ListIs
<1> HIDE DEF S
<1>3. /\ a \o b \in Seq(S) /\ Len(a \o b) = Len(a) + Len(b)
      /\ \A k \in 1..Len(a) : (a \o b)[k] = a[k]
      /\ \A k \in 1..Len(b) : (a \o b)[Len(a) + k] = b[k]
  BY <1>1, <1>2, ConcatProperties
<1>4. PICK ab : ab = a \o b
  OBVIOUS
<1>5. /\ ab \o d \in Seq(S) /\ Len(ab \o d) = Len(ab) + Len(d)
      /\ \A k \in 1..Len(ab) : (ab \o d)[k] = ab[k]
      /\ \A k \in 1..Len(d) : (ab \o d)[Len(ab) + k] = d[k]
  BY <1>1, <1>2, <1>3, <1>4, ConcatProperties
<1>6. s = ab \o d
  BY <1>4
<1>7. IsList(s)
  BY <1>5, <1>6, OfItsItems
<1> QED
  BY <1>2, <1>3, <1>4, <1>5, <1>6, <1>7 DEF IsJoined

\* The number is the set's least.
LEMMA LeastIs ==
  ASSUME NEW S, S \subseteq Nat, NEW m \in S, \A n \in S : m <= n
  PROVE  Min(S) = m
<1>1. \A x \in S : (\A n \in S : x <= n) => x = m
  OBVIOUS
<1> QED
  BY <1>1 DEF Min

-----------------------------------------------------------------------------
(* The command line.                                                       *)

LEMMA FlagFacts ==
  ASSUME CatalogAssumption, NEW c \in Configurations
  PROVE  /\ c.session \in BOOLEAN /\ c.bind # None
         /\ IsList(c.cloud) /\ IsList(c.local)
         /\ IsList(c.video) /\ IsList(c.snap)
         /\ IsList(c.bind)
         /\ \A i \in DOMAIN c.local : c.local[i].id # None /\ c.local[i].code \in {None, "flag"}
         /\ \A i \in DOMAIN c.video :
              /\ c.video[i].id # None /\ c.video[i].code \in {None, "video"}
              /\ c.video[i].at # None
         /\ \A i \in DOMAIN c.snap : c.snap[i] # None
         /\ \A i \in DOMAIN c.bind : c.bind[i].code \in {None, "bind"}
         /\ None \notin {"flag", "video", "bind"}
         /\ DOMAIN c.cloud = 1..Len(c.cloud) /\ Len(c.cloud) \in Nat
         /\ DOMAIN c.local = 1..Len(c.local) /\ Len(c.local) \in Nat
         /\ DOMAIN c.video = 1..Len(c.video) /\ Len(c.video) \in Nat
         /\ DOMAIN c.snap = 1..Len(c.snap) /\ Len(c.snap) \in Nat
         /\ DOMAIN c.bind = 1..Len(c.bind) /\ Len(c.bind) \in Nat
<1>1. /\ IsList(c.cloud) /\ IsList(c.local) /\ IsList(c.video) /\ IsList(c.snap)
      /\ IsList(c.bind)
  BY DEF CatalogAssumption
<1> QED
  BY <1>1, ListIs DEF CatalogAssumption

\* Every code is known by where it comes from.
Codes == {None, "flag", "video", "bind"}
LEMMA BoundCodeIs ==
  ASSUME NEW list, DOMAIN list \subseteq Nat, NEW i \in DOMAIN list,
         \A j \in DOMAIN list : list[j].id = list[i].id => i <= j
  PROVE  BoundCode(list, list[i].id) = list[i].code
<1> DEFINE at == {j \in DOMAIN list : list[j].id = list[i].id}
<1>1. /\ at # {} /\ at \subseteq Nat /\ i \in at /\ \A j \in at : i <= j
      /\ \A j \in at : (\A n \in at : j <= n) => j = i
  OBVIOUS
<1>2. BoundCode(list, list[i].id) =
        IF at = {} THEN None ELSE list[CHOOSE j \in at : \A n \in at : j <= n].code
  BY DEF BoundCode
<1> HIDE DEF at
<1> QED
  BY <1>1, <1>2

LEMMA CodeFacts ==
  ASSUME CatalogAssumption, NEW c \in Configurations, NEW id
  PROVE  /\ VideoCode(c, id) \in {None, "video"} /\ BoundCode(c.bind, id) \in {None, "bind"}
         /\ VideoOf(c, id) = {} => VideoCode(c, id) = None
         /\ id \in LocalIds(c) => FlagOf(c, id) \in {None, "flag"}
         /\ ReferenceCode(c, id) \in Codes
<1>1. VideoCode(c, id) \in {None, "video"} /\ (VideoOf(c, id) = {} => VideoCode(c, id) = None)
  BY FlagFacts DEF VideoCode, VideoOf
<1>2. BoundCode(c.bind, id) \in {None, "bind"}
  <2>1. CASE \A i \in DOMAIN c.bind : c.bind[i].id # id
    BY <2>1 DEF BoundCode
  <2>2. CASE \E i \in DOMAIN c.bind : c.bind[i].id = id
    <3> DEFINE at == {i \in DOMAIN c.bind : c.bind[i].id = id}
    <3>1. DOMAIN c.bind \subseteq Nat
      BY FlagFacts
    <3>2. at \subseteq Nat /\ at # {} /\ at \subseteq DOMAIN c.bind /\ \A i \in at : c.bind[i].id = id
      BY <2>2, <3>1
    <3>3. PICK i \in at : \A j \in at : i <= j
      <4> HIDE DEF at
      <4> QED
        BY <3>2, LeastNat
    <3>4. BoundCode(c.bind, c.bind[i].id) = c.bind[i].code
      BY <3>1, <3>2, <3>3, BoundCodeIs
    <3> QED
      BY <3>2, <3>3, <3>4, FlagFacts
  <2> QED
    BY <2>1, <2>2
<1>3. ASSUME id \in LocalIds(c) PROVE FlagOf(c, id) \in {None, "flag"}
  <2>1. \E i \in DOMAIN c.local : c.local[i].id = id
    BY <1>3 DEF LocalIds, IdSet, Ids, ToSet
  <2> QED
    BY <2>1, FlagFacts DEF FlagOf
<1>4. CloudCode(c, id) \in {None, "bind"}
  BY <1>2 DEF CloudCode
<1>5. ReferenceCode(c, id) \in Codes
  BY <1>1, <1>3, <1>4 DEF ReferenceCode, Either, Codes
<1> QED
  BY <1>1, <1>2, <1>3, <1>5

-----------------------------------------------------------------------------
(* The registry that is built.                                             *)

LEMMA FunctionList ==
  ASSUME NEW n \in Nat, NEW f, f = [i \in 1..n |-> f[i]]
  PROVE  IsList(f) /\ Len(f) = n /\ DOMAIN f = 1..n
<1>1. DOMAIN f = 1..n
  OBVIOUS
<1>2. f \in [1..n -> ToSet(f)]
  BY <1>1 DEF ToSet
<1>3. IsList(f)
  BY <1>2, SeqDef DEF IsList
<1>4. DOMAIN f = 1..Len(f) /\ Len(f) \in Nat
  BY <1>3, ListIs
<1>5. Len(f) = n
  BY <1>1, <1>4
<1> QED
  BY <1>1, <1>3, <1>5

LEMMA IdsAre ==
  ASSUME NEW s, IsList(s)
  PROVE  /\ IsList(Ids(s)) /\ Len(Ids(s)) = Len(s) /\ DOMAIN Ids(s) = DOMAIN s
         /\ DOMAIN s = 1..Len(s) /\ Len(s) \in Nat
         /\ \A i \in DOMAIN s : Ids(s)[i] = s[i].id /\ s[i].id \in IdSet(s)
         /\ \A id \in IdSet(s) : \E i \in DOMAIN s : s[i].id = id
<1>1. Len(s) \in Nat /\ DOMAIN s = 1..Len(s)
  BY ListIs
<1>2. PICK f : f = Ids(s)
  OBVIOUS
<1>3. f = [i \in 1..Len(s) |-> f[i]] /\ \A i \in DOMAIN s : f[i] = s[i].id
  BY <1>1, <1>2 DEF Ids
<1>4. IsList(f) /\ Len(f) = Len(s) /\ DOMAIN f = 1..Len(s)
  BY <1>1, <1>3, FunctionList
<1> QED
  BY <1>1, <1>2, <1>3, <1>4 DEF IdSet, ToSet

\* The cloud's devices; the first with its id has the code the cloud tells.
ListedCode(c, id) == IF Enumerates(c) THEN BoundCode(c.bind, id) ELSE None
LEMMA CloudDevicesAre ==
  ASSUME CatalogAssumption, NEW c \in Configurations
  PROVE  /\ IsList(CloudDevices(c))
         /\ \A k \in DOMAIN CloudDevices(c) :
              /\ CloudDevices(c)[k].feed = "cloud" /\ CloudDevices(c)[k].video = None
              /\ (\A j \in DOMAIN CloudDevices(c) :
                    CloudDevices(c)[j].id = CloudDevices(c)[k].id => k <= j)
                 => CloudDevices(c)[k].code = ListedCode(c, CloudDevices(c)[k].id)
<1>1. CASE Enumerates(c)
  <2>1. DOMAIN c.bind = 1..Len(c.bind) /\ Len(c.bind) \in Nat
    BY FlagFacts
  <2>2. PICK f : f = CloudDevices(c)
    OBVIOUS
  <2>3. f = [i \in 1..Len(c.bind) |-> f[i]]
    BY <1>1, <2>1, <2>2 DEF CloudDevices
  <2>4. \A k \in DOMAIN c.bind :
          /\ f[k].feed = "cloud" /\ f[k].video = None /\ f[k].id = c.bind[k].id
          /\ f[k].code = c.bind[k].code
    BY <1>1, <2>2 DEF CloudDevices, Entry
  <2>5. IsList(f) /\ DOMAIN f = DOMAIN c.bind
    BY <2>1, <2>3, FunctionList
  <2>6. ASSUME NEW k \in DOMAIN f, \A j \in DOMAIN f : f[j].id = f[k].id => k <= j
        PROVE  f[k].code = ListedCode(c, f[k].id)
    <3>1. BoundCode(c.bind, c.bind[k].id) = c.bind[k].code
      BY <2>1, <2>4, <2>5, <2>6, BoundCodeIs
    <3> QED
      BY <1>1, <2>4, <2>5, <3>1 DEF ListedCode
  <2> QED
    BY <2>2, <2>4, <2>5, <2>6
<1>2. CASE ~Enumerates(c)
  <2>1. DOMAIN c.cloud = 1..Len(c.cloud) /\ Len(c.cloud) \in Nat
    BY FlagFacts
  <2>2. PICK f : f = CloudDevices(c)
    OBVIOUS
  <2>3. f = [i \in 1..Len(c.cloud) |-> f[i]]
    BY <1>2, <2>1, <2>2 DEF CloudDevices
  <2>4. \A k \in DOMAIN c.cloud : f[k].feed = "cloud" /\ f[k].video = None /\ f[k].code = None
    BY <1>2, <2>2 DEF CloudDevices, Entry
  <2>5. IsList(f) /\ DOMAIN f = DOMAIN c.cloud
    BY <2>1, <2>3, FunctionList
  <2> QED
    BY <1>2, <2>2, <2>4, <2>5 DEF ListedCode
<1> QED
  BY <1>1, <1>2

\* The local devices as they are resolved, and the Moonraker ones.
LocalDevices(c, local) ==
  /\ IsList(local) /\ Len(local) = Len(c.local)
  /\ \A i \in DOMAIN local :
       local[i] = Entry(c.local[i].id, "local", ReferenceCode(c, c.local[i].id))
MoonrakerDevices(c) == [i \in DOMAIN c.snap |-> Entry(c.snap[i], "moonraker", None)]

LEMMA LocalDevicesAre ==
  ASSUME CatalogAssumption, NEW c \in Configurations, NEW local, LocalDevices(c, local)
  PROVE  /\ DOMAIN local = DOMAIN c.local /\ IdSet(local) = LocalIds(c)
         /\ \A i \in DOMAIN local :
              /\ local[i].id = c.local[i].id /\ local[i].feed = "local" /\ local[i].video = None
              /\ local[i].code = ReferenceCode(c, local[i].id)
              /\ local[i].id \in LocalIds(c)
<1>1. DOMAIN local = DOMAIN c.local
  BY FlagFacts DEF LocalDevices
<1>2. \A i \in DOMAIN local :
        /\ local[i].id = c.local[i].id /\ local[i].feed = "local" /\ local[i].video = None
        /\ local[i].code = ReferenceCode(c, local[i].id)
  BY DEF LocalDevices, Entry
<1>3. IdSet(local) = LocalIds(c) /\ \A i \in DOMAIN local : local[i].id \in LocalIds(c)
  BY <1>1, <1>2 DEF LocalIds, IdSet, Ids, ToSet
<1> QED
  BY <1>1, <1>2, <1>3

LEMMA MoonrakerDevicesAre ==
  ASSUME CatalogAssumption, NEW c \in Configurations
  PROVE  /\ IsList(MoonrakerDevices(c))
         /\ Len(MoonrakerDevices(c)) = Len(c.snap)
         /\ \A i \in 1..Len(c.snap) :
              LET m == MoonrakerDevices(c)[i]
              IN  m.id = c.snap[i] /\ m.feed = "moonraker" /\ m.code = None /\ m.video = None
<1>1. DOMAIN c.snap = 1..Len(c.snap) /\ Len(c.snap) \in Nat
  BY FlagFacts
<1>2. PICK f : f = MoonrakerDevices(c)
  OBVIOUS
<1>3. f = [i \in 1..Len(c.snap) |-> f[i]]
  BY <1>1, <1>2 DEF MoonrakerDevices
<1>4. \A i \in 1..Len(c.snap) :
        f[i].id = c.snap[i] /\ f[i].feed = "moonraker" /\ f[i].code = None /\ f[i].video = None
  BY <1>1, <1>2 DEF MoonrakerDevices, Entry
<1> QED
  BY <1>1, <1>2, <1>3, <1>4, FunctionList

\* All the devices in the order in which they are pushed.
Listed(c, local) == CloudDevices(c) \o local \o MoonrakerDevices(c)
LEMMA ListedFacts ==
  ASSUME CatalogAssumption, NEW c \in Configurations, NEW local, LocalDevices(c, local)
  PROVE  LET list == Listed(c, local)
             D == DOMAIN CloudDevices(c)
         IN  /\ IsList(list) /\ DOMAIN list = DOMAIN ReferenceIds(c)
             /\ DOMAIN list \subseteq Nat
             /\ \A k \in DOMAIN list :
                  /\ list[k].id = ReferenceIds(c)[k] /\ list[k].video = None
                  /\ \/ k \in D /\ list[k].feed = "cloud"
                     \/ /\ list[k].feed = "local" /\ list[k].id \in LocalIds(c)
                        /\ list[k].code = ReferenceCode(c, list[k].id)
                     \/ /\ list[k].feed = "moonraker" /\ list[k].id \in ToSet(c.snap)
                        /\ list[k].code = None
             /\ \A k \in D : k \in DOMAIN list /\ list[k] = CloudDevices(c)[k]
             /\ \A id \in LocalIds(c) :
                  \E k \in DOMAIN list : list[k].id = id /\ list[k].feed = "local"
             /\ \A id \in ToSet(c.snap) :
                  \E k \in DOMAIN list : list[k].id = id /\ list[k].feed = "moonraker"
             /\ \A j, k \in DOMAIN list :
                  (list[j].feed # "moonraker" /\ list[k].feed = "moonraker") => j < k
<1>1. PICK cloud : cloud = CloudDevices(c)
  OBVIOUS
<1>2. PICK moon : moon = MoonrakerDevices(c)
  OBVIOUS
<1>3. PICK nD, nL, nM : nD = Len(cloud) /\ nL = Len(local) /\ nM = Len(moon)
  OBVIOUS
<1>4. /\ IsList(cloud) /\ IsList(local) /\ IsList(moon)
      /\ IsList(c.snap) /\ IsList(c.local)
      /\ nL = Len(c.local) /\ nM = Len(c.snap)
  BY <1>1, <1>2, <1>3, CloudDevicesAre, MoonrakerDevicesAre, FlagFacts DEF LocalDevices
<1>5. /\ nD \in Nat /\ nL \in Nat /\ nM \in Nat
      /\ DOMAIN cloud = 1..nD /\ DOMAIN local = 1..nL /\ DOMAIN moon = 1..nM
      /\ DOMAIN c.local = 1..nL /\ DOMAIN c.snap = 1..nM
  BY <1>3, <1>4, ListIs
<1>6. PICK list : list = cloud \o local \o moon
  OBVIOUS
<1>7. /\ IsList(list) /\ Len(list) = nD + nL + nM
      /\ \A k \in 1..nD : list[k] = cloud[k]
      /\ \A k \in 1..nL : list[nD + k] = local[k]
      /\ \A k \in 1..nM : list[nD + nL + k] = moon[k]
  <2>1. IsJoined(list, cloud, local, moon)
    BY <1>4, <1>6, Joined
  <2> QED
    BY <1>3, <2>1 DEF IsJoined
<1>8. PICK ids : ids = ReferenceIds(c)
  OBVIOUS
<1>9. /\ IsList(Ids(cloud)) /\ Len(Ids(cloud)) = nD
      /\ \A k \in 1..nD : Ids(cloud)[k] = cloud[k].id
      /\ IsList(Ids(c.local)) /\ Len(Ids(c.local)) = nL
      /\ \A k \in 1..nL : Ids(c.local)[k] = c.local[k].id
  BY <1>3, <1>4, <1>5, IdsAre
<1>10. /\ IsList(ids) /\ Len(ids) = nD + nL + nM
       /\ \A k \in 1..nD : ids[k] = cloud[k].id
       /\ \A k \in 1..nL : ids[nD + k] = c.local[k].id
       /\ \A k \in 1..nM : ids[nD + nL + k] = c.snap[k]
  <2>1. PICK x, y, z : x = Ids(cloud) /\ y = Ids(c.local) /\ z = c.snap
    OBVIOUS
  <2>2. ids = x \o y \o z
    BY <1>1, <1>8, <2>1 DEF ReferenceIds
  <2>3. /\ IsList(x) /\ IsList(y) /\ IsList(z)
        /\ Len(x) = nD /\ Len(y) = nL /\ Len(z) = nM
    BY <1>3, <1>4, <1>9, <2>1
  <2>4. /\ IsList(ids) /\ Len(ids) = nD + nL + nM
        /\ \A k \in 1..nD : ids[k] = x[k]
        /\ \A k \in 1..nL : ids[nD + k] = y[k]
        /\ \A k \in 1..nM : ids[nD + nL + k] = z[k]
    <3>1. IsJoined(ids, x, y, z)
      BY <2>2, <2>3, Joined
    <3> QED
      BY <2>3, <3>1 DEF IsJoined
  <2> QED
    BY <1>9, <2>1, <2>4
<1>11. /\ DOMAIN list = 1..(nD + nL + nM) /\ DOMAIN ids = 1..(nD + nL + nM)
       /\ \A k \in 1..(nD + nL + nM) :
            \/ k \in 1..nD
            \/ k - nD \in 1..nL /\ k = nD + (k - nD) /\ k <= nD + nL
            \/ k - nD - nL \in 1..nM /\ k = nD + nL + (k - nD - nL) /\ k > nD + nL
  BY <1>5, <1>7, <1>10
<1>12. \A k \in 1..nD :
         /\ k \in DOMAIN list /\ list[k] = cloud[k] /\ list[k].feed = "cloud"
         /\ list[k].id = ids[k] /\ list[k].video = None
  BY <1>1, <1>5, <1>7, <1>10, <1>11, CloudDevicesAre
<1>13. \A k \in 1..nL :
         /\ nD + k \in DOMAIN list /\ list[nD + k].feed = "local"
         /\ list[nD + k].id = ids[nD + k] /\ list[nD + k].id = c.local[k].id
         /\ list[nD + k].id \in LocalIds(c) /\ list[nD + k].video = None
         /\ list[nD + k].code = ReferenceCode(c, list[nD + k].id)
  <2>1. TAKE k \in 1..nL
  <2>2. nD + k \in DOMAIN list
    BY <1>5, <1>11
  <2>3. list[nD + k] = local[k] /\ ids[nD + k] = c.local[k].id
    BY <1>7, <1>10
  <2> QED
    BY <1>5, <2>2, <2>3, LocalDevicesAre
<1>14. \A k \in 1..nM :
         /\ nD + nL + k \in DOMAIN list /\ list[nD + nL + k].feed = "moonraker"
         /\ list[nD + nL + k].id = ids[nD + nL + k] /\ list[nD + nL + k].id = c.snap[k]
         /\ list[nD + nL + k].id \in ToSet(c.snap) /\ list[nD + nL + k].video = None
         /\ list[nD + nL + k].code = None
  <2>1. TAKE k \in 1..nM
  <2>2. nD + nL + k \in DOMAIN list
    BY <1>5, <1>11
  <2>3. list[nD + nL + k] = moon[k] /\ ids[nD + nL + k] = c.snap[k]
    BY <1>7, <1>10
  <2>4. /\ moon[k].id = c.snap[k] /\ moon[k].feed = "moonraker"
        /\ moon[k].code = None /\ moon[k].video = None
    BY <1>2, <1>4, MoonrakerDevicesAre
  <2>5. c.snap[k] \in ToSet(c.snap)
    BY <1>5 DEF ToSet
  <2> QED
    BY <2>2, <2>3, <2>4, <2>5
<1>15. ASSUME NEW k \in DOMAIN list
       PROVE  /\ list[k].id = ids[k] /\ list[k].video = None
              /\ \/ k \in 1..nD /\ list[k].feed = "cloud"
                 \/ /\ list[k].feed = "local" /\ list[k].id \in LocalIds(c)
                    /\ list[k].code = ReferenceCode(c, list[k].id)
                 \/ /\ list[k].feed = "moonraker" /\ list[k].id \in ToSet(c.snap)
                    /\ list[k].code = None
              /\ list[k].feed = "moonraker" <=> k > nD + nL
  <2>1. CASE k \in 1..nD
    BY <1>5, <1>12, <2>1
  <2>2. CASE k - nD \in 1..nL /\ k = nD + (k - nD) /\ k <= nD + nL
    <3>1. PICK n \in 1..nL : k = nD + n
      BY <2>2
    <3>2. k \in Nat /\ ~(k > nD + nL)
      BY <1>5, <2>2, <3>1
    <3> QED
      BY <1>13, <3>1, <3>2
  <2>3. CASE k - nD - nL \in 1..nM /\ k = nD + nL + (k - nD - nL) /\ k > nD + nL
    <3>1. PICK n \in 1..nM : k = nD + nL + n
      BY <2>3
    <3> QED
      BY <1>14, <2>3, <3>1
  <2> QED
    BY <1>11, <2>1, <2>2, <2>3
<1>16. /\ \A id \in LocalIds(c) : \E k \in DOMAIN list : list[k].id = id /\ list[k].feed = "local"
       /\ \A id \in ToSet(c.snap) :
            \E k \in DOMAIN list : list[k].id = id /\ list[k].feed = "moonraker"
  <2>1. \A id \in LocalIds(c) : \E k \in 1..nL : c.local[k].id = id
    BY <1>5 DEF LocalIds, IdSet, Ids, ToSet
  <2>2. \A id \in ToSet(c.snap) : \E k \in 1..nM : c.snap[k] = id
    BY <1>5 DEF ToSet
  <2> QED
    BY <1>13, <1>14, <2>1, <2>2
<1>17. \A j, k \in DOMAIN list :
         (list[j].feed # "moonraker" /\ list[k].feed = "moonraker") => j < k
  BY <1>5, <1>11, <1>15
<1>18. list = Listed(c, local) /\ DOMAIN list \subseteq Nat
  BY <1>1, <1>2, <1>6, <1>11 DEF Listed
<1> QED
  BY <1>1, <1>5, <1>7, <1>8, <1>11, <1>12, <1>15, <1>16, <1>17, <1>18

\* What the registry is as long as no camera was attached: each device has the code that it
\* came with.
InitialCode(c, id) ==
  IF id \in LocalIds(c) THEN ReferenceCode(c, id)
  ELSE IF id \in CloudIds(c) THEN ListedCode(c, id)
  ELSE None
IsRegistry(c, list) ==
  /\ IsList(list) /\ IsInjective(Ids(list)) /\ IdSet(list) = Devices(c)
  /\ \A i, j \in DOMAIN list : i < j => Rank(c, list[i].id) < Rank(c, list[j].id)
  /\ \A j \in DOMAIN list : list[j].feed = ReferenceFeed(c, list[j].id)
IsFresh(c, list) ==
  \A j \in DOMAIN list : list[j].code = InitialCode(c, list[j].id) /\ list[j].video = None

\* Those passed over are the cloud devices without an id or with a local device's.
PassedOver(c) == {e \in ToSet(CloudDevices(c)) : e.id \in LocalIds(c) \cup {None}}
LEMMA PassedOverAre ==
  ASSUME CatalogAssumption, NEW c \in Configurations, NEW local, LocalDevices(c, local),
         NEW list, list = Listed(c, local), NEW k \in DOMAIN list
  PROVE  /\ list[k].feed = "cloud" <=> k \in DOMAIN CloudDevices(c)
         /\ list[k] \in PassedOver(c) <=> /\ list[k].feed = "cloud"
                                          /\ list[k].id \in LocalIds(c) \cup {None}
         /\ list[k] \notin PassedOver(c) => list[k].id # None
<1>1. list[k].feed = "cloud" <=> k \in DOMAIN CloudDevices(c)
  BY ListedFacts, CloudDevicesAre
<1>2. \A e \in ToSet(CloudDevices(c)) : e.feed = "cloud"
  BY CloudDevicesAre DEF ToSet
<1>3. k \in DOMAIN CloudDevices(c) => list[k] \in ToSet(CloudDevices(c))
  BY ListedFacts DEF ToSet
<1>4. list[k] \in PassedOver(c) <=> /\ list[k].feed = "cloud"
                                    /\ list[k].id \in LocalIds(c) \cup {None}
  BY <1>1, <1>2, <1>3 DEF PassedOver
<1>5. None \notin LocalIds(c) /\ None \notin ToSet(c.snap)
  BY FlagFacts DEF LocalIds, IdSet, Ids, ToSet
<1>6. \/ list[k].feed = "cloud" \/ list[k].id \in LocalIds(c) \/ list[k].id \in ToSet(c.snap)
  BY ListedFacts
<1> QED
  BY <1>1, <1>4, <1>5, <1>6

LEMMA FirstFacts ==
  ASSUME CatalogAssumption, NEW c \in Configurations, NEW local, LocalDevices(c, local),
         NEW list, list = Listed(c, local), NEW i, FirstAt(list, PassedOver(c), i)
  PROVE  /\ Rank(c, list[i].id) = i
         /\ list[i].id \in Devices(c)
         /\ list[i].feed = ReferenceFeed(c, list[i].id)
         /\ list[i].code = InitialCode(c, list[i].id) /\ list[i].video = None
<1> DEFINE id == list[i].id
<1>1. /\ i \in DOMAIN list /\ list[i] \notin PassedOver(c) /\ DOMAIN list \subseteq Nat
      /\ DOMAIN list = 1..Len(list) /\ DOMAIN list = DOMAIN ReferenceIds(c)
      /\ id # None
  BY ListedFacts, ListIs, PassedOverAre DEF FirstAt, IsList
<1>2. \A k \in DOMAIN list : k < i /\ list[k].id = id => list[k] \in PassedOver(c)
  BY <1>1 DEF FirstAt
<1>3. \A k \in DOMAIN list :
        list[k].id = id /\ (k \in DOMAIN CloudDevices(c) => id \notin LocalIds(c)) => i <= k
  BY <1>1, <1>2, PassedOverAre
<1>4. i \in DOMAIN CloudDevices(c) => id \notin LocalIds(c)
  BY <1>1, PassedOverAre
<1>5. Rank(c, id) = i
  <2> DEFINE S == {k \in DOMAIN ReferenceIds(c) :
                     /\ ReferenceIds(c)[k] = id
                     /\ k \in DOMAIN CloudDevices(c) => id \notin LocalIds(c)}
  <2>1. \A k \in DOMAIN list : list[k].id = ReferenceIds(c)[k]
    BY ListedFacts
  <2>2. S \subseteq Nat /\ i \in S /\ \A n \in S : i <= n
    BY <1>1, <1>3, <1>4, <2>1
  <2>3. Rank(c, id) = Min(S)
    BY DEF Rank
  <2> HIDE DEF S
  <2> QED
    BY <2>2, <2>3, LeastIs
<1>6. \A k \in DOMAIN CloudDevices(c) : CloudDevices(c)[k].id \in IdSet(CloudDevices(c))
  BY CloudDevicesAre, IdsAre
<1>7. list[i].video = None
  BY <1>1, ListedFacts
<1>8. CASE i \in DOMAIN CloudDevices(c)
  <2>1. list[i] = CloudDevices(c)[i] /\ list[i].feed = "cloud"
    BY <1>8, ListedFacts, CloudDevicesAre
  <2>2. id \in CloudIds(c)
    BY <1>1, <1>6, <1>8, <2>1 DEF CloudIds
  <2>3. \A j \in DOMAIN CloudDevices(c) : CloudDevices(c)[j].id = CloudDevices(c)[i].id => i <= j
    <3>1. \A j \in DOMAIN CloudDevices(c) : j \in DOMAIN list /\ list[j] = CloudDevices(c)[j]
      BY ListedFacts
    <3> QED
      BY <1>3, <1>4, <1>8, <2>1, <3>1
  <2>4. list[i].code = ListedCode(c, id)
    BY <1>8, <2>1, <2>3, CloudDevicesAre
  <2> QED
    BY <1>4, <1>5, <1>7, <1>8, <2>1, <2>2, <2>4 DEF Devices, ReferenceFeed, InitialCode
<1>9. CASE list[i].feed = "local"
  <2>1. id \in LocalIds(c) /\ list[i].code = ReferenceCode(c, id)
    BY <1>1, <1>9, ListedFacts
  <2> QED
    BY <1>5, <1>7, <1>9, <2>1 DEF Devices, ReferenceFeed, InitialCode
<1>10. CASE list[i].feed = "moonraker"
  <2>1. id \in ToSet(c.snap) /\ list[i].code = None
    BY <1>1, <1>10, ListedFacts
  <2>2. id \notin LocalIds(c)
    <3>1. SUFFICES ASSUME id \in LocalIds(c) PROVE FALSE
      OBVIOUS
    <3>2. PICK k \in DOMAIN list : list[k].id = id /\ list[k].feed = "local"
      BY <3>1, ListedFacts
    <3>3. k < i
      BY <1>1, <1>10, <3>2, ListedFacts
    <3> QED
      BY <1>2, <3>2, <3>3, PassedOverAre
  <2>3. id \notin CloudIds(c)
    <3>1. SUFFICES ASSUME id \in CloudIds(c) PROVE FALSE
      OBVIOUS
    <3>2. PICK k \in DOMAIN CloudDevices(c) : CloudDevices(c)[k].id = id
      BY <3>1, CloudDevicesAre, IdsAre DEF CloudIds
    <3>3. k \in DOMAIN list /\ list[k] = CloudDevices(c)[k] /\ list[k].feed = "cloud"
      BY <3>2, ListedFacts, CloudDevicesAre
    <3>4. k < i
      BY <1>1, <1>10, <3>3, ListedFacts
    <3> QED
      BY <1>1, <1>2, <2>2, <3>2, <3>3, <3>4, PassedOverAre
  <2> QED
    BY <1>5, <1>7, <1>10, <2>1, <2>2, <2>3 DEF Devices, ReferenceFeed, InitialCode
<1> QED
  BY <1>1, <1>8, <1>9, <1>10, ListedFacts

\* DeviceRegistryBuilder::new makes the registry of the command line's devices.
LEMMA BuiltFacts ==
  ASSUME CatalogAssumption, NEW c \in Configurations, NEW local, LocalDevices(c, local), NEW b,
         b = Built(CloudDevices(c), local, MoonrakerDevices(c))
  PROVE  IsRegistry(c, b) /\ IsFresh(c, b)
<1>1. PICK list : list = Listed(c, local)
  OBVIOUS
<1>2. PICK passed : passed = PassedOver(c)
  OBVIOUS
<1>3. b = PushAll(list, passed)
  BY <1>1, <1>2, LocalDevicesAre DEF Built, PassedOver, Listed
<1>4. IsList(list) /\ DOMAIN list = 1..Len(list)
  BY <1>1, ListedFacts, ListIs
<1>5. Firsts(b, list, passed, Len(list))
  BY <1>3, <1>4, PushedFacts DEF IsList
<1>6. \A j \in DOMAIN b : \E i \in DOMAIN list : FirstAt(list, passed, i) /\ b[j] = list[i]
  BY <1>4, <1>5 DEF Firsts
<1>7. \A i \in DOMAIN list : FirstAt(list, passed, i) =>
        /\ Rank(c, list[i].id) = i /\ list[i].id \in Devices(c)
        /\ list[i].feed = ReferenceFeed(c, list[i].id)
        /\ list[i].code = InitialCode(c, list[i].id) /\ list[i].video = None
  BY <1>1, <1>2, FirstFacts
<1>8. IsFresh(c, b) /\ \A j \in DOMAIN b : b[j].feed = ReferenceFeed(c, b[j].id)
  BY <1>6, <1>7 DEF IsFresh
<1>9. IsList(b) /\ DOMAIN b = 1..Len(b) /\ Len(b) \in Nat
  <2>1. IsList(b)
    BY <1>5, OfItsItems DEF Firsts
  <2> QED
    BY <2>1, ListIs
<1>10. ASSUME NEW j1 \in DOMAIN b, NEW j2 \in DOMAIN b, j1 < j2
       PROVE  Rank(c, b[j1].id) < Rank(c, b[j2].id) /\ b[j1].id # b[j2].id
  <2>1. PICK i1 \in DOMAIN list : FirstAt(list, passed, i1) /\ b[j1] = list[i1]
    BY <1>6
  <2>2. PICK i2 \in DOMAIN list : FirstAt(list, passed, i2) /\ b[j2] = list[i2]
    BY <1>6
  <2>3. i1 < i2
    BY <1>4, <1>5, <1>10, <2>1, <2>2 DEF Firsts
  <2>4. b[j1].id # b[j2].id
    <3>1. b[j1].id = b[j2].id => i1 = i2
      BY <1>7, <2>1, <2>2
    <3> QED
      BY <1>4, <2>3, <3>1
  <2> QED
    BY <1>7, <2>1, <2>2, <2>3, <2>4
<1>11. IsInjective(Ids(b))
  <2>1. \A j1, j2 \in DOMAIN b : j1 # j2 => j1 < j2 \/ j2 < j1
    BY <1>9
  <2>2. \A j1, j2 \in DOMAIN b : b[j1].id = b[j2].id => j1 = j2
    BY <1>10, <2>1
  <2>3. DOMAIN Ids(b) = DOMAIN b /\ \A j \in DOMAIN b : Ids(b)[j] = b[j].id
    BY DEF Ids
  <2> QED
    BY <2>2, <2>3 DEF IsInjective
<1>12. IdSet(b) = Devices(c)
  <2>1. ASSUME NEW id \in IdSet(b) PROVE id \in Devices(c)
    <3>1. PICK j \in DOMAIN b : b[j].id = id
      BY <1>9, IdsAre
    <3> QED
      BY <1>6, <1>7, <3>1
  <2>2. ASSUME NEW id \in Devices(c) PROVE id \in IdSet(b)
    <3>1. ASSUME NEW k \in DOMAIN list, list[k].id = id, list[k] \notin passed
          PROVE  id \in IdSet(b)
      <4>1. PICK j \in DOMAIN b : b[j].id = id
        BY <1>4, <1>5, <3>1 DEF Firsts
      <4> QED
        BY <1>9, <4>1, IdsAre
    <3>2. CASE id \in LocalIds(c)
      <4>1. PICK k \in DOMAIN list : list[k].id = id /\ list[k].feed = "local"
        BY <1>1, <3>2, ListedFacts
      <4> QED
        BY <1>1, <1>2, <3>1, <4>1, PassedOverAre
    <3>3. CASE id \in ToSet(c.snap)
      <4>1. PICK k \in DOMAIN list : list[k].id = id /\ list[k].feed = "moonraker"
        BY <1>1, <3>3, ListedFacts
      <4> QED
        BY <1>1, <1>2, <3>1, <4>1, PassedOverAre
    <3>4. CASE id \in CloudIds(c) /\ id \notin LocalIds(c)
      <4>1. PICK k \in DOMAIN CloudDevices(c) : CloudDevices(c)[k].id = id
        BY <3>4, CloudDevicesAre, IdsAre DEF CloudIds
      <4>2. k \in DOMAIN list /\ list[k].id = id
        BY <1>1, <4>1, ListedFacts
      <4>3. id # None
        BY <3>4 DEF CloudIds
      <4> QED
        BY <1>1, <1>2, <3>1, <3>4, <4>2, <4>3, PassedOverAre
    <3> QED
      BY <2>2, <3>2, <3>3, <3>4 DEF Devices
  <2> QED
    BY <2>1, <2>2
<1> QED
  BY <1>8, <1>9, <1>10, <1>11, <1>12 DEF IsRegistry

-----------------------------------------------------------------------------
(* The invariant: what each step of the startup leaves behind.             *)

\* What a local device's code is when its turn comes.
OwnCode(c, i) ==
  Either(c.local[i].code, Either(VideoCode(c, c.local[i].id), CloudCode(c, c.local[i].id)))

\* The answers so far are the answers of the flags they are for.
FoundInv ==
  /\ place \in {"cloud flags", "catalog", "attach"} => found = <<>>
  /\ place \in {"video", "local", "snap"} =>
       \A i \in DOMAIN found : i \in DOMAIN Probed /\ found[i] = Probed[i]
  /\ place = "access" =>
       DOMAIN found = DOMAIN config.local /\ \A i \in DOMAIN found : found[i] = config.local[i].id

\* The cloud was asked when the catalog is there, and in vain when the startup failed of it.
AskedInv ==
  /\ \/ catalog = None /\ asked = 0
     \/ catalog = config.bind /\ asked = 1 /\ config.session
     \/ place = "failed" /\ asked \in {0, 1}
  /\ place \in {"cloud flags", "video", "catalog"} => catalog = None

\* What was checked of the command line.
CheckedInv ==
  /\ place \notin {"cloud flags", "failed"} => IsInjective(config.cloud)
  /\ place \notin {"cloud flags", "video", "failed"} => IsInjective(Ids(config.video))
  /\ place \in {"snap", "attach", "auto", "feeds", "done"} =>
       /\ IsInjective(Ids(config.local))
       /\ \A id \in LocalIds(config) : ReferenceCode(config, id) # None
  /\ place \in {"attach", "auto", "feeds", "done"} => IsInjective(config.snap)
  /\ place \in {"auto", "feeds", "done"} => Devices(config) # {}
  /\ place = "done" => (CloudIds(config) \ LocalIds(config) # {} => config.session)

\* The local devices so far, and all of them.
LocalsInv ==
  /\ place = "access" =>
       /\ IsList(entries) /\ Len(entries) <= Len(config.local)
       /\ \A i \in DOMAIN entries :
            /\ entries[i] = Entry(config.local[i].id, "local", OwnCode(config, i))
            /\ OwnCode(config, i) # None
       /\ \A i, j \in DOMAIN entries : config.local[i].id = config.local[j].id => i = j
  /\ place = "snap" => LocalDevices(config, entries)
  /\ place \in {"cloud flags", "video", "catalog", "local"} => entries = <<>>

\* The registry: a device with a camera has its best code, which the cloud was asked for
\* where it could matter; one without has the code it came with.
CodesInv(list, c) ==
  \A j \in DOMAIN list :
    IF list[j].video = None THEN list[j].code = InitialCode(c, list[j].id)
    ELSE /\ list[j].code = ReferenceCode(c, list[j].id)
         /\ list[j].id \in LocalIds(c) \cup CloudIds(c)
         /\ list[j].code = None => c.session
RegistryInv ==
  /\ place \in {"attach", "auto", "feeds", "done"} =>
       IsRegistry(config, entries) /\ CodesInv(entries, config)
  /\ place \in {"auto", "feeds", "done"} => Attached = DOMAIN config.video

FailedInv == place = "failed" => outage \/ ~Usable(config)

CatalogInv ==
  TypeOK /\ FoundInv /\ AskedInv /\ CheckedInv /\ LocalsInv /\ RegistryInv /\ FailedInv

\* With a camera, and the cloud asked where no other code is known.
LEMMA CodeWithCamera ==
  ASSUME CatalogAssumption, NEW c \in Configurations, NEW id \in LocalIds(c) \cup CloudIds(c),
         VideoOf(c, id) # {}, id \in LocalIds(c) => ReferenceCode(c, id) # None,
         InitialCode(c, id) = None /\ VideoCode(c, id) = None => c.session
  PROVE  WithCode(c, id, InitialCode(c, id)) = ReferenceCode(c, id)
<1>1. CASE id \in LocalIds(c)
  BY <1>1 DEF WithCode, Either, InitialCode
<1>2. CASE id \notin LocalIds(c) /\ Enumerates(c)
  <2>1. c.session /\ id \in CloudIds(c)
    BY <1>2 DEF Enumerates
  <2> QED
    BY <1>2, <2>1 DEF WithCode, Either, InitialCode, ListedCode, ReferenceCode, CloudCode
<1>3. CASE id \notin LocalIds(c) /\ ~Enumerates(c)
  BY <1>3 DEF WithCode, Either, InitialCode, ListedCode, ReferenceCode, CloudCode
<1> QED
  BY <1>1, <1>2, <1>3

LEMMA CodeWithoutCamera ==
  ASSUME CatalogAssumption, NEW c \in Configurations, NEW id, VideoOf(c, id) = {}
  PROVE  InitialCode(c, id) = ReferenceCode(c, id)
<1>1. VideoCode(c, id) = None
  BY CodeFacts
<1>2. Enumerates(c) => c.session
  BY DEF Enumerates
<1> QED
  BY <1>1, <1>2 DEF Either, InitialCode, ListedCode, ReferenceCode, CloudCode

\* A local device whose flag is the only one for it.
LEMMA OwnCodeIs ==
  ASSUME CatalogAssumption, NEW c \in Configurations, IsInjective(Ids(c.local)),
         NEW i \in DOMAIN c.local
  PROVE  /\ c.local[i].id \in LocalIds(c)
         /\ ReferenceCode(c, c.local[i].id) = OwnCode(c, i)
<1>1. c.local[i].id \in LocalIds(c)
  BY DEF LocalIds, IdSet, Ids, ToSet
<1>2. \A j \in DOMAIN c.local : c.local[j].id = c.local[i].id => j = i
  BY DEF IsInjective, Ids
<1>3. FlagOf(c, c.local[i].id) = c.local[i].code
  BY <1>2 DEF FlagOf
<1> QED
  BY <1>1, <1>3 DEF ReferenceCode, OwnCode

-----------------------------------------------------------------------------
(* The steps.                                                              *)

LEMMA CatalogInit ==
  ASSUME CatalogAssumption, Init
  PROVE  CatalogInv
<1>1. DOMAIN <<>> = {}
  OBVIOUS
<1>2. TypeOK
  BY <1>1 DEF Init, TypeOK, Places
<1> QED
  BY <1>2 DEF Init, CatalogInv, FoundInv, AskedInv, CheckedInv, LocalsInv, RegistryInv, FailedInv

\* A startup that fails for its configuration.
LEMMA Failed ==
  ASSUME CatalogAssumption, CatalogInv, config' = config, place' = "failed",
         UNCHANGED <<found, entries>>, outage' \in BOOLEAN,
         catalog' \in {None, config.bind}, asked' \in {0, 1}, outage' \/ ~Usable(config)
  PROVE  CatalogInv'
<1>1. TypeOK'
  BY DEF CatalogInv, TypeOK, Places
<1>2. FoundInv' /\ AskedInv' /\ CheckedInv' /\ LocalsInv' /\ RegistryInv' /\ FailedInv'
  BY DEF FoundInv, AskedInv, CheckedInv, LocalsInv, RegistryInv, FailedInv
<1> QED
  BY <1>1, <1>2 DEF CatalogInv

LEMMA AskedFacts ==
  ASSUME CatalogInv
  PROVE  /\ asked \in {0, 1} /\ catalog \in {None, config.bind} /\ outage \in BOOLEAN
         /\ config \in Configurations
BY DEF CatalogInv, AskedInv, TypeOK

\* The cloud is asked in vain.
LEMMA CloudFailsStep ==
  ASSUME CatalogAssumption, CatalogInv, CloudFails, catalog = None, place # "failed",
         config.session \/ ~Usable(config)
  PROVE  CatalogInv'
<1>1. asked = 0 /\ config.session \in BOOLEAN
  BY AskedFacts, FlagFacts DEF CatalogInv, AskedInv
<1>2. /\ config' = config /\ place' = "failed" /\ UNCHANGED <<found, entries, catalog>>
      /\ outage' \in BOOLEAN /\ asked' \in {0, 1} /\ (outage' \/ ~Usable(config))
  BY <1>1, AskedFacts DEF CloudFails
<1> QED
  BY <1>2, AskedFacts, Failed

LEMMA NoneFound ==
  DOMAIN <<>> = {}
OBVIOUS

LEMMA CheckCloudFlagsStep ==
  ASSUME CatalogAssumption, CatalogInv, CheckCloudFlags
  PROVE  CatalogInv'
<1>1. CASE IsInjective(config.cloud)
  <2>1. /\ place = "cloud flags" /\ place' = "video" /\ outage' = outage
        /\ UNCHANGED <<config, found, asked, catalog, entries, endpoints>>
    BY <1>1 DEF CheckCloudFlags
  <2>2. TypeOK'
    BY <2>1 DEF CatalogInv, TypeOK, Places
  <2>3. found = <<>>
    BY <2>1 DEF CatalogInv, FoundInv
  <2>4. FoundInv' /\ AskedInv'
    BY <2>1, <2>3, NoneFound DEF CatalogInv, FoundInv, AskedInv
  <2>5. CheckedInv' /\ LocalsInv' /\ RegistryInv' /\ FailedInv'
    BY <1>1, <2>1 DEF CatalogInv, CheckedInv, LocalsInv, RegistryInv, FailedInv
  <2> QED
    BY <2>2, <2>4, <2>5 DEF CatalogInv
<1>2. CASE ~IsInjective(config.cloud)
  BY <1>2, AskedFacts, Failed DEF CheckCloudFlags, Fail, Usable
<1> QED
  BY <1>1, <1>2

\* What is probed has a device behind it, and stays what it is while the probes answer.
LEMMA ProbedFacts ==
  ASSUME CatalogAssumption, CatalogInv, NEW i \in DOMAIN Probed
  PROVE  Probed[i] # None
<1>1. config \in Configurations
  BY DEF CatalogInv, TypeOK
<1>2. CASE place = "video"
  BY <1>1, <1>2, FlagFacts DEF Probed, Ids
<1>3. CASE place = "local"
  BY <1>1, <1>3, FlagFacts DEF Probed, Ids
<1>4. CASE place = "snap"
  BY <1>1, <1>4, FlagFacts DEF Probed
<1>5. CASE place = "auto"
  <2>1. /\ i \in DOMAIN entries /\ entries[i].feed = "local" /\ Probed[i] = entries[i].id
    BY <1>5 DEF Probed, LocalEntries
  <2>2. IsRegistry(config, entries)
    BY <1>5 DEF CatalogInv, RegistryInv
  <2>3. ReferenceFeed(config, entries[i].id) = "local"
    BY <2>1, <2>2 DEF IsRegistry
  <2>4. entries[i].id \in LocalIds(config)
    BY <2>3 DEF ReferenceFeed
  <2>5. None \notin LocalIds(config)
    BY <1>1, FlagFacts DEF LocalIds, IdSet, Ids, ToSet
  <2> QED
    BY <2>1, <2>4, <2>5
<1>6. CASE place \notin {"video", "local", "snap", "auto"}
  <2>1. DOMAIN Probed = {}
    BY <1>6 DEF Probed
  <2> QED
    BY <2>1
<1> QED
  BY <1>2, <1>3, <1>4, <1>5, <1>6

LEMMA Answered ==
  ASSUME CatalogAssumption, CatalogInv, NEW i \in DOMAIN Probed, NEW answer, answer # None,
         place # "auto" => answer = Probed[i],
         found' = [j \in DOMAIN found \cup {i} |-> IF j = i THEN answer ELSE found[j]],
         UNCHANGED <<config, place, catalog, asked, entries>>, outage' \in BOOLEAN
  PROVE  CatalogInv'
<1>1. place \in {"video", "local", "snap", "auto"}
  BY DEF Probed
<1>2. Probed' = Probed
  BY DEF Probed, LocalEntries
<1>3. TypeOK'
  BY DEF CatalogInv, TypeOK
<1>4. FoundInv'
  BY <1>1, <1>2 DEF CatalogInv, FoundInv
<1>5. Attached' = Attached
  BY DEF Attached
<1>6. AskedInv' /\ CheckedInv' /\ LocalsInv' /\ RegistryInv' /\ FailedInv'
  BY <1>1, <1>5 DEF CatalogInv, AskedInv, CheckedInv, LocalsInv, RegistryInv, FailedInv
<1> QED
  BY <1>3, <1>4, <1>6 DEF CatalogInv

LEMMA ProbeAnswersStep ==
  ASSUME CatalogAssumption, CatalogInv, ProbeAnswers
  PROVE  CatalogInv'
<1>1. PICK i \in Running :
        found' = [j \in DOMAIN found \cup {i} |-> IF j = i THEN Probed[i] ELSE found[j]]
  BY DEF ProbeAnswers
<1>2. i \in DOMAIN Probed
  BY DEF Running, Unanswered
<1>3. PICK answer : answer = Probed[i]
  OBVIOUS
<1>4. found' = [j \in DOMAIN found \cup {i} |-> IF j = i THEN answer ELSE found[j]]
  BY <1>1, <1>3
<1> QED
  BY <1>2, <1>3, <1>4, ProbedFacts, Answered, AskedFacts DEF ProbeAnswers

LEMMA ProbeFailsStep ==
  ASSUME CatalogAssumption, CatalogInv, ProbeFails
  PROVE  CatalogInv'
<1>1. PICK i \in Running :
        IF place = "auto"
          THEN /\ found' = [j \in DOMAIN found \cup {i} |->
                              IF j = i THEN "nothing" ELSE found[j]]
               /\ UNCHANGED <<config, place, catalog, asked, entries, endpoints>>
          ELSE Fail
  BY DEF ProbeFails
<1>2. i \in DOMAIN Probed /\ outage' = TRUE
  BY DEF Running, Unanswered, ProbeFails
<1>3. CASE place = "auto"
  BY <1>1, <1>2, <1>3, Answered DEF CatalogAssumption
<1>4. CASE place # "auto"
  BY <1>1, <1>2, <1>4, AskedFacts, Failed DEF Fail
<1> QED
  BY <1>3, <1>4

LEMMA AllAnsweredFacts ==
  ASSUME CatalogAssumption, CatalogInv, NEW step \in {"video", "local", "snap"}, AllAnswered(step)
  PROVE  /\ place = step /\ DOMAIN found = DOMAIN Probed
         /\ \A i \in DOMAIN Probed : found[i] = Probed[i]
         /\ IsInjective(found) <=> IsInjective(Probed)
<1>1. place = step /\ \A i \in DOMAIN Probed : i \in DOMAIN found
  BY DEF AllAnswered, Unanswered
<1>2. \A i \in DOMAIN found : i \in DOMAIN Probed /\ found[i] = Probed[i]
  BY <1>1 DEF CatalogInv, FoundInv
<1>3. DOMAIN found = DOMAIN Probed
  BY <1>1, <1>2
<1> QED
  BY <1>1, <1>2, <1>3 DEF IsInjective

LEMMA VideosResolvedStep ==
  ASSUME CatalogAssumption, CatalogInv, VideosResolved
  PROVE  CatalogInv'
<1>1. place = "video" /\ outage' = outage /\ (IsInjective(found) <=> IsInjective(Ids(config.video)))
  BY AllAnsweredFacts DEF VideosResolved, Probed
<1>2. CASE IsInjective(found)
  <2>1. /\ place' = "catalog" /\ found' = <<>>
        /\ UNCHANGED <<config, asked, catalog, entries, endpoints>>
    BY <1>2 DEF VideosResolved
  <2>2. TypeOK'
    BY <1>1, <2>1, NoneFound DEF CatalogInv, TypeOK, Places
  <2>3. FoundInv' /\ AskedInv'
    BY <1>1, <2>1 DEF CatalogInv, FoundInv, AskedInv
  <2>4. CheckedInv' /\ LocalsInv' /\ RegistryInv' /\ FailedInv'
    BY <1>1, <1>2, <2>1 DEF CatalogInv, CheckedInv, LocalsInv, RegistryInv, FailedInv
  <2> QED
    BY <2>2, <2>3, <2>4 DEF CatalogInv
<1>3. CASE ~IsInjective(found)
  BY <1>1, <1>3, AskedFacts, Failed DEF VideosResolved, Fail, Usable
<1> QED
  BY <1>2, <1>3

LEMMA ListCloudDevicesStep ==
  ASSUME CatalogAssumption, CatalogInv, ListCloudDevices
  PROVE  CatalogInv'
<1>1. /\ place = "catalog" /\ catalog = None /\ asked = 0 /\ found = <<>> /\ entries = <<>>
      /\ config \in Configurations
  <2>1. place = "catalog" /\ catalog = None
    BY DEF ListCloudDevices, CatalogInv, AskedInv
  <2> QED
    BY <2>1, AskedFacts, FlagFacts DEF CatalogInv, AskedInv, FoundInv, LocalsInv
<1>2. CASE Enumerates(config) /\ CloudFails
  <2>1. config.session
    BY <1>2 DEF Enumerates
  <2> QED
    BY <1>1, <1>2, <2>1, CloudFailsStep
<1>3. CASE /\ IF Enumerates(config) THEN AskCloud ELSE UNCHANGED <<catalog, asked, outage>>
           /\ place' = "local"
           /\ UNCHANGED <<config, found, entries, endpoints>>
  <2>1. /\ outage' = outage
        /\ \/ catalog' = None /\ asked' = 0
           \/ catalog' = config.bind /\ asked' = 1 /\ config.session
    BY <1>1, <1>3 DEF AskCloud
  <2>2. TypeOK'
    BY <1>1, <1>3, <2>1 DEF CatalogInv, TypeOK, Places
  <2>3. FoundInv' /\ AskedInv'
    BY <1>1, <1>3, <2>1, NoneFound DEF CatalogInv, FoundInv, AskedInv
  <2>4. CheckedInv' /\ LocalsInv' /\ RegistryInv' /\ FailedInv'
    BY <1>1, <1>3, <2>1 DEF CatalogInv, CheckedInv, LocalsInv, RegistryInv, FailedInv
  <2> QED
    BY <2>2, <2>3, <2>4 DEF CatalogInv
<1> QED
  BY <1>2, <1>3 DEF ListCloudDevices

LEMMA LocalsInferredStep ==
  ASSUME CatalogAssumption, CatalogInv, LocalsInferred
  PROVE  CatalogInv'
<1>1. /\ place = "local" /\ DOMAIN found = DOMAIN config.local
      /\ \A i \in DOMAIN found : found[i] = config.local[i].id
  BY AllAnsweredFacts DEF LocalsInferred, Probed, Ids
<1>2. /\ place' = "access" /\ UNCHANGED <<config, found, catalog, asked, entries, endpoints, outage>>
  BY DEF LocalsInferred
<1>3. entries = <<>> /\ config \in Configurations
  BY <1>1 DEF CatalogInv, LocalsInv, TypeOK
<1>4. TypeOK'
  BY <1>2 DEF CatalogInv, TypeOK, Places
<1>5. FoundInv' /\ AskedInv'
  BY <1>1, <1>2 DEF CatalogInv, FoundInv, AskedInv
<1>6. IsList(<<>>) /\ Len(<<>>) = 0 /\ Len(config.local) \in Nat
  BY <1>3, FlagFacts DEF IsList
<1>7. LocalsInv'
  BY <1>2, <1>3, <1>6, NoneFound DEF LocalsInv
<1>8. CheckedInv' /\ RegistryInv' /\ FailedInv'
  BY <1>1, <1>2 DEF CatalogInv, CheckedInv, RegistryInv, FailedInv
<1> QED
  BY <1>4, <1>5, <1>7, <1>8 DEF CatalogInv

\* load_device_from_cloud goes on: a device without a code was asked for.
LEMMA LoadDeviceFacts ==
  ASSUME CatalogAssumption, CatalogInv, place # "failed", NEW id, NEW code, LoadDevice(id, code)
  PROVE  /\ outage' = outage
         /\ \/ catalog' = None /\ asked' = 0
            \/ catalog' = config.bind /\ asked' = 1 /\ config.session
         /\ code = None /\ VideoCode(config, id) = None => config.session
<1>1. \/ catalog = None /\ asked = 0
      \/ catalog = config.bind /\ asked = 1 /\ config.session
  BY DEF CatalogInv, AskedInv
<1>2. CASE NeedsCloud(id, code)
  <2>1. catalog = None /\ asked = 0
    BY <1>1, <1>2, AskedFacts, FlagFacts DEF NeedsCloud
  <2> QED
    BY <1>2, <2>1 DEF LoadDevice, AskCloud
<1>3. CASE ~NeedsCloud(id, code)
  BY <1>1, <1>3 DEF LoadDevice, NeedsCloud
<1> QED
  BY <1>2, <1>3

\* The code that a local device is given, and when it is none.
LEMMA GivenCode ==
  ASSUME CatalogAssumption, NEW c \in Configurations, NEW i \in DOMAIN c.local
  PROVE  LET id == c.local[i].id
             code == WithCode(c, id, c.local[i].code)
         IN  /\ OwnCode(c, i) \in Codes
             /\ (c.local[i].code = None /\ VideoCode(c, id) = None => c.session)
                => code = OwnCode(c, i)
             /\ code = None => OwnCode(c, i) = None
             /\ c.local[i].code = None /\ VideoCode(c, id) = None /\ ~c.session
                => OwnCode(c, i) = None
             /\ OwnCode(c, i) = None => ~Usable(c)
<1>1. /\ c.local[i].code \in {None, "flag"} /\ VideoCode(c, c.local[i].id) \in {None, "video"}
      /\ BoundCode(c.bind, c.local[i].id) \in {None, "bind"} /\ c.session \in BOOLEAN
  BY FlagFacts, CodeFacts
<1>2. OwnCode(c, i) \in Codes
  BY <1>1 DEF OwnCode, Either, CloudCode, Codes
<1>3. OwnCode(c, i) = None => ~Usable(c)
  BY OwnCodeIs DEF Usable
<1> QED
  BY <1>1, <1>2, <1>3 DEF OwnCode, WithCode, Either, CloudCode

LEMMA ResolveLocalStep ==
  ASSUME CatalogAssumption, CatalogInv, ResolveLocal
  PROVE  CatalogInv'
<1>1. /\ place = "access" /\ Len(entries) < Len(config.local)
      /\ config \in Configurations /\ asked \in {0, 1}
      /\ catalog \in {None, config.bind} /\ outage \in BOOLEAN
  BY AskedFacts DEF ResolveLocal
<1>2. /\ IsList(entries) /\ DOMAIN entries = 1..Len(entries) /\ Len(entries) \in Nat
      /\ DOMAIN config.local = 1..Len(config.local) /\ Len(config.local) \in Nat
      /\ \A j \in DOMAIN entries :
           /\ entries[j] = Entry(config.local[j].id, "local", OwnCode(config, j))
           /\ OwnCode(config, j) # None
      /\ \A j, k \in DOMAIN entries : config.local[j].id = config.local[k].id => j = k
  <2>1. IsList(entries)
    BY <1>1 DEF CatalogInv, LocalsInv
  <2> QED
    BY <1>1, <2>1, ListIs, FlagFacts DEF CatalogInv, LocalsInv
<1>3. PICK i, id, flag : i = Len(entries) + 1 /\ id = found[i] /\ flag = config.local[i].code
  OBVIOUS
<1>4. /\ i \in DOMAIN config.local /\ i \notin DOMAIN entries
      /\ \A j \in DOMAIN entries : j \in DOMAIN config.local /\ j < i
  BY <1>1, <1>2, <1>3
<1>5. id = config.local[i].id
  BY <1>1, <1>3, <1>4 DEF CatalogInv, FoundInv
<1>6. PICK code : code = WithCode(config, id, flag)
  OBVIOUS
<1>7. \A j \in DOMAIN entries : entries[j].id = config.local[j].id
  BY <1>2 DEF Entry
<1>8. CASE id \in IdSet(entries) /\ Fail /\ UNCHANGED outage
  <2>1. PICK j \in DOMAIN entries : entries[j].id = id
    BY <1>2, <1>8, IdsAre
  <2>2. config.local[j].id = config.local[i].id /\ j # i
    BY <1>4, <1>5, <1>7, <2>1
  <2>3. ~IsInjective(Ids(config.local))
    BY <1>4, <2>2 DEF IsInjective, Ids
  <2> QED
    BY <1>1, <1>8, <2>3, Failed DEF Fail, Usable
<1>9. CASE /\ id \notin IdSet(entries)
           /\ LoadDevice(id, flag)
           /\ IF code = None
                THEN place' = "failed" /\ UNCHANGED entries
                ELSE /\ entries' = Append(entries, Entry(id, "local", code))
                     /\ UNCHANGED place
           /\ UNCHANGED <<config, found, endpoints>>
  <2>1. /\ outage' = outage
        /\ \/ catalog' = None /\ asked' = 0
           \/ catalog' = config.bind /\ asked' = 1 /\ config.session
        /\ code = OwnCode(config, i)
    BY <1>1, <1>3, <1>4, <1>5, <1>6, <1>9, LoadDeviceFacts, GivenCode
  <2>2. CASE code = None
    <3>1. ~Usable(config)
      BY <1>1, <1>4, <2>1, <2>2, GivenCode
    <3> QED
      BY <1>1, <1>9, <2>1, <2>2, <3>1, Failed
  <2>3. CASE code # None
    <3>1. PICK e : e = Entry(id, "local", OwnCode(config, i))
      OBVIOUS
    <3>2. entries' = Append(entries, e) /\ place' = place /\ UNCHANGED <<config, found, endpoints>>
      BY <1>9, <2>1, <2>3, <3>1
    <3>3. /\ Len(entries') = Len(entries) + 1 /\ DOMAIN entries' = 1..(Len(entries) + 1)
          /\ \A j \in DOMAIN entries : entries'[j] = entries[j]
          /\ entries'[Len(entries) + 1] = e
          /\ IsList(entries')
      <4> DEFINE S == ToSet(entries) \cup {e}
      <4>1. entries \in Seq(S) /\ e \in S
        BY <1>2 DEF IsList
      <4> HIDE DEF S
      <4>2. /\ Append(entries, e) \in Seq(S) /\ Len(Append(entries, e)) = Len(entries) + 1
            /\ \A j \in 1..Len(entries) : Append(entries, e)[j] = entries[j]
            /\ Append(entries, e)[Len(entries) + 1] = e
        BY <1>2, <4>1, AppendProperties
      <4>3. IsList(entries')
        BY <3>2, <4>2, OfItsItems
      <4> QED
        BY <1>2, <3>2, <4>2, <4>3, ListIs
    <3>4. \A j \in DOMAIN entries' : j = i \/ j \in DOMAIN entries
      BY <1>2, <1>3, <3>3
    <3>5. \A j \in DOMAIN entries : config.local[j].id # config.local[i].id
      <4>1. \A j \in DOMAIN entries : entries[j].id \in IdSet(entries)
        BY <1>2, IdsAre
      <4> QED
        BY <1>5, <1>7, <1>9, <4>1
    <3>6. \A j \in DOMAIN entries' :
            /\ entries'[j] = Entry(config.local[j].id, "local", OwnCode(config, j))
            /\ OwnCode(config, j) # None /\ OwnCode(config, j) \in Codes
      <4>1. \A j \in DOMAIN entries : OwnCode(config, j) \in Codes
        BY <1>1, <1>4, GivenCode
      <4>2. OwnCode(config, i) \in Codes /\ OwnCode(config, i) # None
        BY <1>1, <1>4, <2>1, <2>3, GivenCode
      <4> QED
        BY <1>2, <1>3, <1>5, <3>1, <3>3, <3>4, <4>1, <4>2
    <3>7. TypeOK'
      <4>1. \A j \in DOMAIN entries' : entries'[j].feed = "local" /\ entries'[j].code \in Codes
        BY <3>6 DEF Entry
      <4> QED
        BY <1>1, <2>1, <3>2, <4>1 DEF CatalogInv, TypeOK, Codes
    <3>8. LocalsInv'
      BY <1>1, <1>2, <3>2, <3>3, <3>4, <3>5, <3>6 DEF LocalsInv
    <3>9. FoundInv' /\ AskedInv'
      BY <1>1, <2>1, <3>2 DEF CatalogInv, FoundInv, AskedInv
    <3>10. CheckedInv' /\ RegistryInv' /\ FailedInv'
      BY <1>1, <2>1, <3>2 DEF CatalogInv, CheckedInv, RegistryInv, FailedInv
    <3> QED
      BY <3>7, <3>8, <3>9, <3>10 DEF CatalogInv
  <2> QED
    BY <2>2, <2>3
<1>10. CASE NeedsCloud(id, flag) /\ CloudFails
  <2>1. catalog = None /\ flag = None /\ VideoCode(config, id) = None
    BY <1>10 DEF NeedsCloud
  <2>2. config.session \/ ~Usable(config)
    BY <1>1, <1>3, <1>4, <1>5, <2>1, GivenCode
  <2> QED
    BY <1>1, <1>10, <2>1, <2>2, CloudFailsStep
<1> QED
  BY <1>3, <1>6, <1>8, <1>9, <1>10 DEF ResolveLocal

LEMMA LocalsResolvedStep ==
  ASSUME CatalogAssumption, CatalogInv, LocalsResolved
  PROVE  CatalogInv'
<1>1. /\ place = "access" /\ Len(entries) = Len(config.local)
      /\ place' = "snap" /\ found' = <<>>
      /\ UNCHANGED <<config, catalog, asked, entries, endpoints, outage>>
  BY DEF LocalsResolved
<1>2. config \in Configurations
  BY AskedFacts
<1>3. /\ IsList(entries) /\ DOMAIN entries = DOMAIN config.local
      /\ \A j \in DOMAIN entries :
           /\ entries[j] = Entry(config.local[j].id, "local", OwnCode(config, j))
           /\ OwnCode(config, j) # None
      /\ \A j, k \in DOMAIN entries : config.local[j].id = config.local[k].id => j = k
  <2>1. IsList(entries)
    BY <1>1 DEF CatalogInv, LocalsInv
  <2> QED
    BY <1>1, <1>2, <2>1, ListIs, FlagFacts DEF CatalogInv, LocalsInv
<1>4. IsInjective(Ids(config.local))
  BY <1>3 DEF IsInjective, Ids
<1>5. \A j \in DOMAIN config.local : ReferenceCode(config, config.local[j].id) = OwnCode(config, j)
  BY <1>2, <1>4, OwnCodeIs
<1>6. LocalDevices(config, entries)
  BY <1>1, <1>3, <1>5 DEF LocalDevices
<1>7. \A id \in LocalIds(config) : ReferenceCode(config, id) # None
  <2>1. \A id \in LocalIds(config) : \E j \in DOMAIN config.local : config.local[j].id = id
    BY DEF LocalIds, IdSet, Ids, ToSet
  <2> QED
    BY <1>3, <1>5, <2>1
<1>8. TypeOK'
  BY <1>1, NoneFound DEF CatalogInv, TypeOK, Places
<1>9. FoundInv' /\ AskedInv'
  BY <1>1, NoneFound DEF CatalogInv, FoundInv, AskedInv
<1>10. CheckedInv' /\ LocalsInv' /\ RegistryInv' /\ FailedInv'
  BY <1>1, <1>4, <1>6, <1>7 DEF CatalogInv, CheckedInv, LocalsInv, RegistryInv, FailedInv
<1> QED
  BY <1>8, <1>9, <1>10 DEF CatalogInv

LEMMA BuildRegistryStep ==
  ASSUME CatalogAssumption, CatalogInv, BuildRegistry
  PROVE  CatalogInv'
<1>1. /\ place = "snap" /\ outage' = outage /\ config \in Configurations
      /\ DOMAIN found = DOMAIN config.snap /\ \A i \in DOMAIN config.snap : found[i] = config.snap[i]
      /\ IsInjective(found) <=> IsInjective(config.snap)
  BY AllAnsweredFacts, AskedFacts DEF BuildRegistry, Probed
<1>2. CASE IsInjective(found)
  <2>1. /\ entries' = Built(CloudDevices(config), entries,
                            [i \in DOMAIN config.snap |-> Entry(found[i], "moonraker", None)])
        /\ place' = "attach" /\ found' = <<>>
        /\ UNCHANGED <<config, catalog, asked, outage>>
    BY <1>1, <1>2 DEF BuildRegistry
  <2>2. [i \in DOMAIN config.snap |-> Entry(found[i], "moonraker", None)] = MoonrakerDevices(config)
    BY <1>1 DEF MoonrakerDevices
  <2>3. LocalDevices(config, entries)
    BY <1>1 DEF CatalogInv, LocalsInv
  <2>4. IsRegistry(config, entries') /\ IsFresh(config, entries')
    BY <1>1, <2>1, <2>2, <2>3, BuiltFacts
  <2>5. \A id : InitialCode(config, id) \in Codes
    BY <1>1, CodeFacts DEF InitialCode, ListedCode, Codes
  <2>6. TypeOK'
    <3>1. \A j \in DOMAIN entries' : entries'[j].feed \in {"cloud", "local", "moonraker"}
      BY <2>4 DEF IsRegistry, ReferenceFeed
    <3>2. \A j \in DOMAIN entries' : entries'[j].code \in Codes
      BY <2>4, <2>5 DEF IsFresh
    <3> QED
      BY <1>1, <2>1, <3>1, <3>2, NoneFound DEF CatalogInv, TypeOK, Places, Codes
  <2>7. CodesInv(entries', config)
    BY <2>4 DEF IsFresh, CodesInv
  <2>8. FoundInv' /\ AskedInv'
    BY <1>1, <2>1 DEF CatalogInv, FoundInv, AskedInv
  <2>9. CheckedInv' /\ LocalsInv' /\ RegistryInv' /\ FailedInv'
    BY <1>1, <1>2, <2>1, <2>4, <2>7
       DEF CatalogInv, CheckedInv, LocalsInv, RegistryInv, FailedInv
  <2> QED
    BY <2>6, <2>8, <2>9 DEF CatalogInv
<1>3. CASE ~IsInjective(found)
  BY <1>1, <1>3, AskedFacts, Failed DEF BuildRegistry, Fail, Usable
<1> QED
  BY <1>2, <1>3

LEMMA AttachVideoStep ==
  ASSUME CatalogAssumption, CatalogInv, AttachVideo
  PROVE  CatalogInv'
<1>1. /\ place = "attach" /\ config \in Configurations
      /\ asked \in {0, 1} /\ catalog \in {None, config.bind} /\ outage \in BOOLEAN
      /\ IsRegistry(config, entries) /\ CodesInv(entries, config)
      /\ TypeOK
  BY AskedFacts DEF AttachVideo, CatalogInv, RegistryInv
<1>2. /\ IsList(entries) /\ DOMAIN entries = 1..Len(entries) /\ Len(entries) \in Nat
      /\ IdSet(entries) = Devices(config) /\ IsInjective(Ids(entries))
      /\ \A j \in DOMAIN entries : entries[j].feed = ReferenceFeed(config, entries[j].id)
      /\ \A j, k \in DOMAIN entries : entries[j].id = entries[k].id => j = k
  <2>1. IsList(entries) /\ IsInjective(Ids(entries))
    BY <1>1 DEF IsRegistry
  <2>2. \A j, k \in DOMAIN entries : entries[j].id = entries[k].id => j = k
    BY <2>1 DEF IsInjective, Ids
  <2> QED
    BY <1>1, <2>1, <2>2, ListIs DEF IsRegistry
<1>3. PICK i \in DOMAIN config.video :
        /\ i \notin Attached
        /\ LET video == config.video[i]
               at == {j \in DOMAIN entries : entries[j].id = video.id /\ entries[j].feed # "moonraker"}
               own == entries[CHOOSE j \in at : TRUE].code
           IN \/ at = {} /\ Fail /\ UNCHANGED outage
              \/ /\ at # {} /\ LoadDevice(video.id, own)
                 /\ entries' = [j \in DOMAIN entries |->
                      IF j \in at
                        THEN WithCamera(entries[j], WithCode(config, video.id, own), video.at)
                        ELSE entries[j]]
                 /\ UNCHANGED <<config, place, found, endpoints>>
              \/ at # {} /\ NeedsCloud(video.id, own) /\ CloudFails
  BY DEF AttachVideo
<1>4. PICK id, at, own :
        /\ id = config.video[i].id
        /\ at = {j \in DOMAIN entries : entries[j].id = id /\ entries[j].feed # "moonraker"}
        /\ own = entries[CHOOSE j \in at : TRUE].code
  OBVIOUS
<1>5. /\ id \in IdSet(config.video) /\ i \in VideoOf(config, id)
      /\ config.video[i].at # None
  BY <1>1, <1>4, FlagFacts DEF IdSet, Ids, ToSet, VideoOf
<1>6. CASE at = {} /\ Fail /\ UNCHANGED outage
  <2>1. id \notin LocalIds(config) \cup CloudIds(config)
    <3>1. SUFFICES ASSUME id \in LocalIds(config) \cup CloudIds(config) PROVE FALSE
      OBVIOUS
    <3>2. PICK j \in DOMAIN entries : entries[j].id = id
      BY <1>2, <3>1, IdsAre DEF Devices
    <3>3. entries[j].feed # "moonraker"
      BY <1>2, <3>1, <3>2 DEF ReferenceFeed
    <3> QED
      BY <1>4, <1>6, <3>2, <3>3
  <2>2. ~Usable(config)
    BY <1>5, <2>1 DEF Usable
  <2> QED
    BY <1>1, <1>6, <2>2, Failed DEF Fail
<1>7. ASSUME at # {}
      PROVE  \E j \in DOMAIN entries :
               /\ at = {j} /\ entries[j].id = id /\ entries[j].video = None
               /\ own = InitialCode(config, id) /\ id \in LocalIds(config) \cup CloudIds(config)
  <2>1. PICK j \in DOMAIN entries : j \in at
    BY <1>4, <1>7
  <2>2. at = {j} /\ entries[j].id = id /\ entries[j].feed # "moonraker"
    BY <1>2, <1>4, <2>1
  <2>3. own = entries[j].code
    BY <1>4, <2>2
  <2>4. entries[j].video = None
    BY <1>3, <1>4, <2>2 DEF Attached
  <2>5. entries[j].code = InitialCode(config, id)
    BY <1>1, <2>2, <2>4 DEF CodesInv
  <2>6. id \in LocalIds(config) \cup CloudIds(config)
    BY <1>2, <2>2 DEF ReferenceFeed
  <2> QED
    BY <2>2, <2>3, <2>4, <2>5, <2>6
<1>8. CASE /\ at # {} /\ LoadDevice(id, own)
           /\ entries' = [j \in DOMAIN entries |->
                IF j \in at
                  THEN WithCamera(entries[j], WithCode(config, id, own), config.video[i].at)
                  ELSE entries[j]]
           /\ UNCHANGED <<config, place, found, endpoints>>
  <2>1. PICK j \in DOMAIN entries :
          /\ at = {j} /\ entries[j].id = id /\ entries[j].video = None
          /\ own = InitialCode(config, id) /\ id \in LocalIds(config) \cup CloudIds(config)
    BY <1>7, <1>8
  <2>2. /\ outage' = outage
        /\ \/ catalog' = None /\ asked' = 0
           \/ catalog' = config.bind /\ asked' = 1 /\ config.session
        /\ own = None /\ VideoCode(config, id) = None => config.session
    BY <1>1, <1>8, LoadDeviceFacts
  <2>3. WithCode(config, id, own) = ReferenceCode(config, id)
    <3>1. id \in LocalIds(config) => ReferenceCode(config, id) # None
      BY <1>1 DEF CatalogInv, CheckedInv
    <3> QED
      BY <1>1, <1>5, <2>1, <2>2, <3>1, CodeWithCamera
  <2>4. ReferenceCode(config, id) = None => config.session
    BY <2>2, <2>3 DEF WithCode, Either
  <2>5. /\ DOMAIN entries' = DOMAIN entries
        /\ \A k \in DOMAIN entries :
             /\ entries'[k].id = entries[k].id /\ entries'[k].feed = entries[k].feed
             /\ k # j => entries'[k] = entries[k]
        /\ entries'[j].code = ReferenceCode(config, id) /\ entries'[j].video # None
    BY <1>5, <1>8, <2>1, <2>3 DEF WithCamera
  <2>6. IsList(entries')
    <3>1. PICK n, f : n = Len(entries) /\ f = entries'
      OBVIOUS
    <3>2. n \in Nat /\ f = [k \in 1..n |-> f[k]]
      BY <1>2, <1>8, <3>1
    <3>3. IsList(f)
      BY <3>2, FunctionList
    <3> QED
      BY <3>1, <3>3
  <2>7. IsRegistry(config, entries')
    <3>1. Ids(entries') = Ids(entries)
      BY <2>5 DEF Ids
    <3>2. IsInjective(Ids(entries')) /\ IdSet(entries') = Devices(config)
      BY <1>1, <3>1 DEF IsRegistry, IdSet
    <3> QED
      BY <1>1, <2>5, <2>6, <3>2 DEF IsRegistry
  <2>8. CodesInv(entries', config)
    <3>1. SUFFICES ASSUME NEW k \in DOMAIN entries'
                   PROVE  IF entries'[k].video = None
                            THEN entries'[k].code = InitialCode(config, entries'[k].id)
                            ELSE /\ entries'[k].code = ReferenceCode(config, entries'[k].id)
                                 /\ entries'[k].id \in LocalIds(config) \cup CloudIds(config)
                                 /\ entries'[k].code = None => config.session
      BY DEF CodesInv
    <3>2. CASE k = j
      BY <2>1, <2>4, <2>5, <3>2
    <3>3. CASE k # j
      BY <1>1, <2>5, <3>3 DEF CodesInv
    <3> QED
      BY <3>2, <3>3
  <2>9. TypeOK'
    <3>1. ReferenceCode(config, id) \in Codes
      BY <1>1, CodeFacts
    <3>2. \A k \in DOMAIN entries' :
            /\ entries'[k].feed \in {"cloud", "local", "moonraker"}
            /\ entries'[k].code \in Codes
      BY <1>1, <2>5, <3>1 DEF TypeOK, Codes
    <3> QED
      BY <1>1, <1>8, <2>2, <3>2 DEF TypeOK, Codes
  <2>10. FoundInv' /\ AskedInv'
    BY <1>1, <1>8, <2>2 DEF CatalogInv, FoundInv, AskedInv
  <2>11. CheckedInv' /\ LocalsInv' /\ RegistryInv' /\ FailedInv'
    BY <1>1, <1>8, <2>2, <2>7, <2>8
       DEF CatalogInv, CheckedInv, LocalsInv, RegistryInv, FailedInv
  <2> QED
    BY <2>9, <2>10, <2>11 DEF CatalogInv
<1>9. CASE at # {} /\ NeedsCloud(id, own) /\ CloudFails
  <2>1. /\ own = InitialCode(config, id) /\ id \in LocalIds(config) \cup CloudIds(config)
        /\ own = None /\ VideoCode(config, id) = None /\ catalog = None
    BY <1>7, <1>9 DEF NeedsCloud
  <2>2. config.session \/ ~Usable(config)
    <3>1. SUFFICES ASSUME ~config.session, Usable(config) PROVE FALSE
      OBVIOUS
    <3>2. id \notin LocalIds(config)
      BY <2>1, <3>1 DEF InitialCode, Usable
    <3>3. ReferenceCode(config, id) = None
      BY <2>1, <3>1, <3>2 DEF ReferenceCode, Enumerates, Either, CloudCode
    <3> QED
      BY <1>5, <3>1, <3>3 DEF Usable
  <2> QED
    BY <1>1, <1>9, <2>1, <2>2, CloudFailsStep
<1> QED
  BY <1>3, <1>4, <1>6, <1>8, <1>9

LEMMA VideosAttachedStep ==
  ASSUME CatalogAssumption, CatalogInv, VideosAttached
  PROVE  CatalogInv'
<1>1. /\ place = "attach" /\ Attached = DOMAIN config.video
      /\ UNCHANGED <<config, found, catalog, asked, entries, endpoints, outage>>
      /\ place' = IF entries = <<>> THEN "failed" ELSE "auto"
  BY DEF VideosAttached
<1>2. IsRegistry(config, entries)
  BY <1>1 DEF CatalogInv, RegistryInv
<1>3. CASE entries = <<>>
  <2>1. IdSet(entries) = {}
    BY <1>3, NoneFound DEF IdSet, Ids, ToSet
  <2>2. ~Usable(config)
    BY <1>2, <2>1 DEF IsRegistry, Usable
  <2> QED
    BY <1>1, <1>3, <2>2, AskedFacts, Failed
<1>4. CASE entries # <<>>
  <2>1. Devices(config) # {}
    <3>1. IsList(entries) /\ IdSet(entries) = Devices(config)
      BY <1>2 DEF IsRegistry
    <3>2. Len(entries) \in Nat /\ Len(entries) # 0
      BY <1>4, <3>1 DEF IsList
    <3>3. 1 \in DOMAIN entries
      BY <3>1, <3>2, ListIs
    <3> QED
      BY <3>1, <3>3, IdsAre
  <2>2. Attached' = Attached
    BY <1>1 DEF Attached
  <2>3. TypeOK'
    BY <1>1, <1>4 DEF CatalogInv, TypeOK, Places
  <2>4. FoundInv' /\ AskedInv'
    BY <1>1, <1>4 DEF CatalogInv, FoundInv, AskedInv
  <2>5. CheckedInv' /\ LocalsInv' /\ RegistryInv' /\ FailedInv'
    BY <1>1, <1>4, <2>1, <2>2 DEF CatalogInv, CheckedInv, LocalsInv, RegistryInv, FailedInv
  <2> QED
    BY <2>3, <2>4, <2>5 DEF CatalogInv
<1> QED
  BY <1>3, <1>4

LEMMA ResolveVideoEndpointsStep ==
  ASSUME CatalogAssumption, CatalogInv, ResolveVideoEndpoints
  PROVE  CatalogInv'
<1>1. /\ place = "auto" /\ place' = "feeds"
      /\ UNCHANGED <<config, found, catalog, asked, entries, outage>>
  BY DEF ResolveVideoEndpoints, AllAnswered
<1>2. Attached' = Attached
  BY <1>1 DEF Attached
<1>3. TypeOK'
  BY <1>1 DEF CatalogInv, TypeOK, Places
<1>4. FoundInv' /\ AskedInv'
  BY <1>1 DEF CatalogInv, FoundInv, AskedInv
<1>5. CheckedInv' /\ LocalsInv' /\ RegistryInv' /\ FailedInv'
  BY <1>1, <1>2 DEF CatalogInv, CheckedInv, LocalsInv, RegistryInv, FailedInv
<1> QED
  BY <1>3, <1>4, <1>5 DEF CatalogInv

LEMMA SpawnFeedsStep ==
  ASSUME CatalogAssumption, CatalogInv, SpawnFeeds
  PROVE  CatalogInv'
<1>1. /\ place = "feeds"
      /\ place' = IF CloudMqttIds # {} /\ ~config.session THEN "failed" ELSE "done"
      /\ UNCHANGED <<config, found, catalog, asked, entries, endpoints, outage>>
      /\ IsRegistry(config, entries)
  BY DEF SpawnFeeds, CatalogInv, RegistryInv
<1>2. CloudMqttIds # {} <=> CloudIds(config) \ LocalIds(config) # {}
  <2>1. /\ IsList(entries) /\ IdSet(entries) = Devices(config)
        /\ \A j \in DOMAIN entries : entries[j].feed = ReferenceFeed(config, entries[j].id)
    BY <1>1 DEF IsRegistry
  <2>2. ASSUME NEW j \in DOMAIN entries, entries[j].feed = "cloud"
        PROVE  entries[j].id \in CloudIds(config) \ LocalIds(config)
    BY <2>1, <2>2 DEF ReferenceFeed
  <2>3. ASSUME NEW id \in CloudIds(config) \ LocalIds(config)
        PROVE  \E j \in DOMAIN entries : entries[j].feed = "cloud"
    <3>1. PICK j \in DOMAIN entries : entries[j].id = id
      BY <2>1, IdsAre DEF Devices
    <3> QED
      BY <2>1, <3>1 DEF ReferenceFeed
  <2>4. CloudMqttIds # {} <=> \E j \in DOMAIN entries : entries[j].feed = "cloud"
    BY DEF CloudMqttIds
  <2> QED
    BY <2>2, <2>3, <2>4
<1>3. CASE place' = "failed"
  <2>1. ~Usable(config)
    BY <1>1, <1>2, <1>3 DEF Usable
  <2> QED
    BY <1>1, <1>3, <2>1, AskedFacts, Failed
<1>4. CASE place' = "done"
  <2>1. Attached' = Attached
    BY <1>1 DEF Attached
  <2>2. TypeOK'
    BY <1>1, <1>4 DEF CatalogInv, TypeOK, Places
  <2>3. FoundInv' /\ AskedInv'
    BY <1>1, <1>4 DEF CatalogInv, FoundInv, AskedInv
  <2>4. CheckedInv' /\ LocalsInv' /\ RegistryInv' /\ FailedInv'
    BY <1>1, <1>2, <1>4, <2>1 DEF CatalogInv, CheckedInv, LocalsInv, RegistryInv, FailedInv
  <2> QED
    BY <2>2, <2>3, <2>4 DEF CatalogInv
<1> QED
  BY <1>1, <1>3, <1>4

LEMMA CatalogUnchanged ==
  ASSUME CatalogInv, UNCHANGED vars
  PROVE  CatalogInv'
<1>1. Probed' = Probed /\ Attached' = Attached
  BY DEF vars, Probed, LocalEntries, Attached
<1>2. TypeOK'
  BY DEF CatalogInv, TypeOK, vars
<1>3. FoundInv' /\ AskedInv'
  BY <1>1 DEF CatalogInv, FoundInv, AskedInv, vars
<1>4. CheckedInv' /\ LocalsInv' /\ RegistryInv' /\ FailedInv'
  BY <1>1 DEF CatalogInv, CheckedInv, LocalsInv, RegistryInv, FailedInv, vars
<1> QED
  BY <1>2, <1>3, <1>4 DEF CatalogInv

LEMMA CatalogStep ==
  ASSUME CatalogAssumption, CatalogInv, [Next]_vars
  PROVE  CatalogInv'
<1>1. CASE Next
  BY <1>1, CheckCloudFlagsStep, ProbeAnswersStep, ProbeFailsStep, VideosResolvedStep,
     ListCloudDevicesStep, LocalsInferredStep, ResolveLocalStep, LocalsResolvedStep,
     BuildRegistryStep, AttachVideoStep, VideosAttachedStep, ResolveVideoEndpointsStep,
     SpawnFeedsStep
     DEF Next
<1>2. CASE UNCHANGED vars
  BY <1>2, CatalogUnchanged
<1> QED
  BY <1>1, <1>2

\* What the invariant says of the registry at the end.
LEMMA ReferenceFacts ==
  ASSUME CatalogAssumption, CatalogInv
  PROVE  RegistryIsTheReference
<1>1. asked <= 1 /\ (place = "failed" => outage \/ ~Usable(config))
  BY AskedFacts DEF CatalogInv, FailedInv
<1>2. ASSUME place = "done"
      PROVE  /\ Usable(config) /\ IsRegistry(config, entries)
             /\ \A j \in DOMAIN entries :
                  entries[j].code = ReferenceCode(config, entries[j].id)
  <2>1. /\ config \in Configurations /\ IsRegistry(config, entries)
        /\ CodesInv(entries, config) /\ Attached = DOMAIN config.video
        /\ CheckedInv
    BY <1>2, AskedFacts DEF CatalogInv, RegistryInv
  <2>2. \A i \in DOMAIN config.video : \E j \in DOMAIN entries :
          entries[j].id = config.video[i].id /\ entries[j].video # None
    BY <2>1 DEF Attached
  <2>3. \A id \in IdSet(config.video) : \E i \in DOMAIN config.video : config.video[i].id = id
    BY DEF IdSet, Ids, ToSet
  <2>4. ASSUME NEW id \in IdSet(config.video)
        PROVE  /\ id \in LocalIds(config) \cup CloudIds(config)
               /\ ReferenceCode(config, id) = None => config.session
    <3>1. PICK j \in DOMAIN entries : entries[j].id = id /\ entries[j].video # None
      BY <2>2, <2>3
    <3> QED
      BY <2>1, <3>1 DEF CodesInv
  <2>5. Usable(config)
    BY <1>2, <2>1, <2>4 DEF Usable, CheckedInv
  <2>6. ASSUME NEW j \in DOMAIN entries
        PROVE  entries[j].code = ReferenceCode(config, entries[j].id)
    <3>1. CASE entries[j].video # None
      BY <2>1, <3>1 DEF CodesInv
    <3>2. CASE entries[j].video = None
      <4>1. \A k \in DOMAIN entries : entries[k].id = entries[j].id => k = j
        BY <2>1 DEF IsRegistry, IsInjective, Ids
      <4>2. VideoOf(config, entries[j].id) = {}
        BY <2>2, <3>2, <4>1 DEF VideoOf
      <4>3. entries[j].code = InitialCode(config, entries[j].id)
        BY <2>1, <3>2 DEF CodesInv
      <4> QED
        BY <2>1, <4>2, <4>3, CodeWithoutCamera
    <3> QED
      BY <3>1, <3>2
  <2> QED
    BY <2>1, <2>5, <2>6
<1> QED
  BY <1>1, <1>2 DEF RegistryIsTheReference, IsRegistry

LEMMA CatalogInvariant ==
  ASSUME CatalogAssumption
  PROVE  Spec => []CatalogInv
<1>1. Init => CatalogInv
  BY CatalogInit
<1>2. CatalogInv /\ [Next]_vars => CatalogInv'
  BY CatalogStep
<1> QED
  BY <1>1, <1>2, PTL DEF Spec

\* Every state of the startup is well typed.
THEOREM CatalogTypeCorrect ==
  ASSUME CatalogAssumption
  PROVE  Spec => []TypeOK
<1>1. CatalogInv => TypeOK
  BY DEF CatalogInv
<1> QED
  BY <1>1, CatalogInvariant, PTL

\* The registry is the reference's, for every command line and account and whatever the
\* order of the probes: each device once, at its flag's place, with its feed and its best
\* code; and no startup fails without a cause (resolve_devices, DeviceRegistryBuilder).
THEOREM TheRegistryIsResolved ==
  ASSUME CatalogAssumption
  PROVE  Spec => []RegistryIsTheReference
<1>1. CatalogInv => RegistryIsTheReference
  BY ReferenceFacts
<1> QED
  BY <1>1, CatalogInvariant, PTL
=============================================================================
