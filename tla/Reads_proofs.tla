---------------------------- MODULE Reads_proofs ----------------------------
(***************************************************************************)
(* Proofs about what is read from the catalog: walks through its pages     *)
(* (CatalogPages), the price of a run (Billing), and the candidates of a   *)
(* selection (Ranking).                                                    *)
(***************************************************************************)
EXTENDS Billing, CatalogPages, Ranking, FiniteSetTheorems, SequenceTheorems, TLAPS

-----------------------------------------------------------------------------
(* The order of keys. *)

\* Keys of one component are ordered by it.
LEMMA BeforeOne == \A a, b \in Nat : Before(<<a>>, <<b>>) <=> a < b
<1> TAKE a, b \in Nat
<1>1. DOMAIN <<a>> = {1} /\ 1 .. 1 - 1 = {} /\ <<a>>[1] = a /\ <<b>>[1] = b
  OBVIOUS
<1>2. Before(<<a>>, <<b>>) <=>
        \E i \in {1} : <<a>>[i] < <<b>>[i] /\ \A j \in 1 .. i - 1 : <<a>>[j] = <<b>>[j]
  BY <1>1 DEF Before
<1> QED BY <1>1, <1>2

\* Keys of two components: the first decides, then the second.
LEMMA BeforeTwo ==
  \A a, b, c, d \in Nat : Before(<<a, b>>, <<c, d>>) <=> a < c \/ (a = c /\ b < d)
<1> TAKE a, b, c, d \in Nat
<1>1. DOMAIN <<a, b>> = {1, 2} /\ 1 .. 1 - 1 = {} /\ 1 .. 2 - 1 = {1}
  OBVIOUS
<1>2. Before(<<a, b>>, <<c, d>>) <=>
        \E i \in {1, 2} : <<a, b>>[i] < <<c, d>>[i]
                          /\ \A j \in 1 .. i - 1 : <<a, b>>[j] = <<c, d>>[j]
  BY <1>1 DEF Before
<1> QED BY <1>1, <1>2

\* Keys of three components.
LEMMA BeforeThree ==
  \A a, b, e, c, d, f \in Nat :
    Before(<<a, b, e>>, <<c, d, f>>) <=>
      a < c \/ (a = c /\ b < d) \/ (a = c /\ b = d /\ e < f)
<1> TAKE a, b, e, c, d, f \in Nat
<1>1. /\ DOMAIN <<a, b, e>> = {1, 2, 3} /\ 1 .. 1 - 1 = {} /\ 1 .. 2 - 1 = {1}
      /\ 1 .. 3 - 1 = {1, 2}
  OBVIOUS
<1>2. Before(<<a, b, e>>, <<c, d, f>>) <=>
        \E i \in {1, 2, 3} : <<a, b, e>>[i] < <<c, d, f>>[i]
                             /\ \A j \in 1 .. i - 1 : <<a, b, e>>[j] = <<c, d, f>>[j]
  BY <1>1 DEF Before
<1> QED BY <1>1, <1>2

\* The fields of a model are numbers, and its id is its own.
LEMMA ModelFields ==
  /\ \A m \in Model : m.id \in Nat /\ m.name \in Nat /\ m.own \in 0 .. 3 /\ m.alias \in 0 .. 3
  /\ \A m, n \in Model : m.id = n.id => m = n
  /\ \A m \in Model : \A ids : Rank(m, ids) \in 0 .. 3
BY ModelsAreModels DEF NoMatch, Rank

\* A strict total order on a set of keys.
Ordered(S) ==
  /\ \A a \in S : ~Before(a, a)
  /\ \A a, b, c \in S : Before(a, b) /\ Before(b, c) => Before(a, c)
  /\ \A a, b \in S : a = b \/ Before(a, b) \/ Before(b, a)

\* The keys a query can list, now or at any other time.
Form(q) ==
  IF q \in {"history", "active"} THEN {<<i>> : i \in Nat}
  ELSE IF q \in {"models", "matching models"} THEN {<<m.name, m.id>> : m \in Model}
  ELSE {<<r, m.name, m.id>> : r \in 0 .. 3, m \in Model}

\* The three forms.
LEMMA Forms ==
  /\ \A q \in {"history", "active"} : Form(q) = {<<i>> : i \in Nat}
  /\ \A q \in {"models", "matching models"} : Form(q) = {<<m.name, m.id>> : m \in Model}
  /\ Form("search") = {<<r, m.name, m.id>> : r \in 0 .. 3, m \in Model}
<1>1. \A q \in {"models", "matching models"} : q \notin {"history", "active"}
  OBVIOUS
<1> QED BY <1>1 DEF Form

\* The keys of a query are totally ordered.
LEMMA FormIsOrdered == \A q \in Query : Ordered(Form(q))
<1> TAKE q \in Query
<1>1. CASE q \in {"history", "active"}
  <2>1. \A k \in Form(q) : \E i \in Nat : k = <<i>>
    BY <1>1 DEF Form
  <2>2. \A a, b, c \in Nat : (a < b /\ b < c => a < c) /\ ~(a < a) /\ (a = b \/ a < b \/ b < a)
    OBVIOUS
  <2> QED BY <2>1, <2>2, BeforeOne DEF Ordered
<1>2. CASE q \in {"models", "matching models"}
  <2>1. \A k \in Form(q) : \E n, i \in Nat : k = <<n, i>>
    <3> SUFFICES ASSUME NEW k \in Form(q) PROVE \E n, i \in Nat : k = <<n, i>>
      OBVIOUS
    <3>1. PICK m \in Model : k = <<m.name, m.id>>
      BY <1>2, Forms
    <3> QED BY <3>1, ModelFields
  <2>2. \A a \in Form(q) : ~Before(a, a)
    BY <2>1, BeforeTwo
  <2>3. ASSUME NEW a \in Form(q), NEW b \in Form(q), NEW c \in Form(q), Before(a, b), Before(b, c)
        PROVE  Before(a, c)
    <3>1. PICK a1, a2 \in Nat : a = <<a1, a2>>
      BY <2>1
    <3>2. PICK b1, b2 \in Nat : b = <<b1, b2>>
      BY <2>1
    <3>3. PICK c1, c2 \in Nat : c = <<c1, c2>>
      BY <2>1
    <3>4. (a1 < b1 \/ (a1 = b1 /\ a2 < b2)) /\ (b1 < c1 \/ (b1 = c1 /\ b2 < c2))
      BY <2>3, <3>1, <3>2, <3>3, BeforeTwo
    <3>5. a1 < c1 \/ (a1 = c1 /\ a2 < c2)
      BY <3>4
    <3> QED BY <3>1, <3>3, <3>5, BeforeTwo
  <2>4. ASSUME NEW a \in Form(q), NEW b \in Form(q)
        PROVE  a = b \/ Before(a, b) \/ Before(b, a)
    <3>1. PICK a1, a2 \in Nat : a = <<a1, a2>>
      BY <2>1
    <3>2. PICK b1, b2 \in Nat : b = <<b1, b2>>
      BY <2>1
    <3>3. (a1 = b1 /\ a2 = b2) \/ (a1 < b1 \/ (a1 = b1 /\ a2 < b2))
          \/ (b1 < a1 \/ (b1 = a1 /\ b2 < a2))
      OBVIOUS
    <3> QED BY <3>1, <3>2, <3>3, BeforeTwo
  <2> QED BY <2>2, <2>3, <2>4 DEF Ordered
<1>3. CASE q = "search"
  <2>1. \A k \in Form(q) : \E r, n, i \in Nat : k = <<r, n, i>>
    BY <1>3, ModelFields DEF Form
  <2>2. \A a \in Form(q) : ~Before(a, a)
    BY <2>1, BeforeThree
  <2>3. ASSUME NEW a \in Form(q), NEW b \in Form(q), NEW c \in Form(q), Before(a, b), Before(b, c)
        PROVE  Before(a, c)
    <3>1. PICK a1, a2, a3 \in Nat : a = <<a1, a2, a3>>
      BY <2>1
    <3>2. PICK b1, b2, b3 \in Nat : b = <<b1, b2, b3>>
      BY <2>1
    <3>3. PICK c1, c2, c3 \in Nat : c = <<c1, c2, c3>>
      BY <2>1
    <3>4. /\ (a1 < b1 \/ (a1 = b1 /\ a2 < b2) \/ (a1 = b1 /\ a2 = b2 /\ a3 < b3))
          /\ (b1 < c1 \/ (b1 = c1 /\ b2 < c2) \/ (b1 = c1 /\ b2 = c2 /\ b3 < c3))
      BY <2>3, <3>1, <3>2, <3>3, BeforeThree
    <3>5. a1 < c1 \/ (a1 = c1 /\ a2 < c2) \/ (a1 = c1 /\ a2 = c2 /\ a3 < c3)
      BY <3>4
    <3> QED BY <3>1, <3>3, <3>5, BeforeThree
  <2>4. ASSUME NEW a \in Form(q), NEW b \in Form(q)
        PROVE  a = b \/ Before(a, b) \/ Before(b, a)
    <3>1. PICK a1, a2, a3 \in Nat : a = <<a1, a2, a3>>
      BY <2>1
    <3>2. PICK b1, b2, b3 \in Nat : b = <<b1, b2, b3>>
      BY <2>1
    <3>3. (a1 = b1 /\ a2 = b2 /\ a3 = b3)
          \/ (a1 < b1 \/ (a1 = b1 /\ a2 < b2) \/ (a1 = b1 /\ a2 = b2 /\ a3 < b3))
          \/ (b1 < a1 \/ (b1 = a1 /\ b2 < a2) \/ (b1 = a1 /\ b2 = a2 /\ b3 < a3))
      OBVIOUS
    <3> QED BY <3>1, <3>2, <3>3, BeforeThree
  <2> QED BY <2>2, <2>3, <2>4 DEF Ordered
<1> QED BY <1>1, <1>2, <1>3 DEF Query

\* No key is the empty cursor.
LEMMA KeysHaveParts == \A q \in Query : \A k \in Form(q) : k # <<>>
<1> SUFFICES ASSUME NEW q \in Query, NEW k \in Form(q) PROVE k # <<>>
  OBVIOUS
<1>0. \A a, b, c : <<a>> # <<>> /\ <<a, b>> # <<>> /\ <<a, b, c>> # <<>>
  <2>1. \A a, b, c : Len(<<a>>) = 1 /\ Len(<<a, b>>) = 2 /\ Len(<<a, b, c>>) = 3
    OBVIOUS
  <2>2. Len(<<>>) = 0
    OBVIOUS
  <2> QED BY <2>1, <2>2
<1>1. CASE q \in {"history", "active"}
  BY <1>0, <1>1, Forms
<1>2. CASE q \in {"models", "matching models"}
  BY <1>0, <1>2, Forms
<1>3. CASE q = "search"
  <2>1. PICK r \in 0 .. 3, m \in Model : k = <<r, m.name, m.id>>
    BY <1>3 DEF Form
  <2> QED BY <1>0, <2>1
<1> QED BY <1>1, <1>2, <1>3 DEF Query

\* A part of an ordered set is ordered.
LEMMA PartIsOrdered ==
  ASSUME NEW S, Ordered(S), NEW T \in SUBSET S
  PROVE  Ordered(T)
BY DEF Ordered

-----------------------------------------------------------------------------
(* The first rows of an ordered set. *)

\* R orders S strictly and totally.
Orders(R, S) ==
  /\ \A x \in S : <<x, x>> \notin R
  /\ \A x, y, z \in S : <<x, y>> \in R /\ <<y, z>> \in R => <<x, z>> \in R
  /\ \A x, y \in S : x = y \/ <<x, y>> \in R \/ <<y, x>> \in R

Position(k, S, R) == Cardinality({x \in S : <<x, k>> \in R}) + 1

\* In a finite ordered set every element has a place of its own, and every
\* place from the first to the last is some element's.
LEMMA PositionsAreTaken ==
  ASSUME NEW S, IsFiniteSet(S), NEW R, Orders(R, S)
  PROVE  /\ Cardinality(S) \in Nat
         /\ \A k \in S : Position(k, S, R) \in 1 .. Cardinality(S)
         /\ \A k, l \in S : <<k, l>> \in R => Position(k, S, R) < Position(l, S, R)
         /\ \A i \in 1 .. Cardinality(S) : \E k \in S : Position(k, S, R) = i
<1> DEFINE below(k) == {x \in S : <<x, k>> \in R}
           N == Cardinality(S)
           f == [k \in S |-> Position(k, S, R)]
<1>1. N \in Nat
  BY FS_CardinalityType
<1>2. \A k \in S : Position(k, S, R) \in 1 .. N
  <2> TAKE k \in S
  <2>1. below(k) \in SUBSET S /\ k \notin below(k)
    BY DEF Orders
  <2>2. IsFiniteSet(below(k)) /\ Cardinality(below(k)) <= N /\ Cardinality(below(k)) # N
    BY <2>1, FS_Subset
  <2>3. Cardinality(below(k)) \in Nat
    BY <2>2, FS_CardinalityType
  <2>4. Position(k, S, R) = Cardinality(below(k)) + 1
    BY DEF Position
  <2> HIDE DEF below, N
  <2> QED BY <1>1, <2>2, <2>3, <2>4
<1>3. ASSUME NEW k \in S, NEW l \in S, <<k, l>> \in R
      PROVE  Position(k, S, R) < Position(l, S, R)
  <2>1. below(l) \in SUBSET S /\ below(k) \in SUBSET below(l) /\ k \in below(l) /\ k \notin below(k)
    BY <1>3 DEF Orders
  <2>2. IsFiniteSet(below(l))
    BY <2>1, FS_Subset
  <2>3. IsFiniteSet(below(k)) /\ Cardinality(below(k)) <= Cardinality(below(l))
        /\ Cardinality(below(k)) # Cardinality(below(l))
    BY <2>1, <2>2, FS_Subset
  <2>4. Cardinality(below(k)) \in Nat /\ Cardinality(below(l)) \in Nat
    BY <2>2, <2>3, FS_CardinalityType
  <2>5. Position(k, S, R) = Cardinality(below(k)) + 1 /\ Position(l, S, R) = Cardinality(below(l)) + 1
    BY DEF Position
  <2> HIDE DEF below
  <2> QED BY <2>3, <2>4, <2>5
<1>4. \A k, l \in S : Position(k, S, R) = Position(l, S, R) => k = l
  <2> SUFFICES ASSUME NEW k \in S, NEW l \in S, Position(k, S, R) = Position(l, S, R), k # l
               PROVE  FALSE
    OBVIOUS
  <2>1. <<k, l>> \in R \/ <<l, k>> \in R
    BY DEF Orders
  <2>2. Position(k, S, R) < Position(l, S, R) \/ Position(l, S, R) < Position(k, S, R)
    BY <1>3, <2>1
  <2>3. Position(k, S, R) \in Nat /\ Position(l, S, R) \in Nat
    BY <1>1, <1>2
  <2> QED BY <2>2, <2>3
<1>5. f \in Injection(S, 1 .. N)
  BY <1>2, <1>4 DEF Injection, IsInjective
<1>6. IsFiniteSet(1 .. N) /\ Cardinality(1 .. N) = N
  <2>1. IsFiniteSet(1 .. N) /\ Cardinality(1 .. N) = IF 1 > N THEN 0 ELSE N - 1 + 1
    BY <1>1, FS_Interval
  <2> HIDE DEF N
  <2> QED BY <1>1, <2>1
<1>7. f \in Surjection(S, 1 .. N)
  BY <1>5, <1>6, FS_Injection
<1>8. \A i \in 1 .. N : \E k \in S : Position(k, S, R) = i
  BY <1>7 DEF Surjection
<1> QED BY <1>1, <1>2, <1>3, <1>8

Place(k, S) == Cardinality({x \in S : Before(x, k)}) + 1

\* Keys are such elements, in the order Before.
LEMMA PlacesAreTaken ==
  ASSUME NEW S, IsFiniteSet(S), Ordered(S)
  PROVE  /\ Cardinality(S) \in Nat
         /\ \A k \in S : Place(k, S) \in 1 .. Cardinality(S)
         /\ \A k, l \in S : Before(k, l) => Place(k, S) < Place(l, S)
         /\ \A i \in 1 .. Cardinality(S) : \E k \in S : Place(k, S) = i
<1> DEFINE R == {p \in S \X S : Before(p[1], p[2])}
<1>1. \A x, y \in S : <<x, y>> \in R <=> Before(x, y)
  OBVIOUS
<1> HIDE DEF R
<1>2. Orders(R, S)
  BY <1>1 DEF Ordered, Orders
<1>3. \A k \in S : Place(k, S) = Position(k, S, R)
  <2> TAKE k \in S
  <2>1. {x \in S : Before(x, k)} = {x \in S : <<x, k>> \in R}
    BY <1>1
  <2> QED BY <2>1 DEF Place, Position
<1>4. /\ Cardinality(S) \in Nat
      /\ \A k \in S : Position(k, S, R) \in 1 .. Cardinality(S)
      /\ \A k, l \in S : <<k, l>> \in R => Position(k, S, R) < Position(l, S, R)
      /\ \A i \in 1 .. Cardinality(S) : \E k \in S : Position(k, S, R) = i
  BY <1>2, PositionsAreTaken
<1> QED BY <1>1, <1>3, <1>4

\* The first rows are rows of the set in their order, as many as there are up
\* to the limit; what is not among them comes after the last, and there is
\* such a row only if the limit is reached.
LEMMA FirstRowsAreFirst ==
  ASSUME NEW S, IsFiniteSet(S), Ordered(S), NEW n \in Nat
  PROVE  LET F == FirstRows(S, n) IN
         /\ F \in Seq(S) /\ Len(F) <= n
         /\ \A i, j \in DOMAIN F : i < j => Before(F[i], F[j])
         /\ \A k \in S : \/ \E i \in DOMAIN F : F[i] = k
                         \/ Len(F) = n /\ (n > 0 => Before(F[n], k))
<1> DEFINE N == Cardinality(S)
           count == IF N < n THEN N ELSE n
           F == FirstRows(S, n)
<1>1. F = [i \in 1 .. count |-> CHOOSE k \in S : Place(k, S) = i]
  BY DEF FirstRows, Place
<1>2. /\ N \in Nat
      /\ \A k \in S : Place(k, S) \in 1 .. N
      /\ \A k, l \in S : Before(k, l) => Place(k, S) < Place(l, S)
      /\ \A i \in 1 .. N : \E k \in S : Place(k, S) = i
  BY PlacesAreTaken
<1>3. count \in Nat /\ count <= N /\ count <= n /\ (count < N => count = n)
  BY <1>2
<1> HIDE DEF F, N, count
<1>4. \A i \in 1 .. count : F[i] \in S /\ Place(F[i], S) = i
  <2> TAKE i \in 1 .. count
  <2>1. i \in 1 .. N
    BY <1>2, <1>3
  <2>2. \E k \in S : Place(k, S) = i
    BY <1>2, <2>1
  <2>3. F[i] = CHOOSE k \in S : Place(k, S) = i
    BY <1>1
  <2> QED BY <2>2, <2>3
<1>5. F \in [1 .. count -> S]
  BY <1>1, <1>4
<1>6. F \in Seq(S) /\ Len(F) = count /\ DOMAIN F = 1 .. count
  BY <1>3, <1>5
<1>7. ASSUME NEW k \in S, NEW l \in S, Place(k, S) < Place(l, S)
      PROVE  Before(k, l)
  <2>1. Place(k, S) \in Nat /\ Place(l, S) \in Nat
    BY <1>2
  <2>2. k # l /\ ~Before(l, k)
    BY <1>2, <1>7, <2>1
  <2> QED BY <2>2 DEF Ordered
<1>8. \A i, j \in DOMAIN F : i < j => Before(F[i], F[j])
  BY <1>4, <1>6, <1>7
<1>9. ASSUME NEW k \in S
      PROVE  (\E i \in DOMAIN F : F[i] = k) \/ (Len(F) = n /\ (n > 0 => Before(F[n], k)))
  <2>1. Place(k, S) \in 1 .. N
    BY <1>2
  <2>2. CASE Place(k, S) <= count
    <3> DEFINE i == Place(k, S)
    <3>1. i \in 1 .. count
      BY <1>2, <2>1, <2>2
    <3>2. F[i] \in S /\ Place(F[i], S) = i
      BY <1>4, <3>1
    <3>3. ~(Place(F[i], S) < Place(k, S)) /\ ~(Place(k, S) < Place(F[i], S))
      BY <1>2, <2>1, <3>2
    <3>4. ~Before(F[i], k) /\ ~Before(k, F[i])
      BY <1>2, <3>2, <3>3
    <3>5. F[i] = k
      BY <3>2, <3>4 DEF Ordered
    <3> QED BY <1>6, <3>1, <3>5
  <2>3. CASE ~(Place(k, S) <= count)
    <3>1. count < Place(k, S) /\ count < N
      BY <1>2, <1>3, <2>1, <2>3
    <3>2. count = n
      BY <1>3, <3>1
    <3>3. ASSUME n > 0 PROVE Before(F[n], k)
      <4>1. n \in 1 .. count
        BY <3>2, <3>3
      <4>2. F[n] \in S /\ Place(F[n], S) = n
        BY <1>4, <4>1
      <4> QED BY <1>7, <3>1, <3>2, <4>2
    <3> QED BY <1>6, <3>2, <3>3
  <2> QED BY <2>2, <2>3
<1> QED BY <1>3, <1>6, <1>8, <1>9 DEF F

-----------------------------------------------------------------------------
(* What a walk carries from page to page. *)

Shown(key) == \E i \in DOMAIN walk.listed : walk.listed[i] = key

\* A row is listed under the key its model has, or had before an alias of it
\* was resolved: aliases only move a row up.
RowsOnlyRise ==
  walk.query = "search" =>
    \A i \in DOMAIN walk.listed : \A m \in Model :
      m.id = walk.listed[i][3] => Rank(m, aliases) <= walk.listed[i][1]

\* The rows shown so far are in order, no two are one, and the cursor is at
\* the last of them.
WalkInOrder ==
  /\ walk.listed \in Seq(Form(walk.query))
  /\ \A i, j \in DOMAIN walk.listed : i < j => Before(walk.listed[i], walk.listed[j])
  /\ \A i, j \in DOMAIN walk.listed : i < j => Id(walk.listed[i]) # Id(walk.listed[j])
  /\ walk.last # <<>> => walk.listed # <<>> /\ walk.last = walk.listed[Len(walk.listed)]
  /\ walk.state = "ready" /\ walk.last = <<>> => walk.listed = <<>>

\* What has been listed all the while and does not come after the cursor has
\* been shown; without a cursor, after the last page, everything has.
SteadyIsShown ==
  /\ \A x \in Query : steady[x] \subseteq Listed(x)
  /\ walk.query \in Query =>
       \A key \in steady[walk.query] :
         /\ walk.last # <<>> /\ ~Before(walk.last, key) => Shown(key)
         /\ walk.last = <<>> /\ walk.state \in {"label", "done"} => Shown(key)

IdsInv ==
  /\ nextId \in Nat
  /\ \A o \in rows : o.id \in 0 .. nextId
  /\ \A s \in Source : drafts[s] \subseteq 0 .. nextId
  /\ drafts = [s \in Source |-> drafts[s]]
  /\ steady = [q \in Query |-> steady[q]]

IsWalk ==
  /\ walk = [query |-> walk.query, state |-> walk.state, last |-> walk.last,
             page |-> walk.page, listed |-> walk.listed, labels |-> walk.labels]
  /\ walk.query = "none" => walk.listed = <<>> /\ walk.state = "none"
  /\ walk.query # "none" => walk.query \in Query /\ walk.state \in {"ready", "label", "done"}
  /\ walk.state = "done" => walk.last = <<>>

PagesInv ==
  /\ IdsInv /\ IsWalk /\ SteadyIsShown
  /\ walk.query # "none" => WalkInOrder /\ RowsOnlyRise

\* A query lists keys of its form, finitely many.
LEMMA ListingIsFinite ==
  ASSUME IdsInv, NEW q \in Query
  PROVE  Listed(q) \in SUBSET Form(q) /\ IsFiniteSet(Listed(q))
<1>1. CASE q \in {"history", "active"}
  <2> DEFINE I == 0 .. nextId
             T == {<<i>> : i \in I}
             f == [i \in I |-> <<i>>]
  <2>1. IsFiniteSet(I)
    <3>1. 0 \in Int /\ nextId \in Int
      BY DEF IdsInv
    <3> QED BY <3>1, FS_Interval
  <2>2. f \in Surjection(I, T)
    BY DEF Surjection
  <2>3. IsFiniteSet(T)
    BY <2>1, <2>2, FS_Surjection
  <2>4. Listed(q) \in SUBSET T
    BY <1>1 DEF Listed, Listing, IdsInv
  <2>5. T \in SUBSET Form(q)
    BY <1>1 DEF Form, IdsInv
  <2> HIDE DEF T
  <2> QED BY <2>3, <2>4, <2>5, FS_Subset
<1>2. CASE q \in {"models", "matching models"}
  <2> DEFINE T == {<<m.name, m.id>> : m \in Model}
             f == [m \in Model |-> <<m.name, m.id>>]
  <2>1. f \in Surjection(Model, T)
    BY DEF Surjection
  <2>2. IsFiniteSet(T)
    BY <2>1, FS_Surjection, ModelsAreModels
  <2>3. Listed(q) \in SUBSET T
    BY <1>2 DEF Listed, Listing, Matching
  <2>4. T = Form(q)
    BY <1>2, Forms
  <2> HIDE DEF T
  <2> QED BY <2>2, <2>3, <2>4, FS_Subset
<1>3. CASE q = "search"
  <2> DEFINE T == {<<Rank(m, aliases), m.name, m.id>> : m \in Model}
             f == [m \in Model |-> <<Rank(m, aliases), m.name, m.id>>]
  <2>1. f \in Surjection(Model, T)
    BY DEF Surjection
  <2>2. IsFiniteSet(T)
    BY <2>1, FS_Surjection, ModelsAreModels
  <2>3. Listed(q) \in SUBSET T
    BY <1>3 DEF Listed, Listing, Matching
  <2>4. T \in SUBSET Form(q)
    BY <1>3, ModelFields DEF Form
  <2> HIDE DEF T
  <2> QED BY <2>2, <2>3, <2>4, FS_Subset
<1> QED BY <1>1, <1>2, <1>3 DEF Query

\* The id of a key is its last part.
LEMMA IdsOfKeys ==
  /\ \A a : Id(<<a>>) = a
  /\ \A a, b : Id(<<a, b>>) = b
  /\ \A a, b, c : Id(<<a, b, c>>) = c
BY DEF Id

\* A row that is listed now and was shown is not listed after where it was
\* shown, so a walk that goes on from a later key does not meet it again.
LEMMA NeverShownAgain ==
  ASSUME IdsInv, IsWalk, WalkInOrder, RowsOnlyRise, walk.query \in Query,
         NEW i \in DOMAIN walk.listed, NEW key \in Listed(walk.query), Before(walk.listed[i], key)
  PROVE  Id(walk.listed[i]) # Id(key)
<1> DEFINE q == walk.query
           old == walk.listed[i]
<1>1. old \in Form(q) /\ key \in Form(q) /\ i \in 1 .. Len(walk.listed)
  BY ListingIsFinite DEF WalkInOrder
<1>2. ~Before(key, key)
  BY <1>1, FormIsOrdered DEF Ordered
<1>3. CASE q \in {"history", "active"}
  <2>1. PICK a \in Nat : old = <<a>>
    BY <1>1, <1>3 DEF Form
  <2>2. PICK b \in Nat : key = <<b>>
    BY <1>1, <1>3 DEF Form
  <2> QED BY <1>2, <2>1, <2>2, IdsOfKeys
<1>4. CASE q \in {"models", "matching models"}
  <2>1. PICK m \in Model : old = <<m.name, m.id>>
    BY <1>1, <1>4, Forms
  <2>2. PICK n \in Model : key = <<n.name, n.id>>
    BY <1>1, <1>4, Forms
  <2>3. Id(old) = m.id /\ Id(key) = n.id
    BY <2>1, <2>2, IdsOfKeys
  <2> QED BY <1>2, <2>1, <2>2, <2>3, ModelFields
<1>5. CASE q = "search"
  <2>1. PICK r \in 0 .. 3, m \in Model : old = <<r, m.name, m.id>>
    BY <1>1, <1>5 DEF Form
  <2>2. PICK n \in Model : key = <<Rank(n, aliases), n.name, n.id>>
    BY <1>5 DEF Listed, Listing, Matching
  <2>3. Id(old) = m.id /\ Id(key) = n.id /\ old[1] = r /\ old[3] = m.id
    BY <2>1, <2>2, IdsOfKeys
  <2>4. SUFFICES ASSUME m.id = n.id PROVE FALSE
    BY <2>3
  <2>5. m = n
    BY <2>4, ModelFields
  <2>6. Rank(m, aliases) <= r
    BY <1>5, <2>3 DEF RowsOnlyRise
  <2>7. PICK k \in 0 .. 3 : k = Rank(m, aliases)
    BY ModelFields
  <2>8. r < k \/ (r = k /\ m.name < m.name) \/ (r = k /\ m.name = m.name /\ m.id < m.id)
    BY <2>1, <2>2, <2>5, <2>7, BeforeThree, ModelFields
  <2> QED BY <2>6, <2>7, <2>8, ModelFields
<1> QED BY <1>3, <1>4, <1>5 DEF Query

\* No row is listed twice at a time.
LEMMA ListedOnce ==
  ASSUME IdsInv, NEW q \in Query, NEW a \in Listed(q), NEW b \in Listed(q), Id(a) = Id(b)
  PROVE  a = b
<1>1. CASE q \in {"history", "active"}
  <2>1. Form(q) = {<<i>> : i \in Nat} /\ Listed(q) \in SUBSET Form(q)
    BY <1>1, Forms, ListingIsFinite
  <2> QED BY <2>1, IdsOfKeys
<1>2. CASE q \in {"models", "matching models"}
  <2>1. PICK m \in Model : a = <<m.name, m.id>>
    BY <1>2 DEF Listed, Listing, Matching
  <2>2. PICK n \in Model : b = <<n.name, n.id>>
    BY <1>2 DEF Listed, Listing, Matching
  <2>3. m.id = n.id
    BY <2>1, <2>2, IdsOfKeys
  <2> QED BY <2>1, <2>2, <2>3, ModelFields
<1>3. CASE q = "search"
  <2>1. PICK m \in Model : a = <<Rank(m, aliases), m.name, m.id>>
    BY <1>3 DEF Listed, Listing, Matching
  <2>2. PICK n \in Model : b = <<Rank(n, aliases), n.name, n.id>>
    BY <1>3 DEF Listed, Listing, Matching
  <2>3. m.id = n.id
    BY <2>1, <2>2, IdsOfKeys
  <2> QED BY <2>1, <2>2, <2>3, ModelFields
<1> QED BY <1>1, <1>2, <1>3 DEF Query

-----------------------------------------------------------------------------
(* The steps of a walk. *)

After == {k \in Listed(walk.query) : walk.last = <<>> \/ Before(walk.last, k)}
Found == FirstRows(After, PageSize + 1)
More  == Len(Found) > PageSize
Shows == IF More THEN SubSeq(Found, 1, PageSize) ELSE Found

\* A page shows the rows after the cursor in their order.  The cursor it ends
\* with is its last row, with only later ones left; without one, none is left.
LEMMA PageIsFirst ==
  ASSUME IsFiniteSet(After), Ordered(After)
  PROVE  /\ Shows \in Seq(After)
         /\ \A i, j \in DOMAIN Shows : i < j => Before(Shows[i], Shows[j])
         /\ More => /\ Shows # <<>> /\ CursorOf(Found) = Shows[Len(Shows)]
                    /\ \A k \in After : \/ \E i \in DOMAIN Shows : Shows[i] = k
                                        \/ Before(CursorOf(Found), k)
         /\ ~More => \A k \in After : \E i \in DOMAIN Shows : Shows[i] = k
<1>1. PageSize \in Nat /\ PageSize > 0 /\ PageSize + 1 \in Nat
  BY PagesHaveRows
<1>2. /\ Found \in Seq(After) /\ Len(Found) <= PageSize + 1
      /\ \A i, j \in DOMAIN Found : i < j => Before(Found[i], Found[j])
      /\ \A k \in After : \/ \E i \in DOMAIN Found : Found[i] = k
                          \/ Len(Found) = PageSize + 1 /\ Before(Found[PageSize + 1], k)
  BY <1>1, FirstRowsAreFirst DEF Found
<1>3. Len(Found) \in Nat /\ DOMAIN Found = 1 .. Len(Found)
  BY <1>2
<1>4. CASE More
  <2>1. Len(Found) = PageSize + 1
    <3>1. Len(Found) > PageSize /\ Len(Found) <= PageSize + 1
      BY <1>2, <1>4 DEF More
    <3>2. \A n, m \in Nat : n > m /\ n <= m + 1 => n = m + 1
      OBVIOUS
    <3> QED BY <1>1, <1>3, <3>1, <3>2
  <2>2. Shows = SubSeq(Found, 1, PageSize)
    BY <1>4 DEF Shows
  <2>3. /\ Shows \in Seq(After) /\ Len(Shows) = PageSize
        /\ \A i \in 1 .. PageSize : Shows[i] = Found[i]
    BY <1>1, <1>2, <2>1, <2>2, SubSeqProperties
  <2>4. DOMAIN Shows = 1 .. PageSize
    BY <2>3
  <2>5. CursorOf(Found) = Found[PageSize] /\ Shows[Len(Shows)] = Found[PageSize] /\ Shows # <<>>
    BY <1>1, <2>3 DEF CursorOf
  <2>6. ASSUME NEW k \in After
        PROVE  (\E i \in DOMAIN Shows : Shows[i] = k) \/ Before(CursorOf(Found), k)
    <3>1. PageSize \in DOMAIN Found /\ PageSize + 1 \in DOMAIN Found /\ PageSize < PageSize + 1
      BY <1>1, <1>3, <2>1
    <3>2. Before(Found[PageSize], Found[PageSize + 1])
      BY <1>2, <3>1
    <3>3. Found[PageSize] \in After /\ Found[PageSize + 1] \in After
      BY <1>2, <3>1
    <3>4. CASE \E i \in DOMAIN Found : Found[i] = k
      <4>1. PICK i \in DOMAIN Found : Found[i] = k
        BY <3>4
      <4>2. i \in 1 .. PageSize \/ i = PageSize + 1
        BY <1>1, <1>3, <2>1, <4>1
      <4>3. CASE i \in 1 .. PageSize
        BY <2>3, <2>4, <4>1, <4>3
      <4>4. CASE i = PageSize + 1
        BY <2>5, <3>2, <4>1, <4>4
      <4> QED BY <4>2, <4>3, <4>4
    <3>5. CASE Before(Found[PageSize + 1], k)
      BY <2>5, <3>2, <3>3, <3>5 DEF Ordered
    <3> QED BY <1>2, <3>4, <3>5
  <2>7. \A i, j \in DOMAIN Shows : i < j => Before(Shows[i], Shows[j])
    <3>1. \A i \in DOMAIN Shows : i \in DOMAIN Found /\ Shows[i] = Found[i]
      BY <1>1, <1>3, <2>1, <2>3, <2>4
    <3> QED BY <1>2, <3>1
  <2> QED BY <1>4, <2>3, <2>5, <2>6, <2>7
<1>5. CASE ~More
  <2>1. Shows = Found
    BY <1>5 DEF Shows
  <2>2. Len(Found) # PageSize + 1
    <3>1. ~(Len(Found) > PageSize)
      BY <1>5 DEF More
    <3>2. \A n, m \in Nat : ~(n > m) => n # m + 1
      OBVIOUS
    <3> QED BY <1>1, <1>3, <3>1, <3>2
  <2> QED BY <1>2, <1>5, <2>1, <2>2
<1> QED BY <1>4, <1>5

\* What the next page does to the walk.
LEMMA PageOfWalk ==
  ASSUME IsWalk, ReadPage
  PROVE  /\ walk.state = "ready" /\ UNCHANGED <<nextId, rows, active, drafts, aliases, steady>>
         /\ walk'.query = walk.query /\ walk'.page = Shows /\ walk'.listed = walk.listed \o Shows
         /\ walk'.last = IF More THEN CursorOf(Found) ELSE <<>>
         /\ walk'.state \in {"label", "ready", "done"}
         /\ (walk'.state = "ready" => More) /\ (walk'.state = "done" => ~More)
         /\ walk' = [query |-> walk'.query, state |-> walk'.state, last |-> walk'.last,
                     page |-> walk'.page, listed |-> walk'.listed, labels |-> walk'.labels]
<1>1. /\ walk.state = "ready" /\ UNCHANGED <<nextId, rows, active, drafts, aliases, steady>>
      /\ walk' = [walk EXCEPT !.page = Shows, !.listed = @ \o Shows,
                    !.last = IF More THEN CursorOf(Found) ELSE <<>>,
                    !.state = IF walk.query \in {"history", "active"} THEN "label"
                              ELSE IF More THEN "ready" ELSE "done"]
  BY DEF ReadPage, Shows, More, Found, After
<1>2. walk' = [query |-> walk.query,
               state |-> IF walk.query \in {"history", "active"} THEN "label"
                         ELSE IF More THEN "ready" ELSE "done",
               last |-> IF More THEN CursorOf(Found) ELSE <<>>, page |-> Shows,
               listed |-> walk.listed \o Shows, labels |-> walk.labels]
  BY <1>1 DEF IsWalk
<1> QED BY <1>1, <1>2

\* Two places of c, which joins b to a, are both in a, one in each, or both in b.
Joins(c, a, b) ==
  /\ \A i, j \in DOMAIN c : i < j =>
       \/ i \in DOMAIN a /\ j \in DOMAIN a /\ c[i] = a[i] /\ c[j] = a[j]
       \/ i \in DOMAIN a /\ c[i] = a[i] /\ \E k \in DOMAIN b : c[j] = b[k]
       \/ \E k, l \in DOMAIN b : k < l /\ c[i] = b[k] /\ c[j] = b[l]
  /\ \A i \in DOMAIN a : i \in DOMAIN c /\ c[i] = a[i]
  /\ \A j \in DOMAIN b : \E i \in DOMAIN c : c[i] = b[j]
  /\ \A i \in DOMAIN c : \/ i \in DOMAIN a /\ c[i] = a[i]
                         \/ \E k \in DOMAIN b : c[i] = b[k]
  /\ b # <<>> => c # <<>> /\ c[Len(c)] = b[Len(b)]

\* What a concatenation consists of.
LEMMA JoinedPlaces ==
  ASSUME NEW S, NEW a \in Seq(S), NEW b \in Seq(S), NEW c, c = a \o b
  PROVE  c \in Seq(S) /\ Joins(c, a, b)
<1>1. /\ c \in Seq(S) /\ Len(c) = Len(a) + Len(b) /\ Len(a) \in Nat /\ Len(b) \in Nat
      /\ DOMAIN a = 1 .. Len(a) /\ DOMAIN b = 1 .. Len(b) /\ DOMAIN c = 1 .. Len(c)
      /\ \A i \in 1 .. Len(c) : c[i] = IF i <= Len(a) THEN a[i] ELSE b[i - Len(a)]
  BY ConcatProperties, LenProperties
<1>2. ASSUME NEW i \in DOMAIN c, NEW j \in DOMAIN c, i < j
      PROVE  \/ i \in DOMAIN a /\ j \in DOMAIN a /\ c[i] = a[i] /\ c[j] = a[j]
             \/ i \in DOMAIN a /\ c[i] = a[i] /\ \E k \in DOMAIN b : c[j] = b[k]
             \/ \E k, l \in DOMAIN b : k < l /\ c[i] = b[k] /\ c[j] = b[l]
  <2>1. CASE j <= Len(a)
    BY <1>1, <1>2, <2>1
  <2>2. CASE ~(j <= Len(a)) /\ i <= Len(a)
    <3>1. i \in DOMAIN a /\ j - Len(a) \in DOMAIN b /\ c[i] = a[i] /\ c[j] = b[j - Len(a)]
      BY <1>1, <1>2, <2>2
    <3> QED BY <3>1
  <2>3. CASE ~(i <= Len(a))
    <3>1. /\ i - Len(a) \in DOMAIN b /\ j - Len(a) \in DOMAIN b
          /\ c[i] = b[i - Len(a)] /\ c[j] = b[j - Len(a)] /\ i - Len(a) < j - Len(a)
      BY <1>1, <1>2, <2>3
    <3> QED BY <3>1
  <2> QED BY <2>1, <2>2, <2>3
<1>3. \A i \in DOMAIN a : i \in DOMAIN c /\ c[i] = a[i]
  BY <1>1
<1>4. ASSUME NEW j \in DOMAIN b
      PROVE  \E i \in DOMAIN c : c[i] = b[j]
  <2>1. j + Len(a) \in DOMAIN c /\ ~(j + Len(a) <= Len(a)) /\ j + Len(a) - Len(a) = j
    BY <1>1
  <2> QED BY <1>1, <2>1
<1>5. ASSUME NEW i \in DOMAIN c
      PROVE  \/ i \in DOMAIN a /\ c[i] = a[i]
             \/ \E k \in DOMAIN b : c[i] = b[k]
  <2>1. CASE i <= Len(a)
    BY <1>1, <2>1
  <2>2. CASE ~(i <= Len(a))
    <3>1. i - Len(a) \in DOMAIN b /\ c[i] = b[i - Len(a)]
      BY <1>1, <2>2
    <3> QED BY <3>1
  <2> QED BY <2>1, <2>2
<1>6. ASSUME b # <<>>
      PROVE  c # <<>> /\ c[Len(c)] = b[Len(b)]
  <2>1. Len(b) > 0
    BY <1>1, <1>6, EmptySeq
  <2>2. Len(c) \in 1 .. Len(c) /\ ~(Len(c) <= Len(a)) /\ Len(c) - Len(a) = Len(b)
    BY <1>1, <2>1
  <2>3. Len(c) # 0
    BY <1>1, <2>1
  <2> QED BY <1>1, <2>2, <2>3, EmptySeq
<1> QED BY <1>1, <1>2, <1>3, <1>4, <1>5, <1>6 DEF Joins

-----------------------------------------------------------------------------
(* The inductive step. *)

\* What importers and operators do leaves the walk alone.  Rows go out of the
\* steady ones when they are not listed any more, and aliases are only added.
Elsewhere ==
  /\ UNCHANGED walk
  /\ aliases \subseteq aliases'
  /\ \A x \in Query : steady'[x] \subseteq steady[x] \cap Listed(x)'

\* So a walk keeps its promise between its pages.
LEMMA ElsewhereKeeps == PagesInv /\ Elsewhere /\ IdsInv' => PagesInv'
<1> SUFFICES ASSUME PagesInv, Elsewhere, IdsInv' PROVE PagesInv'
  OBVIOUS
<1>1. IsWalk'
  BY DEF PagesInv, IsWalk, Elsewhere
<1>2. \A key : Shown(key)' <=> Shown(key)
  BY DEF Shown, Elsewhere
<1>3. SteadyIsShown'
  <2>1. \A x \in Query : steady'[x] \subseteq Listed(x)'
    BY DEF Elsewhere
  <2>2. ASSUME walk'.query \in Query, NEW key \in steady'[walk'.query]
        PROVE  /\ walk'.last # <<>> /\ ~Before(walk'.last, key) => Shown(key)'
               /\ walk'.last = <<>> /\ walk'.state \in {"label", "done"} => Shown(key)'
    <3>1. walk' = walk /\ key \in steady[walk.query] /\ walk.query \in Query
      BY <2>2 DEF Elsewhere
    <3> QED BY <1>2, <3>1 DEF PagesInv, SteadyIsShown
  <2> QED BY <2>1, <2>2 DEF SteadyIsShown
<1>4. ASSUME walk'.query # "none" PROVE WalkInOrder' /\ RowsOnlyRise'
  <2>1. walk' = walk /\ WalkInOrder /\ RowsOnlyRise
    BY <1>4 DEF Elsewhere, PagesInv
  <2>2. WalkInOrder'
    <3>1. Form(walk.query)' = Form(walk.query)
      BY <2>1 DEF Form
    <3> QED BY <2>1, <3>1 DEF WalkInOrder
  <2>3. ASSUME walk.query = "search", NEW i \in DOMAIN walk.listed, NEW m \in Model,
               m.id = walk.listed[i][3]
        PROVE  Rank(m, aliases') <= walk.listed[i][1]
    <3>1. Rank(m, aliases) <= walk.listed[i][1]
      BY <2>1, <2>3 DEF RowsOnlyRise
    <3>2. Rank(m, aliases') = Rank(m, aliases) \/ Rank(m, aliases') < Rank(m, aliases)
      BY ModelFields DEF Rank, Elsewhere
    <3>3. PICK r \in 0 .. 3 : r = Rank(m, aliases)
      BY ModelFields
    <3>4. PICK t \in 0 .. 3 : t = Rank(m, aliases')
      BY ModelFields
    <3>5. walk.listed[i] \in Form("search")
      BY <2>1, <2>3 DEF WalkInOrder
    <3>6. walk.listed[i][1] \in 0 .. 3
      BY <3>5 DEF Form
    <3> QED BY <3>1, <3>2, <3>3, <3>4, <3>6
  <2> QED BY <2>1, <2>2, <2>3 DEF RowsOnlyRise
<1> QED BY <1>1, <1>3, <1>4 DEF PagesInv

\* The next page goes on where the last one ended.
LEMMA ReadPageKeeps == PagesInv /\ ReadPage => PagesInv'
<1> SUFFICES ASSUME PagesInv, ReadPage PROVE PagesInv'
  OBVIOUS
<1> DEFINE q == walk.query
           L == walk.listed
           c == walk.listed \o Shows
<1>1. IdsInv /\ IsWalk /\ SteadyIsShown /\ walk.state = "ready"
  BY PageOfWalk DEF PagesInv
<1>2. q \in Query /\ WalkInOrder /\ RowsOnlyRise
  BY <1>1 DEF PagesInv, IsWalk
<1>3. Listed(q) \in SUBSET Form(q) /\ IsFiniteSet(Listed(q)) /\ Ordered(Form(q))
  BY <1>1, <1>2, ListingIsFinite, FormIsOrdered
<1>4. After \in SUBSET Listed(q) /\ After \in SUBSET Form(q)
  BY <1>3 DEF After
<1>5. IsFiniteSet(After) /\ Ordered(After)
  BY <1>3, <1>4, FS_Subset, PartIsOrdered
<1>6. /\ Shows \in Seq(After) /\ \A i, j \in DOMAIN Shows : i < j => Before(Shows[i], Shows[j])
      /\ More => /\ Shows # <<>> /\ CursorOf(Found) = Shows[Len(Shows)]
                 /\ \A k \in After : \/ \E i \in DOMAIN Shows : Shows[i] = k
                                     \/ Before(CursorOf(Found), k)
      /\ ~More => \A k \in After : \E i \in DOMAIN Shows : Shows[i] = k
  BY <1>5, PageIsFirst
<1>7. /\ UNCHANGED <<nextId, rows, active, drafts, aliases, steady>>
      /\ walk'.query = q /\ walk'.listed = c
      /\ walk'.last = IF More THEN CursorOf(Found) ELSE <<>>
      /\ walk'.state \in {"label", "ready", "done"}
      /\ (walk'.state = "ready" => More) /\ (walk'.state = "done" => ~More)
      /\ walk' = [query |-> walk'.query, state |-> walk'.state, last |-> walk'.last,
                  page |-> walk'.page, listed |-> walk'.listed, labels |-> walk'.labels]
  BY <1>1, PageOfWalk
<1>8. L \in Seq(Form(q)) /\ Shows \in Seq(Form(q))
  BY <1>2, <1>4, <1>6 DEF WalkInOrder
<1>9. /\ c \in Seq(Form(q))
      /\ \A i, j \in DOMAIN c : i < j =>
           \/ i \in DOMAIN L /\ j \in DOMAIN L /\ c[i] = L[i] /\ c[j] = L[j]
           \/ i \in DOMAIN L /\ c[i] = L[i] /\ \E k \in DOMAIN Shows : c[j] = Shows[k]
           \/ \E k, l \in DOMAIN Shows : k < l /\ c[i] = Shows[k] /\ c[j] = Shows[l]
      /\ \A i \in DOMAIN L : i \in DOMAIN c /\ c[i] = L[i]
      /\ \A j \in DOMAIN Shows : \E i \in DOMAIN c : c[i] = Shows[j]
      /\ \A i \in DOMAIN c : \/ i \in DOMAIN L /\ c[i] = L[i]
                             \/ \E k \in DOMAIN Shows : c[i] = Shows[k]
      /\ Shows # <<>> => c # <<>> /\ c[Len(c)] = Shows[Len(Shows)]
  <2> HIDE DEF L
  <2>1. c \in Seq(Form(q)) /\ Joins(c, L, Shows)
    BY <1>8, JoinedPlaces DEF L
  <2> HIDE DEF c
  <2> QED BY <2>1 DEF Joins
<1>10. \A k \in DOMAIN Shows : Shows[k] \in After
  BY <1>6
<1>11. \A i \in DOMAIN L : L[i] \in Form(q)
  BY <1>8
<1>12. ASSUME NEW i \in DOMAIN L, NEW k \in After
       PROVE  Before(L[i], k)
  <2>1. walk.last # <<>>
    <3>1. L # <<>>
      BY <1>8, <1>12
    <3> QED BY <1>1, <1>2, <3>1 DEF WalkInOrder
  <2>2. walk.last = L[Len(L)] /\ Len(L) \in DOMAIN L /\ (i < Len(L) \/ i = Len(L))
    <3>1. walk.last = L[Len(L)]
      BY <1>2, <2>1 DEF WalkInOrder
    <3>2. DOMAIN L = 1 .. Len(L) /\ Len(L) \in Nat
      BY <1>8
    <3> QED BY <1>12, <3>1, <3>2
  <2>3. L[i] = walk.last \/ Before(L[i], walk.last)
    BY <1>2, <2>2 DEF WalkInOrder
  <2>4. Before(walk.last, k)
    BY <2>1, <1>12 DEF After
  <2>5. L[i] \in Form(q) /\ walk.last \in Form(q) /\ k \in Form(q)
    BY <1>4, <1>11, <1>12, <2>2
  <2> QED BY <1>3, <2>3, <2>4, <2>5 DEF Ordered
<1>13. ASSUME NEW i \in DOMAIN c, NEW j \in DOMAIN c, i < j
       PROVE  Before(c[i], c[j]) /\ Id(c[i]) # Id(c[j])
  <2>1. CASE i \in DOMAIN L /\ j \in DOMAIN L /\ c[i] = L[i] /\ c[j] = L[j]
    BY <1>2, <1>13, <2>1 DEF WalkInOrder
  <2>2. CASE i \in DOMAIN L /\ c[i] = L[i] /\ \E k \in DOMAIN Shows : c[j] = Shows[k]
    <3>1. c[j] \in After /\ c[j] \in Listed(q)
      BY <1>4, <1>10, <2>2
    <3>2. Before(L[i], c[j])
      BY <1>12, <2>2, <3>1
    <3>3. Id(L[i]) # Id(c[j])
      BY <1>1, <1>2, <2>2, <3>1, <3>2, NeverShownAgain
    <3> QED BY <2>2, <3>2, <3>3
  <2>3. CASE \E k, l \in DOMAIN Shows : k < l /\ c[i] = Shows[k] /\ c[j] = Shows[l]
    <3>1. c[i] \in Listed(q) /\ c[j] \in Listed(q) /\ Before(c[i], c[j])
      BY <1>4, <1>6, <1>10, <2>3
    <3>2. c[i] # c[j]
      BY <1>3, <3>1 DEF Ordered
    <3> QED BY <1>1, <1>2, <3>1, <3>2, ListedOnce
  <2> QED BY <1>9, <1>13, <2>1, <2>2, <2>3
<1>14. \A k : (Shown(k) \/ \E i \in DOMAIN Shows : Shows[i] = k) => Shown(k)'
  <2> SUFFICES ASSUME NEW k, Shown(k) \/ \E i \in DOMAIN Shows : Shows[i] = k
               PROVE  \E i \in DOMAIN c : c[i] = k
    BY <1>7 DEF Shown
  <2>1. CASE Shown(k)
    BY <1>9, <2>1 DEF Shown
  <2>2. CASE \E i \in DOMAIN Shows : Shows[i] = k
    BY <1>9, <2>2
  <2> QED BY <2>1, <2>2
<1>20. ASSUME More PROVE CursorOf(Found) # <<>>
  <2>1. Len(Shows) \in DOMAIN Shows
    BY <1>6, <1>20, EmptySeq, LenProperties
  <2>2. CursorOf(Found) \in Form(q)
    BY <1>4, <1>6, <1>10, <1>20, <2>1
  <2> QED BY <1>2, <2>2, KeysHaveParts
<1> HIDE DEF c, L
<1>15. WalkInOrder'
  <2>1. walk'.listed \in Seq(Form(walk'.query))
    BY <1>7, <1>9
  <2>2. \A i, j \in DOMAIN walk'.listed : i < j => Before(walk'.listed[i], walk'.listed[j])
    BY <1>7, <1>13
  <2>3. \A i, j \in DOMAIN walk'.listed : i < j => Id(walk'.listed[i]) # Id(walk'.listed[j])
    BY <1>7, <1>13
  <2>4. walk'.last # <<>> => walk'.listed # <<>> /\ walk'.last = walk'.listed[Len(walk'.listed)]
    BY <1>6, <1>7, <1>9
  <2>5. ~(walk'.state = "ready" /\ walk'.last = <<>>)
    BY <1>7, <1>20
  <2> HIDE DEF q
  <2>6. Form(walk.query)' = Form(walk'.query)
    BY DEF Form
  <2> QED BY <2>1, <2>2, <2>3, <2>4, <2>5, <2>6 DEF WalkInOrder
<1>16. RowsOnlyRise'
  <2> SUFFICES ASSUME q = "search", NEW i \in DOMAIN c, NEW m \in Model, m.id = c[i][3]
               PROVE  Rank(m, aliases) <= c[i][1]
    BY <1>7 DEF RowsOnlyRise
  <2>1. CASE i \in DOMAIN L /\ c[i] = L[i]
    BY <1>2, <2>1 DEF RowsOnlyRise, L
  <2>2. CASE \E k \in DOMAIN Shows : c[i] = Shows[k]
    <3>1. c[i] \in Listed("search")
      BY <1>4, <1>10, <2>2
    <3>2. PICK n \in Model : c[i] = <<Rank(n, aliases), n.name, n.id>>
      BY <3>1 DEF Listed, Listing, Matching
    <3>3. m = n /\ c[i][1] = Rank(m, aliases)
      BY <3>2, ModelFields
    <3>4. PICK r \in 0 .. 3 : r = Rank(m, aliases)
      BY ModelFields
    <3> QED BY <3>3, <3>4
  <2> QED BY <1>9, <2>1, <2>2
<1>17. SteadyIsShown'
  <2>1. \A x \in Query : steady'[x] \subseteq Listed(x)'
    BY <1>1, <1>7 DEF SteadyIsShown, Listed
  <2>2. ASSUME NEW key \in steady[q]
        PROVE  /\ walk'.last # <<>> /\ ~Before(walk'.last, key) => Shown(key)'
               /\ walk'.last = <<>> => Shown(key)'
    <3>1. key \in Listed(q)
      BY <1>1, <1>2, <2>2 DEF SteadyIsShown
    <3>2. Shown(key) \/ key \in After
      <4>1. CASE walk.last = <<>> \/ Before(walk.last, key)
        BY <3>1, <4>1 DEF After
      <4>2. CASE walk.last # <<>> /\ ~Before(walk.last, key)
        BY <1>1, <1>2, <2>2, <4>2 DEF SteadyIsShown
      <4> QED BY <4>1, <4>2
    <3>3. CASE Shown(key)
      BY <1>14, <3>3
    <3>4. CASE key \in After /\ More
      <4>1. (\E i \in DOMAIN Shows : Shows[i] = key) \/ Before(CursorOf(Found), key)
        BY <1>6, <3>4
      <4>2. walk'.last = CursorOf(Found) /\ CursorOf(Found) # <<>>
        BY <1>7, <1>20, <3>4
      <4> QED BY <1>14, <4>1, <4>2
    <3>5. CASE key \in After /\ ~More
      BY <1>6, <1>14, <3>5
    <3> QED BY <3>2, <3>3, <3>4, <3>5
  <2> QED BY <1>7, <2>1, <2>2 DEF SteadyIsShown
<1>18. IdsInv'
  BY <1>1, <1>7 DEF IdsInv
<1>19. IsWalk'
  BY <1>2, <1>7, <1>1 DEF IsWalk, Query
<1> QED BY <1>15, <1>16, <1>17, <1>18, <1>19 DEF PagesInv

\* A new walk has shown nothing, and all that is listed is steady.
LEMMA StartWalkKeeps == ASSUME NEW q \in Query PROVE PagesInv /\ StartWalk(q) => PagesInv'
<1> SUFFICES ASSUME PagesInv, StartWalk(q) PROVE PagesInv'
  OBVIOUS
<1>1. /\ walk' = [query |-> q, state |-> "ready", last |-> <<>>, page |-> <<>>,
                  listed |-> <<>>, labels |-> {}]
      /\ steady' = [x \in Query |-> Listed(x)]
      /\ UNCHANGED <<nextId, rows, active, drafts, aliases>>
  BY DEF StartWalk
<1>2. /\ walk'.query = q /\ walk'.state = "ready" /\ walk'.last = <<>> /\ walk'.page = <<>>
      /\ walk'.listed = <<>> /\ walk'.labels = {}
  BY <1>1
<1>3. DOMAIN walk'.listed = {} /\ walk'.listed \in Seq(Form(q))
  BY <1>2, EmptySeq
<1>4. Form(walk.query)' = Form(q)
  BY <1>2 DEF Form
<1>5. WalkInOrder'
  BY <1>2, <1>3, <1>4 DEF WalkInOrder
<1>6. RowsOnlyRise'
  BY <1>3 DEF RowsOnlyRise
<1>7. IdsInv'
  BY <1>1 DEF PagesInv, IdsInv
<1>8. IsWalk'
  BY <1>1, <1>2 DEF IsWalk, Query
<1>9. SteadyIsShown'
  <2>1. \A x \in Query : steady'[x] \subseteq Listed(x)'
    BY <1>1 DEF Listed
  <2>2. walk'.last = <<>> /\ walk'.state \notin {"label", "done"}
    BY <1>2
  <2> QED BY <2>1, <2>2 DEF SteadyIsShown
<1> QED BY <1>5, <1>6, <1>7, <1>8, <1>9 DEF PagesInv

\* Labels do not touch what has been shown.
LEMMA LabelPageKeeps == PagesInv /\ LabelPage => PagesInv'
<1> SUFFICES ASSUME PagesInv, LabelPage PROVE PagesInv'
  OBVIOUS
<1>1. PICK labels : walk' = [walk EXCEPT !.labels = labels,
                               !.state = IF walk.last = <<>> THEN "done" ELSE "ready"]
  BY Zenon DEF LabelPage
<1>2. UNCHANGED <<nextId, rows, active, drafts, aliases, steady>> /\ walk.state = "label"
  BY DEF LabelPage
<1>3. IsWalk
  BY DEF PagesInv
<1>4. walk' = [query |-> walk.query, state |-> IF walk.last = <<>> THEN "done" ELSE "ready",
               last |-> walk.last, page |-> walk.page, listed |-> walk.listed, labels |-> labels]
  BY <1>1, <1>3 DEF IsWalk
<1>5. /\ walk'.query = walk.query /\ walk'.last = walk.last /\ walk'.listed = walk.listed
      /\ walk'.page = walk.page /\ walk'.labels = labels
      /\ walk'.state = IF walk.last = <<>> THEN "done" ELSE "ready"
  BY <1>4
<1>6. walk.query \in Query /\ walk.query # "none" /\ WalkInOrder /\ RowsOnlyRise
  BY <1>2, <1>3 DEF IsWalk, PagesInv
<1>7. WalkInOrder'
  <2>1. Form(walk.query)' = Form(walk.query)
    BY <1>5 DEF Form
  <2> QED BY <1>5, <1>6, <2>1 DEF WalkInOrder
<1>8. RowsOnlyRise'
  BY <1>2, <1>5, <1>6 DEF RowsOnlyRise
<1>9. IdsInv'
  BY <1>2 DEF PagesInv, IdsInv
<1>10. IsWalk'
  BY <1>4, <1>5, <1>6 DEF IsWalk
<1>11. SteadyIsShown'
  <2>1. \A x \in Query : steady'[x] \subseteq Listed(x)'
    BY <1>2 DEF PagesInv, SteadyIsShown, Listed
  <2>2. \A key : Shown(key)' <=> Shown(key)
    BY <1>5 DEF Shown
  <2>3. \A key \in steady[walk.query] :
          /\ walk.last # <<>> /\ ~Before(walk.last, key) => Shown(key)
          /\ walk.last = <<>> => Shown(key)
    BY <1>2, <1>6 DEF PagesInv, SteadyIsShown
  <2> QED BY <1>2, <1>5, <2>1, <2>2, <2>3 DEF SteadyIsShown
<1> QED BY <1>7, <1>8, <1>9, <1>10, <1>11 DEF PagesInv

\* Drafts get ids, and lose them when the import is rolled back.
LEMMA DraftsKeep ==
  ASSUME NEW s \in Source
  PROVE  PagesInv /\ (InsertRow(s) \/ RollbackImport(s)) => PagesInv'
<1> SUFFICES ASSUME PagesInv, InsertRow(s) \/ RollbackImport(s) PROVE PagesInv'
  OBVIOUS
<1>1. UNCHANGED <<rows, active, aliases, walk, steady>>
  BY DEF InsertRow, RollbackImport
<1>2. Elsewhere
  BY <1>1 DEF Elsewhere, Listed, PagesInv, SteadyIsShown
<1>3. IdsInv'
  <2>1. IdsInv
    BY DEF PagesInv
  <2>2. CASE InsertRow(s)
    <3>1. nextId' = nextId + 1 /\ drafts' = [drafts EXCEPT ![s] = @ \cup {nextId}]
      BY <2>2 DEF InsertRow
    <3>2. nextId' \in Nat /\ 0 .. nextId \subseteq 0 .. nextId' /\ nextId \in 0 .. nextId'
      BY <2>1, <3>1 DEF IdsInv
    <3>3. drafts' = [x \in Source |-> IF x = s THEN drafts[s] \cup {nextId} ELSE drafts[x]]
      BY <2>1, <3>1 DEF IdsInv
    <3>4. \A x \in Source : drafts'[x] \subseteq 0 .. nextId'
      BY <2>1, <3>2, <3>3 DEF IdsInv
    <3>5. drafts' = [x \in Source |-> drafts'[x]]
      BY <3>3
    <3>6. \A o \in rows' : o.id \in 0 .. nextId'
      BY <1>1, <2>1, <3>2 DEF IdsInv
    <3> QED BY <1>1, <2>1, <3>2, <3>4, <3>5, <3>6 DEF IdsInv
  <2>3. CASE RollbackImport(s)
    <3>1. nextId' = nextId /\ drafts' = [drafts EXCEPT ![s] = {}]
      BY <2>3 DEF RollbackImport
    <3>2. drafts' = [x \in Source |-> IF x = s THEN {} ELSE drafts[x]]
      BY <2>1, <3>1 DEF IdsInv
    <3> QED BY <1>1, <2>1, <3>1, <3>2 DEF IdsInv
  <2> QED BY <2>2, <2>3
<1> QED BY <1>2, <1>3, ElsewhereKeeps

\* Commits and the operator change the listings, and what is steady with them.
LEMMA ListingsKeep ==
  ASSUME NEW s \in Source
  PROVE  PagesInv /\ (CommitImport(s) \/ SelectSnapshot(s)) => PagesInv'
<1> SUFFICES ASSUME PagesInv, CommitImport(s) \/ SelectSnapshot(s) PROVE PagesInv'
  OBVIOUS
<1>1. IdsInv
  BY DEF PagesInv
<1>2. Changes /\ UNCHANGED <<nextId, walk>>
  BY DEF CommitImport, SelectSnapshot
<1>3. aliases \subseteq aliases'
  BY DEF CommitImport, SelectSnapshot
<1>4. \A x \in Query : steady'[x] = steady[x] \cap Listed(x)'
  BY <1>2 DEF Changes, Listed
<1>5. Elsewhere
  BY <1>2, <1>3, <1>4 DEF Elsewhere
<1>6. steady' = [q \in Query |-> steady'[q]]
  BY <1>2 DEF Changes
<1>7. IdsInv'
  <2>1. CASE CommitImport(s)
    <3>1. PICK n : rows' = rows \cup [id : drafts[s], source : {s}, snapshot : {n}]
      BY <2>1 DEF CommitImport
    <3>2. drafts' = [x \in Source |-> IF x = s THEN {} ELSE drafts[x]]
      BY <1>1, <2>1 DEF IdsInv, CommitImport
    <3>3. \A o \in rows' : o.id \in 0 .. nextId
      <4> TAKE o \in rows'
      <4>1. CASE o \in rows
        BY <1>1, <4>1 DEF IdsInv
      <4>2. CASE o \in [id : drafts[s], source : {s}, snapshot : {n}]
        BY <1>1, <4>2 DEF IdsInv
      <4> QED BY <3>1, <4>1, <4>2
    <3> QED BY <1>1, <1>2, <1>6, <3>2, <3>3 DEF IdsInv
  <2>2. CASE SelectSnapshot(s)
    BY <1>1, <1>2, <1>6, <2>2 DEF IdsInv, SelectSnapshot
  <2> QED BY <2>1, <2>2
<1> QED BY <1>5, <1>7, ElsewhereKeeps

\* The invariant of the walks holds in every behaviour.
THEOREM PagesInvariant == PagesSpec => []PagesInv
<1>1. PagesInit => PagesInv
  <2> SUFFICES ASSUME PagesInit PROVE PagesInv
    OBVIOUS
  <2>1. IdsInv
    BY DEF PagesInit, IdsInv
  <2>2. /\ walk.query = "none" /\ walk.state = "none" /\ walk.listed = <<>>
        /\ walk = [query |-> walk.query, state |-> walk.state, last |-> walk.last,
                   page |-> walk.page, listed |-> walk.listed, labels |-> walk.labels]
    BY DEF PagesInit
  <2>3. IsWalk
    BY <2>2 DEF IsWalk
  <2>4. SteadyIsShown
    BY <2>2 DEF PagesInit, SteadyIsShown, Query
  <2> QED BY <2>1, <2>2, <2>3, <2>4 DEF PagesInv
<1>2. PagesInv /\ [PagesNext]_pagesVars => PagesInv'
  <2> SUFFICES ASSUME PagesInv, [PagesNext]_pagesVars PROVE PagesInv'
    OBVIOUS
  <2>1. CASE \E s \in Source : InsertRow(s) \/ CommitImport(s) \/ RollbackImport(s) \/ SelectSnapshot(s)
    BY <2>1, DraftsKeep, ListingsKeep
  <2>2. CASE \E q \in Query : StartWalk(q)
    BY <2>2, StartWalkKeeps
  <2>3. CASE ReadPage
    BY <2>3, ReadPageKeeps
  <2>4. CASE LabelPage
    BY <2>4, LabelPageKeeps
  <2>5. CASE UNCHANGED pagesVars
    <3>1. UNCHANGED <<nextId, rows, active, drafts, aliases, walk, steady>>
      BY <2>5 DEF pagesVars
    <3>2. IdsInv'
      BY <3>1 DEF PagesInv, IdsInv
    <3>3. Elsewhere
      BY <3>1 DEF Elsewhere, Listed, PagesInv, SteadyIsShown
    <3> QED BY <3>2, <3>3, ElsewhereKeeps
  <2> QED BY <2>1, <2>2, <2>3, <2>4, <2>5 DEF PagesNext
<1> QED BY <1>1, <1>2, PTL DEF PagesSpec

\* For every set of models and of sources, every page size and any number of
\* observations: no walk shows a row twice, and one that ends has shown every
\* row that stayed listed (list_observations, _named_page, search_catalog).
THEOREM WalksAreComplete == PagesSpec => []WalkIsComplete
<1>1. PagesInv => WalkIsComplete
  <2> SUFFICES ASSUME PagesInv PROVE WalkIsComplete
    OBVIOUS
  <2>1. CASE walk.query = "none"
    <3>1. DOMAIN walk.listed = {} /\ walk.state # "done"
      BY <2>1, EmptySeq DEF PagesInv, IsWalk
    <3> QED BY <3>1 DEF WalkIsComplete
  <2>2. CASE walk.query # "none"
    <3>1. IsWalk /\ WalkInOrder /\ SteadyIsShown /\ walk.query \in Query
      BY <2>2 DEF PagesInv, IsWalk
    <3>2. ASSUME NEW i \in DOMAIN walk.listed, NEW j \in DOMAIN walk.listed,
                 Id(walk.listed[i]) = Id(walk.listed[j])
          PROVE  i = j
      <4>1. i \in Nat /\ j \in Nat
        BY <3>1, <3>2, LenProperties DEF WalkInOrder
      <4>2. ~(i < j) /\ ~(j < i)
        BY <3>1, <3>2 DEF WalkInOrder
      <4> QED BY <4>1, <4>2
    <3>3. ASSUME walk.state = "done", NEW key \in steady[walk.query]
          PROVE  Shown(key)
      <4>1. walk.last = <<>>
        BY <3>1, <3>3 DEF IsWalk
      <4> QED BY <3>1, <3>3, <4>1 DEF SteadyIsShown
    <3> QED BY <3>2, <3>3 DEF WalkIsComplete, Shown
  <2> QED BY <2>1, <2>2
<1> QED BY <1>1, PagesInvariant, PTL

-----------------------------------------------------------------------------
(* Sums over the categories. *)

At(f, c) == IF c \in DOMAIN f /\ f[c] # {} THEN CHOOSE n \in f[c] : TRUE ELSE 0

\* A sum grows with its terms, and is determined by them.
LEMMA TotalGrows ==
  ASSUME NEW f, NEW g, \A c \in Category : At(f, c) \in Nat /\ At(g, c) \in Nat
  PROVE  /\ (\A c \in Category : At(f, c) <= At(g, c)) => Total(f) <= Total(g)
         /\ (\A c \in Category : At(f, c) = At(g, c)) => Total(f) = Total(g)
<1>1. \A h : Total(h) = At(h, "input") + At(h, "output") + At(h, "reasoning") + At(h, "cache_read")
                        + At(h, "cache_write") + At(h, "cache_write_5m") + At(h, "cache_write_1h")
  BY DEF Total, At
<1>2. /\ {"input", "output", "reasoning", "cache_read"} \subseteq Category
      /\ {"cache_write", "cache_write_5m", "cache_write_1h"} \subseteq Category
  BY DEF Category
<1>3. PICK a1, a2, a3, a4, a5, a6, a7 \in Nat :
        /\ a1 = At(f, "input") /\ a2 = At(f, "output") /\ a3 = At(f, "reasoning")
        /\ a4 = At(f, "cache_read") /\ a5 = At(f, "cache_write")
        /\ a6 = At(f, "cache_write_5m") /\ a7 = At(f, "cache_write_1h")
  BY <1>2
<1>4. PICK b1, b2, b3, b4, b5, b6, b7 \in Nat :
        /\ b1 = At(g, "input") /\ b2 = At(g, "output") /\ b3 = At(g, "reasoning")
        /\ b4 = At(g, "cache_read") /\ b5 = At(g, "cache_write")
        /\ b6 = At(g, "cache_write_5m") /\ b7 = At(g, "cache_write_1h")
  BY <1>2
<1>5. ASSUME \A c \in Category : At(f, c) <= At(g, c)
      PROVE  Total(f) <= Total(g)
  <2>1. /\ a1 <= b1 /\ a2 <= b2 /\ a3 <= b3 /\ a4 <= b4 /\ a5 <= b5 /\ a6 <= b6 /\ a7 <= b7
    BY <1>2, <1>3, <1>4, <1>5
  <2>2. a1 + a2 + a3 + a4 + a5 + a6 + a7 <= b1 + b2 + b3 + b4 + b5 + b6 + b7
    BY <2>1
  <2> QED BY <1>1, <1>3, <1>4, <2>2
<1>6. ASSUME \A c \in Category : At(f, c) = At(g, c)
      PROVE  Total(f) = Total(g)
  BY <1>1, <1>2, <1>6
<1> QED BY <1>5, <1>6

-----------------------------------------------------------------------------
(* What an answer shows. *)

\* A provider's answer: every counter is what the provider means by it, or is
\* left out.
IsNative(u, p, t, fields) ==
  /\ u.basis = "native" /\ u.provider = p
  /\ u.tier \in {{}, {t.tier}} /\ u.model \in {{}, {t.model}}
  /\ u.input \in {{}, {IF p = "anthropic" THEN t.fresh ELSE Prompt(t)}}
  /\ u.output \in {{}, {IF p = "google" THEN t.visible ELSE t.visible + t.reasoning}}
  /\ u.reasoning \in {{}, {t.reasoning}} /\ u.read \in {{}, {t.read}}
  /\ p # "google" => u.write \in {{}, {t.write5 + t.write1}}
  /\ p = "openai" /\ "write" \notin fields => u.write = {t.write5 + t.write1}
  /\ p = "anthropic" => u.write5 \in {{}, {t.write5}} /\ u.write1 \in {{}, {t.write1}}

\* The runner's counters: also zero instead of left out.
IsNormalized(u, p, t) ==
  /\ u.basis = "opencode_normalized" /\ u.provider = p
  /\ u.input \in {{}, {0}, {t.fresh}} /\ u.output \in {{}, {0}, {t.visible}}
  /\ u.reasoning \in {{}, {0}, {t.reasoning}} /\ u.read \in {{}, {0}, {t.read}}
  /\ u.write \in {{}, {0}, {t.write5 + t.write1}}

\* These are all the answers there are, but for those of unknown origin.
LEMMA AnswersAre ==
  ASSUME NEW p \in Provider, NEW t \in Truths, NEW fields \in Hidden, NEW u \in Answers(p, t, fields)
  PROVE  IsNative(u, p, t, fields) \/ IsNormalized(u, p, t) \/ u.basis = "unreported"
<1>0. "basis" \notin fields /\ "provider" \notin fields
  BY ProvidersAreKnown
<1>1. CASE u = Without(Native(p, t), fields, {})
  <2> DEFINE w == Native(p, t)
  <2>1. DOMAIN w = {"basis", "provider", "tier", "model", "input", "output", "reasoning", "read",
                    "write", "write5", "write1", "total"}
    BY DEF Native
  <2>2. \A f \in DOMAIN w : u[f] = IF f \in fields THEN {} ELSE w[f]
    BY <1>1 DEF Without
  <2>3. u.basis = "native" /\ u.provider = p
    BY <1>0, <2>1, <2>2 DEF Native
  <2>4. /\ u.tier \in {{}, w.tier} /\ u.model \in {{}, w.model} /\ u.input \in {{}, w.input}
        /\ u.output \in {{}, w.output} /\ u.reasoning \in {{}, w.reasoning} /\ u.read \in {{}, w.read}
        /\ u.write \in {{}, w.write} /\ ("write" \notin fields => u.write = w.write)
        /\ u.write5 \in {{}, w.write5} /\ u.write1 \in {{}, w.write1}
    BY <2>1, <2>2
  <2>5. /\ w.tier = {t.tier} /\ w.model = {t.model} /\ w.reasoning = {t.reasoning} /\ w.read = {t.read}
        /\ w.input = {IF p = "anthropic" THEN t.fresh ELSE Prompt(t)}
        /\ w.output = {IF p = "google" THEN t.visible ELSE t.visible + t.reasoning}
        /\ (p # "google" => w.write = {t.write5 + t.write1})
        /\ (p = "anthropic" => w.write5 = {t.write5} /\ w.write1 = {t.write1})
    BY DEF Native
  <2> HIDE DEF w
  <2> QED BY <2>3, <2>4, <2>5 DEF IsNative
<1>2. CASE \E x \in {{}, {0}} :
             u = Without(Normalized(p, t), fields \cap {"input", "output", "reasoning", "read", "write"}, x)
  <2> DEFINE w == Normalized(p, t)
             hidden == fields \cap {"input", "output", "reasoning", "read", "write"}
  <2>1. PICK x \in {{}, {0}} : u = Without(w, hidden, x)
    BY <1>2
  <2>2. DOMAIN w = {"basis", "provider", "tier", "model", "input", "output", "reasoning", "read",
                    "write", "write5", "write1", "total"}
    BY DEF Normalized
  <2>3. \A f \in DOMAIN w : u[f] = IF f \in hidden THEN x ELSE w[f]
    BY <2>1 DEF Without
  <2>4. u.basis = "opencode_normalized" /\ u.provider = p
    BY <1>0, <2>2, <2>3 DEF Normalized
  <2>5. /\ u.input \in {{}, {0}, w.input} /\ u.output \in {{}, {0}, w.output}
        /\ u.reasoning \in {{}, {0}, w.reasoning} /\ u.read \in {{}, {0}, w.read}
        /\ u.write \in {{}, {0}, w.write}
    BY <2>2, <2>3
  <2>6. /\ w.input = {t.fresh} /\ w.output = {t.visible} /\ w.reasoning = {t.reasoning}
        /\ w.read = {t.read} /\ w.write = {t.write5 + t.write1}
    BY DEF Normalized
  <2> HIDE DEF w
  <2> QED BY <2>4, <2>5, <2>6 DEF IsNormalized
<1>3. CASE u = [Native(p, t) EXCEPT !.basis = "unreported"]
  BY <1>3 DEF Native
<1> QED BY <1>1, <1>2, <1>3 DEF Answers

-----------------------------------------------------------------------------
(* Categories of an answer against what was used. *)

\* Used, as a function of what it depends on.
Uses(t, p, basis) == Used([truth |-> t, provider |-> p, basis |-> basis])

\* The categories of what was used are counts.
LEMMA UsesAre ==
  ASSUME NEW t \in Truths, NEW p \in Provider, NEW basis
  PROVE  /\ {t.fresh, t.read, t.write5, t.write1, t.visible, t.reasoning} \subseteq Nat
         /\ \A c \in Category : Uses(t, p, basis)[c] \in Nat
         /\ Uses(t, p, basis).input = t.fresh /\ Uses(t, p, basis).cache_read = t.read
         /\ basis = "opencode_normalized" =>
              /\ Uses(t, p, basis).reasoning = t.reasoning /\ Uses(t, p, basis).output = t.visible
              /\ Uses(t, p, basis).cache_write = t.write5 + t.write1
         /\ basis = "native" =>
              /\ p = "google" => /\ Uses(t, p, basis).reasoning = t.reasoning
                                 /\ Uses(t, p, basis).output = t.visible
              /\ p # "google" => /\ Uses(t, p, basis).reasoning = 0
                                 /\ Uses(t, p, basis).output = t.visible + t.reasoning
              /\ p = "anthropic" => /\ Uses(t, p, basis).cache_write = 0
                                    /\ Uses(t, p, basis).cache_write_5m = t.write5
                                    /\ Uses(t, p, basis).cache_write_1h = t.write1
              /\ t.write5 + t.write1 = 0 => /\ Uses(t, p, basis).cache_write = 0
                                            /\ Uses(t, p, basis).cache_write_5m = 0
                                            /\ Uses(t, p, basis).cache_write_1h = 0
<1> DEFINE thinking == IF basis = "opencode_normalized" \/ p = "google" THEN t.reasoning ELSE 0
           writes == IF p = "anthropic" /\ basis = "native" THEN 0 ELSE t.write5 + t.write1
           w == Uses(t, p, basis)
<1>1. {t.fresh, t.read, t.write5, t.write1, t.visible, t.reasoning} \subseteq Nat
  BY TruthsAreCounts
<1>2. /\ w.input = t.fresh /\ w.cache_read = t.read /\ w.reasoning = thinking
      /\ w.output = t.visible + t.reasoning - thinking /\ w.cache_write = writes
      /\ w.cache_write_5m = IF writes = 0 THEN t.write5 ELSE 0
      /\ w.cache_write_1h = IF writes = 0 THEN t.write1 ELSE 0
  BY DEF Uses, Used
<1>3. /\ thinking \in {0, t.reasoning} /\ writes \in {0, t.write5 + t.write1}
      /\ (basis = "opencode_normalized" => thinking = t.reasoning /\ writes = t.write5 + t.write1)
      /\ (basis = "native" /\ p = "google" => thinking = t.reasoning)
      /\ (basis = "native" /\ p # "google" => thinking = 0)
      /\ (basis = "native" /\ p = "anthropic" => writes = 0)
  OBVIOUS
<1> HIDE DEF w, thinking, writes
<1>4. \A c \in Category : w[c] \in Nat
  <2>1. /\ w.input \in Nat /\ w.cache_read \in Nat /\ w.reasoning \in Nat /\ w.output \in Nat
        /\ w.cache_write \in Nat /\ w.cache_write_5m \in Nat /\ w.cache_write_1h \in Nat
    BY <1>1, <1>2, <1>3
  <2> QED BY <2>1 DEF Category
<1>5. w.output = (IF thinking = t.reasoning THEN t.visible ELSE t.visible + t.reasoning)
  BY <1>1, <1>2, <1>3
<1>6. t.write5 + t.write1 = 0 => t.write5 = 0 /\ t.write1 = 0 /\ writes = 0
  BY <1>1, <1>3
<1>7. (thinking = 0 => w.output = t.visible + t.reasoning)
  BY <1>1, <1>2
<1> QED BY <1>1, <1>2, <1>3, <1>4, <1>5, <1>6, <1>7 DEF w

\* What is counted from a provider's answer is what was used, or unknown; if
\* nothing is unknown, nothing else was used.
LEMMA NativeCounts ==
  ASSUME NEW t \in Truths, NEW p \in Provider, NEW fields \in Hidden,
         WritesAreReported(p, t, fields), NEW u, IsNative(u, p, t, fields)
  PROVE  /\ DOMAIN Counts(u) \subseteq Category
         /\ \A c \in DOMAIN Counts(u) : Counts(u)[c] \in {{}, {Uses(t, p, "native")[c]}}
         /\ (\A c \in DOMAIN Counts(u) : Counts(u)[c] # {}) =>
              \A c \in Category \ DOMAIN Counts(u) : Uses(t, p, "native")[c] = 0
<1> DEFINE w == Uses(t, p, "native")
           k == Counts(u)
           writes == t.write5 + t.write1
<1>1. /\ t.fresh \in Nat /\ t.read \in Nat /\ t.write5 \in Nat /\ t.write1 \in Nat
      /\ t.visible \in Nat /\ t.reasoning \in Nat
  BY UsesAre
<1>2. u.basis # "opencode_normalized" /\ u.provider = p
  BY DEF IsNative
<1>3. CASE p = "anthropic"
  <2>1. k = [input |-> u.input, output |-> u.output, cache_read |-> u.read,
             cache_write_5m |-> IF u.write = {0} THEN {0} ELSE u.write5,
             cache_write_1h |-> IF u.write = {0} THEN {0} ELSE u.write1]
    BY <1>2, <1>3 DEF Counts, FreshInput
  <2>2. /\ w.input = t.fresh /\ w.output = t.visible + t.reasoning /\ w.cache_read = t.read
        /\ w.cache_write_5m = t.write5 /\ w.cache_write_1h = t.write1
        /\ w.cache_write = 0 /\ w.reasoning = 0
    BY <1>3, UsesAre
  <2>3. u.write = {0} => t.write5 = 0 /\ t.write1 = 0
    <3>1. ASSUME u.write = {0} PROVE writes = 0
      <4>1. u.write \in {{}, {writes}}
        BY <1>3 DEF IsNative
      <4> QED BY <3>1, <4>1
    <3> QED BY <1>1, <3>1
  <2>4. /\ u.input \in {{}, {w.input}} /\ u.output \in {{}, {w.output}} /\ u.read \in {{}, {w.cache_read}}
        /\ u.write5 \in {{}, {w.cache_write_5m}} /\ u.write1 \in {{}, {w.cache_write_1h}}
    BY <1>3, <2>2 DEF IsNative
  <2>5. /\ DOMAIN k = {"input", "output", "cache_read", "cache_write_5m", "cache_write_1h"}
        /\ k.input = u.input /\ k.output = u.output /\ k.cache_read = u.read
        /\ k.cache_write_5m = (IF u.write = {0} THEN {0} ELSE u.write5)
        /\ k.cache_write_1h = (IF u.write = {0} THEN {0} ELSE u.write1)
    BY <2>1
  <2> HIDE DEF w, k
  <2>6. \A c \in DOMAIN k : k[c] \in {{}, {w[c]}}
    BY <2>2, <2>3, <2>4, <2>5
  <2>7. \A c \in Category \ DOMAIN k : w[c] = 0
    BY <2>2, <2>5 DEF Category
  <2>8. DOMAIN k \subseteq Category
    BY <2>5 DEF Category
  <2> QED BY <2>6, <2>7, <2>8 DEF w, k
<1>4. ASSUME p # "anthropic", writes = 0
      PROVE  FreshInput(u) \in {{}, {w.input}}
  <2>1. Prompt(t) = t.fresh + t.read
    BY <1>1, <1>4 DEF Prompt
  <2>2. u.input \in {{}, {t.fresh + t.read}} /\ u.read \in {{}, {t.read}}
    BY <1>4, <2>1 DEF IsNative
  <2>3. FreshInput(u) = {i - r : i \in u.input, r \in u.read}
    BY <1>2, <1>4 DEF FreshInput
  <2>4. w.input = t.fresh
    BY UsesAre
  <2>5. t.fresh + t.read - t.read = t.fresh
    BY <1>1
  <2>6. CASE u.input = {} \/ u.read = {}
    BY <2>3, <2>6
  <2>7. CASE u.input = {t.fresh + t.read} /\ u.read = {t.read}
    <3>1. FreshInput(u) = {t.fresh + t.read - t.read}
      <4>1. {i - r : i \in {t.fresh + t.read}, r \in {t.read}} = {t.fresh + t.read - t.read}
        BY <1>1
      <4>2. {i - r : i \in u.input, r \in u.read}
              = {i - r : i \in {t.fresh + t.read}, r \in {t.read}}
        BY <2>7
      <4> QED BY <2>3, <4>1, <4>2
    <3> QED BY <2>4, <2>5, <3>1
  <2> QED BY <2>2, <2>6, <2>7
<1>5. CASE p = "google"
  <2>0. writes = 0
    BY <1>1, <1>5 DEF WritesAreReported
  <2>1. k = [input |-> FreshInput(u), output |-> u.output, cache_read |-> u.read,
             reasoning |-> u.reasoning]
    BY <1>2, <1>5 DEF Counts
  <2>2. /\ w.output = t.visible /\ w.cache_read = t.read /\ w.reasoning = t.reasoning
        /\ w.cache_write = 0 /\ w.cache_write_5m = 0 /\ w.cache_write_1h = 0
    BY <1>5, <2>0, UsesAre
  <2>3. /\ u.output \in {{}, {w.output}} /\ u.read \in {{}, {w.cache_read}}
        /\ u.reasoning \in {{}, {w.reasoning}} /\ FreshInput(u) \in {{}, {w.input}}
    BY <1>4, <1>5, <2>0, <2>2 DEF IsNative
  <2>4. /\ DOMAIN k = {"input", "output", "cache_read", "reasoning"}
        /\ k.input = FreshInput(u) /\ k.output = u.output /\ k.cache_read = u.read
        /\ k.reasoning = u.reasoning
    BY <2>1
  <2> HIDE DEF w, k
  <2>5. \A c \in DOMAIN k : k[c] \in {{}, {w[c]}}
    BY <2>3, <2>4
  <2>6. \A c \in Category \ DOMAIN k : w[c] = 0
    BY <2>2, <2>4 DEF Category
  <2>7. DOMAIN k \subseteq Category
    BY <2>4 DEF Category
  <2> QED BY <2>5, <2>6, <2>7 DEF w, k
<1>6. CASE p = "openai"
  <2>1. k = [input |-> IF u.write \in {{}, {0}} THEN FreshInput(u) ELSE {},
             output |-> u.output, cache_read |-> u.read]
    BY <1>2, <1>6 DEF Counts
  <2>2. u.write \in {{}, {0}} => writes = 0
    <3>1. CASE "write" \in fields
      BY <1>1, <1>6, <3>1 DEF WritesAreReported
    <3>2. CASE "write" \notin fields
      <4>1. u.write = {writes}
        BY <1>6, <3>2 DEF IsNative
      <4> QED BY <4>1
    <3> QED BY <3>1, <3>2
  <2>3. w.output = t.visible + t.reasoning /\ w.cache_read = t.read /\ w.reasoning = 0
    BY <1>6, UsesAre
  <2>4. /\ u.output \in {{}, {w.output}} /\ u.read \in {{}, {w.cache_read}}
    BY <1>6, <2>3 DEF IsNative
  <2>5. /\ DOMAIN k = {"input", "output", "cache_read"}
        /\ k.input = (IF u.write \in {{}, {0}} THEN FreshInput(u) ELSE {})
        /\ k.output = u.output /\ k.cache_read = u.read
    BY <2>1
  <2>6. writes = 0 => w.cache_write = 0 /\ w.cache_write_5m = 0 /\ w.cache_write_1h = 0
    BY UsesAre
  <2>7. k.input \in {{}, {w.input}} /\ (k.input # {} => writes = 0)
    <3>1. CASE u.write \in {{}, {0}}
      BY <1>4, <1>6, <2>2, <2>5, <3>1
    <3>2. CASE u.write \notin {{}, {0}}
      BY <2>5, <3>2
    <3> QED BY <3>1, <3>2
  <2> HIDE DEF w, k, writes
  <2>8. \A c \in DOMAIN k : k[c] \in {{}, {w[c]}}
    BY <2>4, <2>5, <2>7
  <2>9. (\A c \in DOMAIN k : k[c] # {}) => \A c \in Category \ DOMAIN k : w[c] = 0
    BY <2>3, <2>5, <2>6, <2>7 DEF Category
  <2>10. DOMAIN k \subseteq Category
    BY <2>5 DEF Category
  <2> QED BY <2>8, <2>9, <2>10 DEF w, k
<1> QED BY <1>3, <1>5, <1>6 DEF Provider

\* What is counted from the runner's events is what was used, zero or unknown.
LEMMA NormalizedCounts ==
  ASSUME NEW t \in Truths, NEW p \in Provider, NEW u, IsNormalized(u, p, t)
  PROVE  /\ DOMAIN Counts(u) \subseteq Category
         /\ \A c \in DOMAIN Counts(u) :
              Counts(u)[c] \in {{}, {0}, {Uses(t, p, "opencode_normalized")[c]}}
<1> DEFINE w == Uses(t, p, "opencode_normalized")
           k == Counts(u)
<1>1. k = [input |-> u.input, output |-> u.output, reasoning |-> u.reasoning,
           cache_read |-> u.read, cache_write |-> u.write]
  BY DEF Counts, IsNormalized
<1>2. /\ w.input = t.fresh /\ w.output = t.visible /\ w.reasoning = t.reasoning
      /\ w.cache_read = t.read /\ w.cache_write = t.write5 + t.write1
  BY UsesAre
<1>3. /\ DOMAIN k = {"input", "output", "reasoning", "cache_read", "cache_write"}
      /\ k.input = u.input /\ k.output = u.output /\ k.reasoning = u.reasoning
      /\ k.cache_read = u.read /\ k.cache_write = u.write
  BY <1>1
<1>4. /\ u.input \in {{}, {0}, {w.input}} /\ u.output \in {{}, {0}, {w.output}}
      /\ u.reasoning \in {{}, {0}, {w.reasoning}} /\ u.read \in {{}, {0}, {w.cache_read}}
      /\ u.write \in {{}, {0}, {w.cache_write}}
  BY <1>2 DEF IsNormalized
<1> HIDE DEF w, k
<1>5. \A c \in DOMAIN k : k[c] \in {{}, {0}, {w[c]}}
  BY <1>3, <1>4
<1>6. DOMAIN k \subseteq Category
  BY <1>3 DEF Category
<1> QED BY <1>5, <1>6 DEF w, k

-----------------------------------------------------------------------------
(* The price of an answer. *)

Charged(c, used, prices) == IF c \in DOMAIN prices THEN prices[c] * used ELSE 0

Kept(c, prices, kept) ==
  /\ c \in DOMAIN prices => prices[c] \in Nat
  /\ DOMAIN kept \subseteq DOMAIN prices /\ \A d \in DOMAIN kept : kept[d] = prices[d]

PaidRight(count, c, used, prices, kept) ==
  /\ Charged(c, used, prices) \in Nat
  /\ Cost(count, c, kept) # {} => \E n \in Nat : Cost(count, c, kept) = {n} /\ n <= Charged(c, used, prices)
  /\ Cost(count, c, kept) # {} /\ count = {used} =>
       Cost(count, c, kept) = {Charged(c, used, prices)} /\ (used > 0 => c \in DOMAIN prices)
  /\ Cost({}, c, kept) = {}

\* A price of one category is at most what the tariff charges for its use; it
\* is all of that when the count is right.
LEMMA Paid ==
  \A used \in Nat : \A count \in {{}, {0}, {used}} : \A c, prices, kept :
    Kept(c, prices, kept) => PaidRight(count, c, used, prices, kept)
<1> SUFFICES ASSUME NEW used \in Nat, NEW count \in {{}, {0}, {used}}, NEW c, NEW prices, NEW kept,
                    c \in DOMAIN prices => prices[c] \in Nat,
                    DOMAIN kept \subseteq DOMAIN prices, \A d \in DOMAIN kept : kept[d] = prices[d]
             PROVE  PaidRight(count, c, used, prices, kept)
  BY DEF Kept
<1> DEFINE charge == Charged(c, used, prices)
           cost == Cost(count, c, kept)
<1>1. c \in DOMAIN prices => prices[c] * used \in Nat /\ used * prices[c] = prices[c] * used
  <2>1. \A m, n \in Nat : m * n \in Nat /\ n * m = m * n
    OBVIOUS
  <2> QED BY <2>1
<1>2. charge \in Nat
  BY <1>1 DEF Charged
<1>3. Cost({}, c, kept) = {}
  BY DEF Cost
<1>4. used = 0 => charge = 0
  <2>1. \A m \in Nat : m * 0 = 0
    OBVIOUS
  <2> QED BY <2>1 DEF Charged
<1>5. CASE count = {0}
  <2>1. cost = {0}
    BY <1>5 DEF Cost
  <2>2. 0 <= charge /\ 0 \in Nat
    BY <1>2
  <2>3. count = {used} => used = 0
    BY <1>5
  <2>4. used = 0 => ~(used > 0)
    OBVIOUS
  <2> HIDE DEF charge
  <2> QED BY <1>2, <1>3, <1>4, <2>1, <2>2, <2>3, <2>4 DEF charge, PaidRight
<1>6. CASE count = {used} /\ used # 0
  <2>1. cost = {n * kept[c] : n \in {x \in {used} : x >= 0 /\ c \in DOMAIN kept}}
    BY <1>6 DEF Cost
  <2>2. CASE c \in DOMAIN kept
    <3>1. cost = {used * kept[c]}
      BY <2>1, <2>2
    <3>2. kept[c] = prices[c] /\ c \in DOMAIN prices
      BY <2>2
    <3>3. cost = {charge} /\ charge <= charge
      BY <1>1, <1>2, <3>1, <3>2 DEF Charged
    <3> QED BY <1>2, <1>3, <3>2, <3>3 DEF PaidRight
  <2>3. CASE c \notin DOMAIN kept
    <3>1. cost = {}
      BY <2>1, <2>3
    <3> QED BY <1>2, <1>3, <3>1 DEF PaidRight
  <2> QED BY <2>2, <2>3
<1>7. CASE count = {}
  BY <1>2, <1>3, <1>7 DEF PaidRight
<1> QED BY <1>5, <1>6, <1>7

\* An answer that determines a tier determines the right one.
LEMMA TierIsRight ==
  ASSUME NEW t \in Truths, NEW p \in Provider, NEW fields \in Hidden,
         NEW u \in Answers(p, t, fields), NEW s \in Schedules,
         IsNative(u, p, t, fields) \/ IsNormalized(u, p, t), Tier(u, s) # {}
  PROVE  Tier(u, s) = TierOf(s.tiers, {Prompt(t)})
<1>1. CASE Len(s.tiers) = 1
  BY <1>1 DEF Tier, TierOf
<1>2. CASE Len(s.tiers) # 1
  <2>1. TierOf(s.tiers, {}) = {}
    BY <1>2 DEF TierOf
  <2>2. u.basis = "native"
    BY <2>1 DEF Tier, IsNormalized
  <2>3. Tier(u, s) = TierOf(s.tiers, Context(u)) /\ Context(u) # {}
    BY <2>1, <2>2 DEF Tier
  <2>4. IsNative(u, p, t, fields)
    BY <2>2 DEF IsNormalized
  <2>5. CASE p = "anthropic"
    <3>1. Context(u) = Plus(u.input, Plus(u.read, u.write))
      BY <2>4, <2>5 DEF Context, IsNative
    <3>2. u.input # {} /\ u.read # {} /\ u.write # {}
      BY <2>3, <3>1 DEF Plus
    <3>3. u.input = {t.fresh} /\ u.read = {t.read} /\ u.write = {t.write5 + t.write1}
      BY <2>4, <2>5, <3>2 DEF IsNative
    <3>4. Plus(u.read, u.write) = {t.read + (t.write5 + t.write1)}
      BY <3>3 DEF Plus
    <3>5. Context(u) = {t.fresh + (t.read + (t.write5 + t.write1))}
      BY <3>1, <3>3, <3>4 DEF Plus
    <3>6. t.fresh + (t.read + (t.write5 + t.write1)) = Prompt(t)
      BY TruthsAreCounts DEF Prompt
    <3> QED BY <2>3, <3>5, <3>6
  <2>6. CASE p # "anthropic"
    <3>1. Context(u) = u.input /\ u.input = {Prompt(t)}
      BY <2>3, <2>4, <2>6 DEF Context, IsNative
    <3> QED BY <2>3, <3>1
  <2> QED BY <2>5, <2>6
<1> QED BY <1>1, <1>2

\* The rates of a tier are prices of categories.
LEMMA RatesArePrices ==
  ASSUME NEW s \in Schedules, NEW context, NEW tier \in TierOf(s.tiers, context)
  PROVE  \A c \in DOMAIN tier.rates : c \in Category /\ tier.rates[c] \in Nat
<1>1. PICK i \in DOMAIN s.tiers : tier = s.tiers[i]
  <2>1. CASE Len(s.tiers) = 1
    BY <2>1, SchedulesAreOrdered DEF TierOf
  <2>2. CASE Len(s.tiers) # 1
    BY <2>2 DEF TierOf
  <2> QED BY <2>1, <2>2
<1> QED BY <1>1, SchedulesAreOrdered

Pinned(pinned) == CHOOSE r \in pinned : TRUE
Rates(u, pinned) == (CHOOSE t \in Tier(u, Pinned(pinned).schedule) : TRUE).rates
Costs(u, pinned) ==
  [c \in DOMAIN Counts(u) |-> Cost(Counts(u)[c], c, Tariff(u, Rates(u, pinned)))]

\* What it takes to get a price.
LEMMA EstimateKnows ==
  ASSUME NEW u, NEW pinned, NEW expected, NEW cost \in Estimate(u, pinned, expected).known
  PROVE  /\ u.basis # "unreported" /\ pinned # {}
         /\ \A r \in pinned :
              /\ r.schedule.tier = "all" \/ (u.basis = "native" /\ u.tier = {r.schedule.tier})
              /\ Tier(u, r.schedule) # {}
         /\ u.basis = "native" => u.model = {expected}
         /\ cost = Total(Costs(u, pinned))
         /\ Estimate(u, pinned, expected).status = "complete" =>
              u.basis = "native" /\ \A c \in DOMAIN Counts(u) : Costs(u, pinned)[c] # {}
<1> DEFINE refused == \/ u.basis = "unreported" \/ pinned = {}
                      \/ \E r \in pinned :
                           \/ r.schedule.tier # "all" /\ (u.basis # "native" \/ u.tier # {r.schedule.tier})
                           \/ Tier(u, r.schedule) = {}
                      \/ u.basis = "native" /\ u.model # {expected}
           counts == Counts(u)
           costs == Costs(u, pinned)
           all == \A c \in DOMAIN counts : counts[c] # {}
           complete == /\ u.basis = "native"
                       /\ \A c \in DOMAIN costs : costs[c] # {}
                       /\ u.basis = "native" /\ all => u.total \in {{}, {Total(counts)}}
           useful == \E c \in DOMAIN costs : costs[c] # {} /\ counts[c] # {0}
           e == Estimate(u, pinned, expected)
<1>1. e = IF refused THEN Unavailable
          ELSE CASE complete -> [status |-> "complete", known |-> {Total(costs)}]
                 [] ~complete /\ useful -> [status |-> "partial", known |-> {Total(costs)}]
                 [] OTHER -> Unavailable
  BY DEF Estimate, Costs, Rates, Pinned
<1>2. Unavailable.known = {}
  BY DEF Unavailable
<1>3. DOMAIN costs = DOMAIN counts
  BY DEF Costs
<1>4. complete => u.basis = "native" /\ \A c \in DOMAIN costs : costs[c] # {}
  OBVIOUS
<1> HIDE DEF complete, useful, costs, counts, e
<1>5. ~refused
  BY <1>1, <1>2 DEF e
<1>6. \/ complete /\ e = [status |-> "complete", known |-> {Total(costs)}]
      \/ e = [status |-> "partial", known |-> {Total(costs)}]
  <2> HIDE DEF refused
  <2>1. e # Unavailable
    BY <1>2 DEF e
  <2> QED BY <1>1, <1>5, <2>1
<1>7. cost = Total(costs) /\ (e.status = "complete" => complete)
  BY <1>6 DEF e
<1> QED BY <1>3, <1>4, <1>5, <1>7 DEF e, costs, counts

\* The price of a report is true of the run it is about.
TrueOf(t, p, basis, pinned, billing) ==
  \A cost \in billing.known :
    \E r \in pinned :
      LET tariff == (CHOOSE tier \in TierOf(r.schedule.tiers, {Prompt(t)}) : TRUE).rates
          charge == Total([c \in Category |->
                       {IF c \in DOMAIN tariff THEN tariff[c] * Uses(t, p, basis)[c] ELSE 0}])
      IN /\ r.schedule.tier \in {"all", t.tier}
         /\ basis = "native" => t.model = "selected"
         /\ cost <= charge
         /\ billing.status = "complete" =>
              /\ cost = charge /\ basis = "native"
              /\ \A c \in Category : Uses(t, p, basis)[c] > 0 => c \in DOMAIN tariff

\* Whatever the answer left out, the estimate is true.
LEMMA EstimateIsTrue ==
  ASSUME NEW t \in Truths, NEW p \in Provider, NEW fields \in Hidden, WritesAreReported(p, t, fields),
         NEW u \in Answers(p, t, fields), NEW pinned, \A r \in pinned : r.schedule \in Schedules
  PROVE  TrueOf(t, p, u.basis, pinned, Estimate(u, pinned, "selected"))
<1> DEFINE e == Estimate(u, pinned, "selected")
           r == Pinned(pinned)
           tariff == (CHOOSE tier \in TierOf(r.schedule.tiers, {Prompt(t)}) : TRUE).rates
           w == Uses(t, p, u.basis)
           term(c) == Charged(c, w[c], tariff)
           charges == [c \in Category |-> {term(c)}]
           costs == Costs(u, pinned)
           k == Counts(u)
           kept == Tariff(u, Rates(u, pinned))
<1> SUFFICES ASSUME NEW cost \in e.known
             PROVE  /\ r \in pinned /\ r.schedule.tier \in {"all", t.tier}
                    /\ u.basis = "native" => t.model = "selected"
                    /\ cost <= Total(charges)
                    /\ e.status = "complete" =>
                         /\ cost = Total(charges) /\ u.basis = "native"
                         /\ \A c \in Category : w[c] > 0 => c \in DOMAIN tariff
  BY DEF TrueOf, Charged
<1>1. /\ u.basis # "unreported" /\ pinned # {}
      /\ \A x \in pinned :
           /\ x.schedule.tier = "all" \/ (u.basis = "native" /\ u.tier = {x.schedule.tier})
           /\ Tier(u, x.schedule) # {}
      /\ u.basis = "native" => u.model = {"selected"}
      /\ cost = Total(costs)
      /\ e.status = "complete" => u.basis = "native" /\ \A c \in DOMAIN k : costs[c] # {}
  BY EstimateKnows
<1>2. r \in pinned /\ r.schedule \in Schedules
  BY <1>1 DEF Pinned
<1>3. IsNative(u, p, t, fields) \/ IsNormalized(u, p, t)
  BY <1>1, AnswersAre
<1>4. u.basis \in {"native", "opencode_normalized"}
  BY <1>3 DEF IsNative, IsNormalized
<1>5. r.schedule.tier \in {"all", t.tier} /\ (u.basis = "native" => t.model = "selected")
  <2>1. CASE u.basis = "native"
    <3>1. IsNative(u, p, t, fields)
      BY <1>3, <2>1 DEF IsNormalized
    <3>2. u.tier \in {{}, {t.tier}} /\ u.model \in {{}, {t.model}}
      BY <3>1 DEF IsNative
    <3> QED BY <1>1, <1>2, <2>1, <3>2
  <2>2. CASE u.basis # "native"
    BY <1>1, <1>2, <2>2
  <2> QED BY <2>1, <2>2
<1>6. Tier(u, r.schedule) = TierOf(r.schedule.tiers, {Prompt(t)}) /\ Tier(u, r.schedule) # {}
  <2>1. Tier(u, r.schedule) # {}
    BY <1>1, <1>2
  <2>2. PICK s \in Schedules : s = r.schedule
    BY <1>2
  <2>3. Tier(u, s) = TierOf(s.tiers, {Prompt(t)})
    <3>1. IsNative(u, p, t, fields) \/ IsNormalized(u, p, t)
      BY <1>3
    <3>2. Tier(u, s) # {}
      BY <2>1, <2>2
    <3> QED BY <3>1, <3>2, TierIsRight
  <2> QED BY <2>1, <2>2, <2>3
<1>7. Rates(u, pinned) = tariff
  BY <1>6 DEF Rates
<1>8. \A c \in DOMAIN tariff : c \in Category /\ tariff[c] \in Nat
  <2>1. (CHOOSE tier \in TierOf(r.schedule.tiers, {Prompt(t)}) : TRUE) \in TierOf(r.schedule.tiers, {Prompt(t)})
    BY <1>6
  <2> QED BY <1>2, <2>1, RatesArePrices
<1> HIDE DEF tariff, r, w, e
<1>9. /\ DOMAIN kept \subseteq DOMAIN tariff /\ \A d \in DOMAIN kept : kept[d] = tariff[d]
  BY <1>7 DEF Tariff
<1>10. \A c \in Category : w[c] \in Nat
  BY UsesAre DEF w
<1>11. /\ DOMAIN k \subseteq Category
       /\ \A c \in DOMAIN k : k[c] \in {{}, {0}, {w[c]}}
  <2>1. CASE IsNative(u, p, t, fields)
    <3>1. u.basis = "native"
      BY <2>1 DEF IsNative
    <3> QED BY <2>1, <3>1, NativeCounts DEF w
  <2>2. CASE IsNormalized(u, p, t)
    <3>1. u.basis = "opencode_normalized"
      BY <2>2 DEF IsNormalized
    <3> QED BY <2>2, <3>1, NormalizedCounts DEF w
  <2> QED BY <1>3, <2>1, <2>2
<1>12. DOMAIN costs = DOMAIN k /\ \A c \in DOMAIN k : costs[c] = Cost(k[c], c, kept)
  BY DEF Costs
<1> HIDE DEF costs, k, kept
<1>13. ASSUME NEW c \in Category
       PROVE  /\ term(c) \in Nat
              /\ c \in DOMAIN k /\ costs[c] # {} => \E n \in Nat : costs[c] = {n} /\ n <= term(c)
              /\ c \in DOMAIN k /\ costs[c] # {} /\ k[c] = {w[c]} =>
                   costs[c] = {term(c)} /\ (w[c] > 0 => c \in DOMAIN tariff)
              /\ c \in DOMAIN k /\ costs[c] # {} => k[c] # {}
  <2>1. c \in DOMAIN tariff => tariff[c] \in Nat
    BY <1>8
  <2>2. w[c] \in Nat
    BY <1>10
  <2>3. \A count \in {{}, {0}, {w[c]}} : PaidRight(count, c, w[c], tariff, kept)
    <3> TAKE count \in {{}, {0}, {w[c]}}
    <3>1. PICK n \in Nat : n = w[c]
      BY <2>2
    <3>2. count \in {{}, {0}, {n}}
      BY <3>1
    <3>3. Kept(c, tariff, kept)
      BY <1>9, <2>1 DEF Kept
    <3>4. PaidRight(count, c, n, tariff, kept)
      BY <3>2, <3>3, Paid
    <3> QED BY <3>1, <3>4
  <2>4. ASSUME c \in DOMAIN k PROVE costs[c] = Cost(k[c], c, kept) /\ k[c] \in {{}, {0}, {w[c]}}
    BY <1>11, <1>12, <2>4
  <2>5. term(c) \in Nat
    BY <2>3 DEF PaidRight
  <2>6. ASSUME c \in DOMAIN k PROVE PaidRight(k[c], c, w[c], tariff, kept)
    BY <2>3, <2>4, <2>6
  <2> QED BY <2>4, <2>5, <2>6 DEF PaidRight
<1>14. ASSUME NEW c \in Category
       PROVE  At(charges, c) = term(c) /\ At(costs, c) \in Nat /\ At(costs, c) <= term(c)
              /\ term(c) \in Nat
  <2>1. At(charges, c) = term(c)
    BY DEF At
  <2> HIDE DEF term, charges
  <2>2. CASE c \in DOMAIN costs /\ costs[c] # {}
    <3>1. PICK n \in Nat : costs[c] = {n} /\ n <= term(c)
      BY <1>12, <1>13, <2>2
    <3>2. At(costs, c) = n
      BY <2>2, <3>1 DEF At
    <3> QED BY <1>13, <2>1, <3>1, <3>2
  <2>3. CASE ~(c \in DOMAIN costs /\ costs[c] # {})
    <3>1. At(costs, c) = 0 /\ term(c) \in Nat
      BY <1>13, <2>3 DEF At
    <3> QED BY <2>1, <3>1
  <2> QED BY <2>2, <2>3
<1>15. cost <= Total(charges)
  BY <1>1, <1>14, TotalGrows
<1>16. ASSUME e.status = "complete"
       PROVE  /\ cost = Total(charges) /\ u.basis = "native"
              /\ \A c \in Category : w[c] > 0 => c \in DOMAIN tariff
  <2>1. u.basis = "native" /\ \A c \in DOMAIN k : costs[c] # {}
    BY <1>1, <1>16
  <2>2. IsNative(u, p, t, fields)
    BY <1>3, <2>1 DEF IsNormalized
  <2>3. /\ \A c \in DOMAIN k : k[c] \in {{}, {w[c]}}
        /\ (\A c \in DOMAIN k : k[c] # {}) => \A c \in Category \ DOMAIN k : w[c] = 0
    BY <2>1, <2>2, NativeCounts DEF k, w
  <2>4. \A c \in DOMAIN k : k[c] = {w[c]}
    BY <1>11, <1>13, <2>1, <2>3
  <2>5. ASSUME NEW c \in Category
        PROVE  At(costs, c) = At(charges, c) /\ (w[c] > 0 => c \in DOMAIN tariff)
    <3>1. CASE c \in DOMAIN k
      <4>1. costs[c] = {term(c)} /\ (w[c] > 0 => c \in DOMAIN tariff)
        BY <1>13, <2>1, <2>4, <3>1
      <4>2. At(charges, c) = term(c)
        BY <1>14
      <4> HIDE DEF term, charges
      <4>3. At(costs, c) = term(c)
        BY <1>12, <3>1, <4>1 DEF At
      <4> QED BY <4>1, <4>2, <4>3
    <3>2. CASE c \notin DOMAIN k
      <4>1. w[c] = 0
        BY <2>3, <2>4, <3>2
      <4>2. At(costs, c) = 0
        BY <1>12, <3>2 DEF At
      <4>3. term(c) = 0
        BY <1>8, <4>1 DEF Charged
      <4> QED BY <1>14, <4>1, <4>2, <4>3
    <3> QED BY <3>1, <3>2
  <2>6. Total(costs) = Total(charges)
    BY <1>14, <2>5, TotalGrows
  <2> QED BY <1>1, <2>1, <2>5, <2>6
<1> QED BY <1>2, <1>5, <1>15, <1>16 DEF r

-----------------------------------------------------------------------------
(* Reports. *)

RatesOK(pinned) == \A r \in pinned : r.until \in Nat /\ r.schedule \in Schedules

BillingInv ==
  /\ now \in Nat /\ RatesOK(rates)
  /\ \A v \in revision : v.provider \in Provider /\ RatesOK(v.pinned)
  /\ CostsAreTrue

CostTrue(x) ==
  \A cost \in x.billing.known :
    \E r \in x.pinned :
      /\ x.at < r.until
      /\ r.schedule.tier \in {"all", x.truth.tier}
      /\ x.basis = "native" => x.truth.model = "selected"
      /\ cost <= Charge(x, r)
      /\ x.billing.status = "complete" =>
           /\ cost = Charge(x, r) /\ x.basis = "native"
           /\ \A c \in Category : Used(x)[c] > 0 =>
                c \in DOMAIN (CHOOSE t \in TierOf(r.schedule.tiers, {Prompt(x.truth)}) : TRUE).rates

\* A report keeps the price its answer got.
LEMMA ReportIsTrue ==
  ASSUME NEW t \in Truths, NEW p \in Provider, NEW basis, NEW pinned, NEW billing, NEW at,
         TrueOf(t, p, basis, pinned, billing),
         \A cost \in billing.known : \A r \in pinned : at < r.until
  PROVE  CostTrue([truth |-> t, provider |-> p, basis |-> basis, pinned |-> pinned, at |-> at,
                   billing |-> billing])
<1> DEFINE x == [truth |-> t, provider |-> p, basis |-> basis, pinned |-> pinned, at |-> at,
                 billing |-> billing]
<1>1. /\ x.truth = t /\ x.provider = p /\ x.basis = basis /\ x.pinned = pinned /\ x.at = at
      /\ x.billing = billing
  OBVIOUS
<1>2. Used(x) = Uses(x.truth, x.provider, x.basis)
  BY DEF Used, Uses
<1>3. TrueOf(x.truth, x.provider, x.basis, x.pinned, x.billing)
  BY <1>1
<1>4. \A cost \in x.billing.known : \A r \in x.pinned : x.at < r.until
  BY <1>1
<1> SUFFICES CostTrue(x)
  OBVIOUS
<1> HIDE DEF x
<1> DEFINE tariff(r) == (CHOOSE tier \in TierOf(r.schedule.tiers, {Prompt(x.truth)}) : TRUE).rates
           charge(r) == Total([c \in Category |->
                          {IF c \in DOMAIN tariff(r) THEN tariff(r)[c] * Uses(x.truth, x.provider, x.basis)[c]
                                                    ELSE 0}])
<1>5. ASSUME NEW cost \in x.billing.known
      PROVE  \E r \in x.pinned :
               /\ x.at < r.until
               /\ r.schedule.tier \in {"all", x.truth.tier}
               /\ x.basis = "native" => x.truth.model = "selected"
               /\ cost <= Charge(x, r)
               /\ x.billing.status = "complete" =>
                    /\ cost = Charge(x, r) /\ x.basis = "native"
                    /\ \A c \in Category : Used(x)[c] > 0 => c \in DOMAIN tariff(r)
  <2>1. PICK r \in x.pinned :
          /\ r.schedule.tier \in {"all", x.truth.tier} /\ (x.basis = "native" => x.truth.model = "selected")
          /\ cost <= charge(r)
          /\ x.billing.status = "complete" =>
               /\ cost = charge(r) /\ x.basis = "native"
               /\ \A c \in Category : Uses(x.truth, x.provider, x.basis)[c] > 0 => c \in DOMAIN tariff(r)
    BY <1>3, <1>5 DEF TrueOf
  <2>2. Charge(x, r) = charge(r)
    BY <1>2 DEF Charge
  <2> HIDE DEF charge, tariff
  <2> QED BY <1>2, <1>4, <1>5, <2>1, <2>2
<1> QED BY <1>5 DEF CostTrue

\* A report is priced by the schedule its revision pinned, in time.
LEMMA IngestIsTrue == BillingInv /\ IngestRun => BillingInv'
<1> SUFFICES ASSUME BillingInv, IngestRun PROVE BillingInv'
  OBVIOUS
<1>0. PICK v \in revision, t \in Truths, fields \in Hidden :
        /\ WritesAreReported(v.provider, t, fields)
        /\ \E u \in Answers(v.provider, t, fields) :
             run' = {[truth |-> t, provider |-> v.provider, basis |-> u.basis, pinned |-> v.pinned, at |-> now,
                      billing |-> IF \E r \in v.pinned : now >= r.until
                                    THEN Unavailable ELSE Estimate(u, v.pinned, "selected")]}
  BY DEF IngestRun
<1>1. PICK u \in Answers(v.provider, t, fields) :
        run' = {[truth |-> t, provider |-> v.provider, basis |-> u.basis, pinned |-> v.pinned, at |-> now,
                 billing |-> IF \E r \in v.pinned : now >= r.until
                               THEN Unavailable ELSE Estimate(u, v.pinned, "selected")]}
  BY <1>0
<1>2. v.provider \in Provider /\ RatesOK(v.pinned) /\ now \in Nat
  BY DEF BillingInv
<1> DEFINE p == v.provider
           pinned == v.pinned
           billing == IF \E r \in pinned : now >= r.until
                        THEN Unavailable ELSE Estimate(u, pinned, "selected")
           x == [truth |-> t, provider |-> p, basis |-> u.basis, pinned |-> pinned, at |-> now,
                 billing |-> billing]
<1>3. Unavailable.known = {}
  BY DEF Unavailable
<1>4. TrueOf(t, p, u.basis, pinned, billing) /\ \A cost \in billing.known : \A r \in pinned : now < r.until
  <2>1. CASE \E r \in pinned : now >= r.until
    <3>1. billing.known = {}
      BY <1>3, <2>1
    <3> QED BY <3>1 DEF TrueOf
  <2>2. CASE ~\E r \in pinned : now >= r.until
    <3>1. \A r \in pinned : r.schedule \in Schedules /\ r.until \in Nat
      BY <1>2 DEF RatesOK
    <3>2. \A r \in pinned : now < r.until
      BY <1>2, <2>2, <3>1
    <3>3. billing = Estimate(u, pinned, "selected")
      BY <2>2
    <3>4. TrueOf(t, p, u.basis, pinned, Estimate(u, pinned, "selected"))
      BY <1>0, <1>2, <3>1, EstimateIsTrue
    <3> QED BY <3>2, <3>3, <3>4
  <2> QED BY <2>1, <2>2
<1> HIDE DEF billing
<1>5. CostTrue(x)
  BY <1>2, <1>4, ReportIsTrue
<1>6. run' = {x}
  BY <1>1 DEF billing
<1> HIDE DEF x
<1>7. CostsAreTrue'
  BY <1>5, <1>6 DEF CostsAreTrue, CostTrue
<1>8. UNCHANGED <<now, rates, revision>>
  BY DEF IngestRun
<1> QED BY <1>7, <1>8 DEF BillingInv

\* For every set of schedules, every provider, whatever a run used and
\* whatever its answer leaves out: a cost is never invented and never called
\* complete unless it is (estimate, new_revision, ingest_run).
THEOREM CostsStayTrue == Spec => []CostsAreTrue
<1>1. Init => BillingInv
  BY DEF Init, BillingInv, RatesOK, CostsAreTrue
<1>2. BillingInv /\ [Next]_vars => BillingInv'
  <2> SUFFICES ASSUME BillingInv, [Next]_vars PROVE BillingInv'
    OBVIOUS
  <2>1. CASE RegisterRate
    <3>1. PICK s \in Schedules, from \in 0 .. MaxTime, until \in 1 .. MaxTime + 1 :
            rates' = rates \cup {[from |-> from, until |-> until, schedule |-> s]}
      BY <2>1 DEF RegisterRate
    <3>2. RatesOK(rates')
      BY <3>1, TimeIsCounted DEF BillingInv, RatesOK
    <3>3. UNCHANGED <<now, revision, run>>
      BY <2>1 DEF RegisterRate
    <3> QED BY <3>2, <3>3 DEF BillingInv, CostsAreTrue
  <2>2. CASE NewRevision
    <3>1. PICK p \in Provider : revision' = {[provider |-> p, pinned |-> Snapshot]}
      BY <2>2 DEF NewRevision
    <3>2. RatesOK(Snapshot)
      BY DEF BillingInv, RatesOK, Snapshot, InForce
    <3>3. UNCHANGED <<now, rates, run>>
      BY <2>2 DEF NewRevision
    <3>4. \A v \in revision' : v.provider \in Provider /\ RatesOK(v.pinned)
      BY <3>1, <3>2
    <3> QED BY <3>3, <3>4 DEF BillingInv, CostsAreTrue
  <2>3. CASE IngestRun
    BY <2>3, IngestIsTrue
  <2>4. CASE Tick
    <3>1. now' \in Nat /\ UNCHANGED <<rates, revision, run>>
      BY <2>4 DEF Tick, BillingInv
    <3>2. CostsAreTrue'
      BY <3>1 DEF BillingInv, CostsAreTrue
    <3> QED BY <3>1, <3>2 DEF BillingInv
  <2>5. CASE UNCHANGED vars
    BY <2>5 DEF vars, BillingInv, CostsAreTrue
  <2> QED BY <2>1, <2>2, <2>3, <2>4, <2>5 DEF Next
<1>3. BillingInv => CostsAreTrue
  BY DEF BillingInv
<1> QED BY <1>1, <1>2, <1>3, PTL DEF Spec
-----------------------------------------------------------------------------
(* Lists in order, and induction. *)

\* Induction, without an operator: a set of numbers that has 0 and the
\* successors of its members has all.
LEMMA Counting ==
  ASSUME NEW Good, 0 \in Good, \A n \in Nat : n \in Good => n + 1 \in Good
  PROVE  Nat \subseteq Good
<1> SUFFICES ASSUME Nat \ Good # {} PROVE FALSE
  OBVIOUS
<1>1. PICK n \in Nat \ Good : \A m \in Nat \ Good : ~ (<<m, n>> \in OpToRel(<, Nat))
  BY NatLessThanWellFounded, WFMin
<1>2. \A m \in Nat \ Good : ~ (m < n)
  BY <1>1 DEF OpToRel
<1>3. n # 0 /\ n - 1 \in Nat /\ n - 1 \in Good
  BY <1>2
<1> QED BY <1>3

\* A list has every element of the set once, in the order.
Sorted(list, S, R) ==
  /\ Cardinality(S) \in Nat /\ list \in [1 .. Cardinality(S) -> S]
  /\ \A i, j \in 1 .. Cardinality(S) : i < j => <<list[i], list[j]>> \in R
  /\ \A i, j \in 1 .. Cardinality(S) : list[i] = list[j] => i = j
  /\ \A x \in S : \E i \in 1 .. Cardinality(S) : list[i] = x

\* InOrder sorts.
THEOREM InOrderSorts ==
  ASSUME NEW S, IsFiniteSet(S), NEW R, Orders(R, S)
  PROVE  Sorted(InOrder(S, R), S, R)
<1> DEFINE N == Cardinality(S)
           list == InOrder(S, R)
<1>1. /\ N \in Nat
      /\ \A k \in S : Position(k, S, R) \in 1 .. N
      /\ \A k, l \in S : <<k, l>> \in R => Position(k, S, R) < Position(l, S, R)
      /\ \A i \in 1 .. N : \E k \in S : Position(k, S, R) = i
  BY PositionsAreTaken
<1>2. list = [i \in 1 .. N |-> CHOOSE x \in S : Cardinality({y \in S : <<y, x>> \in R}) = i - 1]
  BY DEF InOrder
<1> HIDE DEF list, N
<1>3. \A i \in 1 .. N : list[i] \in S /\ Position(list[i], S, R) = i
  <2> TAKE i \in 1 .. N
  <2> DEFINE below(x) == Cardinality({y \in S : <<y, x>> \in R})
  <2>1. PICK k \in S : Position(k, S, R) = i
    BY <1>1
  <2>2. \A x \in S : Position(x, S, R) = below(x) + 1 /\ Position(x, S, R) \in Nat
    BY <1>1 DEF Position
  <2>3. list[i] = CHOOSE x \in S : below(x) = i - 1
    BY <1>2
  <2>4. \A x \in S : IsFiniteSet({y \in S : <<y, x>> \in R})
    BY FS_Subset
  <2>5. \A x \in S : below(x) \in Nat
    BY <2>4, FS_CardinalityType
  <2> HIDE DEF below
  <2>6. below(k) = i - 1
    BY <2>1, <2>2, <2>5
  <2>7. list[i] \in S /\ below(list[i]) = i - 1
    BY <2>3, <2>6
  <2> QED BY <2>2, <2>7
<1>4. list \in [1 .. N -> S]
  BY <1>2, <1>3
<1>5. ASSUME NEW i \in 1 .. N, NEW j \in 1 .. N, i < j
      PROVE  <<list[i], list[j]>> \in R
  <2>1. Position(list[i], S, R) = i /\ Position(list[j], S, R) = j /\ list[i] \in S /\ list[j] \in S
    BY <1>3
  <2>2. list[i] # list[j]
    BY <1>5, <2>1
  <2>3. ~ (<<list[j], list[i]>> \in R)
    BY <1>1, <1>5, <2>1
  <2> QED BY <2>1, <2>2, <2>3 DEF Orders
<1>6. \A i, j \in 1 .. N : list[i] = list[j] => i = j
  BY <1>3
<1>7. ASSUME NEW x \in S PROVE \E i \in 1 .. N : list[i] = x
  <2> DEFINE i == Position(x, S, R)
  <2>1. i \in 1 .. N
    BY <1>1
  <2>2. list[i] \in S /\ Position(list[i], S, R) = i
    BY <1>3, <2>1
  <2>3. ~ (<<x, list[i]>> \in R) /\ ~ (<<list[i], x>> \in R)
    BY <1>1, <2>1, <2>2
  <2> QED BY <2>1, <2>2, <2>3 DEF Orders
<1> QED BY <1>1, <1>4, <1>5, <1>6, <1>7 DEF Sorted, N, list

-----------------------------------------------------------------------------
(* Competition ranks. *)

\* What the ranks of a list are computed by.
RanksBy(rank, s) ==
  rank = [i \in DOMAIN s |-> IF i > 1 /\ s[i].score = s[i - 1].score THEN rank[i - 1] ELSE i]

\* The scores of a list of n go down, in the numbers v.
GoesDown(s, v, n) ==
  /\ n \in Nat /\ DOMAIN s = 1 .. n /\ v \in [1 .. n -> Int]
  /\ \A i, j \in 1 .. n : i < j => v[i] >= v[j]
  /\ \A i, j \in 1 .. n : s[i].score = s[j].score <=> v[i] = v[j]

\* In a list whose scores go down, the rank of each counts the better ones.
THEOREM RanksCount ==
  ASSUME NEW n, NEW s, NEW v, GoesDown(s, v, n)
  PROVE  \A i \in 1 .. n : Ranks(s)[i] = 1 + Cardinality({j \in 1 .. n : v[j] > v[i]})
<1> DEFINE better(i) == {j \in 1 .. n : v[j] > v[i]}
           f == [i \in 1 .. n |-> 1 + Cardinality(better(i))]
<1>0. /\ n \in Nat /\ DOMAIN s = 1 .. n /\ v \in [1 .. n -> Int]
      /\ \A i, j \in 1 .. n : i < j => v[i] >= v[j]
      /\ \A i, j \in 1 .. n : s[i].score = s[j].score <=> v[i] = v[j]
  BY DEF GoesDown
<1>1. Ranks(s) = CHOOSE rank : RanksBy(rank, s)
  BY DEF Ranks, RanksBy
<1> USE <1>0
<1>2. ASSUME NEW i \in 1 .. n, i > 1, s[i].score = s[i - 1].score
      PROVE  f[i] = f[i - 1]
  <2>1. i - 1 \in 1 .. n
    BY <1>2
  <2>2. v[i] = v[i - 1]
    BY <1>2, <2>1
  <2>3. better(i) = better(i - 1)
    BY <2>2
  <2> HIDE DEF better
  <2> QED BY <2>1, <2>3
<1>3. ASSUME NEW i \in 1 .. n, i = 1 \/ s[i].score # s[i - 1].score
      PROVE  f[i] = i
  <2>1. \A j \in 1 .. n : v[j] \in Int
    OBVIOUS
  <2>2. \A j \in 1 .. n : j >= i => ~ (v[j] > v[i])
    BY <2>1
  <2>3. \A j \in 1 .. n : j < i => v[j] > v[i]
    <3> SUFFICES ASSUME NEW j \in 1 .. n, j < i PROVE v[j] > v[i]
      OBVIOUS
    <3>1. i - 1 \in 1 .. n /\ i # 1
      OBVIOUS
    <3>2. v[i] # v[i - 1]
      BY <1>3, <3>1
    <3>3. v[i - 1] >= v[i] /\ (j = i - 1 \/ v[j] >= v[i - 1])
      BY <3>1
    <3> QED BY <2>1, <3>1, <3>2, <3>3
  <2>4. better(i) = 1 .. i - 1
    BY <2>2, <2>3
  <2>5. Cardinality(1 .. i - 1) = IF 1 > i - 1 THEN 0 ELSE i - 1 - 1 + 1
    BY FS_Interval
  <2> HIDE DEF better
  <2> QED BY <2>4, <2>5
<1>a. f = [i \in 1 .. n |-> f[i]]
  OBVIOUS
<1> HIDE DEF f
<1>4. RanksBy(f, s)
  <2>1. \A i \in 1 .. n : f[i] = IF i > 1 /\ s[i].score = s[i - 1].score THEN f[i - 1] ELSE i
    BY <1>2, <1>3
  <2>2. f = [i \in 1 .. n |-> IF i > 1 /\ s[i].score = s[i - 1].score THEN f[i - 1] ELSE i]
    BY <1>a, <2>1
  <2> QED BY <2>2 DEF RanksBy
<1>5. RanksBy(Ranks(s), s)
  BY <1>1, <1>4
<1> DEFINE g == Ranks(s)
           Good == {m \in Nat : \A i \in 1 .. n : i <= m => g[i] = f[i]}
<1>6. \A i \in 1 .. n : /\ g[i] = IF i > 1 /\ s[i].score = s[i - 1].score THEN g[i - 1] ELSE i
                        /\ f[i] = IF i > 1 /\ s[i].score = s[i - 1].score THEN f[i - 1] ELSE i
  BY <1>4, <1>5 DEF RanksBy
<1> HIDE DEF g
<1>7. 0 \in Good
  OBVIOUS
<1>8. \A m \in Nat : m \in Good => m + 1 \in Good
  <2> SUFFICES ASSUME NEW m \in Nat, m \in Good PROVE m + 1 \in Good
    OBVIOUS
  <2>1. ASSUME NEW i \in 1 .. n, i <= m + 1 PROVE g[i] = f[i]
    <3>1. CASE i <= m
      BY <3>1
    <3>2. CASE i = m + 1
      <4>1. i > 1 => i - 1 \in 1 .. n /\ g[i - 1] = f[i - 1]
        BY <3>2
      <4>2. i \in Int
        OBVIOUS
      <4> HIDE DEF Good
      <4> QED BY <1>6, <4>1, <4>2
    <3> QED BY <2>1, <3>1, <3>2
  <2> QED BY <2>1
<1>9. Nat \subseteq Good
  <2> HIDE DEF Good
  <2> QED BY <1>7, <1>8, Counting
<1>10. \A i \in 1 .. n : g[i] = f[i]
  BY <1>9
<1> QED BY <1>10 DEF f, g

-----------------------------------------------------------------------------
(* Pages of a list. *)

\* What the flattening of a sequence of lists is computed by.
FlattenBy(flatten, seqs) ==
  flatten = [i \in 1 .. Len(seqs) |-> IF i = 1 THEN seqs[i] ELSE flatten[i - 1] \o seqs[i]]

\* The end of page k.
EndOf(n, k, limit) == IF k * limit < n THEN k * limit ELSE n

\* The first page.
LEMMA FirstPage ==
  ASSUME NEW list, NEW limit \in {1, 2}
  PROVE  Page(list, 0, limit) = SubSeq(list, 1, EndOf(Len(list), 1, limit))
<1>1. 1 * limit = limit /\ 0 + limit = limit /\ 0 + 1 = 1
  OBVIOUS
<1> QED BY <1>1 DEF Page, EndOf

\* What precedes a page and the page are what precedes the next.
LEMMA PageContinues ==
  ASSUME NEW S, NEW list \in Seq(S), NEW limit \in {1, 2}, NEW k \in Nat \ {0}
  PROVE  SubSeq(list, 1, EndOf(Len(list), k, limit)) \o Page(list, k * limit, limit)
           = SubSeq(list, 1, EndOf(Len(list), k + 1, limit))
<1> DEFINE n == Len(list)
           e == EndOf(n, k, limit)
           d == EndOf(n, k + 1, limit)
           head == SubSeq(list, 1, e)
           page == Page(list, k * limit, limit)
           both == SubSeq(list, 1, d)
<1>1. n \in Nat /\ list \in [1 .. n -> S]
  OBVIOUS
<1>2. /\ k * limit \in Nat /\ (k + 1) * limit = k * limit + limit /\ 1 * limit = limit
  <2>1. CASE limit = 1
    BY <2>1
  <2>2. CASE limit = 2
    BY <2>2
  <2> QED BY <2>1, <2>2
<1> DEFINE from == k * limit
<1>4. /\ e = IF from < n THEN from ELSE n
      /\ d = IF from + limit < n THEN from + limit ELSE n
      /\ page = SubSeq(list, from + 1, d)
      /\ from \in Nat
  BY <1>2 DEF Page, EndOf
<1> HIDE DEF from, e, d, n
<1>5. e \in Nat /\ d \in Nat /\ n \in Nat /\ from \in Nat /\ e <= d /\ d <= n /\ (e < d => from = e)
  BY <1>1, <1>4
<1>6. head \in Seq(S) /\ Len(head) = e /\ \A i \in 1 .. e : head[i] = list[i]
  <2>1. \A i \in 1 .. e : list[i] \in S
    BY <1>1, <1>5
  <2> QED BY <1>5, <2>1, SubSeqProperties
<1>7. both \in Seq(S) /\ Len(both) = d /\ \A i \in 1 .. d : both[i] = list[i]
  <2>1. \A i \in 1 .. d : list[i] \in S
    BY <1>1, <1>5
  <2> QED BY <1>5, <2>1, SubSeqProperties
<1>8. page \in Seq(S) /\ Len(page) = d - e /\ \A i \in 1 .. d - e : page[i] = list[e + i]
  <2> HIDE DEF page
  <2>1. CASE e < d
    <3>1. page = SubSeq(list, e + 1, d)
      BY <1>4, <1>5, <2>1
    <3>2. \A i \in e + 1 .. d : list[i] \in S
      BY <1>1, <1>5
    <3>3. \A i \in 1 .. d - (e + 1) + 1 : SubSeq(list, e + 1, d)[i] = list[(e + 1) + i - 1]
      BY <1>5, <3>2, SubSeqProperties
    <3>4. SubSeq(list, e + 1, d) \in Seq(S) /\ Len(SubSeq(list, e + 1, d)) = d - (e + 1) + 1
      BY <1>5, <2>1, <3>2, SubSeqProperties
    <3>5. d - (e + 1) + 1 = d - e /\ \A i \in 1 .. d - e : (e + 1) + i - 1 = e + i
      BY <1>5
    <3> QED BY <3>1, <3>3, <3>4, <3>5
  <2>2. CASE ~ (e < d)
    <3>1. d < from + 1
      BY <1>1, <1>4, <1>5, <2>2
    <3>2. page = <<>>
      BY <1>4, <1>5, <3>1, SubSeqEmpty
    <3>3. d - e = 0 /\ 1 .. 0 = {}
      BY <1>5, <2>2
    <3>4. page \in Seq(S) /\ Len(page) = 0
      BY <3>2, EmptySeq
    <3> QED BY <3>3, <3>4
  <2> QED BY <2>1, <2>2
<1> HIDE DEF head, page, both
<1>9. head \o page \in Seq(S) /\ Len(head \o page) = d
      /\ \A i \in 1 .. d : (head \o page)[i] = both[i]
  <2>1. /\ head \o page \in Seq(S) /\ Len(head \o page) = Len(head) + Len(page)
        /\ \A i \in 1 .. Len(head) + Len(page) :
             (head \o page)[i] = IF i <= Len(head) THEN head[i] ELSE page[i - Len(head)]
    BY <1>6, <1>8, ConcatProperties
  <2>2. Len(head) = e /\ Len(page) = d - e /\ e + (d - e) = d
    BY <1>5, <1>6, <1>8
  <2>3. ASSUME NEW i \in 1 .. d PROVE (head \o page)[i] = both[i]
    <3>1. (head \o page)[i] = IF i <= e THEN head[i] ELSE page[i - e]
      BY <2>1, <2>2
    <3>2. CASE i <= e
      <4>1. i \in 1 .. e
        BY <1>5, <3>2
      <4> QED BY <1>6, <1>7, <3>1, <3>2, <4>1
    <3>3. CASE ~ (i <= e)
      <4>1. i - e \in 1 .. d - e /\ e + (i - e) = i
        BY <1>5, <3>3
      <4> QED BY <1>7, <1>8, <3>1, <3>3, <4>1
    <3> QED BY <3>2, <3>3
  <2> QED BY <2>1, <2>2, <2>3
<1>10. head \o page = both
  BY <1>7, <1>9, SeqEqual
<1> QED BY <1>10 DEF from, head, page, both, n, e, d

\* The pages of a list are together the list.
LEMMA PagesAreTheList ==
  ASSUME NEW S, NEW list \in Seq(S), NEW limit \in {1, 2}
  PROVE  list = FlattenSeq([k \in 1 .. Len(list) |-> Page(list, (k - 1) * limit, limit)])
<1> DEFINE n == Len(list)
           seqs == [k \in 1 .. n |-> Page(list, (k - 1) * limit, limit)]
           f == [k \in 1 .. n |-> SubSeq(list, 1, EndOf(n, k, limit))]
<1>1. n \in Nat /\ Len(seqs) = n
  OBVIOUS
<1>2. CASE n = 0
  <2>1. seqs = list
    BY <1>2
  <2> QED BY <1>1, <1>2, <2>1 DEF FlattenSeq
<1>3. CASE n > 0
  <2>1. FlattenSeq(seqs) = (CHOOSE flatten : FlattenBy(flatten, seqs))[n]
    <3> HIDE DEF seqs, n
    <3> QED BY <1>1, <1>3 DEF FlattenSeq, FlattenBy
  <2>2. \A k \in 1 .. n : f[k] = IF k = 1 THEN seqs[k] ELSE f[k - 1] \o seqs[k]
    <3> TAKE k \in 1 .. n
    <3>1. CASE k = 1
      <4>1. seqs[k] = Page(list, 0, limit)
        <5>1. (1 - 1) * limit = 0
          OBVIOUS
        <5> QED BY <3>1, <5>1
      <4> QED BY <3>1, <4>1, FirstPage
    <3>2. CASE k # 1
      <4> DEFINE j == k - 1
      <4>1. j \in Nat \ {0} /\ j \in 1 .. n /\ k = j + 1
        BY <3>2
      <4>2. SubSeq(list, 1, EndOf(n, j, limit)) \o Page(list, j * limit, limit)
              = SubSeq(list, 1, EndOf(n, j + 1, limit))
        BY <4>1, PageContinues
      <4>3. f[j] = SubSeq(list, 1, EndOf(n, j, limit)) /\ seqs[k] = Page(list, j * limit, limit)
            /\ f[k] = SubSeq(list, 1, EndOf(n, j + 1, limit))
        BY <4>1
      <4> QED BY <3>2, <4>2, <4>3
    <3> QED BY <3>1, <3>2
  <2>3. f = [k \in 1 .. n |-> f[k]]
    OBVIOUS
  <2>4. f[n] = list
    <3>1. EndOf(n, n, limit) = n
      <4> HIDE DEF n
      <4>1. ~ (n * limit < n)
        BY <1>1
      <4> QED BY <4>1 DEF EndOf
    <3>2. f[n] = SubSeq(list, 1, n)
      BY <1>1, <1>3, <3>1
    <3> QED BY <3>2, SubSeqFull
  <2> HIDE DEF f
  <2>5. FlattenBy(f, seqs)
    <3>1. f = [k \in 1 .. n |-> IF k = 1 THEN seqs[k] ELSE f[k - 1] \o seqs[k]]
      BY <2>2, <2>3
    <3> HIDE DEF seqs, n
    <3> QED BY <1>1, <3>1 DEF FlattenBy
  <2> DEFINE g == CHOOSE flatten : FlattenBy(flatten, seqs)
  <2>6. FlattenBy(g, seqs)
    BY <2>5
  <2> HIDE DEF g, seqs, n
  <2>7. /\ \A k \in 1 .. n : g[k] = IF k = 1 THEN seqs[k] ELSE g[k - 1] \o seqs[k]
        /\ \A k \in 1 .. n : f[k] = IF k = 1 THEN seqs[k] ELSE f[k - 1] \o seqs[k]
    BY <1>1, <2>5, <2>6 DEF FlattenBy
  <2> DEFINE Good == {m \in Nat : \A k \in 1 .. n : k <= m => g[k] = f[k]}
  <2>8. 0 \in Good
    OBVIOUS
  <2>9. ASSUME NEW m \in Nat, m \in Good PROVE m + 1 \in Good
    <3>1. ASSUME NEW k \in 1 .. n, k <= m + 1 PROVE g[k] = f[k]
      <4>1. CASE k <= m
        BY <2>9, <4>1
      <4>2. CASE k = m + 1
        <5>1. k # 1 => k - 1 \in 1 .. n /\ g[k - 1] = f[k - 1]
          BY <1>1, <2>9, <4>2
        <5> HIDE DEF Good
        <5> QED BY <2>7, <5>1
      <4> QED BY <1>1, <2>9, <3>1, <4>1, <4>2
    <3> QED BY <3>1
  <2>10. Nat \subseteq Good
    <3> HIDE DEF Good
    <3> QED BY <2>8, <2>9, Counting
  <2>11. g[n] = f[n]
    BY <1>1, <1>3, <2>10
  <2> QED BY <2>1, <2>4, <2>11 DEF g, seqs, n
<1> QED BY <1>1, <1>2, <1>3
-----------------------------------------------------------------------------
(* What was read, in whatever order. *)

\* The rows that are scored: the only comparable ones of their observation.
Clear(E) ==
  {x \in E : x.group # NoGroup /\ \A y \in E : y.obs = x.obs /\ y.group # NoGroup => y = x}

\* They do not depend on the order.
LEMMA ReadingsAgree ==
  ASSUME NEW E \in SUBSET Rows, NEW read \in SetToSeqs(E)
  PROVE  ToSet(read) = E /\ Scored(read) = Clear(E)
<1> DEFINE N == Cardinality(E)
<1>1. IsFiniteSet(E) /\ N \in Nat
  BY RowsAreSources, FS_Subset, FS_CardinalityType
<1>2. read \in [1 .. N -> E] /\ \A i, j \in 1 .. N : i # j => read[i] # read[j]
  BY DEF SetToSeqs
<1>3. \A x \in E : \E i \in 1 .. N : read[i] = x
  <2>1. read \in Injection(1 .. N, E)
    BY <1>2 DEF Injection, IsInjective
  <2>2. Cardinality(1 .. N) = N
    <3>1. Cardinality(1 .. N) = IF 1 > N THEN 0 ELSE N - 1 + 1
      BY <1>1, FS_Interval
    <3> HIDE DEF N
    <3> QED BY <1>1, <3>1
  <2>3. read \in Surjection(1 .. N, E)
    BY <1>1, <2>1, <2>2, FS_Injection
  <2> QED BY <2>3 DEF Surjection
<1> HIDE DEF N
<1>4. DOMAIN read = 1 .. N
  BY <1>2
<1>5. ToSet(read) = E
  BY <1>2, <1>3, <1>4 DEF ToSet
<1>6. Comparable(read) = {i \in 1 .. N : read[i].group # NoGroup}
  BY <1>4 DEF Comparable
<1>7. ASSUME NEW x \in Scored(read) PROVE x \in Clear(E)
  <2>1. PICK i \in Comparable(read) : x = read[i] /\ read[i].obs \notin Ambiguous(read)
    BY <1>7 DEF Scored
  <2>2. i \in 1 .. N /\ read[i].group # NoGroup /\ read[i] \in E
    BY <1>2, <1>6, <2>1
  <2>3. ASSUME NEW y \in E, y.obs = x.obs, y.group # NoGroup PROVE y = x
    <3>1. PICK j \in 1 .. N : read[j] = y
      BY <1>3
    <3>2. j \in Comparable(read)
      BY <1>6, <2>3, <3>1
    <3>3. j = i
      BY <2>1, <2>3, <3>1, <3>2 DEF Ambiguous
    <3> QED BY <2>1, <3>1, <3>3
  <2> QED BY <2>1, <2>2, <2>3 DEF Clear
<1>8. ASSUME NEW x \in Clear(E) PROVE x \in Scored(read)
  <2>1. x \in E /\ x.group # NoGroup /\ \A y \in E : y.obs = x.obs /\ y.group # NoGroup => y = x
    BY <1>8 DEF Clear
  <2>2. PICK i \in 1 .. N : read[i] = x
    BY <1>3, <2>1
  <2>3. i \in Comparable(read)
    BY <1>6, <2>1, <2>2
  <2>4. \A k \in Comparable(read) : read[k].obs = x.obs => k = i
    <3> SUFFICES ASSUME NEW k \in Comparable(read), read[k].obs = x.obs PROVE k = i
      OBVIOUS
    <3>1. k \in 1 .. N /\ read[k].group # NoGroup /\ read[k] \in E
      BY <1>2, <1>6
    <3> QED BY <1>2, <2>1, <2>2, <3>1
  <2>5. read[i].obs \notin Ambiguous(read)
    <3> SUFFICES ASSUME read[i].obs \in Ambiguous(read) PROVE FALSE
      OBVIOUS
    <3>1. PICK j \in Comparable(read) :
            /\ \E k \in Comparable(read) : k # j /\ read[k].obs = read[j].obs
            /\ read[j].obs = read[i].obs
      BY DEF Ambiguous
    <3> QED BY <2>2, <2>4, <3>1
  <2>6. \A k \in Comparable(read) : read[k].obs = read[i].obs => k <= i
    BY <2>2, <2>4
  <2> QED BY <2>2, <2>3, <2>5, <2>6 DEF Scored
<1> QED BY <1>5, <1>7, <1>8

\* So neither do the items.
LEMMA ItemsAgree ==
  ASSUME NEW E \in SUBSET Rows, NEW read \in SetToSeqs(E), NEW again \in SetToSeqs(E), NEW g
  PROVE  Candidates(read, g) = Candidates(again, g)
<1>1. ToSet(read) = ToSet(again) /\ Scored(read) = Scored(again)
  BY ReadingsAgree
<1>2. \A row : SourceRank(read, row) = SourceRank(again, row)
  BY <1>1 DEF SourceRank
<1>3. \A rt, obs : Item(read, g, rt, obs) = Item(again, g, rt, obs)
  BY <1>1, <1>2 DEF Item
<1>4. Items(read, g) = Items(again, g)
  BY <1>1, <1>3 DEF Items
<1> QED BY <1>4 DEF Candidates

\* A sorted list counts what the set counts.
LEMMA ListCounts ==
  ASSUME NEW S, NEW R, NEW list, Sorted(list, S, R), NEW T \in SUBSET S
  PROVE  Cardinality({j \in 1 .. Cardinality(S) : list[j] \in T}) = Cardinality(T)
<1> DEFINE N == Cardinality(S)
           D == {j \in 1 .. N : list[j] \in T}
           f == [j \in D |-> list[j]]
<1>1. /\ N \in Nat
      /\ \A i, j \in 1 .. N : list[i] = list[j] => i = j
      /\ \A x \in S : \E i \in 1 .. N : list[i] = x
  BY DEF Sorted
<1>2. IsFiniteSet(1 .. N)
  BY <1>1, FS_Interval
<1> HIDE DEF N
<1>3. IsFiniteSet(D)
  BY <1>2, FS_Subset
<1>4. f \in Injection(D, T)
  BY <1>1 DEF Injection, IsInjective
<1>5. f \in Surjection(D, T)
  <2>1. f \in [D -> T]
    OBVIOUS
  <2>2. \A x \in T : \E j \in D : f[j] = x
    BY <1>1
  <2> HIDE DEF f, D
  <2> QED BY <2>1, <2>2 DEF Surjection
<1> HIDE DEF f, D
<1>6. ExistsBijection(D, T)
  BY <1>4, <1>5 DEF ExistsBijection, Bijection
<1>7. Cardinality(T) = Cardinality(D)
  BY <1>3, <1>6, FS_Bijection
<1> QED BY <1>7 DEF D, N

\* Where a scored row stands: behind the strictly better ones of its group.
LEMMA SourceRankCounts ==
  ASSUME NEW E \in SUBSET Rows, NEW read \in SetToSeqs(E), NEW row \in Clear(E)
  PROVE  SourceRank(read, row)
           = 1 + Cardinality({x \in Clear(E) : x.group = row.group /\ x.score > row.score})
<1> DEFINE P == {x \in Clear(E) : x.group = row.group}
           R == Better(P)
           sorted == InOrder(P, R)
           N == Cardinality(P)
           T == {x \in P : x.score > row.score}
<1>1. Scored(read) = Clear(E)
  BY ReadingsAgree
<1>2. /\ P \in SUBSET Rows /\ IsFiniteSet(P) /\ row \in P
      /\ \A x \in P : x.obs \in Nat /\ x.score \in Int
      /\ \A x, y \in P : x.obs = y.obs => x = y
  <2>1. P \in SUBSET Rows /\ row \in P
    BY DEF Clear
  <2>2. \A x, y \in P : x.obs = y.obs => x = y
    BY DEF Clear
  <2> QED BY <2>1, <2>2, RowsAreSources, FS_Subset
<1>3. SourceRank(read, row) = Ranks(sorted)[CHOOSE i \in DOMAIN sorted : sorted[i] = row]
  BY <1>1 DEF SourceRank
<1> HIDE DEF P
<1>4. \A x, y \in P : <<x, y>> \in R <=> x.score > y.score \/ (x.score = y.score /\ x.obs < y.obs)
  BY DEF Better
<1> HIDE DEF R
<1>5. Orders(R, P)
  <2>1. \A x \in P : <<x, x>> \notin R
    BY <1>2, <1>4
  <2>2. \A x, y, z \in P : <<x, y>> \in R /\ <<y, z>> \in R => <<x, z>> \in R
    BY <1>2, <1>4
  <2>3. \A x, y \in P : x = y \/ <<x, y>> \in R \/ <<y, x>> \in R
    <3> SUFFICES ASSUME NEW x \in P, NEW y \in P, x # y PROVE <<x, y>> \in R \/ <<y, x>> \in R
      OBVIOUS
    <3>1. x.obs \in Nat /\ y.obs \in Nat /\ x.score \in Int /\ y.score \in Int /\ x.obs # y.obs
      BY <1>2
    <3> QED BY <1>4, <3>1
  <2> QED BY <2>1, <2>2, <2>3 DEF Orders
<1>6. Sorted(sorted, P, R)
  BY <1>2, <1>5, InOrderSorts
<1> HIDE DEF sorted
<1>7. /\ N \in Nat /\ sorted \in [1 .. N -> P]
      /\ \A i, j \in 1 .. N : i < j => <<sorted[i], sorted[j]>> \in R
      /\ \E i \in 1 .. N : sorted[i] = row
  BY <1>2, <1>6 DEF Sorted
<1> DEFINE v == [i \in 1 .. N |-> sorted[i].score]
           place == CHOOSE i \in DOMAIN sorted : sorted[i] = row
<1> HIDE DEF N
<1>8. v \in [1 .. N -> Int] /\ DOMAIN sorted = 1 .. N
  BY <1>2, <1>7
<1>9. \A i, j \in 1 .. N : i < j => v[i] >= v[j]
  <2> SUFFICES ASSUME NEW i \in 1 .. N, NEW j \in 1 .. N, i < j PROVE v[i] >= v[j]
    OBVIOUS
  <2>1. sorted[i] \in P /\ sorted[j] \in P /\ <<sorted[i], sorted[j]>> \in R
    BY <1>7
  <2>2. sorted[i].score >= sorted[j].score
    BY <1>2, <1>4, <2>1
  <2> QED BY <2>2
<1>10. \A i, j \in 1 .. N : sorted[i].score = sorted[j].score <=> v[i] = v[j]
  OBVIOUS
<1>11. place \in 1 .. N /\ sorted[place] = row
  BY <1>7, <1>8
<1>12. \A i \in 1 .. N : v[i] = sorted[i].score
  OBVIOUS
<1> HIDE DEF v, place
<1>13. Ranks(sorted)[place] = 1 + Cardinality({j \in 1 .. N : v[j] > v[place]})
  <2>1. N \in Nat
    BY <1>7
  <2>2. \A i \in 1 .. N : Ranks(sorted)[i] = 1 + Cardinality({j \in 1 .. N : v[j] > v[i]})
    <3>1. GoesDown(sorted, v, N)
      BY <1>8, <1>9, <1>10, <2>1 DEF GoesDown
    <3> QED BY <3>1, RanksCount
  <2> QED BY <1>11, <2>2
<1>14. {j \in 1 .. N : v[j] > v[place]} = {j \in 1 .. N : sorted[j] \in T}
  BY <1>7, <1>11, <1>12
<1>15. Cardinality({j \in 1 .. N : sorted[j] \in T}) = Cardinality(T)
  BY <1>6, ListCounts DEF N
<1>16. T = {x \in Clear(E) : x.group = row.group /\ x.score > row.score}
  BY DEF P
<1> QED BY <1>3, <1>13, <1>14, <1>15, <1>16 DEF place
-----------------------------------------------------------------------------
(* The items of an answer. *)

\* The scored row of an observation, if it has one.
Mine(E, obs) == {s \in Clear(E) : s.obs = obs}

ItemOf(read, E, g, runtime, model, obs) ==
  [runtime |-> runtime, model |-> model, obs |-> obs,
   score |-> {s.score : s \in Mine(E, obs)}, group |-> {s.group : s \in Mine(E, obs)},
   sourceRank |-> {SourceRank(read, s) : s \in Mine(E, obs)},
   ranked |-> g # NoGroup /\ \E s \in Mine(E, obs) : s.group = g,
   rank |-> {}, position |-> {}]

\* An observation has at most one scored row.
LEMMA MineIsOne == \A E, obs : \A s, t \in Mine(E, obs) : s = t
BY DEF Mine, Clear

\* Three identifiers make an item.
LEMMA ItemsAre ==
  ASSUME NEW E \in SUBSET Rows, NEW read \in SetToSeqs(E), NEW g, NEW i \in Items(read, g)
  PROVE  /\ i.runtime \in Nat /\ i.model \in Nat /\ i.obs \in Nat
         /\ i = ItemOf(read, E, g, i.runtime, i.model, i.obs)
<1>1. PICK p \in Runtimes \X E : i = Item(read, g, p[1], p[2].obs)
  BY ReadingsAgree DEF Items
<1>2. p[1].id \in Nat /\ p[1].model \in Nat /\ p[2].obs \in Nat
  BY RowsAreSources, RuntimesAreKnown
<1>3. i = ItemOf(read, E, g, p[1].id, p[1].model, p[2].obs)
  BY <1>1, ReadingsAgree DEF Item, ItemOf, Mine
<1>4. i.runtime = p[1].id /\ i.model = p[1].model /\ i.obs = p[2].obs
  BY <1>3 DEF ItemOf
<1> QED BY <1>2, <1>3, <1>4

\* There are finitely many.
LEMMA ItemsAreFinite ==
  ASSUME NEW E \in SUBSET Rows, NEW read \in SetToSeqs(E), NEW g
  PROVE  IsFiniteSet(Items(read, g))
<1> DEFINE Q == {q \in Runtimes \X E : q[1].model = q[2].model}
           f == [p \in Q |-> Item(read, g, p[1], p[2].obs)]
<1>1. IsFiniteSet(Runtimes) /\ IsFiniteSet(E)
  BY RowsAreSources, RuntimesAreKnown, FS_Subset
<1>2. IsFiniteSet(Runtimes \X E)
  BY <1>1, FS_Product
<1>3. IsFiniteSet(Q)
  BY <1>2, FS_Subset
<1>4. Items(read, g) = {Item(read, g, p[1], p[2].obs) : p \in Q}
  BY ReadingsAgree DEF Items
<1>5. f \in Surjection(Q, Items(read, g))
  <2>1. f \in [Q -> Items(read, g)]
    BY <1>4
  <2>2. \A i \in Items(read, g) : \E p \in Q : f[p] = i
    BY <1>4
  <2> HIDE DEF f, Q
  <2> QED BY <2>1, <2>2 DEF Surjection
<1> QED BY <1>3, <1>5, FS_Surjection

\* The score of an item that has one.
Score(i) == CHOOSE n \in i.score : TRUE

\* What a ranked item is.
LEMMA ChosenAre ==
  ASSUME NEW E \in SUBSET Rows, NEW read \in SetToSeqs(E), NEW g, NEW i \in Items(read, g), i.ranked
  PROVE  g # NoGroup /\ i.group = {g} /\ Score(i) \in Int /\ i.score = {Score(i)}
<1>1. i = ItemOf(read, E, g, i.runtime, i.model, i.obs)
  BY ItemsAre
<1> DEFINE M == Mine(E, i.obs)
<1>2. /\ i.score = {s.score : s \in M} /\ i.group = {s.group : s \in M}
  <2> DEFINE r == ItemOf(read, E, g, i.runtime, i.model, i.obs)
  <2>1. r.score = {s.score : s \in M} /\ r.group = {s.group : s \in M}
    BY DEF ItemOf
  <2> HIDE DEF r
  <2> QED BY <1>1, <2>1 DEF r
<1>3. g # NoGroup /\ \E s \in M : s.group = g
  <2> DEFINE r == ItemOf(read, E, g, i.runtime, i.model, i.obs)
  <2>1. r.ranked = (g # NoGroup /\ \E s \in M : s.group = g)
    BY DEF ItemOf
  <2>2. r.ranked
    BY <1>1
  <2> HIDE DEF r, M
  <2> QED BY <2>1, <2>2, Zenon
<1>4. PICK s \in M : s.group = g
  BY <1>3
<1>5. M = {s}
  BY <1>4, MineIsOne
<1>6. s \in Rows
  BY DEF Mine, Clear
<1> HIDE DEF M
<1>7. i.score = {s.score} /\ i.group = {g}
  BY <1>2, <1>4, <1>5
<1>8. Score(i) = s.score
  BY <1>7 DEF Score
<1> QED BY <1>3, <1>6, <1>7, <1>8, RowsAreSources

\* The identifiers order whatever they identify.
LEMMA FirstOrders ==
  ASSUME NEW S, \A x \in S : x.model \in Nat /\ x.runtime \in Nat /\ x.obs \in Nat,
         \A x, y \in S : x.model = y.model /\ x.runtime = y.runtime /\ x.obs = y.obs => x = y
  PROVE  /\ \A x \in S : ~ First(x, x)
         /\ \A x, y, z \in S : First(x, y) /\ First(y, z) => First(x, z)
         /\ \A x, y \in S : x = y \/ First(x, y) \/ First(y, x)
<1>1. \A x \in S : ~ First(x, x)
  BY DEF First
<1>2. \A x, y, z \in S : First(x, y) /\ First(y, z) => First(x, z)
  BY DEF First
<1>3. ASSUME NEW x \in S, NEW y \in S, x # y PROVE First(x, y) \/ First(y, x)
  <2>1. x.model # y.model \/ x.runtime # y.runtime \/ x.obs # y.obs
    BY <1>3
  <2> QED BY <2>1 DEF First
<1> QED BY <1>1, <1>2, <1>3

\* Both lists of an answer are ordered.
LEMMA ItemsAreOrdered ==
  ASSUME NEW E \in SUBSET Rows, NEW read \in SetToSeqs(E), NEW g, NEW S \in SUBSET Items(read, g)
  PROVE  /\ Orders(Precedes(S), S)
         /\ (\A i \in S : i.ranked) => Orders(RankedBefore(S), S)
<1>1. \A x \in S : x.model \in Nat /\ x.runtime \in Nat /\ x.obs \in Nat
  BY ItemsAre
<1>2. \A x, y \in S : x.model = y.model /\ x.runtime = y.runtime /\ x.obs = y.obs => x = y
  <2> SUFFICES ASSUME NEW x \in S, NEW y \in S, x.model = y.model, x.runtime = y.runtime, x.obs = y.obs
               PROVE  x = y
    OBVIOUS
  <2>1. /\ x = ItemOf(read, E, g, x.runtime, x.model, x.obs)
        /\ y = ItemOf(read, E, g, y.runtime, y.model, y.obs)
    BY ItemsAre
  <2> QED BY <2>1
<1>3. /\ \A x \in S : ~ First(x, x)
      /\ \A x, y, z \in S : First(x, y) /\ First(y, z) => First(x, z)
      /\ \A x, y \in S : x = y \/ First(x, y) \/ First(y, x)
  BY <1>1, <1>2, FirstOrders
<1>4. \A x, y \in S : <<x, y>> \in Precedes(S) <=> First(x, y)
  BY DEF Precedes
<1>5. Orders(Precedes(S), S)
  BY <1>3, <1>4 DEF Orders
<1>6. ASSUME \A i \in S : i.ranked PROVE Orders(RankedBefore(S), S)
  <2> DEFINE R == RankedBefore(S)
  <2>1. \A x \in S : Score(x) \in Int
    BY <1>6, ChosenAre
  <2>2. \A x, y \in S : <<x, y>> \in R <=>
          Score(x) > Score(y) \/ (Score(x) = Score(y) /\ First(x, y))
    <3>1. R = {p \in S \X S : Score(p[1]) > Score(p[2]) \/ (Score(p[1]) = Score(p[2]) /\ First(p[1], p[2]))}
      BY DEF RankedBefore, Score
    <3> HIDE DEF R
    <3> QED BY <3>1
  <2> HIDE DEF R
  <2>3. \A x \in S : <<x, x>> \notin R
    BY <1>3, <2>1, <2>2
  <2>4. ASSUME NEW x \in S, NEW y \in S, NEW z \in S, <<x, y>> \in R, <<y, z>> \in R
        PROVE  <<x, z>> \in R
    <3>1. Score(x) \in Int /\ Score(y) \in Int /\ Score(z) \in Int
      BY <2>1
    <3>2. /\ Score(x) > Score(y) \/ (Score(x) = Score(y) /\ First(x, y))
          /\ Score(y) > Score(z) \/ (Score(y) = Score(z) /\ First(y, z))
      BY <2>2, <2>4
    <3>3. First(x, y) /\ First(y, z) => First(x, z)
      BY <1>3
    <3>4. Score(x) > Score(z) \/ (Score(x) = Score(z) /\ First(x, z))
      BY <3>1, <3>2, <3>3
    <3> QED BY <2>2, <3>4
  <2>5. ASSUME NEW x \in S, NEW y \in S PROVE x = y \/ <<x, y>> \in R \/ <<y, x>> \in R
    <3>1. Score(x) \in Int /\ Score(y) \in Int
      BY <2>1
    <3>2. x = y \/ First(x, y) \/ First(y, x)
      BY <1>3
    <3> QED BY <2>2, <3>1, <3>2
  <2>6. Orders(R, S)
    BY <2>3, <2>4, <2>5 DEF Orders
  <2> QED BY <2>6 DEF R
<1> QED BY <1>5, <1>6
-----------------------------------------------------------------------------
(* The list of an answer: the ranked items, then the others. *)

Chosen(read, g) == {i \in Items(read, g) : i.ranked}

RankedList(read, g) == InOrder(Chosen(read, g), RankedBefore(Chosen(read, g)))

RankedEntries(read, g) ==
  [i \in DOMAIN RankedList(read, g) |->
     [RankedList(read, g)[i] EXCEPT !.rank = {Ranks(RankedList(read, g))[i]}, !.position = {i}]]

Others(read, g) == Items(read, g) \ Chosen(read, g)

OtherEntries(read, g) == InOrder(Others(read, g), Precedes(Others(read, g)))

\* That is what an answer is, unless it is refused.
LEMMA ListIs ==
  ASSUME NEW read, NEW g
  PROVE  Candidates(read, g) = <<>> \/ Candidates(read, g) = RankedEntries(read, g) \o OtherEntries(read, g)
BY DEF Candidates, RankedEntries, OtherEntries, RankedList, Chosen, Others

\* A rank counts the ranked items with better scores.
LEMMA RanksAreCounted ==
  ASSUME NEW E \in SUBSET Rows, NEW read \in SetToSeqs(E), NEW g
  PROVE  /\ Sorted(RankedList(read, g), Chosen(read, g), RankedBefore(Chosen(read, g)))
         /\ \A k \in 1 .. Cardinality(Chosen(read, g)) :
              Ranks(RankedList(read, g))[k] =
                1 + Cardinality({j \in 1 .. Cardinality(Chosen(read, g)) :
                                   Score(RankedList(read, g)[j]) > Score(RankedList(read, g)[k])})
<1> DEFINE C == Chosen(read, g)
           R == RankedBefore(C)
           list == RankedList(read, g)
           N == Cardinality(C)
           v == [k \in 1 .. N |-> Score(list[k])]
<1>1. C \in SUBSET Items(read, g) /\ IsFiniteSet(C) /\ \A i \in C : i.ranked
  <2>1. C \in SUBSET Items(read, g) /\ \A i \in C : i.ranked
    BY DEF Chosen
  <2> HIDE DEF C
  <2> QED BY <2>1, ItemsAreFinite, FS_Subset
<1>2. \A i \in C : Score(i) \in Int /\ i.score = {Score(i)}
  BY <1>1, ChosenAre
<1> HIDE DEF C
<1>3. Orders(R, C)
  BY <1>1, ItemsAreOrdered
<1>4. Sorted(list, C, R)
  <2>1. list = InOrder(C, R)
    BY DEF RankedList, C
  <2> HIDE DEF list, R
  <2> QED BY <1>1, <1>3, <2>1, InOrderSorts
<1>5. \A x, y \in C : <<x, y>> \in R => Score(x) >= Score(y)
  <2>1. R = {p \in C \X C : Score(p[1]) > Score(p[2]) \/ (Score(p[1]) = Score(p[2]) /\ First(p[1], p[2]))}
    BY DEF RankedBefore, Score
  <2> HIDE DEF R
  <2> QED BY <1>2, <2>1
<1> HIDE DEF R, list
<1>6. /\ N \in Nat /\ list \in [1 .. N -> C]
      /\ \A i, j \in 1 .. N : i < j => <<list[i], list[j]>> \in R
  BY <1>4 DEF Sorted
<1> HIDE DEF N
<1>7. GoesDown(list, v, N)
  <2>1. \A k \in 1 .. N : v[k] = Score(list[k]) /\ list[k] \in C /\ v[k] \in Int
    BY <1>2, <1>6
  <2>2. v \in [1 .. N -> Int] /\ DOMAIN list = 1 .. N
    BY <1>6, <2>1
  <2> HIDE DEF v
  <2>3. \A i, j \in 1 .. N : i < j => v[i] >= v[j]
    BY <1>5, <1>6, <2>1
  <2>4. \A i, j \in 1 .. N : list[i].score = list[j].score <=> v[i] = v[j]
    <3> SUFFICES ASSUME NEW i \in 1 .. N, NEW j \in 1 .. N
                 PROVE  list[i].score = list[j].score <=> v[i] = v[j]
      OBVIOUS
    <3>1. list[i].score = {v[i]} /\ list[j].score = {v[j]}
      BY <1>2, <2>1
    <3> QED BY <3>1
  <2> QED BY <1>6, <2>2, <2>3, <2>4 DEF GoesDown
<1>8. \A k \in 1 .. N : Ranks(list)[k] = 1 + Cardinality({j \in 1 .. N : v[j] > v[k]})
  <2> HIDE DEF v
  <2> QED BY <1>7, RanksCount
<1>9. \A k \in 1 .. N : {j \in 1 .. N : v[j] > v[k]} = {j \in 1 .. N : Score(list[j]) > Score(list[k])}
  OBVIOUS
<1> HIDE DEF v
<1>10. \A k \in 1 .. N : Ranks(list)[k] = 1 + Cardinality({j \in 1 .. N : Score(list[j]) > Score(list[k])})
  BY <1>8, <1>9
<1> QED BY <1>4, <1>10 DEF C, R, list, N

\* An entry of a list shows what an item shows.
Echoes(entry, item) ==
  /\ entry.score = item.score /\ entry.group = item.group
  /\ entry.obs = item.obs /\ entry.sourceRank = item.sourceRank

\* The entries of an answer: of the ranked items with their ranks, then of others.
LEMMA EntriesAre ==
  ASSUME NEW E \in SUBSET Rows, NEW read \in SetToSeqs(E), NEW g
  PROVE  /\ \E S : RankedEntries(read, g) \o OtherEntries(read, g) \in Seq(S)
         /\ Cardinality(Chosen(read, g)) \in Nat
         /\ Cardinality(Chosen(read, g)) <= Len(RankedEntries(read, g) \o OtherEntries(read, g))
         /\ \A k \in 1 .. Len(RankedEntries(read, g) \o OtherEntries(read, g)) :
              IF k <= Cardinality(Chosen(read, g))
                THEN /\ Echoes((RankedEntries(read, g) \o OtherEntries(read, g))[k], RankedList(read, g)[k])
                     /\ RankedList(read, g)[k] \in Chosen(read, g)
                     /\ (RankedEntries(read, g) \o OtherEntries(read, g))[k].rank = {Ranks(RankedList(read, g))[k]}
                ELSE /\ (RankedEntries(read, g) \o OtherEntries(read, g))[k] \in Others(read, g)
                     /\ (RankedEntries(read, g) \o OtherEntries(read, g))[k].rank = {}
<1> DEFINE C == Chosen(read, g)
           O == Others(read, g)
           ranked == RankedList(read, g)
           front == RankedEntries(read, g)
           back == OtherEntries(read, g)
           list == front \o back
           N == Cardinality(C)
           M == Cardinality(O)
           S == {front[k] : k \in 1 .. N} \cup O
<1>1. N \in Nat /\ ranked \in [1 .. N -> C]
  BY RanksAreCounted DEF Sorted
<1>2. M \in Nat /\ back \in [1 .. M -> O]
  <2>1. O \in SUBSET Items(read, g)
    BY DEF Others
  <2> HIDE DEF O
  <2>2. IsFiniteSet(O) /\ Orders(Precedes(O), O)
    BY <2>1, ItemsAreFinite, ItemsAreOrdered, FS_Subset
  <2>3. back = InOrder(O, Precedes(O))
    BY DEF OtherEntries, O
  <2> HIDE DEF back
  <2>4. Sorted(back, O, Precedes(O))
    BY <2>2, <2>3, InOrderSorts
  <2> QED BY <2>4 DEF Sorted
<1>3. /\ DOMAIN front = 1 .. N
      /\ \A k \in 1 .. N : front[k] = [ranked[k] EXCEPT !.rank = {Ranks(ranked)[k]}, !.position = {k}]
      /\ front = [k \in 1 .. N |-> front[k]]
  BY <1>1 DEF RankedEntries
<1>4. C \in SUBSET Items(read, g) /\ O \in SUBSET Items(read, g)
  BY DEF Chosen, Others
<1>5. \A i \in Items(read, g) : i = ItemOf(read, E, g, i.runtime, i.model, i.obs)
  BY ItemsAre
<1> HIDE DEF C, O, ranked, front, back, N, M
<1>6. \A i \in Items(read, g) : i.rank = {}
  <2> TAKE i \in Items(read, g)
  <2> DEFINE r == ItemOf(read, E, g, i.runtime, i.model, i.obs)
  <2>1. r.rank = {}
    BY DEF ItemOf
  <2> HIDE DEF r
  <2> QED BY <1>5, <2>1 DEF r
<1>8. ASSUME NEW k \in 1 .. N
      PROVE  Echoes(front[k], ranked[k]) /\ front[k].rank = {Ranks(ranked)[k]} /\ ranked[k] \in C
  <2>1. ranked[k] \in C /\ ranked[k] \in Items(read, g)
    BY <1>1, <1>4
  <2>2. front[k] = [ranked[k] EXCEPT !.rank = {Ranks(ranked)[k]}, !.position = {k}]
    BY <1>3
  <2> DEFINE i == ranked[k]
             r == ItemOf(read, E, g, i.runtime, i.model, i.obs)
             a == {Ranks(ranked)[k]}
  <2>3. i = r
    BY <1>5, <2>1
  <2> HIDE DEF a, i
  <2>4. Echoes([r EXCEPT !.rank = a, !.position = {k}], r) /\ [r EXCEPT !.rank = a, !.position = {k}].rank = a
    BY DEF Echoes, ItemOf
  <2> HIDE DEF r
  <2>5. front[k] = [i EXCEPT !.rank = a, !.position = {k}]
    BY <2>2 DEF a, i
  <2>6. Echoes(front[k], i) /\ front[k].rank = a
    BY <2>3, <2>4, <2>5
  <2> QED BY <2>1, <2>6 DEF a, i
<1>9. front \in Seq(S) /\ Len(front) = N
  <2>1. front \in [1 .. N -> S]
    BY <1>3
  <2> HIDE DEF S
  <2> QED BY <1>1, <2>1
<1>10. back \in Seq(S) /\ Len(back) = M
  <2>1. back \in [1 .. M -> S]
    BY <1>2
  <2> HIDE DEF S
  <2> QED BY <1>2, <2>1
<1> HIDE DEF S
<1>11. /\ list \in Seq(S) /\ Len(list) = N + M
       /\ \A k \in 1 .. N + M : list[k] = IF k <= N THEN front[k] ELSE back[k - N]
  BY <1>9, <1>10, ConcatProperties
<1> HIDE DEF list
<1>12. ASSUME NEW k \in 1 .. N + M
       PROVE  IF k <= N THEN Echoes(list[k], ranked[k]) /\ ranked[k] \in C /\ list[k].rank = {Ranks(ranked)[k]}
                        ELSE list[k] \in O /\ list[k].rank = {}
  <2>1. CASE k <= N
    <3>1. k \in 1 .. N /\ list[k] = front[k]
      BY <1>1, <1>2, <1>11, <2>1
    <3> QED BY <1>8, <2>1, <3>1
  <2>2. CASE ~ (k <= N)
    <3>1. k - N \in 1 .. M /\ list[k] = back[k - N]
      BY <1>1, <1>2, <1>11, <2>2
    <3>2. list[k] \in O
      BY <1>2, <3>1
    <3> QED BY <1>4, <1>6, <2>2, <3>2
  <2> QED BY <2>1, <2>2
<1>13. N <= N + M /\ 1 .. Len(list) = 1 .. N + M
  BY <1>1, <1>2, <1>11
<1> QED BY <1>1, <1>11, <1>12, <1>13 DEF C, O, ranked, front, back, list, N
-----------------------------------------------------------------------------
(* Ranks are earned. *)

\* What is claimed of the ranks, of the groups and of the source ranks in a list.
RankCounts(list, i) ==
  \A n \in list[i].rank : n = 1 + Cardinality(
    {j \in DOMAIN list : list[j].rank # {} /\ list[j].score # list[i].score
                           /\ \A a \in list[j].score, b \in list[i].score : a > b})

SourceCounts(list, i) ==
  \A row \in {x \in evidence : x.obs = list[i].obs /\ x.group # NoGroup} :
    list[i].sourceRank =
      IF row \in Peers(row)
        THEN {1 + Cardinality({x \in Peers(row) : x.score > row.score})} ELSE {}

\* An item's source rank counts among its peers, if it has any.
LEMMA SourceIsCounted ==
  ASSUME evidence \in SUBSET Rows, NEW read \in SetToSeqs(evidence), NEW g,
         NEW item \in Items(read, g), NEW row \in evidence, row.obs = item.obs, row.group # NoGroup
  PROVE  item.sourceRank =
           IF row \in Peers(row)
             THEN {1 + Cardinality({x \in Peers(row) : x.score > row.score})} ELSE {}
<1> DEFINE M == Mine(evidence, item.obs)
           T == {x \in Peers(row) : x.score > row.score}
<1>1. item.sourceRank = {SourceRank(read, s) : s \in M}
  <2> DEFINE r == ItemOf(read, evidence, g, item.runtime, item.model, item.obs)
  <2>1. r.sourceRank = {SourceRank(read, s) : s \in M}
    BY DEF ItemOf
  <2>2. item = r
    BY ItemsAre
  <2> HIDE DEF r, M
  <2> QED BY <2>1, <2>2
<1>2. Peers(row) = {x \in Clear(evidence) : x.group = row.group}
  BY DEF Peers, Clear
<1>3. CASE row \in Peers(row)
  <2>1. row \in Clear(evidence) /\ row \in M
    BY <1>2, <1>3 DEF Mine
  <2>2. M = {row}
    BY <2>1, MineIsOne
  <2>3. SourceRank(read, row)
          = 1 + Cardinality({x \in Clear(evidence) : x.group = row.group /\ x.score > row.score})
    BY <2>1, SourceRankCounts
  <2>4. {x \in Clear(evidence) : x.group = row.group /\ x.score > row.score} = T
    BY <1>2
  <2> HIDE DEF M, T
  <2>5. item.sourceRank = {1 + Cardinality(T)}
    BY <1>1, <2>2, <2>3, <2>4
  <2> QED BY <1>3, <2>5 DEF T
<1>4. CASE row \notin Peers(row)
  <2>1. ASSUME NEW s \in M PROVE FALSE
    <3>1. s \in Clear(evidence) /\ s.obs = row.obs
      BY DEF Mine
    <3>2. row = s
      BY <3>1 DEF Clear
    <3> QED BY <1>2, <1>4, <3>1, <3>2
  <2>2. M = {}
    BY <2>1
  <2> HIDE DEF M
  <2> QED BY <1>1, <1>4, <2>2
<1> QED BY <1>3, <1>4

\* The list of an answer.
LEMMA ListIsEarned ==
  ASSUME evidence \in SUBSET Rows, NEW read \in SetToSeqs(evidence)
  PROVE  /\ \A i \in DOMAIN Candidates(read, group) :
              /\ RankCounts(Candidates(read, group), i)
              /\ Candidates(read, group)[i].rank # {} => Candidates(read, group)[i].group = {group}
              /\ SourceCounts(Candidates(read, group), i)
         /\ \E S : Candidates(read, group) \in Seq(S)
<1>1. CASE Candidates(read, group) = <<>>
  <2>1. DOMAIN Candidates(read, group) = {} /\ Candidates(read, group) \in Seq({})
    BY <1>1
  <2> QED BY <2>1
<1>2. CASE Candidates(read, group) = RankedEntries(read, group) \o OtherEntries(read, group)
  <2> DEFINE list == Candidates(read, group)
             C == Chosen(read, group)
             ranked == RankedList(read, group)
             N == Cardinality(C)
             L == Len(list)
  <2>1. /\ \E S : list \in Seq(S)
        /\ N \in Nat /\ N <= L
        /\ \A k \in 1 .. L :
             IF k <= N THEN /\ Echoes(list[k], ranked[k]) /\ ranked[k] \in C
                            /\ list[k].rank = {Ranks(ranked)[k]}
                       ELSE list[k] \in Others(read, group) /\ list[k].rank = {}
    BY <1>2, EntriesAre
  <2>2. \A k \in 1 .. N : Ranks(ranked)[k] = 1 + Cardinality({j \in 1 .. N : Score(ranked[j]) > Score(ranked[k])})
    BY RanksAreCounted
  <2>3. \A c \in C : /\ c \in Items(read, group) /\ c.group = {group}
                     /\ Score(c) \in Int /\ c.score = {Score(c)}
    <3> SUFFICES ASSUME NEW c \in C
                 PROVE  /\ c \in Items(read, group) /\ c.group = {group}
                        /\ Score(c) \in Int /\ c.score = {Score(c)}
      OBVIOUS
    <3>1. c \in Items(read, group) /\ c.ranked
      BY DEF Chosen
    <3> QED BY <3>1, ChosenAre
  <2> HIDE DEF list, C, ranked
  <2>4. DOMAIN list = 1 .. L /\ L \in Nat
    BY <2>1
  <2> HIDE DEF L, N
  <2>5. ASSUME NEW j \in 1 .. L, j <= N
        PROVE  /\ j \in 1 .. N /\ list[j].score = {Score(ranked[j])} /\ Score(ranked[j]) \in Int
               /\ list[j].rank = {Ranks(ranked)[j]} /\ list[j].group = {group}
    <3>1. Echoes(list[j], ranked[j]) /\ ranked[j] \in C /\ list[j].rank = {Ranks(ranked)[j]}
      BY <2>1, <2>5
    <3>2. j \in 1 .. N
      BY <2>1, <2>4, <2>5
    <3> QED BY <2>3, <3>1, <3>2 DEF Echoes
  <2>6. ASSUME NEW j \in 1 .. L PROVE list[j].rank # {} <=> j <= N
    BY <2>1, <2>5
  <2>7. ASSUME NEW i \in 1 .. L PROVE RankCounts(list, i)
    <3> DEFINE T == {j \in DOMAIN list : list[j].rank # {} /\ list[j].score # list[i].score
                       /\ \A a \in list[j].score, b \in list[i].score : a > b}
               U == {j \in 1 .. N : Score(ranked[j]) > Score(ranked[i])}
    <3> SUFFICES ASSUME NEW n \in list[i].rank PROVE n = 1 + Cardinality(T)
      BY DEF RankCounts
    <3>1. i <= N /\ i \in 1 .. N
      BY <2>5, <2>6
    <3>2. n = 1 + Cardinality(U)
      BY <2>2, <2>5, <3>1
    <3>3. ASSUME NEW j \in T PROVE j \in U
      <4>1. j \in 1 .. L /\ j <= N
        BY <2>4, <2>6
      <4>2. list[j].score = {Score(ranked[j])} /\ list[i].score = {Score(ranked[i])} /\ j \in 1 .. N
        BY <2>5, <3>1, <4>1
      <4>3. \A a \in list[j].score, b \in list[i].score : a > b
        OBVIOUS
      <4> QED BY <4>2, <4>3
    <3>4. ASSUME NEW j \in U PROVE j \in T
      <4>1. j \in 1 .. L /\ j <= N
        BY <2>1, <2>4
      <4>2. /\ list[j].score = {Score(ranked[j])} /\ list[i].score = {Score(ranked[i])}
            /\ Score(ranked[j]) \in Int /\ Score(ranked[i]) \in Int
        BY <2>5, <3>1, <4>1
      <4>3. Score(ranked[j]) > Score(ranked[i])
        OBVIOUS
      <4>4. list[j].rank # {} /\ j \in DOMAIN list
        BY <2>4, <2>6, <4>1
      <4>5. list[j].score # list[i].score /\ \A a \in list[j].score, b \in list[i].score : a > b
        BY <4>2, <4>3
      <4> QED BY <4>4, <4>5
    <3>5. T = U
      BY <3>3, <3>4
    <3> HIDE DEF T, U
    <3> QED BY <3>2, <3>5
  <2>8. ASSUME NEW i \in 1 .. L PROVE SourceCounts(list, i)
    <3>1. PICK item \in Items(read, group) : list[i].obs = item.obs /\ list[i].sourceRank = item.sourceRank
      <4>1. CASE i <= N
        <5>1. Echoes(list[i], ranked[i]) /\ ranked[i] \in Items(read, group)
          BY <2>1, <2>3, <4>1
        <5> QED BY <5>1 DEF Echoes
      <4>2. CASE ~ (i <= N)
        <5>1. list[i] \in Items(read, group)
          BY <2>1, <4>2 DEF Others
        <5> QED BY <5>1
      <4> QED BY <4>1, <4>2
    <3> SUFFICES ASSUME NEW row \in evidence, row.obs = list[i].obs, row.group # NoGroup
                 PROVE  list[i].sourceRank =
                          IF row \in Peers(row)
                            THEN {1 + Cardinality({x \in Peers(row) : x.score > row.score})} ELSE {}
      BY DEF SourceCounts
    <3> QED BY <3>1, SourceIsCounted
  <2>9. \A i \in 1 .. L : list[i].rank # {} => list[i].group = {group}
    BY <2>5, <2>6
  <2> QED BY <2>1, <2>4, <2>7, <2>8, <2>9 DEF list
<1> QED BY <1>1, <1>2, ListIs

\* An answer is what some order of the rows gives.
RankingInv ==
  /\ evidence \in SUBSET Rows
  /\ \A list \in answers : \E read \in SetToSeqs(evidence) : list = Candidates(read, group)

\* So every answer is earned, and all are the same.
LEMMA AnswersAreEarned == RankingInv => RanksAreEarned
<1> SUFFICES ASSUME RankingInv PROVE RanksAreEarned
  OBVIOUS
<1>1. evidence \in SUBSET Rows
  BY DEF RankingInv
<1>2. \A a, b \in answers : a = b
  <2> SUFFICES ASSUME NEW a \in answers, NEW b \in answers PROVE a = b
    OBVIOUS
  <2>1. PICK read \in SetToSeqs(evidence) : a = Candidates(read, group)
    BY DEF RankingInv
  <2>2. PICK again \in SetToSeqs(evidence) : b = Candidates(again, group)
    BY DEF RankingInv
  <2> QED BY <1>1, <2>1, <2>2, ItemsAgree
<1>3. Cardinality(answers) <= 1
  <2>1. CASE answers = {}
    BY <2>1, FS_EmptySet
  <2>2. CASE answers # {}
    <3>1. PICK a \in answers : TRUE
      BY <2>2
    <3>2. answers = {a}
      BY <1>2, <3>1
    <3> QED BY <3>2, FS_Singleton
  <2> QED BY <2>1, <2>2
<1>4. ASSUME NEW list \in answers
      PROVE  /\ \A i \in DOMAIN list :
                  /\ RankCounts(list, i)
                  /\ list[i].rank # {} => list[i].group = {group}
                  /\ SourceCounts(list, i)
             /\ \A limit \in 1 .. 2 :
                  list = FlattenSeq([k \in 1 .. Len(list) |-> Page(list, (k - 1) * limit, limit)])
  <2>1. PICK read \in SetToSeqs(evidence) : list = Candidates(read, group)
    BY DEF RankingInv
  <2>2. /\ \A i \in DOMAIN list :
             /\ RankCounts(list, i)
             /\ list[i].rank # {} => list[i].group = {group}
             /\ SourceCounts(list, i)
        /\ \E S : list \in Seq(S)
    BY <1>1, <2>1, ListIsEarned
  <2>3. ASSUME NEW limit \in 1 .. 2
        PROVE  list = FlattenSeq([k \in 1 .. Len(list) |-> Page(list, (k - 1) * limit, limit)])
    <3>1. PICK S : list \in Seq(S)
      BY <2>2
    <3>2. limit \in {1, 2}
      OBVIOUS
    <3> QED BY <3>1, <3>2, PagesAreTheList
  <2> QED BY <2>2, <2>3
<1> QED BY <1>3, <1>4 DEF RanksAreEarned, RankCounts, SourceCounts

\* For every finite set of evidence and runtimes, whatever the order in which
\* the database returns the rows: one answer, whose ranks count the strictly
\* better items of its group, and whose pages are the list (candidates,
\* order_scores).
THEOREM RanksStayEarned == RankingSpec => []RanksAreEarned
<1>1. RankingInit => RankingInv
  BY DEF RankingInit, RankingInv
<1>2. RankingInv /\ [RankingNext]_rankingVars => RankingInv'
  BY DEF RankingInv, RankingNext, Ask, rankingVars
<1> QED BY <1>1, <1>2, AnswersAreEarned, PTL DEF RankingSpec
=============================================================================
