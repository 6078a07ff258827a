---------------------------- MODULE LlmWork_proofs ----------------------------
(***************************************************************************)
(* Proofs about LlmBudget and LlmWork, for every finite set of callers,    *)
(* every cap, estimates and costs of any size, and any sources, rows and   *)
(* scores.  The first part is about SumFunctionOnSet of the community      *)
(* modules over finite sets: what it is for the empty set, when an element *)
(* is taken out, and when values change.                                   *)
(***************************************************************************)
EXTENDS LlmWork, FiniteSetTheorems, SequenceTheorems, TLAPS

-----------------------------------------------------------------------------
(* Sums. *)

\* What the sum's definition recurses by: any element first.
Step(f, g, s) ==
  IF s = {} THEN 0 ELSE f[CHOOSE x \in s : TRUE] + g[s \ {CHOOSE x \in s : TRUE}]

\* g sums f over the sets in U.
SumsUp(f, g, U) == g = [s \in U |-> Step(f, g, s)]

\* The community modules' definition, in these terms.
LEMMA SumIsChosen ==
  ASSUME NEW f, NEW S
  PROVE  SumFunctionOnSet(f, S) = (CHOOSE g : SumsUp(f, g, SUBSET S))[S]
BY DEF SumFunctionOnSet, FoldFunctionOnSet, MapThenFoldSet, SumsUp, Step

\* Induction over the subsets of a finite set: of those that break a claim,
\* one is smallest.
LEMMA SmallestSet ==
  ASSUME NEW S, IsFiniteSet(S), NEW T, T \subseteq SUBSET S, T # {}
  PROVE  \E t \in T : \A u \in T : u \subseteq t => u = t
<1>1. IsWellFoundedOn(StrictSubsetOrdering(S), SUBSET S)
  BY FS_StrictSubsetOrderingWellFounded, FS_FiniteSubsetsOfFinite
<1>2. PICK t \in T : \A u \in T : ~ (<<u, t>> \in StrictSubsetOrdering(S))
  BY <1>1, WFMin
<1> QED BY <1>2 DEF StrictSubsetOrdering

\* A sum over small sets extends to the sets with one element more.
LEMMA SumsExtend ==
  ASSUME NEW S, IsFiniteSet(S), NEW f, NEW n \in Nat,
         \E g : SumsUp(f, g, {t \in SUBSET S : Cardinality(t) <= n})
  PROVE  \E g : SumsUp(f, g, {t \in SUBSET S : Cardinality(t) <= n + 1})
<1> DEFINE U(m) == {t \in SUBSET S : Cardinality(t) <= m}
<1>1. PICK g : SumsUp(f, g, U(n))
  OBVIOUS
<1> DEFINE h == [s \in U(n + 1) |-> Step(f, g, s)]
<1>2. \A s \in SUBSET S : IsFiniteSet(s) /\ Cardinality(s) \in Nat
  BY FS_Subset, FS_CardinalityType
<1>3. \A s \in U(n) : s \in U(n + 1) /\ h[s] = g[s]
  BY <1>1, <1>2 DEF SumsUp
<1>4. \A s \in U(n + 1) : \A x \in s : s \ {x} \in U(n)
  <2> TAKE s \in U(n + 1)
  <2> TAKE x \in s
  <2>1. IsFiniteSet(s) /\ Cardinality(s) \in Nat /\ Cardinality(s) <= n + 1
    BY <1>2
  <2>2. Cardinality(s \ {x}) = Cardinality(s) - 1
    BY <2>1, FS_RemoveElement
  <2> QED BY <2>1, <2>2
<1>a. h = [s \in U(n + 1) |-> Step(f, g, s)]
  OBVIOUS
<1> HIDE DEF h, U
<1>5. \A s \in U(n + 1) : Step(f, g, s) = Step(f, h, s)
  <2> TAKE s \in U(n + 1)
  <2>1. CASE s = {}
    BY <2>1 DEF Step
  <2>2. CASE s # {}
    <3> DEFINE y == CHOOSE x \in s : TRUE
    <3>1. y \in s
      BY <2>2
    <3>2. h[s \ {y}] = g[s \ {y}]
      BY <1>3, <1>4, <3>1
    <3> QED BY <2>2, <3>2 DEF Step
  <2> QED BY <2>1, <2>2
<1>7. SumsUp(f, h, U(n + 1))
  BY <1>a, <1>5 DEF SumsUp
<1> QED BY <1>7 DEF U

\* So there is one over all subsets.
LEMMA SumExists ==
  ASSUME NEW S, IsFiniteSet(S), NEW f
  PROVE  \E g : SumsUp(f, g, SUBSET S)
<1> DEFINE U(m) == {t \in SUBSET S : Cardinality(t) <= m}
           Good == {n \in Nat : \E g : SumsUp(f, g, U(n))}
<1>0. \A s \in SUBSET S : IsFiniteSet(s) /\ Cardinality(s) \in Nat /\ Cardinality(s) <= Cardinality(S)
  BY FS_Subset, FS_CardinalityType
<1>1. 0 \in Good
  <2> DEFINE g == [s \in U(0) |-> 0]
  <2>1. \A s \in U(0) : s = {}
    BY <1>0, FS_EmptySet
  <2>2. SumsUp(f, g, U(0))
    BY <2>1 DEF SumsUp, Step
  <2> QED BY <2>2
<1>2. \A n \in Good : n + 1 \in Good
  <2> TAKE n \in Good
  <2>1. n \in Nat /\ \E g : SumsUp(f, g, {t \in SUBSET S : Cardinality(t) <= n})
    OBVIOUS
  <2>2. \E g : SumsUp(f, g, {t \in SUBSET S : Cardinality(t) <= n + 1})
    BY <2>1, SumsExtend
  <2>3. n + 1 \in Nat
    BY <2>1
  <2> QED BY <2>2, <2>3, Zenon
<1>3. Nat \subseteq Good
  <2> SUFFICES ASSUME Nat \ Good # {} PROVE FALSE
    OBVIOUS
  <2>1. PICK n \in Nat \ Good : \A m \in Nat \ Good : ~ (<<m, n>> \in OpToRel(<, Nat))
    BY NatLessThanWellFounded, WFMin
  <2> HIDE DEF Good
  <2>2. \A m \in Nat \ Good : ~ (m < n)
    BY <2>1 DEF OpToRel
  <2>3. n # 0 /\ n - 1 \in Nat /\ n - 1 \in Good
    BY <1>1, <2>2
  <2> QED BY <1>2, <2>3
<1>4. Cardinality(S) \in Good
  BY <1>0, <1>3
<1>5. U(Cardinality(S)) = SUBSET S
  BY <1>0
<1> QED BY <1>4, <1>5

\* Whichever element of a set is taken out.
Additive(f, g, S) ==
  /\ \A t \in SUBSET S : g[t] \in Int
  /\ \A t \in SUBSET S : \A x \in t : g[t] = f[x] + g[t \ {x}]

\* What a sum over all subsets is does not depend on the order.
LEMMA AnyElementFirst ==
  ASSUME NEW S, IsFiniteSet(S), NEW f, \A s \in S : f[s] \in Int, NEW g, SumsUp(f, g, SUBSET S)
  PROVE  Additive(f, g, S)
<1>1. \A t \in SUBSET S : g[t] = Step(f, g, t)
  BY DEF SumsUp
<1>2. g[{}] = 0
  BY <1>1 DEF Step
<1>3. \A t \in SUBSET S : t # {} => \E y \in t : g[t] = f[y] + g[t \ {y}]
  BY <1>1 DEF Step
<1> DEFINE Odd == {t \in SUBSET S : g[t] \notin Int}
           Bad == {t \in SUBSET S : \E x \in t : g[t] # f[x] + g[t \ {x}]}
<1>4. Odd = {}
  <2> SUFFICES ASSUME Odd # {} PROVE FALSE
    OBVIOUS
  <2>0. Odd \subseteq SUBSET S /\ \A t \in SUBSET S : t \in Odd <=> g[t] \notin Int
    OBVIOUS
  <2> HIDE DEF Odd
  <2>1. PICK t \in Odd : \A u \in Odd : u \subseteq t => u = t
    BY <2>0, SmallestSet
  <2>2. t \in SUBSET S /\ g[t] \notin Int
    BY <2>0
  <2>a. t # {}
    <3>1. 0 \in Int
      OBVIOUS
    <3> QED BY <1>2, <2>2, <3>1, Zenon
  <2>3. PICK y \in t : g[t] = f[y] + g[t \ {y}]
    BY <1>3, <2>2, <2>a
  <2>4. t \ {y} \in SUBSET S /\ t \ {y} # t /\ t \ {y} \subseteq t
    BY <2>2, <2>3
  <2>5. g[t \ {y}] \in Int
    BY <2>0, <2>1, <2>4
  <2> QED BY <2>2, <2>3, <2>5
<1>5. Bad = {}
  <2> SUFFICES ASSUME Bad # {} PROVE FALSE
    OBVIOUS
  <2>0. /\ Bad \subseteq SUBSET S
        /\ \A t \in SUBSET S : t \in Bad <=> \E x \in t : g[t] # f[x] + g[t \ {x}]
    OBVIOUS
  <2> HIDE DEF Bad
  <2>1. PICK t \in Bad : \A u \in Bad : u \subseteq t => u = t
    BY <2>0, SmallestSet
  <2>2. PICK x \in t : g[t] # f[x] + g[t \ {x}]
    BY <2>0
  <2>3. t \in SUBSET S
    BY <2>0
  <2>4. PICK y \in t : g[t] = f[y] + g[t \ {y}]
    BY <1>3, <2>2, <2>3
  <2>5. x # y
    BY <2>2, <2>4
  <2>6. \A z \in t : \A w \in t \ {z} : g[t \ {z}] = f[w] + g[(t \ {z}) \ {w}]
    <3> TAKE z \in t
    <3>1. t \ {z} \in SUBSET S /\ t \ {z} # t /\ t \ {z} \subseteq t
      BY <2>3
    <3> QED BY <2>0, <2>1, <3>1
  <2> DEFINE rest == (t \ {y}) \ {x}
  <2>7. g[t \ {y}] = f[x] + g[rest]
    BY <2>5, <2>6
  <2>8. g[t \ {x}] = f[y] + g[rest]
    <3>1. (t \ {x}) \ {y} = rest
      OBVIOUS
    <3> HIDE DEF rest
    <3> QED BY <2>5, <2>6, <3>1
  <2>9. rest \in SUBSET S /\ f[x] \in Int /\ f[y] \in Int
    BY <2>3
  <2>10. g[rest] \in Int
    <3> HIDE DEF rest
    <3> QED BY <1>4, <2>9
  <2> HIDE DEF rest
  <2> QED BY <2>2, <2>4, <2>7, <2>8, <2>9, <2>10
<1> QED BY <1>4, <1>5 DEF Additive

Agree(f, e, S) == \A x \in S : f[x] = e[x]

\* A sum depends on the values in its set only.
LEMMA SumsAgree ==
  ASSUME NEW S, IsFiniteSet(S), NEW f, NEW e, Agree(f, e, S),
         NEW U, S \in SUBSET U, NEW g, SumsUp(f, g, SUBSET U), NEW h, SumsUp(e, h, SUBSET S)
  PROVE  g[S] = h[S]
<1> DEFINE Bad == {t \in SUBSET S : g[t] # h[t]}
<1> SUFFICES ASSUME Bad # {} PROVE FALSE
  OBVIOUS
<1>0. Bad \subseteq SUBSET S /\ \A t \in SUBSET S : t \in Bad <=> g[t] # h[t]
  OBVIOUS
<1> HIDE DEF Bad
<1>1. PICK t \in Bad : \A u \in Bad : u \subseteq t => u = t
  BY <1>0, SmallestSet
<1>2. t \in SUBSET U /\ t \in SUBSET S /\ g[t] # h[t]
  BY <1>0
<1>3. g[t] = Step(f, g, t) /\ h[t] = Step(e, h, t)
  BY <1>2 DEF SumsUp
<1>4. \A x \in t : f[x] = e[x] /\ g[t \ {x}] = h[t \ {x}]
  <2> TAKE x \in t
  <2>1. t \ {x} \in SUBSET S /\ t \ {x} # t /\ t \ {x} \subseteq t
    BY <1>2
  <2> QED BY <1>0, <1>1, <1>2, <2>1 DEF Agree
<1>5. CASE t = {}
  BY <1>2, <1>3, <1>5 DEF Step
<1>6. CASE t # {}
  <2> DEFINE y == CHOOSE x \in t : TRUE
  <2>1. y \in t
    BY <1>6
  <2>2. f[y] = e[y] /\ g[t \ {y}] = h[t \ {y}]
    BY <1>4, <2>1
  <2> QED BY <1>2, <1>3, <1>6, <2>2 DEF Step
<1> QED BY <1>5, <1>6

-----------------------------------------------------------------------------

\* The sum over the empty set.
THEOREM SumEmpty == \A f : SumFunctionOnSet(f, {}) = 0
<1> TAKE f
<1>1. PICK g : SumsUp(f, g, SUBSET {})
  BY SumExists, FS_EmptySet
<1>2. SumsUp(f, CHOOSE h : SumsUp(f, h, SUBSET {}), SUBSET {})
  BY <1>1
<1> QED BY <1>2, SumIsChosen DEF SumsUp, Step

\* The sum over a smaller set is part of every sum over a larger one.
LEMMA SumIsPart ==
  ASSUME NEW U, IsFiniteSet(U), NEW S, S \subseteq U, NEW f, NEW g, SumsUp(f, g, SUBSET U)
  PROVE  SumFunctionOnSet(f, S) = g[S]
<1>1. IsFiniteSet(S)
  BY FS_Subset
<1> DEFINE c == CHOOSE h : SumsUp(f, h, SUBSET S)
<1>2. SumsUp(f, c, SUBSET S)
  BY <1>1, SumExists
<1>3. SumFunctionOnSet(f, S) = c[S]
  BY SumIsChosen
<1> HIDE DEF c
<1>4. g[S] = c[S]
  <2>1. Agree(f, f, S) /\ S \in SUBSET U
    BY DEF Agree
  <2> QED BY <1>1, <1>2, <2>1, SumsAgree
<1> QED BY <1>3, <1>4

\* Any element of a finite set may be taken out of its sum.
THEOREM SumTakeOut ==
  ASSUME NEW S, IsFiniteSet(S), NEW f, \A s \in S : f[s] \in Int
  PROVE  /\ SumFunctionOnSet(f, S) \in Int
         /\ \A x \in S : SumFunctionOnSet(f, S) = f[x] + SumFunctionOnSet(f, S \ {x})
<1>1. PICK g : SumsUp(f, g, SUBSET S)
  BY SumExists
<1>2. /\ \A t \in SUBSET S : g[t] \in Int
      /\ \A t \in SUBSET S : \A x \in t : g[t] = f[x] + g[t \ {x}]
  <2>1. Additive(f, g, S)
    BY <1>1, AnyElementFirst
  <2> QED BY <2>1 DEF Additive
<1>3. \A t \in SUBSET S : SumFunctionOnSet(f, t) = g[t]
  BY <1>1, SumIsPart
<1> QED BY <1>2, <1>3

\* Functions that agree on a set have the same sum over it.
THEOREM SumSame ==
  ASSUME NEW S, IsFiniteSet(S), NEW f, NEW e, \A s \in S : f[s] = e[s]
  PROVE  SumFunctionOnSet(f, S) = SumFunctionOnSet(e, S)
<1>1. PICK g : SumsUp(f, g, SUBSET S)
  BY SumExists
<1>2. PICK h : SumsUp(e, h, SUBSET S)
  BY SumExists
<1>3. g[S] = h[S]
  BY <1>1, <1>2, SumsAgree DEF Agree
<1> QED BY <1>1, <1>2, <1>3, SumIsPart

\* An element added to a set adds its value.
THEOREM SumAdd ==
  ASSUME NEW S, IsFiniteSet(S), NEW x, x \notin S, NEW f, \A s \in S \cup {x} : f[s] \in Int
  PROVE  SumFunctionOnSet(f, S \cup {x}) = SumFunctionOnSet(f, S) + f[x]
<1>1. IsFiniteSet(S \cup {x}) /\ (S \cup {x}) \ {x} = S
  BY FS_AddElement
<1>2. SumFunctionOnSet(f, S) \in Int
  BY SumTakeOut
<1>3. SumFunctionOnSet(f, S \cup {x}) = f[x] + SumFunctionOnSet(f, (S \cup {x}) \ {x})
  BY <1>1, SumTakeOut
<1>4. f[x] \in Int
  OBVIOUS
<1>5. SumFunctionOnSet(f, S \cup {x}) = f[x] + SumFunctionOnSet(f, S)
  BY <1>1, <1>3, Zenon
<1> QED BY <1>2, <1>4, <1>5

\* A sum changes by what the value of the only changed element does.
THEOREM SumChange ==
  ASSUME NEW S, IsFiniteSet(S), NEW f, NEW e, NEW x \in S,
         \A s \in S : f[s] \in Int /\ e[s] \in Int,
         \A s \in S \ {x} : e[s] = f[s]
  PROVE  SumFunctionOnSet(e, S) = SumFunctionOnSet(f, S) - f[x] + e[x]
<1>1. IsFiniteSet(S \ {x})
  BY FS_RemoveElement
<1>2. SumFunctionOnSet(e, S \ {x}) = SumFunctionOnSet(f, S \ {x})
  BY <1>1, SumSame
<1>3. SumFunctionOnSet(f, S \ {x}) \in Int
  BY <1>1, SumTakeOut
<1>4. /\ SumFunctionOnSet(e, S) = e[x] + SumFunctionOnSet(e, S \ {x})
      /\ SumFunctionOnSet(f, S) = f[x] + SumFunctionOnSet(f, S \ {x})
  BY SumTakeOut
<1> QED BY <1>2, <1>3, <1>4

\* A sum of naturals is a natural number.
THEOREM SumNat ==
  ASSUME NEW S, IsFiniteSet(S), NEW f, \A s \in S : f[s] \in Nat
  PROVE  SumFunctionOnSet(f, S) \in Nat
<1> DEFINE Bad == {t \in SUBSET S : SumFunctionOnSet(f, t) \notin Nat}
<1> SUFFICES ASSUME Bad # {} PROVE FALSE
  OBVIOUS
<1>0. /\ Bad \subseteq SUBSET S
      /\ \A t \in SUBSET S : t \in Bad <=> SumFunctionOnSet(f, t) \notin Nat
  OBVIOUS
<1> HIDE DEF Bad
<1>1. PICK t \in Bad : \A u \in Bad : u \subseteq t => u = t
  BY <1>0, SmallestSet
<1>2. t \in SUBSET S /\ t # {}
  BY <1>0, SumEmpty
<1>3. PICK x \in t : TRUE
  BY <1>2
<1>4. IsFiniteSet(t) /\ \A s \in t : f[s] \in Int
  BY <1>2, FS_Subset
<1>5. SumFunctionOnSet(f, t) = f[x] + SumFunctionOnSet(f, t \ {x})
  BY <1>3, <1>4, SumTakeOut
<1>6. t \ {x} \in SUBSET S /\ t \ {x} # t /\ t \ {x} \subseteq t
  BY <1>2
<1>7. SumFunctionOnSet(f, t \ {x}) \in Nat
  BY <1>0, <1>1, <1>6
<1> QED BY <1>0, <1>2, <1>5, <1>7

\* Larger values have a larger sum.
THEOREM SumMonotonic ==
  ASSUME NEW S, IsFiniteSet(S), NEW f, NEW e,
         \A s \in S : f[s] \in Int /\ e[s] \in Int /\ f[s] <= e[s]
  PROVE  SumFunctionOnSet(f, S) <= SumFunctionOnSet(e, S)
<1> DEFINE Bad == {t \in SUBSET S : ~ (SumFunctionOnSet(f, t) <= SumFunctionOnSet(e, t))}
<1> SUFFICES ASSUME Bad # {} PROVE FALSE
  OBVIOUS
<1>0. /\ Bad \subseteq SUBSET S
      /\ \A t \in SUBSET S :
           t \in Bad <=> ~ (SumFunctionOnSet(f, t) <= SumFunctionOnSet(e, t))
  OBVIOUS
<1> HIDE DEF Bad
<1>1. PICK t \in Bad : \A u \in Bad : u \subseteq t => u = t
  BY <1>0, SmallestSet
<1>a. SumFunctionOnSet(f, {}) = 0 /\ SumFunctionOnSet(e, {}) = 0
  BY SumEmpty
<1>2. t \in SUBSET S /\ t # {}
  BY <1>0, <1>a
<1>3. PICK x \in t : TRUE
  BY <1>2
<1>4. IsFiniteSet(t) /\ IsFiniteSet(t \ {x}) /\ t \ {x} \in SUBSET S
  BY <1>2, FS_Subset
<1>5. /\ SumFunctionOnSet(f, t) = f[x] + SumFunctionOnSet(f, t \ {x})
      /\ SumFunctionOnSet(e, t) = e[x] + SumFunctionOnSet(e, t \ {x})
  BY <1>2, <1>4, SumTakeOut
<1>6. SumFunctionOnSet(f, t \ {x}) \in Int /\ SumFunctionOnSet(e, t \ {x}) \in Int
  BY <1>2, <1>4, SumTakeOut
<1>7. SumFunctionOnSet(f, t \ {x}) <= SumFunctionOnSet(e, t \ {x})
  BY <1>0, <1>1, <1>4
<1>8. f[x] \in Int /\ e[x] \in Int /\ f[x] <= e[x]
  BY <1>2
<1> QED BY <1>0, <1>2, <1>5, <1>6, <1>7, <1>8

\* An element's part of a sum, whether it is in the set or not.
THEOREM SumSplit ==
  ASSUME NEW S, IsFiniteSet(S), NEW f, NEW x, \A s \in S : f[s] \in Int
  PROVE  /\ IsFiniteSet(S \ {x})
         /\ SumFunctionOnSet(f, S \ {x}) \in Int
         /\ SumFunctionOnSet(f, S) =
              SumFunctionOnSet(f, S \ {x}) + (IF x \in S THEN f[x] ELSE 0)
<1>1. IsFiniteSet(S \ {x})
  BY FS_RemoveElement
<1>2. SumFunctionOnSet(f, S \ {x}) \in Int /\ SumFunctionOnSet(f, S) \in Int
  BY <1>1, SumTakeOut
<1>3. CASE x \in S
  <2>1. SumFunctionOnSet(f, S) = f[x] + SumFunctionOnSet(f, S \ {x}) /\ f[x] \in Int
    BY <1>3, SumTakeOut
  <2> QED BY <1>1, <1>2, <1>3, <2>1
<1>4. CASE x \notin S
  <2>1. S \ {x} = S
    BY <1>4
  <2> QED BY <1>1, <1>2, <1>4, <2>1
<1> QED BY <1>3, <1>4

\* Values that are not negative sum up to no less over a larger set.
THEOREM SumSubset ==
  ASSUME NEW S, IsFiniteSet(S), NEW T \in SUBSET S, NEW f,
         \A s \in S : f[s] \in Int, \A s \in S \ T : f[s] >= 0
  PROVE  SumFunctionOnSet(f, T) <= SumFunctionOnSet(f, S)
<1> DEFINE Bad == {t \in SUBSET S : ~ (SumFunctionOnSet(f, t \cap T) <= SumFunctionOnSet(f, t))}
<1> SUFFICES ASSUME Bad # {} PROVE FALSE
  <2>1. S \in SUBSET S /\ S \cap T = T
    OBVIOUS
  <2> QED BY <2>1
<1>0. /\ Bad \subseteq SUBSET S
      /\ \A t \in SUBSET S :
           t \in Bad <=> ~ (SumFunctionOnSet(f, t \cap T) <= SumFunctionOnSet(f, t))
  OBVIOUS
<1> HIDE DEF Bad
<1>1. PICK t \in Bad : \A u \in Bad : u \subseteq t => u = t
  BY <1>0, SmallestSet
<1>a. SumFunctionOnSet(f, {} \cap T) <= SumFunctionOnSet(f, {})
  <2>1. SumFunctionOnSet(f, {}) = 0 /\ {} \cap T = {}
    BY SumEmpty
  <2> QED BY <2>1
<1>2. t \in SUBSET S /\ t # {}
  BY <1>0, <1>a, Zenon
<1>3. PICK x \in t : TRUE
  BY <1>2
<1>4. /\ IsFiniteSet(t) /\ IsFiniteSet(t \cap T) /\ t \ {x} \in SUBSET S
      /\ \A s \in t : f[s] \in Int
  BY <1>2, FS_Subset
<1>5. /\ SumFunctionOnSet(f, t \ {x}) \in Int
      /\ SumFunctionOnSet(f, t) = SumFunctionOnSet(f, t \ {x}) + f[x]
  BY <1>3, <1>4, SumSplit
<1>6. /\ SumFunctionOnSet(f, (t \cap T) \ {x}) \in Int
      /\ SumFunctionOnSet(f, t \cap T) =
           SumFunctionOnSet(f, (t \cap T) \ {x}) + (IF x \in T THEN f[x] ELSE 0)
  <2>1. x \in t \cap T <=> x \in T
    BY <1>3
  <2>2. \A s \in t \cap T : f[s] \in Int
    BY <1>4
  <2>3. /\ SumFunctionOnSet(f, (t \cap T) \ {x}) \in Int
        /\ SumFunctionOnSet(f, t \cap T) =
             SumFunctionOnSet(f, (t \cap T) \ {x}) + (IF x \in t \cap T THEN f[x] ELSE 0)
    BY <1>4, <2>2, SumSplit
  <2> QED BY <2>1, <2>3
<1>7. SumFunctionOnSet(f, (t \cap T) \ {x}) <= SumFunctionOnSet(f, t \ {x})
  <2>1. (t \ {x}) \cap T = (t \cap T) \ {x} /\ t \ {x} # t /\ t \ {x} \subseteq t
    BY <1>3
  <2>2. SumFunctionOnSet(f, (t \ {x}) \cap T) <= SumFunctionOnSet(f, t \ {x})
    BY <1>0, <1>1, <1>4, <2>1
  <2> QED BY <2>1, <2>2
<1>8. f[x] \in Int /\ (x \notin T => f[x] >= 0)
  BY <1>2
<1> QED BY <1>0, <1>2, <1>5, <1>6, <1>7, <1>8

\* Zeros add up to zero.
THEOREM SumZero ==
  ASSUME NEW S, IsFiniteSet(S), NEW f, \A s \in S : f[s] = 0
  PROVE  SumFunctionOnSet(f, S) = 0
<1> DEFINE Bad == {t \in SUBSET S : SumFunctionOnSet(f, t) # 0}
<1> SUFFICES ASSUME Bad # {} PROVE FALSE
  OBVIOUS
<1>0. /\ Bad \subseteq SUBSET S
      /\ \A t \in SUBSET S : t \in Bad <=> SumFunctionOnSet(f, t) # 0
  OBVIOUS
<1> HIDE DEF Bad
<1>1. PICK t \in Bad : \A u \in Bad : u \subseteq t => u = t
  BY <1>0, SmallestSet
<1>2. t \in SUBSET S /\ t # {}
  BY <1>0, SumEmpty
<1>3. PICK x \in t : TRUE
  BY <1>2
<1>4. IsFiniteSet(t) /\ (\A s \in t : f[s] \in Int) /\ t \ {x} \in SUBSET S /\ f[x] = 0
  BY <1>2, <1>3, FS_Subset
<1>5. /\ SumFunctionOnSet(f, t \ {x}) \in Int
      /\ SumFunctionOnSet(f, t) = SumFunctionOnSet(f, t \ {x}) + f[x]
  BY <1>3, <1>4, SumSplit
<1>6. SumFunctionOnSet(f, t \ {x}) = 0
  <2>1. t \ {x} # t /\ t \ {x} \subseteq t
    BY <1>3
  <2> QED BY <1>0, <1>1, <1>4, <2>1
<1> QED BY <1>0, <1>1, <1>2, <1>4, <1>5, <1>6

-----------------------------------------------------------------------------
(* The hourly budget. *)

\* What a caller holds, it holds during a call only.
Fenced ==
  \A c \in Caller :
    /\ pc[c] = "idle" => held[c] = NoReservation
    /\ pc[c] # "answered" => actual[c] = 0

\* What a settlement may take out of the tally beyond the reservation.
Kept(c) == IF pc[c] = "answered" THEN -actual[c] ELSE 0

\* What was charged or lost covers it, so that the tally stops at zero by
\* itself and the floor of Add is never met.
Covered ==
  \A h \in Hour :
    spent[h] + leaked[h] + SumFunctionOnSet([c \in Caller |-> Kept(c)], Reserved(h)) >= 0

BudgetInv == TypeOK /\ Fenced /\ Covered /\ TallyIsExact

\* It holds at the start.
LEMMA BudgetInit == Init => BudgetInv
<1> SUFFICES ASSUME Init PROVE BudgetInv
  OBVIOUS
<1> USE BudgetAssumption
<1>1. TypeOK
  BY DEF Init, TypeOK, Hour, Phase, Reservation, NoReservation
<1>2. Fenced
  BY DEF Init, Fenced
<1>3. \A h \in Hour : Reserved(h) = {}
  BY DEF Init, Reserved
<1>4. \A f : SumFunctionOnSet(f, {}) = 0
  BY SumEmpty
<1>5. Covered
  BY <1>3, <1>4 DEF Init, Covered
<1>6. TallyIsExact
  BY <1>3, <1>4 DEF Init, TallyIsExact, Unsettled
<1> QED BY <1>1, <1>2, <1>5, <1>6 DEF BudgetInv

\* What a caller holds is typed.
LEMMA Holding ==
  ASSUME TypeOK, NEW c \in Caller
  PROVE  /\ held[c] \in Reservation /\ held[c].estimate \in Nat /\ held[c].hour \in Hour
         /\ actual[c] \in Nat /\ Refund(c) \in Int
         /\ Kept(c) \in Int /\ Kept(c) <= -Refund(c) /\ Kept(c) <= 0
<1>1. held[c] \in Reservation /\ actual[c] \in Nat
  BY DEF TypeOK
<1>2. held[c].hour \in Hour /\ held[c].estimate \in Estimate \cup {0}
  BY <1>1 DEF Reservation
<1>3. held[c].estimate \in Nat
  <2>1. Estimate \cup {0} \subseteq Nat
    BY BudgetAssumption
  <2> QED BY <1>2, <2>1
<1> QED BY <1>1, <1>2, <1>3 DEF Refund, Kept

RefundsAreInts == \A c \in Caller : Refund(c) \in Int /\ Kept(c) \in Int

\* So are refunds.
LEMMA RefundTypes == TypeOK => RefundsAreInts
BY Holding DEF RefundsAreInts

\* An upsert leaves the tally natural numbers.
LEMMA AddTypes ==
  ASSUME tally \in [Hour -> Nat], NEW h \in Hour, NEW n \in Int, Add(h, n)
  PROVE  tally' \in [Hour -> Nat]
BY DEF Add

\* Every step keeps the types.
LEMMA BudgetTypes == TypeOK /\ [Next]_vars => TypeOK'
<1> SUFFICES ASSUME TypeOK, [Next]_vars PROVE TypeOK'
  OBVIOUS
<1> USE DEF TypeOK, Phase
<1>1. ASSUME NEW c \in Caller, NEW e \in Estimate, Reserve(c, e) PROVE TypeOK'
  <2>1. e \in Int /\ [hour |-> hour, estimate |-> e] \in Reservation
    BY BudgetAssumption DEF Reservation
  <2>2. tally' \in [Hour -> Nat]
    BY <1>1, <2>1, AddTypes DEF Reserve
  <2>3. held' \in [Caller -> Reservation]
    BY <1>1, <2>1 DEF Reserve
  <2>4. pc' \in [Caller -> Phase]
    BY <1>1 DEF Reserve
  <2> QED BY <1>1, <2>2, <2>3, <2>4 DEF Reserve
<1>2. ASSUME NEW c \in Caller, NEW n \in 0 .. held[c].estimate + Overrun, Complete(c, n)
      PROVE  TypeOK'
  <2>1. held[c].hour \in Hour /\ n \in Nat
    BY Holding, BudgetAssumption
  <2>2. spent' \in [Hour -> Nat] /\ calls' \in [Hour -> Nat]
    BY <1>2, <2>1 DEF Complete
  <2>3. pc' \in [Caller -> Phase] /\ actual' \in [Caller -> Nat]
    BY <1>2, <2>1 DEF Complete
  <2> QED BY <1>2, <2>2, <2>3 DEF Complete
<1>3. ASSUME NEW c \in Caller, FailCall(c) PROVE TypeOK'
  BY <1>3 DEF FailCall
<1>4. ASSUME NEW c \in Caller, EndCall(c)
      PROVE  pc' \in [Caller -> Phase] /\ held' \in [Caller -> Reservation] /\ actual' \in [Caller -> Nat]
  <2>1. NoReservation \in Reservation
    BY BudgetAssumption DEF NoReservation, Reservation, Hour
  <2> QED BY <1>4, <2>1 DEF EndCall
<1>5. ASSUME NEW c \in Caller, Settle(c) PROVE TypeOK'
  <2>1. SettledHour(c) \in Hour /\ Refund(c) \in Int
    BY Holding DEF SettledHour
  <2>2. tally' \in [Hour -> Nat]
    BY <1>5, <2>1, AddTypes DEF Settle
  <2> QED BY <1>4, <1>5, <2>2 DEF Settle
<1>6. ASSUME NEW c \in Caller, Die(c) PROVE TypeOK'
  <2>1. Refund(c) \in Int /\ held[c].hour \in Hour
    BY Holding
  <2>2. leaked' \in [Hour -> Int]
    BY <1>6, <2>1 DEF Die
  <2> QED BY <1>4, <1>6, <2>2 DEF Die
<1>7. ASSUME NextHour PROVE TypeOK'
  <2>1. hour' \in Hour
    BY <1>7, BudgetAssumption DEF NextHour, Hour
  <2> QED BY <1>7, <2>1 DEF NextHour
<1>8. ASSUME UNCHANGED vars PROVE TypeOK'
  BY <1>8 DEF vars
<1> QED BY <1>1, <1>2, <1>3, <1>5, <1>6, <1>7, <1>8 DEF Next, Call

\* Every step keeps what is held fenced.
LEMMA FencedStep == TypeOK /\ Fenced /\ [Next]_vars => Fenced'
<1> SUFFICES ASSUME TypeOK, Fenced, [Next]_vars PROVE Fenced'
  OBVIOUS
<1> USE DEF TypeOK, Fenced
<1>1. ASSUME NEW c \in Caller, Call(c) PROVE Fenced'
  BY <1>1 DEF Call, Reserve, Complete, FailCall, Settle, Die, EndCall
<1>2. ASSUME NextHour \/ UNCHANGED vars PROVE Fenced'
  BY <1>2 DEF NextHour, vars
<1> QED BY <1>1, <1>2 DEF Next

\* A step of one caller changes its part of the sums of an hour only; the rest
\* of what is unsettled is at least what may be taken out of it.
Part(h, c) == IF c \in Reserved(h) THEN -Refund(c) ELSE 0
KeptPart(h, c) == IF c \in Reserved(h) THEN Kept(c) ELSE 0
KeptOf(h) == SumFunctionOnSet([c \in Caller |-> Kept(c)], Reserved(h))

RestOf(h, c) == SumFunctionOnSet([x \in Caller |-> -Refund(x)], Reserved(h) \ {c})
KeptRest(h, c) == SumFunctionOnSet([x \in Caller |-> Kept(x)], Reserved(h) \ {c})

PartsAddUp ==
  \A c \in Caller, h \in Hour :
    /\ RestOf(h, c) \in Int /\ KeptRest(h, c) \in Int /\ KeptRest(h, c) <= RestOf(h, c)
    /\ Unsettled(h) = RestOf(h, c) + Part(h, c)
    /\ KeptOf(h) = KeptRest(h, c) + KeptPart(h, c)

\* The sums of an hour split into the caller's part and the rest.
LEMMA CallerParts == TypeOK => PartsAddUp
<1> SUFFICES ASSUME TypeOK, NEW c \in Caller, NEW h \in Hour
    PROVE  /\ RestOf(h, c) \in Int /\ KeptRest(h, c) \in Int /\ KeptRest(h, c) <= RestOf(h, c)
           /\ Unsettled(h) = RestOf(h, c) + Part(h, c)
           /\ KeptOf(h) = KeptRest(h, c) + KeptPart(h, c)
  BY DEF PartsAddUp
<1> DEFINE f == [x \in Caller |-> -Refund(x)]
           g == [x \in Caller |-> Kept(x)]
           R == Reserved(h)
<1>1. \A x \in Caller : -Refund(x) \in Int /\ Kept(x) \in Int /\ Kept(x) <= -Refund(x)
  BY Holding
<1>2. IsFiniteSet(R) /\ R \in SUBSET Caller
  <2>1. R \in SUBSET Caller
    BY DEF Reserved
  <2> QED BY <2>1, FS_Subset, BudgetAssumption
<1>3. \A x \in Caller : f[x] = -Refund(x) /\ g[x] = Kept(x)
  OBVIOUS
<1>4. /\ Unsettled(h) = SumFunctionOnSet(f, R) /\ KeptOf(h) = SumFunctionOnSet(g, R)
      /\ RestOf(h, c) = SumFunctionOnSet(f, R \ {c})
      /\ KeptRest(h, c) = SumFunctionOnSet(g, R \ {c})
  BY DEF Unsettled, KeptOf, RestOf, KeptRest
<1>5. Part(h, c) = (IF c \in R THEN f[c] ELSE 0) /\ KeptPart(h, c) = (IF c \in R THEN g[c] ELSE 0)
  BY DEF Part, KeptPart
<1> HIDE DEF f, g, R
<1>6. \A x \in R : f[x] \in Int /\ g[x] \in Int /\ g[x] <= f[x]
  BY <1>1, <1>2, <1>3
<1>7. /\ IsFiniteSet(R \ {c})
      /\ SumFunctionOnSet(f, R \ {c}) \in Int
      /\ SumFunctionOnSet(f, R) = SumFunctionOnSet(f, R \ {c}) + (IF c \in R THEN f[c] ELSE 0)
  BY <1>2, <1>6, SumSplit
<1>8. /\ SumFunctionOnSet(g, R \ {c}) \in Int
      /\ SumFunctionOnSet(g, R) = SumFunctionOnSet(g, R \ {c}) + (IF c \in R THEN g[c] ELSE 0)
  BY <1>2, <1>6, SumSplit
<1>9. SumFunctionOnSet(g, R \ {c}) <= SumFunctionOnSet(f, R \ {c})
  BY <1>6, <1>7, SumMonotonic
<1> QED BY <1>4, <1>5, <1>7, <1>8, <1>9

\* A step of one caller keeps the rest.
LEMMA CallerStep ==
  ASSUME TypeOK, TypeOK', NEW c \in Caller, NEW h \in Hour,
         \A x \in Caller \ {c} : pc'[x] = pc[x] /\ held'[x] = held[x] /\ actual'[x] = actual[x]
  PROVE  \E u, k \in Int :
           /\ k <= u
           /\ Unsettled(h) = u + Part(h, c) /\ Unsettled(h)' = u + Part(h, c)'
           /\ KeptOf(h) = k + KeptPart(h, c) /\ KeptOf(h)' = k + KeptPart(h, c)'
<1> DEFINE rest == Reserved(h) \ {c}
           f == [x \in Caller |-> -Refund(x)]
           g == [x \in Caller |-> Kept(x)]
<1>1. \A x \in Caller \ {c} : Refund(x)' = Refund(x) /\ Kept(x)' = Kept(x)
  BY DEF Refund, Kept
<1>2. rest' = rest
  BY DEF Reserved
<1>3. IsFiniteSet(rest)
  <2>1. rest \in SUBSET Caller
    BY DEF Reserved
  <2> QED BY <2>1, FS_Subset, BudgetAssumption
<1>4. \A x \in rest : f'[x] = f[x] /\ g'[x] = g[x]
  BY <1>1 DEF Reserved
<1>5. /\ RestOf(h, c) = SumFunctionOnSet(f, rest) /\ RestOf(h, c)' = SumFunctionOnSet(f', rest')
      /\ KeptRest(h, c) = SumFunctionOnSet(g, rest) /\ KeptRest(h, c)' = SumFunctionOnSet(g', rest')
  BY DEF RestOf, KeptRest
<1> HIDE DEF rest, f, g
<1>6. RestOf(h, c)' = RestOf(h, c) /\ KeptRest(h, c)' = KeptRest(h, c)
  BY <1>2, <1>3, <1>4, <1>5, SumSame
<1>7. PartsAddUp /\ PartsAddUp'
  BY CallerParts, PTL
<1> QED BY <1>6, <1>7 DEF PartsAddUp, Hour

\* One hour's books, with the part of one caller apart.
Books(h, c, u, k) ==
  /\ tally[h] = spent[h] + u + Part(h, c) + leaked[h]
  /\ spent[h] + leaked[h] + k + KeptPart(h, c) >= 0

\* An hour's books stay balanced if the caller's part is balanced.
LEMMA BooksKept ==
  ASSUME TypeOK, TypeOK', TallyIsExact, Covered, NEW c \in Caller,
         \A x \in Caller \ {c} : pc'[x] = pc[x] /\ held'[x] = held[x] /\ actual'[x] = actual[x],
         \A h \in Hour : \A u, k \in Int :
           k <= u /\ Books(h, c, u, k) => Books(h, c, u, k)'
  PROVE  TallyIsExact' /\ Covered'
<1>1. Hour' = Hour
  BY DEF Hour
<1>2. ASSUME NEW h \in Hour
      PROVE  /\ tally'[h] = spent'[h] + Unsettled(h)' + leaked'[h]
             /\ spent'[h] + leaked'[h] + KeptOf(h)' >= 0
  <2>1. PICK u \in Int, k \in Int :
           /\ k <= u
           /\ Unsettled(h) = u + Part(h, c) /\ Unsettled(h)' = u + Part(h, c)'
           /\ KeptOf(h) = k + KeptPart(h, c) /\ KeptOf(h)' = k + KeptPart(h, c)'
    BY CallerStep
  <2>2. Part(h, c) \in Int /\ KeptPart(h, c) \in Int /\ spent[h] \in Int /\ leaked[h] \in Int
    <3>1. Refund(c) \in Int /\ Kept(c) \in Int
      BY Holding
    <3> QED BY <3>1 DEF Part, KeptPart, TypeOK
  <2>3. Part(h, c)' \in Int /\ KeptPart(h, c)' \in Int /\ spent'[h] \in Int /\ leaked'[h] \in Int
    <3>1. Refund(c)' \in Int /\ Kept(c)' \in Int
      <4>1. RefundsAreInts'
        BY RefundTypes, PTL
      <4> QED BY <4>1 DEF RefundsAreInts
    <3> QED BY <3>1 DEF Part, KeptPart, TypeOK
  <2>4. Books(h, c, u, k)
    BY <2>1, <2>2 DEF Books, TallyIsExact, Covered, KeptOf
  <2>5. Books(h, c, u, k)'
    BY <2>1, <2>4
  <2> QED BY <2>1, <2>3, <2>5 DEF Books
<1> QED BY <1>1, <1>2 DEF TallyIsExact, Covered, KeptOf

\* Every step keeps the tally exact.
LEMMA TallyStep == BudgetInv /\ [Next]_vars => TallyIsExact' /\ Covered'
<1> SUFFICES ASSUME BudgetInv, [Next]_vars PROVE TallyIsExact' /\ Covered'
  OBVIOUS
<1>0. TypeOK /\ TypeOK' /\ Fenced /\ TallyIsExact /\ Covered
  BY BudgetTypes DEF BudgetInv
<1> USE <1>0
<1>1. ASSUME NEW c \in Caller, NEW e \in Estimate, Reserve(c, e)
      PROVE  TallyIsExact' /\ Covered'
  <2>1. e \in Nat
    BY BudgetAssumption
  <2>2. \A x \in Caller \ {c} : pc'[x] = pc[x] /\ held'[x] = held[x] /\ actual'[x] = actual[x]
    BY <1>1 DEF Reserve, TypeOK
  <2>3. \A h \in Hour : Part(h, c) = 0 /\ KeptPart(h, c) = 0
    BY <1>1 DEF Reserve, Part, KeptPart, Reserved
  <2>4. pc'[c] \in {"calling", "refused"} /\ held'[c].hour = hour /\ held'[c].estimate = e
    BY <1>1 DEF Reserve, TypeOK
  <2>5. \A h \in Hour : Part(h, c)' = (IF h = hour THEN e ELSE 0) /\ KeptPart(h, c)' = 0
    BY <2>1, <2>4 DEF Part, KeptPart, Reserved, Refund, Kept
  <2>6. \A h \in Hour : tally'[h] = (IF h = hour THEN tally[h] + e ELSE tally[h])
                         /\ tally[h] \in Nat
    BY <1>1, <2>1 DEF Reserve, Add, TypeOK
  <2>7. spent' = spent /\ leaked' = leaked /\ \A h \in Hour : spent[h] \in Int /\ leaked[h] \in Int
    BY <1>1 DEF Reserve, TypeOK
  <2>8. \A h \in Hour : \A u, k \in Int : k <= u /\ Books(h, c, u, k) => Books(h, c, u, k)'
    BY <2>1, <2>3, <2>5, <2>6, <2>7 DEF Books
  <2> QED BY <2>2, <2>8, BooksKept
<1>2. ASSUME NEW c \in Caller, NEW n \in 0 .. held[c].estimate + Overrun, Complete(c, n)
      PROVE  TallyIsExact' /\ Covered'
  <2>1. n \in Nat /\ held[c].estimate \in Nat /\ held[c].hour \in Hour
    BY Holding, BudgetAssumption
  <2>2. \A x \in Caller \ {c} : pc'[x] = pc[x] /\ held'[x] = held[x] /\ actual'[x] = actual[x]
    BY <1>2 DEF Complete, TypeOK
  <2>3. \A h \in Hour : /\ Part(h, c) = (IF h = held[c].hour THEN held[c].estimate ELSE 0)
                        /\ KeptPart(h, c) = 0
    BY <1>2, <2>1 DEF Complete, Part, KeptPart, Reserved, Refund, Kept
  <2>4. pc'[c] = "answered" /\ held' = held /\ actual'[c] = n
    BY <1>2 DEF Complete, TypeOK
  <2>5. \A h \in Hour : /\ Part(h, c)' = (IF h = held[c].hour THEN held[c].estimate - n ELSE 0)
                        /\ KeptPart(h, c)' = (IF h = held[c].hour THEN -n ELSE 0)
    BY <2>1, <2>4 DEF Part, KeptPart, Reserved, Refund, Kept
  <2>6. tally' = tally /\ leaked' = leaked
    BY <1>2 DEF Complete
  <2>7. \A h \in Hour : /\ spent'[h] = (IF h = held[c].hour THEN spent[h] + n ELSE spent[h])
                        /\ tally[h] \in Int /\ spent[h] \in Int /\ leaked[h] \in Int
    BY <1>2, <2>1 DEF Complete, TypeOK
  <2> DEFINE est == held[c].estimate
             at == held[c].hour
  <2>8. \A h \in Hour : \A u, k \in Int : k <= u /\ Books(h, c, u, k) => Books(h, c, u, k)'
    <3> HIDE DEF est, at
    <3> SUFFICES ASSUME NEW h \in Hour, NEW u \in Int, NEW k \in Int, k <= u, Books(h, c, u, k)
        PROVE  Books(h, c, u, k)'
      OBVIOUS
    <3>1. CASE h = at
      BY <2>1, <2>3, <2>5, <2>6, <2>7, <3>1 DEF Books, est, at
    <3>2. CASE h # at
      BY <2>1, <2>3, <2>5, <2>6, <2>7, <3>2 DEF Books, est, at
    <3> QED BY <3>1, <3>2
  <2> QED BY <2>2, <2>8, BooksKept
<1>3. ASSUME NEW c \in Caller, FailCall(c) PROVE TallyIsExact' /\ Covered'
  <2>1. \A x \in Caller \ {c} : pc'[x] = pc[x] /\ held'[x] = held[x] /\ actual'[x] = actual[x]
    BY <1>3 DEF FailCall, TypeOK
  <2>2. \A h \in Hour : Part(h, c)' = Part(h, c) /\ KeptPart(h, c)' = KeptPart(h, c)
    BY <1>3 DEF FailCall, Part, KeptPart, Reserved, Refund, Kept, TypeOK
  <2>3. \A h \in Hour : \A u, k \in Int : k <= u /\ Books(h, c, u, k) => Books(h, c, u, k)'
    BY <1>3, <2>2 DEF Books, FailCall
  <2> QED BY <2>1, <2>3, BooksKept
<1>4. ASSUME NEW c \in Caller, EndCall(c)
      PROVE  /\ \A x \in Caller \ {c} : pc'[x] = pc[x] /\ held'[x] = held[x] /\ actual'[x] = actual[x]
             /\ \A h \in Hour : Part(h, c)' = 0 /\ KeptPart(h, c)' = 0
  <2>1. pc'[c] = "idle"
    BY <1>4 DEF EndCall, TypeOK
  <2> QED BY <1>4, <2>1 DEF EndCall, TypeOK, Part, KeptPart, Reserved
<1>5. ASSUME NEW c \in Caller, pc[c] # "idle"
      PROVE  /\ Refund(c) \in Int /\ Kept(c) \in Int /\ Kept(c) <= -Refund(c) /\ Kept(c) <= 0
             /\ held[c].hour \in Hour
             /\ \A h \in Hour : /\ Part(h, c) = (IF h = held[c].hour THEN -Refund(c) ELSE 0)
                                /\ KeptPart(h, c) = (IF h = held[c].hour THEN Kept(c) ELSE 0)
                                /\ tally[h] \in Int /\ spent[h] \in Int /\ leaked[h] \in Int
  BY <1>5, Holding DEF Part, KeptPart, Reserved, TypeOK
<1>6. ASSUME NEW c \in Caller, Settle(c) PROVE TallyIsExact' /\ Covered'
  <2>1. pc[c] # "idle" /\ EndCall(c) /\ spent' = spent /\ leaked' = leaked
    BY <1>6 DEF Settle
  <2> DEFINE at == held[c].hour
  <2>2. /\ Refund(c) \in Int /\ Kept(c) \in Int /\ Kept(c) <= -Refund(c) /\ Kept(c) <= 0
        /\ at \in Hour
        /\ \A h \in Hour : /\ Part(h, c) = (IF h = at THEN -Refund(c) ELSE 0)
                           /\ KeptPart(h, c) = (IF h = at THEN Kept(c) ELSE 0)
                           /\ tally[h] \in Int /\ spent[h] \in Int /\ leaked[h] \in Int
    BY <1>5, <2>1
  <2>3. \A h \in Hour :
          tally'[h] = IF h = at THEN (IF tally[h] + Refund(c) < 0 THEN 0 ELSE tally[h] + Refund(c))
                      ELSE tally[h]
    BY <1>6 DEF Settle, Add, SettledHour, TypeOK
  <2>4. \A h \in Hour : Part(h, c)' = 0 /\ KeptPart(h, c)' = 0
    BY <1>4, <2>1
  <2>5. \A h \in Hour : \A u, k \in Int : k <= u /\ Books(h, c, u, k) => Books(h, c, u, k)'
    <3> HIDE DEF at
    <3> SUFFICES ASSUME NEW h \in Hour, NEW u \in Int, NEW k \in Int, k <= u, Books(h, c, u, k)
        PROVE  Books(h, c, u, k)'
      OBVIOUS
    <3>1. CASE h = at
      BY <2>1, <2>2, <2>3, <2>4, <3>1 DEF Books
    <3>2. CASE h # at
      BY <2>1, <2>2, <2>3, <2>4, <3>2 DEF Books
    <3> QED BY <3>1, <3>2
  <2> QED BY <1>4, <2>1, <2>5, BooksKept
<1>7. ASSUME NEW c \in Caller, Die(c) PROVE TallyIsExact' /\ Covered'
  <2>1. pc[c] # "idle" /\ EndCall(c) /\ spent' = spent /\ tally' = tally
    BY <1>7 DEF Die
  <2> DEFINE at == held[c].hour
  <2>2. /\ Refund(c) \in Int /\ Kept(c) \in Int /\ Kept(c) <= -Refund(c) /\ Kept(c) <= 0
        /\ at \in Hour
        /\ \A h \in Hour : /\ Part(h, c) = (IF h = at THEN -Refund(c) ELSE 0)
                           /\ KeptPart(h, c) = (IF h = at THEN Kept(c) ELSE 0)
                           /\ tally[h] \in Int /\ spent[h] \in Int /\ leaked[h] \in Int
    BY <1>5, <2>1
  <2>3. \A h \in Hour : leaked'[h] = IF h = at THEN leaked[h] - Refund(c) ELSE leaked[h]
    BY <1>7 DEF Die, TypeOK
  <2>4. \A h \in Hour : Part(h, c)' = 0 /\ KeptPart(h, c)' = 0
    BY <1>4, <2>1
  <2>5. \A h \in Hour : \A u, k \in Int : k <= u /\ Books(h, c, u, k) => Books(h, c, u, k)'
    <3> HIDE DEF at
    <3> SUFFICES ASSUME NEW h \in Hour, NEW u \in Int, NEW k \in Int, k <= u, Books(h, c, u, k)
        PROVE  Books(h, c, u, k)'
      OBVIOUS
    <3>1. CASE h = at
      BY <2>1, <2>2, <2>3, <2>4, <3>1 DEF Books
    <3>2. CASE h # at
      BY <2>1, <2>2, <2>3, <2>4, <3>2 DEF Books
    <3> QED BY <3>1, <3>2
  <2> QED BY <1>4, <2>1, <2>5, BooksKept
<1>8. ASSUME NextHour \/ UNCHANGED vars PROVE TallyIsExact' /\ Covered'
  <2>1. UNCHANGED <<tally, pc, held, actual, spent, leaked>>
    BY <1>8 DEF NextHour, vars
  <2> QED BY <2>1 DEF TallyIsExact, Covered, Unsettled, Reserved, Refund, Kept
<1> QED BY <1>1, <1>2, <1>3, <1>6, <1>7, <1>8 DEF Next, Call

\* The state of the budget is what it is taken to be.
THEOREM BudgetInvariant == Spec => []BudgetInv
<1>1. BudgetInv /\ [Next]_vars => BudgetInv'
  BY BudgetTypes, FencedStep, TallyStep DEF BudgetInv
<1> QED BY <1>1, BudgetInit, PTL DEF Spec

\* No call costs more than its estimate and the overrun.
Metered == \A c \in Caller : pc[c] = "answered" => actual[c] <= held[c].estimate + Overrun

\* What may still come back from a call: what it holds, or what it left over.
Holds(c) == IF pc[c] = "answered" THEN held[c].estimate + Overrun - actual[c] ELSE held[c].estimate
HoldsPart(h, c) == IF c \in Reserved(h) THEN Holds(c) ELSE 0
HeldOf(h) == SumFunctionOnSet([c \in Caller |-> Holds(c)], Reserved(h))

\* The overruns of an hour.
Over(h) == Overrun * calls[h]

\* The tally stands for what was spent and is held, but for the overruns.
Backed == \A h \in Hour : spent[h] + HeldOf(h) <= tally[h] + Over(h)

Admitted(h) == {c \in Reserved(h) : pc[c] = "calling"}
AdmittedOf(h) == SumFunctionOnSet([c \in Caller |-> held[c].estimate], Admitted(h))
AdmittedPart(h, c) == IF c \in Admitted(h) THEN held[c].estimate ELSE 0

\* The sum over a set of callers changes by the part of the one that moves.
LEMMA PartStep ==
  ASSUME NEW S \in SUBSET Caller, NEW T \in SUBSET Caller, NEW f, NEW e, NEW c \in Caller,
         S \ {c} = T \ {c}, \A x \in Caller : f[x] \in Int /\ e[x] \in Int,
         \A x \in Caller \ {c} : e[x] = f[x]
  PROVE  \E a \in Int : /\ SumFunctionOnSet(f, S) = a + (IF c \in S THEN f[c] ELSE 0)
                        /\ SumFunctionOnSet(e, T) = a + (IF c \in T THEN e[c] ELSE 0)
<1>1. IsFiniteSet(S) /\ IsFiniteSet(T) /\ IsFiniteSet(S \ {c})
  BY FS_Subset, BudgetAssumption
<1>2. \A x \in S : f[x] \in Int
  OBVIOUS
<1>3. \A x \in T : e[x] \in Int
  OBVIOUS
<1>4. /\ SumFunctionOnSet(f, S \ {c}) \in Int
      /\ SumFunctionOnSet(f, S) = SumFunctionOnSet(f, S \ {c}) + (IF c \in S THEN f[c] ELSE 0)
  BY <1>1, <1>2, SumSplit
<1>5. SumFunctionOnSet(e, T) = SumFunctionOnSet(e, T \ {c}) + (IF c \in T THEN e[c] ELSE 0)
  BY <1>1, <1>3, SumSplit
<1>6. \A x \in S \ {c} : e[x] = f[x]
  OBVIOUS
<1>7. SumFunctionOnSet(e, S \ {c}) = SumFunctionOnSet(f, S \ {c})
  BY <1>1, <1>6, SumSame
<1> QED BY <1>4, <1>5, <1>7

\* A call that is made adds its overrun.
LEMMA OverGrows ==
  ASSUME TypeOK, NEW h \in Hour
  PROVE  /\ Over(h) \in Nat
         /\ calls'[h] = calls[h] + 1 => Over(h)' = Over(h) + Overrun
         /\ calls'[h] = calls[h] => Over(h)' = Over(h)
<1>1. \A m, n \in Nat : m * n \in Nat /\ m * (n + 1) = m * n + m
  OBVIOUS
<1>2. calls[h] \in Nat /\ Overrun \in Nat
  BY BudgetAssumption DEF TypeOK
<1> QED BY <1>1, <1>2 DEF Over

\* What a call holds is not negative.
LEMMA HoldsNat == TypeOK /\ Metered => \A c \in Caller : Holds(c) \in Nat
<1> SUFFICES ASSUME TypeOK, Metered, NEW c \in Caller PROVE Holds(c) \in Nat
  OBVIOUS
<1>1. held[c].estimate \in Nat /\ actual[c] \in Nat /\ Overrun \in Nat
  BY Holding, BudgetAssumption
<1> QED BY <1>1 DEF Metered, Holds

HoldsAreNat == \A c \in Caller : Holds(c) \in Nat

\* The same, in a form that can be primed.
LEMMA HoldsTyped == TypeOK /\ Metered => HoldsAreNat
BY HoldsNat DEF HoldsAreNat

\* A step of one caller changes its part of what is held only.
LEMMA HeldStep ==
  ASSUME HoldsAreNat, HoldsAreNat', NEW c \in Caller, NEW h \in Hour,
         \A x \in Caller \ {c} : pc'[x] = pc[x] /\ held'[x] = held[x] /\ actual'[x] = actual[x]
  PROVE  \E a \in Int : /\ HeldOf(h) = a + HoldsPart(h, c)
                        /\ HeldOf(h)' = a + HoldsPart(h, c)'
<1> DEFINE f == [x \in Caller |-> Holds(x)]
           e == [x \in Caller |-> Holds(x)']
           S == Reserved(h)
           T == Reserved(h)'
<1>1. S \in SUBSET Caller /\ T \in SUBSET Caller /\ S \ {c} = T \ {c}
  BY DEF Reserved
<1>2. \A x \in Caller : f[x] \in Int /\ e[x] \in Int
  BY DEF HoldsAreNat
<1>3. \A x \in Caller \ {c} : e[x] = f[x]
  BY DEF Holds
<1>4. /\ HeldOf(h) = SumFunctionOnSet(f, S) /\ HeldOf(h)' = SumFunctionOnSet(e, T)
      /\ HoldsPart(h, c) = (IF c \in S THEN f[c] ELSE 0)
      /\ HoldsPart(h, c)' = (IF c \in T THEN e[c] ELSE 0)
  BY DEF HeldOf, HoldsPart
<1> HIDE DEF f, e, S, T
<1> QED BY <1>1, <1>2, <1>3, <1>4, PartStep

EstimatesAreNat == \A c \in Caller : held[c].estimate \in Nat

\* Estimates are natural numbers, in a form that can be primed.
LEMMA EstimatesTyped == TypeOK => EstimatesAreNat
BY Holding DEF EstimatesAreNat

\* So does it for what is admitted.
LEMMA AdmittedStep ==
  ASSUME TypeOK, TypeOK', NEW c \in Caller, NEW h \in Hour,
         \A x \in Caller \ {c} : pc'[x] = pc[x] /\ held'[x] = held[x]
  PROVE  \E a \in Int : /\ AdmittedOf(h) = a + AdmittedPart(h, c)
                        /\ AdmittedOf(h)' = a + AdmittedPart(h, c)'
<1> DEFINE f == [x \in Caller |-> held[x].estimate]
           e == [x \in Caller |-> held'[x].estimate]
           S == Admitted(h)
           T == Admitted(h)'
<1>1. S \in SUBSET Caller /\ T \in SUBSET Caller /\ S \ {c} = T \ {c}
  BY DEF Admitted, Reserved
<1>2. \A x \in Caller : f[x] \in Int /\ e[x] \in Int
  <2>1. EstimatesAreNat /\ EstimatesAreNat'
    BY EstimatesTyped, PTL
  <2> QED BY <2>1 DEF EstimatesAreNat
<1>3. \A x \in Caller \ {c} : e[x] = f[x]
  OBVIOUS
<1>4. /\ AdmittedOf(h) = SumFunctionOnSet(f, S) /\ AdmittedOf(h)' = SumFunctionOnSet(e, T)
      /\ AdmittedPart(h, c) = (IF c \in S THEN f[c] ELSE 0)
      /\ AdmittedPart(h, c)' = (IF c \in T THEN e[c] ELSE 0)
  BY DEF AdmittedOf, AdmittedPart
<1> HIDE DEF f, e, S, T
<1> QED BY <1>1, <1>2, <1>3, <1>4, PartStep

\* A call that is under way costs no more than it may.
LEMMA MeteredStep ==
  ASSUME BudgetInv, Metered, [Next]_vars
  PROVE  Metered'
<1> USE DEF BudgetInv, TypeOK
<1>1. ASSUME NEW c \in Caller, NEW e \in Estimate, Reserve(c, e) PROVE Metered'
  BY <1>1 DEF Metered, Reserve
<1>2. ASSUME NEW c \in Caller, NEW n \in 0 .. held[c].estimate + Overrun, Complete(c, n)
      PROVE  Metered'
  <2>1. held[c].estimate \in Nat /\ Overrun \in Nat /\ n <= held[c].estimate + Overrun
    BY Holding, BudgetAssumption
  <2> QED BY <1>2, <2>1 DEF Metered, Complete
<1>3. ASSUME NEW c \in Caller, FailCall(c) PROVE Metered'
  BY <1>3 DEF Metered, FailCall
<1>4. ASSUME NEW c \in Caller, Settle(c) \/ Die(c) PROVE Metered'
  BY <1>4 DEF Metered, Settle, Die, EndCall
<1>5. ASSUME NextHour \/ UNCHANGED vars PROVE Metered'
  BY <1>5 DEF Metered, NextHour, vars
<1> QED BY <1>1, <1>2, <1>3, <1>4, <1>5 DEF Next, Call

\* The tally keeps standing for it: every step of a call takes from what is
\* held what it adds to the spending, or leaves it in the tally.
LEMMA BackedStep ==
  ASSUME BudgetInv, BudgetInv', Metered, Metered', Backed, [Next]_vars
  PROVE  Backed'
<1> USE DEF BudgetInv
<1>0. Hour' = Hour /\ HoldsAreNat /\ HoldsAreNat'
  <2>1. Hour' = Hour
    BY DEF Hour
  <2>2. HoldsAreNat /\ HoldsAreNat'
    BY HoldsTyped, PTL
  <2> QED BY <2>1, <2>2
<1>1. \A h \in Hour : /\ spent[h] \in Int /\ tally[h] \in Int /\ tally[h] >= 0
                      /\ Over(h) \in Int /\ spent[h] + HeldOf(h) <= tally[h] + Over(h)
  BY OverGrows DEF Backed, TypeOK
<1>2. Overrun \in Nat
  BY BudgetAssumption
<1>3. ASSUME NEW c \in Caller,
             \A x \in Caller \ {c} : pc'[x] = pc[x] /\ held'[x] = held[x] /\ actual'[x] = actual[x],
             \A h \in Hour : /\ HoldsPart(h, c) \in Int /\ HoldsPart(h, c)' \in Int
                             /\ spent'[h] \in Int /\ tally'[h] \in Int /\ Over(h)' \in Int
                             /\ spent'[h] - spent[h] + HoldsPart(h, c)' - HoldsPart(h, c)
                                  <= tally'[h] - tally[h] + Over(h)' - Over(h)
      PROVE  Backed'
  <2>1. ASSUME NEW h \in Hour PROVE spent'[h] + HeldOf(h)' <= tally'[h] + Over(h)'
    <3>1. PICK a \in Int : HeldOf(h) = a + HoldsPart(h, c) /\ HeldOf(h)' = a + HoldsPart(h, c)'
      BY <1>0, <1>3, HeldStep
    <3> QED BY <1>1, <1>3, <3>1
  <2> QED BY <1>0, <2>1 DEF Backed
<1>4. ASSUME NEW c \in Caller, NEW e \in Estimate, Reserve(c, e) PROVE Backed'
  <2>1. \A x \in Caller \ {c} : pc'[x] = pc[x] /\ held'[x] = held[x] /\ actual'[x] = actual[x]
    BY <1>4 DEF Reserve, TypeOK
  <2>2. e \in Nat /\ hour \in Hour
    BY BudgetAssumption DEF TypeOK
  <2>3. \A h \in Hour : HoldsPart(h, c) = 0
    BY <1>4 DEF Reserve, HoldsPart, Reserved
  <2>4. pc'[c] \in {"calling", "refused"} /\ held'[c].hour = hour /\ held'[c].estimate = e
    BY <1>4 DEF Reserve, TypeOK
  <2>5. \A h \in Hour : HoldsPart(h, c)' = IF h = hour THEN e ELSE 0
    BY <2>4 DEF HoldsPart, Reserved, Holds
  <2>6. spent' = spent /\ calls' = calls /\ tally' = [tally EXCEPT ![hour] = @ + e]
    <3>1. ~ (tally[hour] + e < 0)
      BY <1>1, <2>2
    <3>2. /\ spent' = spent /\ calls' = calls
          /\ tally' = [tally EXCEPT ![hour] = IF tally[hour] + e < 0 THEN 0 ELSE tally[hour] + e]
      BY <1>4 DEF Reserve, Add
    <3> QED BY <3>1, <3>2
  <2>7. \A h \in Hour : Over(h)' = Over(h) /\ spent'[h] = spent[h]
                        /\ tally'[h] = IF h = hour THEN tally[h] + e ELSE tally[h]
    BY <2>6, OverGrows DEF TypeOK
  <2> QED BY <1>1, <1>3, <2>1, <2>2, <2>3, <2>5, <2>7
<1>5. ASSUME NEW c \in Caller, NEW n \in 0 .. held[c].estimate + Overrun, Complete(c, n)
      PROVE  Backed'
  <2> DEFINE at == held[c].hour
             e == held[c].estimate
  <2>1. \A x \in Caller \ {c} : pc'[x] = pc[x] /\ held'[x] = held[x] /\ actual'[x] = actual[x]
    BY <1>5 DEF Complete, TypeOK
  <2>2. n \in Int /\ e \in Int /\ at \in Hour
    BY <1>2, Holding
  <2>3. \A h \in Hour : HoldsPart(h, c) = IF h = at THEN e ELSE 0
    BY <1>5 DEF Complete, HoldsPart, Reserved, Holds
  <2>4. pc'[c] = "answered" /\ actual'[c] = n /\ held' = held
    BY <1>5 DEF Complete, TypeOK
  <2>5. \A h \in Hour : HoldsPart(h, c)' = IF h = at THEN e + Overrun - n ELSE 0
    BY <2>4 DEF HoldsPart, Reserved, Holds
  <2>6. /\ tally' = tally /\ spent' = [spent EXCEPT ![at] = @ + n]
        /\ calls' = [calls EXCEPT ![at] = @ + 1]
    BY <1>5 DEF Complete
  <2> HIDE DEF at, e
  <2>7. \A h \in Hour : /\ tally'[h] = tally[h]
                        /\ spent'[h] = IF h = at THEN spent[h] + n ELSE spent[h]
                        /\ calls'[h] = IF h = at THEN calls[h] + 1 ELSE calls[h]
    BY <2>2, <2>6 DEF TypeOK
  <2>8. \A h \in Hour : Over(h)' = IF h = at THEN Over(h) + Overrun ELSE Over(h)
    BY <2>7, OverGrows
  <2> QED BY <1>1, <1>2, <1>3, <2>1, <2>2, <2>3, <2>5, <2>7, <2>8
<1>6. ASSUME NEW c \in Caller, FailCall(c) PROVE Backed'
  <2>1. \A x \in Caller \ {c} : pc'[x] = pc[x] /\ held'[x] = held[x] /\ actual'[x] = actual[x]
    BY <1>6 DEF FailCall, TypeOK
  <2>2. \A h \in Hour : HoldsPart(h, c)' = HoldsPart(h, c)
    BY <1>6 DEF FailCall, TypeOK, HoldsPart, Reserved, Holds
  <2>3. UNCHANGED <<spent, tally, calls>>
    BY <1>6 DEF FailCall
  <2>4. \A h \in Hour : HoldsPart(h, c) \in Int /\ Over(h)' = Over(h)
    BY <1>0, <2>3, OverGrows DEF HoldsPart, HoldsAreNat
  <2> QED BY <1>1, <1>3, <2>1, <2>2, <2>3, <2>4
<1>7. ASSUME NEW c \in Caller, Settle(c) \/ Die(c) PROVE Backed'
  <2> DEFINE at == held[c].hour
             back == Holds(c)
  <2>1. \A x \in Caller \ {c} : pc'[x] = pc[x] /\ held'[x] = held[x] /\ actual'[x] = actual[x]
    BY <1>7 DEF Settle, Die, EndCall, TypeOK
  <2>2. \A h \in Hour : HoldsPart(h, c)' = 0
    <3>1. pc'[c] = "idle"
      BY <1>7 DEF Settle, Die, EndCall, TypeOK
    <3> QED BY <3>1 DEF HoldsPart, Reserved
  <2>3. \A h \in Hour : HoldsPart(h, c) = IF h = at THEN back ELSE 0
    BY <1>7 DEF Settle, Die, HoldsPart, Reserved
  <2>4. UNCHANGED <<spent, calls>>
    BY <1>7 DEF Settle, Die
  <2>5. at \in Hour /\ back \in Nat
    BY <1>0, Holding DEF HoldsAreNat
  <2>6. \A h \in Hour : /\ tally'[h] \in Int
                        /\ tally'[h] >= IF h = at THEN tally[h] - back ELSE tally[h]
    <3>1. CASE Die(c)
      BY <1>1, <2>5, <3>1 DEF Die
    <3>2. CASE Settle(c)
      <4>1. /\ held[c].estimate \in Nat /\ actual[c] \in Nat
            /\ Refund(c) \in Int /\ Refund(c) >= - back
        BY <1>2, Holding DEF Refund, Holds
      <4>2. tally' = [tally EXCEPT ![at] = IF @ + Refund(c) < 0 THEN 0 ELSE @ + Refund(c)]
        BY <3>2 DEF Settle, SettledHour, Add
      <4> HIDE DEF at, back
      <4> DEFINE kept == tally[at] + Refund(c)
                 left == IF kept < 0 THEN 0 ELSE kept
      <4>3. left \in Int /\ left >= tally[at] - back
        BY <1>1, <2>5, <4>1
      <4>4. tally' = [tally EXCEPT ![at] = left]
        BY <4>2
      <4> HIDE DEF left
      <4> QED BY <1>1, <2>5, <4>3, <4>4 DEF TypeOK
    <3> QED BY <1>7, <3>1, <3>2
  <2> HIDE DEF at, back
  <2>7. \A h \in Hour : Over(h)' = Over(h) /\ spent'[h] = spent[h]
    BY <2>4, OverGrows
  <2> QED BY <1>1, <1>3, <2>1, <2>2, <2>3, <2>5, <2>6, <2>7
<1>8. ASSUME NextHour \/ UNCHANGED vars PROVE Backed'
  <2>1. UNCHANGED <<tally, pc, held, actual, spent, calls>>
    BY <1>8 DEF NextHour, vars
  <2> QED BY <1>0, <2>1 DEF Backed, HeldOf, Holds, Reserved, Over
<1> QED BY <1>4, <1>5, <1>6, <1>7, <1>8 DEF Next, Call

\* The calls that were admitted are part of what is held.
LEMMA AdmittedArePart ==
  ASSUME BudgetInv, Metered, Backed, NEW h \in Hour
  PROVE  /\ AdmittedOf(h) \in Int
         /\ spent[h] + AdmittedOf(h) <= tally[h] + Over(h)
<1> DEFINE f == [c \in Caller |-> held[c].estimate]
           g == [c \in Caller |-> Holds(c)]
           A == Admitted(h)
           R == Reserved(h)
<1>1. A \in SUBSET R /\ R \in SUBSET Caller
  BY DEF Admitted, Reserved
<1>2. IsFiniteSet(R) /\ IsFiniteSet(A)
  BY <1>1, FS_Subset, BudgetAssumption
<1>3. \A c \in Caller : g[c] \in Nat
  BY HoldsNat DEF BudgetInv
<1>4. \A c \in A : f[c] = g[c]
  BY <1>1 DEF Admitted, Holds
<1>5. AdmittedOf(h) = SumFunctionOnSet(f, A) /\ HeldOf(h) = SumFunctionOnSet(g, R)
  BY DEF AdmittedOf, HeldOf
<1> HIDE DEF f, g, A, R
<1>6. (\A c \in R : g[c] \in Nat) /\ (\A c \in A : g[c] \in Nat)
  BY <1>1, <1>3
<1>7. SumFunctionOnSet(f, A) = SumFunctionOnSet(g, A)
  BY <1>2, <1>4, SumSame
<1>8. SumFunctionOnSet(g, A) <= SumFunctionOnSet(g, R)
  BY <1>1, <1>2, <1>6, SumSubset
<1>9. SumFunctionOnSet(g, A) \in Nat /\ SumFunctionOnSet(g, R) \in Nat
  BY <1>2, <1>6, SumNat
<1>10. /\ spent[h] \in Int /\ tally[h] \in Int /\ Over(h) \in Int
       /\ spent[h] + HeldOf(h) <= tally[h] + Over(h)
  BY OverGrows DEF BudgetInv, TypeOK, Backed
<1> QED BY <1>5, <1>7, <1>8, <1>9, <1>10

\* What is admitted keeps fitting in the cap.
LEMMA AdmittedFitStep ==
  ASSUME BudgetInv, BudgetInv', Metered, Backed, AdmittedCallsFit, [Next]_vars
  PROVE  AdmittedCallsFit'
<1> USE DEF BudgetInv
<1>0. Hour' = Hour
  BY DEF Hour
<1>1. \A h \in Hour : /\ AdmittedOf(h) \in Int /\ spent[h] + AdmittedOf(h) <= tally[h] + Over(h)
                      /\ spent[h] + AdmittedOf(h) <= Cap + Over(h)
                      /\ spent[h] \in Int /\ tally[h] \in Int /\ Over(h) \in Int
  BY AdmittedArePart, OverGrows DEF AdmittedCallsFit, AdmittedOf, Admitted, Over, TypeOK
<1>2. Cap \in Int /\ Overrun \in Nat
  BY BudgetAssumption
<1>3. ASSUME \A h \in Hour : spent'[h] + AdmittedOf(h)' <= Cap + Over(h)'
      PROVE  AdmittedCallsFit'
  BY <1>0, <1>3 DEF AdmittedCallsFit, AdmittedOf, Admitted, Over
<1>4. ASSUME NEW c \in Caller, NEW e \in Estimate, Reserve(c, e) PROVE AdmittedCallsFit'
  <2>1. \A x \in Caller \ {c} : pc'[x] = pc[x] /\ held'[x] = held[x]
    BY <1>4 DEF Reserve, TypeOK
  <2>2. \A h \in Hour : AdmittedPart(h, c) = 0
    BY <1>4 DEF Reserve, AdmittedPart, Admitted
  <2>3. e \in Int /\ e >= 0 /\ hour \in Hour
    BY BudgetAssumption DEF TypeOK
  <2>4. held'[c].hour = hour /\ held'[c].estimate = e /\ spent' = spent
        /\ \A h \in Hour : Over(h)' = Over(h)
    BY <1>4, OverGrows DEF Reserve, TypeOK
  <2>5. pc'[c] = IF tally[hour] + e <= Cap THEN "calling" ELSE "refused"
    BY <1>4 DEF Reserve, TypeOK, Fits
  <2>6. \A h \in Hour : AdmittedPart(h, c)' =
                          IF h = hour /\ tally[hour] + e <= Cap THEN e ELSE 0
    BY <2>4, <2>5 DEF AdmittedPart, Admitted, Reserved
  <2>7. ASSUME NEW h \in Hour PROVE spent'[h] + AdmittedOf(h)' <= Cap + Over(h)'
    <3>1. PICK a \in Int : AdmittedOf(h) = a + AdmittedPart(h, c) /\ AdmittedOf(h)' = a + AdmittedPart(h, c)'
      BY <2>1, AdmittedStep
    <3>2. spent[h] + a <= Cap + Over(h) /\ spent[h] + a <= tally[h] + Over(h)
      BY <1>1, <2>2, <3>1
    <3>3. AdmittedOf(h)' = a + (IF h = hour /\ tally[hour] + e <= Cap THEN e ELSE 0)
      BY <2>6, <3>1
    <3> QED BY <1>1, <1>2, <2>3, <2>4, <3>2, <3>3
  <2> QED BY <1>3, <2>7
\* Every other step takes at least as much from what is admitted as it adds to
\* what was spent, but for an overrun.
<1>5. ASSUME NEW c \in Caller, \A x \in Caller \ {c} : pc'[x] = pc[x] /\ held'[x] = held[x],
             \A h \in Hour : /\ AdmittedPart(h, c) \in Int /\ AdmittedPart(h, c)' \in Int
                             /\ spent'[h] \in Int /\ Over(h)' \in Int
                             /\ spent'[h] - spent[h] + AdmittedPart(h, c)' - AdmittedPart(h, c)
                                  <= Over(h)' - Over(h)
      PROVE  AdmittedCallsFit'
  <2>1. ASSUME NEW h \in Hour PROVE spent'[h] + AdmittedOf(h)' <= Cap + Over(h)'
    <3>1. PICK a \in Int : AdmittedOf(h) = a + AdmittedPart(h, c) /\ AdmittedOf(h)' = a + AdmittedPart(h, c)'
      BY <1>5, AdmittedStep
    <3> QED BY <1>1, <1>2, <1>5, <3>1
  <2> QED BY <1>3, <2>1
<1>6. ASSUME NEW c \in Caller, NEW n \in 0 .. held[c].estimate + Overrun, Complete(c, n)
      PROVE  AdmittedCallsFit'
  <2>1. \A x \in Caller \ {c} : pc'[x] = pc[x] /\ held'[x] = held[x]
    BY <1>6 DEF Complete, TypeOK
  <2>2. n \in Int /\ held[c].estimate \in Int /\ n <= held[c].estimate + Overrun /\ held[c].hour \in Hour
    BY <1>2, Holding
  <2>3. \A h \in Hour : AdmittedPart(h, c) = IF h = held[c].hour THEN held[c].estimate ELSE 0
    BY <1>6 DEF Complete, AdmittedPart, Admitted, Reserved
  <2>4. \A h \in Hour : AdmittedPart(h, c)' = 0
    <3>1. pc'[c] = "answered"
      BY <1>6 DEF Complete, TypeOK
    <3> QED BY <3>1 DEF AdmittedPart, Admitted
  <2>5. \A h \in Hour : spent'[h] = IF h = held[c].hour THEN spent[h] + n ELSE spent[h]
    BY <1>6, <2>2 DEF Complete, TypeOK
  <2>6. \A h \in Hour : Over(h)' = IF h = held[c].hour THEN Over(h) + Overrun ELSE Over(h)
    <3>1. \A h \in Hour : calls'[h] = IF h = held[c].hour THEN calls[h] + 1 ELSE calls[h]
      BY <1>6, <2>2 DEF Complete, TypeOK
    <3> QED BY <3>1, OverGrows
  <2> QED BY <1>1, <1>2, <1>5, <2>1, <2>2, <2>3, <2>4, <2>5, <2>6
<1>7. ASSUME NEW c \in Caller, FailCall(c) \/ Settle(c) \/ Die(c) PROVE AdmittedCallsFit'
  <2>1. spent' = spent /\ pc'[c] # "calling" /\ calls' = calls
    BY <1>7 DEF FailCall, Settle, Die, EndCall, TypeOK
  <2>2. \A x \in Caller \ {c} : pc'[x] = pc[x] /\ held'[x] = held[x]
    BY <1>7 DEF FailCall, Settle, Die, EndCall, TypeOK
  <2>3. \A h \in Hour : AdmittedPart(h, c)' = 0
    BY <2>1 DEF AdmittedPart, Admitted
  <2>4. \A h \in Hour : AdmittedPart(h, c) \in Int /\ AdmittedPart(h, c) >= 0
    <3>1. held[c].estimate \in Nat
      BY Holding
    <3> QED BY <3>1 DEF AdmittedPart
  <2>5. \A h \in Hour : Over(h)' = Over(h)
    BY <2>1, OverGrows
  <2> QED BY <1>1, <1>5, <2>1, <2>2, <2>3, <2>4, <2>5
<1>8. ASSUME NextHour \/ UNCHANGED vars PROVE AdmittedCallsFit'
  <2>1. UNCHANGED <<pc, held, spent, calls>>
    BY <1>8 DEF NextHour, vars
  <2> QED BY <1>0, <2>1 DEF AdmittedCallsFit, Reserved
<1> QED BY <1>4, <1>6, <1>7, <1>8 DEF Next, Call

\* It fits at the start.
LEMMA AdmittedFitInit == Init => Metered /\ Backed /\ AdmittedCallsFit
<1> SUFFICES ASSUME Init PROVE Metered /\ Backed /\ AdmittedCallsFit
  OBVIOUS
<1>1. Metered
  BY DEF Init, Metered
<1>2. \A h \in Hour : /\ spent[h] = 0 /\ tally[h] = 0 /\ calls[h] = 0
                      /\ Reserved(h) = {} /\ {c \in Reserved(h) : pc[c] = "calling"} = {}
  BY DEF Init, Reserved
<1>3. 0 <= Cap /\ Overrun * 0 = 0
  BY BudgetAssumption
<1>4. Backed
  BY <1>2, <1>3, SumEmpty DEF Backed, HeldOf, Over
<1>5. AdmittedCallsFit
  <2>1. ASSUME NEW h \in Hour
        PROVE  spent[h] + SumFunctionOnSet([c \in Caller |-> held[c].estimate],
                                           {c \in Reserved(h) : pc[c] = "calling"})
                 <= Cap + Overrun * calls[h]
    <3>1. SumFunctionOnSet([c \in Caller |-> held[c].estimate],
                           {c \in Reserved(h) : pc[c] = "calling"}) = 0
      BY <1>2, SumEmpty
    <3>2. spent[h] = 0 /\ Overrun * calls[h] = 0 /\ Cap \in Nat
      BY <1>2, <1>3, BudgetAssumption
    <3> QED BY <1>3, <3>1, <3>2
  <2> QED BY <2>1 DEF AdmittedCallsFit
<1> QED BY <1>1, <1>4, <1>5

\* The calls made and admitted in an hour fit in its cap together, but for what
\* calls cost beyond their estimates.
THEOREM AdmittedFit == Spec => []AdmittedCallsFit
<1>1. Init => Metered /\ Backed /\ AdmittedCallsFit
  BY AdmittedFitInit
<1>2. BudgetInv /\ BudgetInv' /\ Metered /\ Backed /\ AdmittedCallsFit /\ [Next]_vars
        => Metered' /\ Backed' /\ AdmittedCallsFit'
  <2>1. BudgetInv /\ Metered /\ [Next]_vars => Metered'
    BY MeteredStep
  <2>2. BudgetInv /\ BudgetInv' /\ Metered /\ Metered' /\ Backed /\ [Next]_vars => Backed'
    BY BackedStep
  <2>3. BudgetInv /\ BudgetInv' /\ Metered /\ Backed /\ AdmittedCallsFit /\ [Next]_vars
          => AdmittedCallsFit'
    BY AdmittedFitStep
  <2> QED BY <2>1, <2>2, <2>3
<1> QED BY <1>1, <1>2, BudgetInvariant, PTL DEF Spec

-----------------------------------------------------------------------------
(* The requests. *)

Document == {{}} \cup {{s} : s \in Source}
Figures == [score : Score, doc : Document]
Written == {"first", "first row", "next", "row"}
Place == {"", "call", "answered", "put", "document", "persist", "seed"} \cup Written

Request ==
  [ kind : {"none", "ingest", "post", "sql", "answer", "opener"}, at : Place,
    source : Document, rows : Seq(Row), owner : {{}}, used : Nat, tries : Nat ]

WorkTypes ==
  /\ req \in [Caller -> Request]
  /\ booked \in Nat /\ dropped \in Nat

\* Nothing is used before a call, a posted row makes none, an ingestion books
\* its call before it goes on, a request without rows writes none, and the bytes
\* of a source are stored and its extraction booked before its document.
Proper(r, stored, known) ==
  /\ r.kind \in {"none", "opener"} => r.used = 0 /\ r.at \in {"", "seed"}
  /\ r.at = "call" => r.kind # "post"
  /\ r.used = 0 \/ Asks(r) \/ (r.kind = "ingest" /\ r.at = "answered")
  /\ r.at \in Written => r.rows # <<>>
  /\ r.at = "put" => r.source \subseteq known
  /\ r.at \in {"document"} \cup Written => r.source \subseteq stored \cap known

RequestInv == \A c \in Caller : Proper(req[c], blobs, extracted)

\* The requests work with the LLM through its fence only.
LEMMA WorkIsCalls == [WorkNext]_<<vars, work>> => [Next]_vars
<1> SUFFICES ASSUME [WorkNext]_<<vars, work>> PROVE [Next]_vars
  OBVIOUS
<1>1. ASSUME NEW c \in Caller, WorkCall(c) PROVE Next
  BY <1>1 DEF WorkCall, Next, Call
<1>2. ASSUME NEW c \in Caller, Kill(c) PROVE [Next]_vars
  BY <1>2 DEF Kill, Next, Call
<1>3. ASSUME NEW c \in Caller,
             \/ BookIngest(c) \/ PutBlob(c) \/ FlushDocument(c) \/ StartPost(c) \/ CheckRow(c)
             \/ CommitRow(c) \/ StartQuestion(c) \/ Retrieve(c) \/ Generate(c) \/ Persist(c)
             \/ StartOpener(c) \/ SeedOpener(c) \/ \E s \in Source : StartIngest(c, s)
      PROVE  UNCHANGED vars
  BY <1>3 DEF BookIngest, PutBlob, FlushDocument, StartPost, CheckRow, CommitRow, StartQuestion,
              Retrieve, Generate, Persist, StartOpener, SeedOpener, StartIngest
<1>4. ASSUME UNCHANGED <<vars, work>> PROVE UNCHANGED vars
  BY <1>4
<1>5. ASSUME NextHour PROVE Next
  BY <1>5 DEF Next
<1> QED BY <1>1, <1>2, <1>3, <1>4, <1>5 DEF WorkNext

\* The requests are a use of the budget: its theorems are theirs.
THEOREM WorkUsesBudget == WorkSpec => Spec
<1>1. WorkInit => Init
  BY DEF WorkInit
<1> QED BY <1>1, WorkIsCalls, PTL DEF WorkSpec, Spec

\* The tally is exact, whatever the requests do around their calls.
THEOREM TallyStaysExact == WorkSpec => []TallyIsExact
<1>1. BudgetInv => TallyIsExact
  BY DEF BudgetInv
<1> QED BY <1>1, WorkUsesBudget, BudgetInvariant, PTL

\* What is admitted fits, but for the overruns, whatever the requests do.
THEOREM AdmittedWorkFits == WorkSpec => []AdmittedCallsFit
BY AdmittedFit, WorkUsesBudget, PTL

\* Updates of a request.
Moving(r, p) == [r EXCEPT !.at = p]
Using(r, p, n) == [r EXCEPT !.at = p, !.used = n]
Carrying(r, p, rows) == [r EXCEPT !.at = p, !.rows = rows]
Retrying(r) == [r EXCEPT !.at = "call", !.tries = @ + 1]
Generating(r) == [r EXCEPT !.kind = "answer", !.at = "call"]
Ingesting(s) == [Idle EXCEPT !.kind = "ingest", !.at = "call", !.source = {s}]
Posting(row) == [Idle EXCEPT !.kind = "post", !.at = "next", !.rows = <<row>>]
Asking == [Idle EXCEPT !.kind = "sql", !.at = "call", !.tries = 1]
Opening == [Idle EXCEPT !.kind = "opener", !.at = "seed"]

\* A request that only goes on.
LEMMA Moved ==
  ASSUME NEW r \in Request, NEW p \in Place
  PROVE  /\ Moving(r, p) \in Request /\ Moving(r, p).at = p /\ Moving(r, p).kind = r.kind
         /\ Moving(r, p).source = r.source /\ Moving(r, p).rows = r.rows
         /\ Moving(r, p).used = r.used
BY DEF Request, Moving

\* One whose calls are booked, or have used more.
LEMMA MovedUsed ==
  ASSUME NEW r \in Request, NEW p \in Place, NEW n \in Nat
  PROVE  /\ Using(r, p, n) \in Request /\ Using(r, p, n).at = p /\ Using(r, p, n).kind = r.kind
         /\ Using(r, p, n).source = r.source /\ Using(r, p, n).rows = r.rows
         /\ Using(r, p, n).used = n
BY DEF Request, Using

\* One with rows.
LEMMA MovedRows ==
  ASSUME NEW r \in Request, NEW p \in Place, NEW rows \in Seq(Row)
  PROVE  /\ Carrying(r, p, rows) \in Request /\ Carrying(r, p, rows).at = p
         /\ Carrying(r, p, rows).kind = r.kind /\ Carrying(r, p, rows).source = r.source
         /\ Carrying(r, p, rows).rows = rows /\ Carrying(r, p, rows).used = r.used
BY DEF Request, Carrying

\* One that asks again.
LEMMA Retried ==
  ASSUME NEW r \in Request
  PROVE  /\ Retrying(r) \in Request /\ Retrying(r).at = "call" /\ Retrying(r).kind = r.kind
         /\ Retrying(r).used = r.used /\ Retrying(r).source = r.source
<1> DEFINE n == r.tries + 1
<1>1. n \in Nat
  BY DEF Request
<1>2. Retrying(r) = [r EXCEPT !.at = "call", !.tries = n]
  BY DEF Request, Retrying
<1> HIDE DEF n
<1> DEFINE q == [r EXCEPT !.at = "call", !.tries = n]
<1>3. q \in Request /\ q.at = "call" /\ q.kind = r.kind /\ q.used = r.used /\ q.source = r.source
  BY <1>1 DEF Request, Place
<1> HIDE DEF q
<1>4. Retrying(r) = q
  BY <1>2 DEF q
<1> QED BY <1>3, <1>4

\* One that asks for the answer.
LEMMA Answering ==
  ASSUME NEW r \in Request
  PROVE  /\ Generating(r) \in Request /\ Generating(r).at = "call"
         /\ Generating(r).kind = "answer" /\ Generating(r).used = r.used
BY DEF Request, Place, Generating

\* A caller without a request has the idle one.
LEMMA IdleIsRequest ==
  Idle \in Request /\ Idle.kind = "none" /\ Idle.at = "" /\ Idle.used = 0 /\ Idle.source = {}
BY DEF Idle, Request, Place, Document

\* What a request becomes in a step of its caller.
Becomes(c, r) == req' = [req EXCEPT ![c] = r]

\* The requests stay proper if the one that moves does.
LEMMA RequestMoves ==
  ASSUME WorkTypes, NEW c \in Caller, NEW r \in Request, Becomes(c, r),
         RequestInv, Proper(r, blobs', extracted'),
         blobs \subseteq blobs', extracted \subseteq extracted',
         booked' \in Nat, dropped' \in Nat
  PROVE  WorkTypes' /\ RequestInv'
<1>1. req' \in [Caller -> Request]
  BY DEF WorkTypes, Becomes
<1>2. WorkTypes'
  BY <1>1 DEF WorkTypes
<1>3. ASSUME NEW x \in Caller PROVE Proper(req'[x], blobs', extracted')
  <2>1. CASE x = c
    <3>1. req'[x] = r
      BY <2>1 DEF Becomes, WorkTypes
    <3> QED BY <3>1
  <2>2. CASE x # c
    <3>1. req'[x] = req[x]
      BY <2>2 DEF Becomes, WorkTypes
    <3>2. Proper(req[x], blobs, extracted)
      BY DEF RequestInv
    <3>3. req[x].source \subseteq extracted => req[x].source \subseteq extracted'
      OBVIOUS
    <3>4. req[x].source \subseteq blobs \cap extracted => req[x].source \subseteq blobs' \cap extracted'
      OBVIOUS
    <3> QED BY <3>1, <3>2, <3>3, <3>4 DEF Proper
  <2> QED BY <2>1, <2>2
<1>4. RequestInv'
  BY <1>3 DEF RequestInv
<1> QED BY <1>2, <1>4

\* The tokens of a caller that are charged and not booked yet.
Open(c) == req[c].used + actual[c]

\* What is open is a natural number.
LEMMA OpenTypes == TypeOK /\ WorkTypes => \A c \in Caller : Open(c) \in Nat
<1> SUFFICES ASSUME TypeOK, WorkTypes, NEW c \in Caller PROVE Open(c) \in Nat
  OBVIOUS
<1>1. req[c].used \in Nat
  BY DEF WorkTypes, Request
<1>2. actual[c] \in Nat
  BY DEF TypeOK
<1> QED BY <1>1, <1>2 DEF Open

Charged == SumFunctionOnSet(spent, Hour)
OpenTokens == SumFunctionOnSet([c \in Caller |-> Open(c)], Caller)

\* So is all of it together.
LEMMA OpenIsNat == TypeOK /\ WorkTypes => OpenTokens \in Nat
<1> SUFFICES ASSUME TypeOK, WorkTypes PROVE OpenTokens \in Nat
  OBVIOUS
<1> DEFINE f == [c \in Caller |-> Open(c)]
<1>1. \A c \in Caller : f[c] \in Nat
  BY OpenTypes
<1>2. IsFiniteSet(Caller)
  BY BudgetAssumption
<1> HIDE DEF f
<1>3. SumFunctionOnSet(f, Caller) \in Nat
  BY <1>1, <1>2, SumNat
<1> QED BY <1>3 DEF OpenTokens, f

AllOpenAreNat == \A c \in Caller : Open(c) \in Nat

\* A step of one caller changes what is open by its own part.
LEMMA OpenStep ==
  ASSUME AllOpenAreNat, AllOpenAreNat', NEW c \in Caller,
         \A x \in Caller \ {c} : Open(x)' = Open(x)
  PROVE  OpenTokens' = OpenTokens - Open(c) + Open(c)'
<1> DEFINE f == [x \in Caller |-> Open(x)]
           e == [x \in Caller |-> Open(x)']
<1>1. /\ \A x \in Caller : f[x] \in Int /\ e[x] \in Int
      /\ \A x \in Caller \ {c} : e[x] = f[x]
      /\ f[c] = Open(c) /\ e[c] = Open(c)'
  BY DEF AllOpenAreNat
<1>2. IsFiniteSet(Caller)
  BY BudgetAssumption
<1> HIDE DEF f, e
<1>3. SumFunctionOnSet(e, Caller) = SumFunctionOnSet(f, Caller) - f[c] + e[c]
  BY <1>1, <1>2, SumChange
<1>4. OpenTokens = SumFunctionOnSet(f, Caller) /\ OpenTokens' = SumFunctionOnSet(e, Caller)
  BY DEF OpenTokens, f, e
<1> QED BY <1>1, <1>3, <1>4

Ledger == Charged = booked + dropped + OpenTokens

\* The property, in terms of what is open.
LEMMA Balance == BookedIsCharged <=> Ledger
BY DEF BookedIsCharged, Ledger, Charged, OpenTokens, Open

RequestsInv == WorkTypes /\ RequestInv /\ BookedIsCharged

\* The types, under a name that can be primed.
LEMMA OpenAreNat == TypeOK /\ WorkTypes => AllOpenAreNat
BY OpenTypes DEF AllOpenAreNat

\* So is what was charged.
LEMMA ChargedIsNat == TypeOK => Charged \in Nat
<1> SUFFICES ASSUME TypeOK PROVE Charged \in Nat
  OBVIOUS
<1>1. IsFiniteSet(Hour)
  BY FS_Interval, BudgetAssumption DEF Hour
<1>2. \A h \in Hour : spent[h] \in Nat
  BY DEF TypeOK
<1> QED BY <1>1, <1>2, SumNat DEF Charged

\* A step of a caller that is charged d tokens: they are among what is booked,
\* dropped, or open for that caller.
Accounted(c, r, d) ==
  /\ \A x \in Caller \ {c} : actual'[x] = actual[x]
  /\ Charged' = Charged + d
  /\ booked' + dropped' + r.used + actual'[c] = booked + dropped + req[c].used + actual[c] + d

\* The books balance after it.
LEMMA Balances ==
  ASSUME TypeOK, TypeOK', WorkTypes, WorkTypes', BookedIsCharged,
         NEW c \in Caller, NEW r \in Request, Becomes(c, r),
         NEW d \in Nat, Accounted(c, r, d)
  PROVE  BookedIsCharged'
<1>1. AllOpenAreNat /\ AllOpenAreNat'
  BY OpenAreNat, PTL
<1>2. ASSUME NEW x \in Caller \ {c} PROVE Open(x)' = Open(x)
  <2>1. req'[x] = req[x]
    BY DEF Becomes, WorkTypes
  <2> QED BY <2>1 DEF Open, Accounted
<1>3. Open(c)' = r.used + actual'[c]
  <2>1. req'[c] = r
    BY DEF Becomes, WorkTypes
  <2> QED BY <2>1 DEF Open
<1>4. OpenTokens' = OpenTokens - Open(c) + Open(c)'
  BY <1>1, <1>2, OpenStep
<1>5. Charged = booked + dropped + OpenTokens
  <2>1. Ledger
    BY Balance
  <2> QED BY <2>1 DEF Ledger
<1>6. Charged \in Nat /\ OpenTokens \in Nat /\ Open(c) \in Nat
  BY <1>1, ChargedIsNat, OpenIsNat DEF AllOpenAreNat
<1>7. /\ booked \in Nat /\ dropped \in Nat /\ booked' \in Nat /\ dropped' \in Nat
      /\ r.used \in Nat /\ actual'[c] \in Nat /\ req[c].used \in Nat /\ actual[c] \in Nat
  BY DEF WorkTypes, TypeOK, Request
<1>8. Open(c) = req[c].used + actual[c]
  BY DEF Open
<1>9. Charged' = booked' + dropped' + OpenTokens'
  <2>1. /\ Charged' = Charged + d
        /\ booked' + dropped' + r.used + actual'[c]
             = booked + dropped + req[c].used + actual[c] + d
    BY DEF Accounted
  <2>2. OpenTokens' = OpenTokens - (req[c].used + actual[c]) + (r.used + actual'[c])
    BY <1>3, <1>4, <1>8
  <2> DEFINE before == req[c].used + actual[c]
             after == r.used + actual'[c]
             kept == booked + dropped
             left == booked' + dropped'
  <2>3. before \in Nat /\ after \in Nat /\ kept \in Nat /\ left \in Nat
    <3>1. \A m, n \in Nat : m + n \in Nat
      OBVIOUS
    <3>2. before \in Nat
      BY <1>7, <3>1
    <3>3. after \in Nat
      BY <1>7, <3>1
    <3>4. kept \in Nat
      BY <1>7, <3>1
    <3>5. left \in Nat
      BY <1>7, <3>1
    <3> QED BY <3>2, <3>3, <3>4, <3>5
  <2>4. left + after = kept + before + d
    BY <1>7, <2>1
  <2>5. Charged = kept + OpenTokens /\ OpenTokens' = OpenTokens - before + after
    BY <1>5, <2>2
  <2> HIDE DEF before, after, kept, left
  <2>6. Charged' = left + OpenTokens'
    BY <1>6, <2>1, <2>3, <2>4, <2>5
  <2> QED BY <2>6 DEF left
<1>10. Ledger'
  BY <1>9 DEF Ledger
<1> QED BY <1>10, Balance, PTL

\* A step outside the calls.
LEMMA Between ==
  ASSUME TypeOK, RequestsInv, NEW c \in Caller, NEW r \in Request, Becomes(c, r),
         UNCHANGED vars, Proper(r, blobs', extracted'),
         blobs \subseteq blobs', extracted \subseteq extracted',
         booked' \in Nat, dropped' \in Nat,
         booked' + dropped' + r.used = booked + dropped + req[c].used
  PROVE  RequestsInv'
<1>1. WorkTypes' /\ RequestInv'
  BY RequestMoves DEF RequestsInv
<1>2. TypeOK'
  BY BudgetTypes
<1>3. UNCHANGED actual /\ Charged' = Charged + 0
  <2>1. UNCHANGED <<spent, actual, hour>>
    BY DEF vars
  <2>2. Charged \in Nat
    BY ChargedIsNat
  <2>3. Charged' = Charged
    BY <2>1 DEF Charged, Hour
  <2> QED BY <2>1, <2>2, <2>3
<1>4. /\ booked \in Nat /\ dropped \in Nat
      /\ r.used \in Nat /\ req[c].used \in Nat /\ actual[c] \in Nat
  BY DEF RequestsInv, WorkTypes, TypeOK, Request
<1>5. booked' + dropped' + r.used + actual'[c]
        = booked + dropped + req[c].used + actual[c] + 0
  BY <1>3, <1>4
<1>6. Accounted(c, r, 0)
  BY <1>3, <1>5 DEF Accounted
<1>7. BookedIsCharged'
  BY <1>1, <1>2, <1>6, Balances DEF RequestsInv
<1> QED BY <1>1, <1>7 DEF RequestsInv

\* The idle request is proper, whatever is stored.
LEMMA IdleIsProper == \A stored, known : Proper(Idle, stored, known)
BY IdleIsRequest DEF Proper, Written

\* A request is never past its booking with tokens that are not booked.
LEMMA UnbookedIsUsed ==
  ASSUME RequestsInv, NEW c \in Caller
  PROVE  Unbooked(c) = req[c].used
BY DEF RequestsInv, RequestInv, Proper, Unbooked

\* A request that ends leaves what is not booked to dropped.
LEMMA Ending ==
  ASSUME TypeOK, RequestsInv, NEW c \in Caller, Ends(c), UNCHANGED <<vars, booked, extracted>>,
         blobs \subseteq blobs'
  PROVE  RequestsInv'
<1>1. Becomes(c, Idle)
  BY DEF Ends, Becomes
<1>2. booked \in Nat /\ dropped \in Nat /\ req[c].used \in Nat
  BY DEF RequestsInv, WorkTypes, Request
<1>3. Unbooked(c) = req[c].used
  BY UnbookedIsUsed
<1>4. dropped' \in Nat /\ booked' \in Nat /\ booked' + dropped' + 0 = booked + dropped + req[c].used
  BY <1>2, <1>3 DEF Ends
<1> QED BY <1>1, <1>4, IdleIsRequest, IdleIsProper, Between

\* What an ingestion starts as.
LEMMA FreshIngest ==
  ASSUME NEW s \in Source
  PROVE  /\ Ingesting(s) \in Request /\ Ingesting(s).kind = "ingest" /\ Ingesting(s).at = "call"
         /\ Ingesting(s).used = 0
<1>1. ASSUME NEW d \in Document, NEW r \in Request
      PROVE  LET q == [r EXCEPT !.kind = "ingest", !.at = "call", !.source = d]
             IN  q \in Request /\ q.kind = "ingest" /\ q.at = "call" /\ q.used = r.used
  BY DEF Request, Place
<1>2. {s} \in Document
  BY DEF Document
<1> QED BY <1>1, <1>2, IdleIsRequest DEF Ingesting

\* What a posted row starts as.
LEMMA FreshPost ==
  ASSUME NEW row \in Row
  PROVE  /\ Posting(row) \in Request /\ Posting(row).kind = "post" /\ Posting(row).at = "next"
         /\ Posting(row).used = 0 /\ Posting(row).rows = <<row>> /\ Posting(row).source = {}
<1>1. ASSUME NEW rows \in Seq(Row)
      PROVE  LET q == [Idle EXCEPT !.kind = "post", !.at = "next", !.rows = rows]
             IN  /\ q \in Request /\ q.kind = "post" /\ q.at = "next"
                 /\ q.used = 0 /\ q.rows = rows /\ q.source = {}
  BY DEF Idle, Request, Place, Document, Written
<1>2. <<row>> \in Seq(Row)
  OBVIOUS
<1> QED BY <1>1, <1>2 DEF Posting

\* What a question and an opener start as.
LEMMA FreshQuestion ==
  /\ Asking \in Request /\ Asking.kind = "sql" /\ Asking.at = "call" /\ Asking.used = 0
  /\ Opening \in Request /\ Opening.kind = "opener" /\ Opening.at = "seed" /\ Opening.used = 0
<1>1. ASSUME NEW r \in Request
      PROVE  LET q == [r EXCEPT !.kind = "sql", !.at = "call", !.tries = 1]
             IN  q \in Request /\ q.kind = "sql" /\ q.at = "call" /\ q.used = r.used
  BY DEF Request, Place
<1>2. ASSUME NEW r \in Request
      PROVE  LET q == [r EXCEPT !.kind = "opener", !.at = "seed"]
             IN  q \in Request /\ q.kind = "opener" /\ q.at = "seed" /\ q.used = r.used
  BY DEF Request, Place
<1>3. Asking \in Request /\ Asking.kind = "sql" /\ Asking.at = "call" /\ Asking.used = 0
  BY <1>1, IdleIsRequest DEF Asking
<1> QED BY <1>2, <1>3, IdleIsRequest DEF Opening

\* Every step of a request outside its calls, and its death, keep the books.
LEMMA StartStep ==
  ASSUME TypeOK, RequestsInv, NEW c \in Caller,
         \/ \E s \in Source : StartIngest(c, s)
         \/ StartPost(c) \/ StartQuestion(c) \/ StartOpener(c)
  PROVE  RequestsInv'
<1>1. booked \in Nat /\ dropped \in Nat /\ req[c].used \in Nat /\ req \in [Caller -> Request]
  BY DEF RequestsInv, WorkTypes, Request
<1>2. req[c].kind = "none" => req[c].used = 0
  BY DEF RequestsInv, RequestInv, Proper
<1>3. ASSUME req[c].kind = "none", NEW r \in Request, Becomes(c, r), r.used = 0,
             UNCHANGED <<vars, blobs, extracted, booked, dropped>>,
             r.at \notin {"put", "document"},
             (r.kind = "opener" /\ r.at = "seed") \/ r.kind \in {"ingest", "post", "sql"},
             r.kind = "post" => r.at = "next",
             r.at \in Written => r.rows # <<>> /\ r.source = {}
      PROVE  RequestsInv'
  <2>1. Proper(r, blobs', extracted')
    BY <1>3 DEF Proper, Asks
  <2> QED BY <1>1, <1>2, <1>3, <2>1, Between
<1>4. ASSUME NEW s \in Source, StartIngest(c, s) PROVE RequestsInv'
  <2> DEFINE q == Ingesting(s)
  <2>1. q \in Request /\ q.at = "call" /\ q.used = 0 /\ q.kind = "ingest"
    BY FreshIngest
  <2>2. Becomes(c, q)
    BY <1>4 DEF StartIngest, Becomes, Ingesting
  <2>3. req[c].kind = "none" /\ UNCHANGED <<vars, blobs, extracted, booked, dropped>>
    BY <1>4 DEF StartIngest, At, catalog
  <2> HIDE DEF q
  <2> QED BY <1>3, <2>1, <2>2, <2>3 DEF Written
<1>5. ASSUME StartPost(c) PROVE RequestsInv'
  <2>1. PICK row \in Posts :
          req' = [req EXCEPT ![c] = [Idle EXCEPT !.kind = "post", !.at = "next", !.rows = <<row>>]]
    BY <1>5 DEF StartPost
  <2> DEFINE q == Posting(row)
  <2>2. row \in Row
    BY RowsAreRows
  <2>3. /\ q \in Request /\ q.at = "next" /\ q.used = 0 /\ q.rows = <<row>> /\ q.source = {}
        /\ q.kind = "post"
    BY <2>2, FreshPost
  <2>4. Becomes(c, q)
    BY <2>1 DEF Becomes, Posting
  <2>5. req[c].kind = "none" /\ UNCHANGED <<vars, blobs, extracted, booked, dropped>>
    BY <1>5 DEF StartPost, At, catalog
  <2>6. <<row>> # <<>>
    OBVIOUS
  <2> HIDE DEF q
  <2> QED BY <1>3, <2>3, <2>4, <2>5, <2>6 DEF Written
<1>6. ASSUME StartQuestion(c) PROVE RequestsInv'
  <2> DEFINE q == Asking
  <2>1. q \in Request /\ q.at = "call" /\ q.used = 0 /\ q.kind = "sql"
    BY FreshQuestion
  <2>2. Becomes(c, q)
    BY <1>6 DEF StartQuestion, Becomes, Asking
  <2>3. req[c].kind = "none" /\ UNCHANGED <<vars, blobs, extracted, booked, dropped>>
    BY <1>6 DEF StartQuestion, At, catalog
  <2> HIDE DEF q
  <2> QED BY <1>3, <2>1, <2>2, <2>3 DEF Written
<1>7. ASSUME StartOpener(c) PROVE RequestsInv'
  <2> DEFINE q == Opening
  <2>1. q \in Request /\ q.at = "seed" /\ q.used = 0 /\ q.kind = "opener"
    BY FreshQuestion
  <2>2. Becomes(c, q)
    BY <1>7 DEF StartOpener, Becomes, Opening
  <2>3. req[c].kind = "none" /\ UNCHANGED <<vars, blobs, extracted, booked, dropped>>
    BY <1>7 DEF StartOpener, At, catalog
  <2> HIDE DEF q
  <2> QED BY <1>3, <2>1, <2>2, <2>3 DEF Written
<1> QED BY <1>4, <1>5, <1>6, <1>7

\* The steps of an ingestion between its call and its rows.
LEMMA IngestStep ==
  ASSUME TypeOK, RequestsInv, NEW c \in Caller, BookIngest(c) \/ PutBlob(c) \/ FlushDocument(c)
  PROVE  RequestsInv'
<1> DEFINE r == req[c]
<1>1. /\ r \in Request /\ booked \in Nat /\ dropped \in Nat /\ r.used \in Nat
      /\ req \in [Caller -> Request]
  BY DEF RequestsInv, WorkTypes, Request
<1>2. Proper(r, blobs, extracted)
  BY DEF RequestsInv, RequestInv
<1>3. ASSUME BookIngest(c) PROVE RequestsInv'
  <2> DEFINE q == Using(r, "put", 0)
  <2>1. "put" \in Place /\ "put" \notin {"document"} \cup Written
    BY DEF Place, Written
  <2>2. /\ q \in Request /\ q.at = "put" /\ q.used = 0 /\ q.source = r.source
        /\ q.kind = r.kind
    BY <1>1, <2>1, MovedUsed
  <2>3. Becomes(c, q)
    BY <1>1, <1>3 DEF BookIngest, Becomes, Using
  <2>4. /\ UNCHANGED <<vars, blobs, dropped>> /\ booked' = booked + r.used
        /\ extracted' = extracted \cup r.source
    BY <1>3 DEF BookIngest, catalog
  <2>5. r.kind \notin {"none", "opener"}
    BY <1>3 DEF BookIngest, At
  <2> HIDE DEF q, r
  <2>6. Proper(q, blobs', extracted')
    BY <2>1, <2>2, <2>4, <2>5 DEF Proper
  <2>7. booked' \in Nat /\ dropped' \in Nat /\ booked' + dropped' + 0 = booked + dropped + r.used
    BY <1>1, <2>4
  <2> QED BY <2>2, <2>3, <2>4, <2>6, <2>7, Between DEF r
<1>4. ASSUME PutBlob(c) PROVE RequestsInv'
  <2>1. CASE Ends(c) /\ UNCHANGED blobs
    BY <1>4, <2>1, Ending DEF PutBlob
  <2>2. CASE \E rows \in Outputs : req' = [req EXCEPT ![c].at = "document", ![c].rows = rows]
    <3>1. PICK rows \in Outputs : req' = [req EXCEPT ![c].at = "document", ![c].rows = rows]
      BY <2>2
    <3> DEFINE q == Carrying(r, "document", rows)
    <3>2. rows \in Seq(Row) /\ "document" \in Place /\ "document" \notin Written
      BY RowsAreRows DEF Place, Written
    <3>3. q \in Request /\ q.at = "document" /\ q.used = r.used /\ q.source = r.source /\ q.kind = r.kind
      BY <1>1, <3>2, MovedRows
    <3>4. Becomes(c, q)
      BY <1>1, <3>1 DEF Becomes, Carrying
    <3>x. CASE Ends(c)
      BY <3>x, <1>4, Ending DEF PutBlob
    <3>y. CASE ~ Ends(c)
      <4>1. /\ UNCHANGED <<vars, extracted, booked, dropped>> /\ blobs' = blobs \cup r.source
            /\ r.at = "put"
        BY <1>4, <3>y DEF PutBlob, At
      <4> HIDE DEF q, r
      <4>2. Proper(q, blobs', extracted')
        BY <1>2, <3>2, <3>3, <4>1 DEF Proper, Asks
      <4>3. booked' \in Nat /\ dropped' \in Nat /\ booked' + dropped' + q.used = booked + dropped + r.used
        BY <1>1, <3>3, <4>1
      <4> QED BY <3>3, <3>4, <4>1, <4>2, <4>3, Between DEF r
    <3> QED BY <3>x, <3>y
  <2> QED BY <1>4, <2>1, <2>2 DEF PutBlob
<1>5. ASSUME FlushDocument(c) PROVE RequestsInv'
  <2>1. UNCHANGED <<vars, blobs, extracted, booked>> /\ r.at = "document"
    BY <1>5 DEF FlushDocument, At
  <2>2. CASE Ends(c)
    BY <2>1, <2>2, Ending
  <2>3. CASE Goes(c, "first") /\ UNCHANGED dropped /\ r.rows # <<>>
    <3> DEFINE q == Moving(r, "first")
    <3>1. "first" \in Place /\ "first" \in Written /\ "first" # "put"
      BY DEF Place, Written
    <3>2. /\ q \in Request /\ q.at = "first" /\ q.used = r.used /\ q.source = r.source
          /\ q.kind = r.kind /\ q.rows = r.rows
      BY <1>1, <3>1, Moved
    <3>3. Becomes(c, q)
      BY <1>1, <2>3 DEF Becomes, Goes, Moving
    <3> HIDE DEF q, r
    <3>4. Proper(q, blobs', extracted')
      BY <1>2, <2>1, <2>3, <3>1, <3>2 DEF Proper, Asks
    <3>5. booked' \in Nat /\ dropped' \in Nat /\ booked' + dropped' + q.used = booked + dropped + r.used
      BY <1>1, <2>1, <2>3, <3>2
    <3> QED BY <2>1, <3>2, <3>3, <3>4, <3>5, Between DEF r
  <2> QED BY <1>5, <2>2, <2>3 DEF FlushDocument
<1> QED BY <1>3, <1>4, <1>5

\* The steps of a row.
LEMMA RowStep ==
  ASSUME TypeOK, RequestsInv, NEW c \in Caller, CheckRow(c) \/ CommitRow(c)
  PROVE  RequestsInv'
<1> DEFINE r == req[c]
<1>1. /\ r \in Request /\ booked \in Nat /\ dropped \in Nat /\ r.used \in Nat
      /\ req \in [Caller -> Request] /\ r.rows \in Seq(Row)
  BY DEF RequestsInv, WorkTypes, Request
<1>2. Proper(r, blobs, extracted)
  BY DEF RequestsInv, RequestInv
<1>3. /\ {"first", "first row", "row", "next"} \subseteq Written /\ Written \subseteq Place
      /\ {"put", "call", "answered"} \cap Written = {}
  BY DEF Written, Place
<1>4. CASE Ends(c)
  <2>1. UNCHANGED <<vars, booked, extracted, blobs>>
    BY DEF CheckRow, CommitRow, catalog
  <2> QED BY <1>4, <2>1, Ending
<1>5. CASE CheckRow(c) /\ ~ Ends(c)
  <2>1. /\ UNCHANGED <<vars, blobs, extracted, booked, dropped>>
        /\ r.at \in {"first", "next"} /\ r.rows # <<>>
        /\ Goes(c, IF r.at = "first" THEN "first row" ELSE "row")
    BY <1>5 DEF CheckRow, catalog
  <2> DEFINE p == IF r.at = "first" THEN "first row" ELSE "row"
             q == Moving(r, p)
  <2>2. p \in Written
    BY <1>3
  <2>3. Becomes(c, q)
    BY <1>1, <2>1 DEF Becomes, Goes, Moving
  <2> HIDE DEF p
  <2>4. /\ q \in Request /\ q.at = p /\ q.used = r.used /\ q.source = r.source
        /\ q.kind = r.kind /\ q.rows = r.rows
    BY <1>1, <1>3, <2>2, Moved
  <2> HIDE DEF q, r
  <2>5. Proper(q, blobs', extracted')
    BY <1>2, <1>3, <2>1, <2>2, <2>4 DEF Proper, Asks
  <2>6. booked' \in Nat /\ dropped' \in Nat /\ booked' + dropped' + q.used = booked + dropped + r.used
    BY <1>1, <2>1, <2>4
  <2> QED BY <2>1, <2>3, <2>4, <2>5, <2>6, Between DEF r
<1>6. CASE CommitRow(c) /\ ~ Ends(c)
  <2> DEFINE rest == Tail(r.rows)
             q == Carrying(r, "next", rest)
  <2>1. /\ UNCHANGED <<vars, blobs, extracted, booked, dropped>>
        /\ r.at \in {"first row", "row"} /\ rest # <<>>
        /\ req' = [req EXCEPT ![c].at = "next", ![c].rows = rest]
    BY <1>6 DEF CommitRow
  <2>2. rest \in Seq(Row)
    <3>1. r.rows # <<>>
      BY <1>2, <1>3, <2>1 DEF Proper
    <3> QED BY <1>1, <3>1
  <2>3. Becomes(c, q)
    BY <1>1, <2>1 DEF Becomes, Carrying
  <2> HIDE DEF rest
  <2>4. /\ q \in Request /\ q.at = "next" /\ q.used = r.used /\ q.source = r.source
        /\ q.kind = r.kind /\ q.rows = rest
    <3>1. "next" \in Place
      BY <1>3
    <3> HIDE DEF r
    <3> QED BY <1>1, <2>2, <3>1, MovedRows
  <2> HIDE DEF q, r
  <2>5. Proper(q, blobs', extracted')
    BY <1>2, <1>3, <2>1, <2>4 DEF Proper, Asks
  <2>6. booked' \in Nat /\ dropped' \in Nat /\ booked' + dropped' + q.used = booked + dropped + r.used
    BY <1>1, <2>1, <2>4
  <2> QED BY <2>1, <2>3, <2>4, <2>5, <2>6, Between DEF r
<1> QED BY <1>4, <1>5, <1>6

\* The steps of the chat between its calls.
LEMMA ChatStep ==
  ASSUME TypeOK, RequestsInv, NEW c \in Caller,
         Retrieve(c) \/ Generate(c) \/ Persist(c) \/ SeedOpener(c)
  PROVE  RequestsInv'
<1> DEFINE r == req[c]
<1>1. /\ r \in Request /\ booked \in Nat /\ dropped \in Nat /\ r.used \in Nat
      /\ req \in [Caller -> Request]
  BY DEF RequestsInv, WorkTypes, Request
<1>2. Proper(r, blobs, extracted)
  BY DEF RequestsInv, RequestInv
<1>3. \A p \in {"persist", "call"} : p \in Place /\ p \notin Written /\ p \notin {"put", "document"}
  BY DEF Written, Place
<1>4. ASSUME NEW q \in Request, Becomes(c, q), q.at \in {"persist", "call"}, q.used = r.used,
             Asks(q),
             UNCHANGED <<vars, blobs, extracted, booked, dropped>>
      PROVE  RequestsInv'
  <2>1. Proper(q, blobs', extracted')
    BY <1>3, <1>4 DEF Proper, Asks
  <2>2. booked' \in Nat /\ dropped' \in Nat /\ booked' + dropped' + q.used = booked + dropped + r.used
    BY <1>1, <1>4
  <2> QED BY <1>4, <2>1, <2>2, Between
<1>5. /\ Moving(r, "persist") \in Request /\ Moving(r, "persist").at = "persist"
      /\ Moving(r, "persist").used = r.used /\ Moving(r, "persist").kind = r.kind
  BY <1>1, <1>3, Moved
<1>6. ASSUME Retrieve(c) PROVE RequestsInv'
  <2>1. r.kind = "sql" /\ UNCHANGED <<vars, blobs, extracted, booked, dropped>>
    BY <1>6 DEF Retrieve, At, catalog
  <2>2. \/ Becomes(c, Moving(r, "persist")) \/ Becomes(c, Generating(r)) \/ Becomes(c, Retrying(r))
    <3>1. \/ req' = [req EXCEPT ![c].at = "persist"]
          \/ req' = [req EXCEPT ![c].kind = "answer", ![c].at = "call"]
          \/ req' = [req EXCEPT ![c].at = "call", ![c].tries = @ + 1]
      BY <1>6 DEF Retrieve
    <3> QED BY <1>1, <3>1 DEF Becomes, Moving, Generating, Retrying
  <2>3. /\ Generating(r) \in Request /\ Generating(r).at = "call"
        /\ Generating(r).kind = "answer" /\ Generating(r).used = r.used
    BY <1>1, Answering
  <2>4. /\ Retrying(r) \in Request /\ Retrying(r).at = "call" /\ Retrying(r).kind = r.kind
        /\ Retrying(r).used = r.used
    BY <1>1, Retried
  <2> HIDE DEF r
  <2> QED BY <1>4, <1>5, <2>1, <2>2, <2>3, <2>4 DEF Asks
<1>7. ASSUME Generate(c) PROVE RequestsInv'
  <2>1. r.kind = "answer" /\ UNCHANGED <<vars, blobs, extracted, booked, dropped>>
    BY <1>7 DEF Generate, At, catalog
  <2>2. Becomes(c, Moving(r, "persist"))
    BY <1>1, <1>7 DEF Generate, Goes, Becomes, Moving
  <2> HIDE DEF r
  <2> QED BY <1>4, <1>5, <2>1, <2>2 DEF Asks
<1>8. ASSUME Persist(c) PROVE RequestsInv'
  <2>1. UNCHANGED <<vars, blobs, extracted>>
    BY <1>8 DEF Persist, catalog
  <2>2. CASE Ends(c) /\ UNCHANGED booked
    BY <2>1, <2>2, Ending
  <2>3. CASE booked' = booked + r.used /\ UNCHANGED dropped /\ Becomes(c, Idle)
    <3>1. booked' \in Nat /\ dropped' \in Nat /\ booked' + dropped' + 0 = booked + dropped + r.used
      BY <1>1, <2>3
    <3> QED BY <2>1, <2>3, <3>1, IdleIsRequest, IdleIsProper, Between
  <2> QED BY <1>8, <2>2, <2>3 DEF Persist, Becomes
<1>9. ASSUME SeedOpener(c) PROVE RequestsInv'
  <2>1. UNCHANGED <<vars, blobs, extracted, booked, dropped>> /\ Becomes(c, Idle) /\ r.kind = "opener"
    BY <1>9 DEF SeedOpener, catalog, Becomes, At
  <2>2. r.used = 0
    BY <1>2, <2>1 DEF Proper
  <2>3. booked' \in Nat /\ dropped' \in Nat /\ booked' + dropped' + 0 = booked + dropped + r.used
    BY <1>1, <2>1, <2>2
  <2> QED BY <2>1, <2>3, IdleIsRequest, IdleIsProper, Between
<1> QED BY <1>6, <1>7, <1>8, <1>9

\* What is charged changes by a completed call only.
Charges(h, n) == spent' = [spent EXCEPT ![h] = @ + n]

LEMMA ChargedStep ==
  ASSUME TypeOK, NEW h \in Hour, NEW n \in Nat, Charges(h, n)
  PROVE  Charged' = Charged + n
<1> DEFINE f == spent
           e == spent'
<1>1. /\ \A s \in Hour : f[s] \in Int /\ e[s] \in Int
      /\ \A s \in Hour \ {h} : e[s] = f[s]
  BY DEF TypeOK, Charges
<1>6. e[h] = f[h] + n /\ f[h] \in Nat
  BY DEF TypeOK, Charges
<1>2. IsFiniteSet(Hour)
  BY FS_Interval, BudgetAssumption DEF Hour
<1>3. Charged = SumFunctionOnSet(f, Hour) /\ Charged' = SumFunctionOnSet(e, Hour)
  BY DEF Charged, Hour
<1> HIDE DEF f, e
<1>4. SumFunctionOnSet(e, Hour) = SumFunctionOnSet(f, Hour) - f[h] + e[h]
  BY <1>1, <1>2, SumChange
<1>5. Charged \in Nat
  BY ChargedIsNat
<1> QED BY <1>3, <1>4, <1>5, <1>6

\* Nothing is charged when nothing is spent.
LEMMA SameCharge == TypeOK /\ UNCHANGED spent => Charged' = Charged + 0
<1> SUFFICES ASSUME TypeOK, UNCHANGED spent PROVE Charged' = Charged + 0
  OBVIOUS
<1>1. Charged' = Charged
  BY DEF Charged, Hour
<1> QED BY <1>1, ChargedIsNat

\* A fenced call, whatever becomes of it.
LEMMA WorkCallStep ==
  ASSUME BudgetInv, RequestsInv, NEW c \in Caller, WorkCall(c), TypeOK'
  PROVE  RequestsInv'
<1> DEFINE r == req[c]
<1>1. /\ r \in Request /\ booked \in Nat /\ dropped \in Nat /\ r.used \in Nat
      /\ req \in [Caller -> Request] /\ actual[c] \in Nat /\ actual \in [Caller -> Nat]
  BY DEF RequestsInv, WorkTypes, Request, BudgetInv, TypeOK
<1>2. Proper(r, blobs, extracted)
  BY DEF RequestsInv, RequestInv
<1>3. /\ r.at = "call" /\ UNCHANGED <<blobs, extracted, booked>>
      /\ \/ /\ \/ \E e \in Estimate : Reserve(c, e)
               \/ \E n \in 0 .. held[c].estimate + Overrun : Complete(c, n)
               \/ FailCall(c)
            /\ UNCHANGED <<req, dropped>>
         \/ /\ Settle(c) /\ pc[c] = "answered"
            /\ req' = [req EXCEPT ![c].at = "answered", ![c].used = @ + actual[c]]
            /\ UNCHANGED dropped
         \/ Settle(c) /\ pc[c] # "answered" /\ Ends(c)
  BY DEF WorkCall, catalog
<1>4. TypeOK /\ Fenced
  BY DEF BudgetInv
<1>5. CASE UNCHANGED <<req, dropped>>
  <2>1. Becomes(c, r)
    BY <1>1, <1>5 DEF Becomes
  <2>2. Proper(r, blobs', extracted')
    BY <1>2, <1>3
  <2>3. booked' \in Nat /\ dropped' \in Nat
    BY <1>1, <1>3, <1>5
  <2>4. WorkTypes' /\ RequestInv'
    BY <1>1, <1>3, <2>1, <2>2, <2>3, RequestMoves DEF RequestsInv
  <2>5. ASSUME NEW n \in Nat, Charged' = Charged + n, actual[c] + n = actual'[c],
               \A x \in Caller \ {c} : actual'[x] = actual[x]
        PROVE  RequestsInv'
    <3>1. booked' + dropped' + r.used + actual'[c] = booked + dropped + r.used + actual[c] + n
      BY <1>1, <1>3, <1>5, <2>5
    <3>2. Accounted(c, r, n)
      BY <2>5, <3>1 DEF Accounted
    <3>3. BookedIsCharged'
      BY <1>1, <1>4, <2>1, <2>4, <3>2, Balances DEF RequestsInv
    <3> QED BY <2>4, <3>3 DEF RequestsInv
  <2>6. CASE UNCHANGED <<spent, actual>>
    <3>1. Charged' = Charged + 0 /\ actual[c] + 0 = actual'[c]
      BY <1>1, <1>4, <2>6, SameCharge
    <3> QED BY <2>5, <2>6, <3>1
  <2>7. CASE \E n \in 0 .. held[c].estimate + Overrun : Complete(c, n)
    <3>1. PICK n \in 0 .. held[c].estimate + Overrun : Complete(c, n)
      BY <2>7
    <3>2. n \in Nat /\ held[c].hour \in Hour
      BY <1>4, Holding, BudgetAssumption
    <3>3. actual[c] = 0
      BY <1>4, <3>1 DEF Fenced, Complete
    <3>4. actual'[c] = n /\ \A x \in Caller \ {c} : actual'[x] = actual[x]
      BY <1>1, <3>1 DEF Complete
    <3>5. Charged' = Charged + n
      BY <1>4, <3>1, <3>2, ChargedStep DEF Complete, Charges
    <3> QED BY <2>5, <3>2, <3>3, <3>4, <3>5
  <2>8. CASE (\E e \in Estimate : Reserve(c, e)) \/ FailCall(c)
    BY <2>6, <2>8 DEF Reserve, FailCall
  <2>9. CASE Settle(c) /\ pc[c] = "answered" /\ req' = [req EXCEPT ![c].at = "answered", ![c].used = @ + actual[c]]
    <3>1. req'[c].at = "answered"
      BY <1>1, <2>9 DEF Request
    <3> QED BY <1>3, <1>5, <3>1
  <2>10. CASE Settle(c) /\ pc[c] # "answered" /\ Ends(c)
    <3>1. req'[c] = Idle
      BY <1>1, <2>10 DEF Ends
    <3> QED BY <1>3, <1>5, <3>1, IdleIsRequest
  <2> QED BY <1>3, <2>7, <2>8, <2>9, <2>10
<1>6. ASSUME Settle(c), NEW q \in Request, Becomes(c, q), Proper(q, blobs', extracted'),
             booked' \in Nat, dropped' \in Nat,
             booked' + dropped' + q.used + 0 = booked + dropped + r.used + actual[c] + 0
      PROVE  RequestsInv'
  <2>1. WorkTypes' /\ RequestInv'
    BY <1>3, <1>6, RequestMoves DEF RequestsInv
  <2>2. actual'[c] = 0 /\ \A x \in Caller \ {c} : actual'[x] = actual[x]
    BY <1>1, <1>6 DEF Settle, EndCall
  <2>3. Charged' = Charged + 0
    BY <1>4, <1>6, SameCharge DEF Settle
  <2>4. Accounted(c, q, 0)
    BY <1>6, <2>2, <2>3 DEF Accounted
  <2>5. BookedIsCharged'
    BY <1>4, <1>6, <2>1, <2>4, Balances DEF RequestsInv
  <2> QED BY <2>1, <2>5 DEF RequestsInv
<1>7. CASE /\ Settle(c) /\ pc[c] = "answered" /\ UNCHANGED dropped
           /\ req' = [req EXCEPT ![c].at = "answered", ![c].used = @ + actual[c]]
  <2> DEFINE n == r.used + actual[c]
             q == Using(r, "answered", n)
  <2>1. n \in Nat /\ "answered" \in Place /\ "answered" \notin {"put", "document"} \cup Written
    BY <1>1 DEF Place, Written
  <2>2. Becomes(c, q)
    BY <1>1, <1>7 DEF Becomes, Using
  <2>3. r.kind \in {"ingest", "sql", "answer"}
    BY <1>1, <1>2, <1>3 DEF Proper, Request
  <2> HIDE DEF n
  <2>4. q \in Request /\ q.at = "answered" /\ q.kind = r.kind /\ q.used = n
    BY <1>1, <2>1, MovedUsed
  <2> HIDE DEF q
  <2>5. Proper(q, blobs', extracted')
    BY <2>1, <2>3, <2>4 DEF Proper, Asks
  <2>6. booked' \in Nat /\ dropped' \in Nat /\ booked' + dropped' + q.used + 0 = booked + dropped + r.used + actual[c] + 0
    BY <1>1, <1>3, <1>7, <2>4 DEF n
  <2> QED BY <1>6, <1>7, <2>2, <2>4, <2>5, <2>6
<1>8. CASE Settle(c) /\ pc[c] # "answered" /\ Ends(c)
  <2>1. Becomes(c, Idle) /\ dropped' = dropped + r.used
    BY <1>8, UnbookedIsUsed DEF Ends, Becomes
  <2>2. actual[c] = 0
    BY <1>4, <1>8 DEF Fenced
  <2>3. booked' \in Nat /\ dropped' \in Nat /\ booked' + dropped' + 0 + 0 = booked + dropped + r.used + actual[c] + 0
    BY <1>1, <1>3, <2>1, <2>2
  <2> QED BY <1>6, <1>8, <2>1, <2>3, IdleIsRequest, IdleIsProper
<1> QED BY <1>3, <1>5, <1>7, <1>8

\* A killed request leaves what it owes to dropped.
LEMMA KillStep ==
  ASSUME BudgetInv, RequestsInv, NEW c \in Caller, Kill(c), TypeOK'
  PROVE  RequestsInv'
<1>1. /\ booked \in Nat /\ dropped \in Nat /\ req[c].used \in Nat
      /\ actual[c] \in Nat /\ actual \in [Caller -> Nat]
  BY DEF RequestsInv, WorkTypes, Request, BudgetInv, TypeOK
<1>2. TypeOK /\ Fenced
  BY DEF BudgetInv
<1>3. /\ Becomes(c, Idle) /\ UNCHANGED <<blobs, extracted, booked>>
      /\ dropped' = dropped + req[c].used + actual[c]
      /\ Die(c) \/ (pc[c] = "idle" /\ UNCHANGED vars)
  BY UnbookedIsUsed DEF Kill, Becomes, catalog
<1>4. UNCHANGED spent
  BY <1>3 DEF Die, vars
<1>5. actual'[c] = 0 /\ \A x \in Caller \ {c} : actual'[x] = actual[x]
  <2>1. CASE Die(c)
    BY <1>1, <2>1 DEF Die, EndCall
  <2>2. CASE pc[c] = "idle" /\ UNCHANGED vars
    BY <1>2, <2>2 DEF Fenced, vars
  <2> QED BY <1>3, <2>1, <2>2
<1>6. booked' \in Nat /\ dropped' \in Nat
  BY <1>1, <1>3
<1>7. booked' + dropped' + 0 + 0 = booked + dropped + req[c].used + actual[c] + 0
  BY <1>1, <1>3
<1>8. WorkTypes' /\ RequestInv'
  BY <1>3, <1>6, IdleIsRequest, IdleIsProper, RequestMoves DEF RequestsInv
<1>9. Charged' = Charged + 0
  BY <1>2, <1>4, SameCharge
<1>10. Accounted(c, Idle, 0)
  BY <1>5, <1>7, <1>9, IdleIsRequest DEF Accounted
<1>11. BookedIsCharged'
  <2>1. WorkTypes /\ BookedIsCharged /\ WorkTypes' /\ TypeOK
    BY <1>2, <1>8 DEF RequestsInv
  <2>2. Idle \in Request /\ 0 \in Nat
    BY IdleIsRequest
  <2> QED BY <1>3, <1>10, <2>1, <2>2, Balances
<1> QED BY <1>8, <1>11 DEF RequestsInv

\* The hour and stuttering do not matter to the books.
LEMMA NothingElse ==
  RequestsInv /\ UNCHANGED <<spent, actual, req, booked, dropped, blobs, extracted>> => RequestsInv'
BY DEF RequestsInv, WorkTypes, RequestInv, BookedIsCharged, Hour

\* Every step keeps the books.
LEMMA RequestsStep == BudgetInv /\ RequestsInv /\ [WorkNext]_<<vars, work>> => RequestsInv'
<1> SUFFICES ASSUME BudgetInv, RequestsInv, [WorkNext]_<<vars, work>> PROVE RequestsInv'
  OBVIOUS
<1>1. TypeOK /\ TypeOK'
  BY WorkIsCalls, BudgetTypes DEF BudgetInv
<1>2. ASSUME NEW c \in Caller,
             \/ WorkCall(c) \/ Kill(c) \/ BookIngest(c) \/ PutBlob(c) \/ FlushDocument(c)
             \/ StartPost(c) \/ CheckRow(c) \/ CommitRow(c)
             \/ StartQuestion(c) \/ Retrieve(c) \/ Generate(c) \/ Persist(c)
             \/ StartOpener(c) \/ SeedOpener(c)
             \/ \E s \in Source : StartIngest(c, s)
      PROVE  RequestsInv'
  BY <1>1, <1>2, StartStep, IngestStep, RowStep, ChatStep, WorkCallStep, KillStep
<1>3. CASE NextHour /\ UNCHANGED work
  BY <1>3, NothingElse DEF NextHour, work
<1>4. CASE UNCHANGED <<vars, work>>
  BY <1>4, NothingElse DEF vars, work
<1> QED BY <1>2, <1>3, <1>4 DEF WorkNext

\* They balance at the start.
LEMMA RequestsInit == WorkInit => RequestsInv
<1> SUFFICES ASSUME WorkInit PROVE RequestsInv
  OBVIOUS
<1>1. \A c \in Caller : req[c] = Idle /\ actual[c] = 0
  BY DEF WorkInit, Init
<1>2. WorkTypes
  BY IdleIsRequest DEF WorkInit, WorkTypes
<1>3. RequestInv
  BY <1>1, IdleIsProper DEF RequestInv
<1>4. IsFiniteSet(Caller) /\ IsFiniteSet(Hour)
  BY BudgetAssumption, FS_Interval DEF Hour
<1>5. Charged = 0
  <2>1. \A h \in Hour : spent[h] = 0
    BY DEF WorkInit, Init
  <2> QED BY <1>4, <2>1, SumZero DEF Charged
<1>6. OpenTokens = 0
  <2> DEFINE f == [c \in Caller |-> Open(c)]
  <2>1. \A c \in Caller : f[c] = 0
    <3>1. \A c \in Caller : req[c].used = 0
      BY <1>1, IdleIsRequest
    <3> QED BY <1>1, <3>1 DEF Open
  <2> HIDE DEF f
  <2>2. SumFunctionOnSet(f, Caller) = 0
    BY <1>4, <2>1, SumZero
  <2> QED BY <2>2 DEF OpenTokens, f
<1>7. Ledger
  BY <1>5, <1>6 DEF WorkInit, Ledger
<1> QED BY <1>2, <1>3, <1>7, Balance DEF RequestsInv

\* The llm_call rows add up to what the provider charged, whatever requests
\* fail, race or die: no call is booked twice, and none is lost but with a
\* replica killed before it books, or a question without a turn.
THEOREM EveryTokenIsBooked == WorkSpec => []BookedIsCharged
<1>1. RequestsInv => BookedIsCharged
  BY DEF RequestsInv
<1>2. WorkSpec => []BudgetInv
  BY WorkUsesBudget, BudgetInvariant, PTL
<1> QED BY <1>1, <1>2, RequestsInit, RequestsStep, PTL DEF WorkSpec

-----------------------------------------------------------------------------
(* The catalog. *)

Value == Benchmark \cup Score \cup Source

\* A document of a row in order, and what a fingerprint says.
LEMMA DocumentInOrder ==
  ASSUME NEW doc \in Document
  PROVE  /\ SetToSeq(doc) \in Seq(Source)
         /\ doc = {} => Len(SetToSeq(doc)) = 0
         /\ \A s \in Source : doc = {s} => Len(SetToSeq(doc)) = 1 /\ SetToSeq(doc)[1] = s
<1> DEFINE q == SetToSeq(doc)
<1>1. CASE doc = {}
  <2>1. Cardinality(doc) = 0
    BY <1>1, FS_EmptySet
  <2> DEFINE F == [1 .. 0 -> {}]
             f == [i \in 1 .. 0 |-> i]
  <2>2. f \in F /\ IsInjective(f)
    BY DEF IsInjective
  <2>3. q \in F
    <3>1. q = CHOOSE g \in F : IsInjective(g)
      BY <1>1, <2>1 DEF SetToSeq
    <3> HIDE DEF F, f, q
    <3> QED BY <2>2, <3>1
  <2>4. \A g \in F : g \in Seq(Source) /\ Len(g) = 0
    OBVIOUS
  <2> HIDE DEF F, f, q
  <2>5. q \in Seq(Source) /\ Len(q) = 0
    BY <2>3, <2>4
  <2> QED BY <1>1, <2>5 DEF q
<1>2. ASSUME NEW s \in Source, doc = {s}
      PROVE  q \in Seq(Source) /\ Len(q) = 1 /\ q[1] = s
  <2>1. Cardinality(doc) = 1
    BY <1>2, FS_Singleton
  <2> DEFINE F == [1 .. 1 -> {s}]
             f == [i \in 1 .. 1 |-> s]
  <2>2. f \in F /\ IsInjective(f)
    BY DEF IsInjective
  <2>3. q \in F
    <3>1. q = CHOOSE g \in F : IsInjective(g)
      BY <1>2, <2>1 DEF SetToSeq
    <3> HIDE DEF F, f, q
    <3> QED BY <2>2, <3>1
  <2>4. \A g \in F : g \in Seq(Source) /\ Len(g) = 1 /\ g[1] = s
    OBVIOUS
  <2> HIDE DEF F, f, q
  <2> QED BY <2>3, <2>4
<1>3. doc = {} \/ \E s \in Source : doc = {s}
  BY DEF Document
<1> HIDE DEF q
<1>4. q \in Seq(Source)
  BY <1>1, <1>2, <1>3 DEF q
<1>5. \A s \in Source : doc = {s} => doc # {} /\ Len(q) = 1 /\ q[1] = s
  BY <1>2
<1>6. doc = {} => Len(q) = 0
  BY <1>1 DEF q
<1> QED BY <1>4, <1>5, <1>6 DEF q

\* The parts of a fingerprint, read back.
LEMMA FingerprintParts ==
  ASSUME NEW b \in Benchmark, NEW r \in Figures
  PROVE  /\ Len(Fingerprint(b, r)) = 2 + Len(SetToSeq(r.doc))
         /\ Fingerprint(b, r)[2] = r.score
         /\ Len(SetToSeq(r.doc)) >= 1 => Fingerprint(b, r)[3] = SetToSeq(r.doc)[1]
<1> DEFINE t == SetToSeq(r.doc)
           s == <<b, r.score>>
<1>1. r.doc \in Document /\ r.score \in Score
  BY DEF Figures
<1>2. t \in Seq(Source)
  BY <1>1, DocumentInOrder
<1>3. t \in Seq(Value)
  <2>1. Source \subseteq Value
    BY DEF Value
  <2> HIDE DEF t
  <2> QED BY <1>2, <2>1
<1>4. s \in Seq(Value) /\ Len(s) = 2 /\ s[2] = r.score
  BY <1>1 DEF Value
<1> HIDE DEF s, t
<1>5. /\ Len(s \o t) = Len(s) + Len(t)
      /\ \A i \in 1 .. Len(s) + Len(t) : (s \o t)[i] = IF i <= Len(s) THEN s[i] ELSE t[i - Len(s)]
  BY <1>3, <1>4, ConcatProperties
<1>6. Len(t) \in Nat
  BY <1>3
<1>7. (s \o t)[2] = r.score
  BY <1>4, <1>5, <1>6
<1>8. Len(t) >= 1 => (s \o t)[3] = t[1]
  BY <1>4, <1>5, <1>6
<1> QED BY <1>4, <1>5, <1>7, <1>8 DEF Fingerprint, s, t

\* A fingerprint tells the figures of a benchmark apart.
LEMMA SameFigures ==
  ASSUME NEW b \in Benchmark, NEW r \in Figures, NEW q \in Figures,
         Fingerprint(b, r) = Fingerprint(b, q)
  PROVE  r = q
<1> DEFINE length(doc) == Len(SetToSeq(doc))
<1>1. r.doc \in Document /\ q.doc \in Document
  BY DEF Figures
<1>2. r.score = q.score
  <2>1. Fingerprint(b, r)[2] = r.score /\ Fingerprint(b, q)[2] = q.score
    BY FingerprintParts
  <2> QED BY <2>1
<1>3. length(r.doc) = length(q.doc)
  <2>1. 2 + Len(SetToSeq(r.doc)) = 2 + Len(SetToSeq(q.doc))
    BY FingerprintParts
  <2>2. Len(SetToSeq(r.doc)) \in Nat /\ Len(SetToSeq(q.doc)) \in Nat
    BY <1>1, DocumentInOrder
  <2> QED BY <2>1, <2>2
<1>5. /\ \A doc \in Document : doc = {} => length(doc) = 0
      /\ \A doc \in Document : \A s \in Source : doc = {s} => length(doc) = 1 /\ SetToSeq(doc)[1] = s
      /\ length(r.doc) >= 1 => Fingerprint(b, r)[3] = SetToSeq(r.doc)[1]
      /\ length(q.doc) >= 1 => Fingerprint(b, q)[3] = SetToSeq(q.doc)[1]
  BY DocumentInOrder, FingerprintParts
<1> HIDE DEF length
<1>4. r.doc = q.doc
  <2>1. CASE r.doc = {}
    <3>1. length(r.doc) = 0
      BY <1>1, <1>5, <2>1
    <3>2. ASSUME NEW s \in Source, q.doc = {s} PROVE FALSE
      <4>1. length(q.doc) = 1
        BY <1>1, <1>5, <3>2
      <4>2. length(q.doc) = 0
        BY <1>3, <3>1
      <4> QED BY <4>1, <4>2
    <3> QED BY <1>1, <2>1, <3>2 DEF Document
  <2>2. ASSUME NEW s \in Source, r.doc = {s} PROVE r.doc = q.doc
    <3>1. length(r.doc) = 1 /\ SetToSeq(r.doc)[1] = s
      BY <1>1, <1>5, <2>2
    <3>2. ASSUME q.doc = {} PROVE FALSE
      <4>1. length(q.doc) = 0
        BY <1>1, <1>5, <3>2
      <4>2. length(q.doc) = 1
        BY <1>3, <3>1
      <4> QED BY <4>1, <4>2
    <3>3. PICK p \in Source : q.doc = {p}
      BY <1>1, <3>2 DEF Document
    <3>4. SetToSeq(q.doc)[1] = p
      BY <1>1, <1>5, <3>3
    <3>5. s = p
      BY <1>3, <1>5, <3>1, <3>4
    <3> QED BY <2>2, <3>3, <3>5
  <2> QED BY <1>1, <2>1, <2>2 DEF Document
<1> QED BY <1>2, <1>4 DEF Figures

\* A row has the figures of one benchmark, an observation a fingerprint of its
\* figures.
CatalogInv ==
  /\ results \in [Benchmark -> SUBSET Figures]
  /\ observed \in [Benchmark -> SUBSET [fingerprint : Seq(Value), figures : Figures]]
  /\ \A b \in Benchmark : \A r, q \in results[b] : r = q
  /\ \A b \in Benchmark : \A o \in observed[b] : o.fingerprint = Fingerprint(b, o.figures)

\* A fingerprint is a sequence of values.
LEMMA FingerprintIsSeq ==
  ASSUME NEW b \in Benchmark, NEW r \in Figures
  PROVE  Fingerprint(b, r) \in Seq(Value)
<1> DEFINE t == SetToSeq(r.doc)
           s == <<b, r.score>>
<1>1. r.doc \in Document /\ r.score \in Score
  BY DEF Figures
<1>2. t \in Seq(Source)
  BY <1>1, DocumentInOrder
<1>3. t \in Seq(Value)
  <2>1. Source \subseteq Value
    BY DEF Value
  <2> HIDE DEF t
  <2> QED BY <1>2, <2>1
<1>4. s \in Seq(Value)
  BY <1>1 DEF Value
<1> HIDE DEF s, t
<1>5. s \o t \in Seq(Value)
  BY <1>3, <1>4, ConcatProperties
<1> QED BY <1>5 DEF Fingerprint, s, t

\* The figures a commit writes.
NewFigures(c, b) == [score |-> Head(req[c].rows).score, doc |-> Linked(c, b)]

\* The document of a new row is one document, known or the request's.
LEMMA LinkedIsBacked ==
  ASSUME WorkTypes, CatalogInv, FiguresAreBacked, NEW c \in Caller, NEW b \in Benchmark
  PROVE  Linked(c, b) \in Document /\ Linked(c, b) \subseteq docs \cup req[c].source
<1>1. CASE req[c].source # {}
  BY <1>1 DEF Linked, WorkTypes, Request
<1>2. CASE req[c].source = {} /\ results[b] = {}
  <2>1. Linked(c, b) = {}
    BY <1>2 DEF Linked
  <2> QED BY <2>1 DEF Document
<1>3. CASE req[c].source = {} /\ results[b] # {}
  <2>1. PICK r \in results[b] : TRUE
    BY <1>3
  <2>2. \A q \in results[b] : q = r
    BY <2>1 DEF CatalogInv
  <2>3. Linked(c, b) = r.doc
    BY <1>3, <2>1, <2>2 DEF Linked
  <2>4. r \in Figures
    BY <2>1 DEF CatalogInv
  <2>5. r.doc \in Document
    BY <2>4 DEF Figures
  <2>6. r.doc \subseteq docs
    BY <2>1 DEF FiguresAreBacked
  <2> QED BY <2>3, <2>5, <2>6
<1> QED BY <1>1, <1>2, <1>3

\* A commit replaces the row of a benchmark, with an observation of it.
LEMMA CommitStep ==
  ASSUME RequestsInv, CatalogInv, FiguresAreBacked, NEW c \in Caller, CommitRow(c)
  PROVE  CatalogInv' /\ FiguresAreBacked'
<1>1. CASE UNCHANGED <<results, observed, docs>>
  BY <1>1 DEF CatalogInv, FiguresAreBacked, CommitRow
<1> DEFINE b == Head(req[c].rows).benchmark
           r == NewFigures(c, b)
           o == [fingerprint |-> Fingerprint(b, r), figures |-> r]
           seen == \E p \in observed[b] : p.fingerprint = Fingerprint(b, r)
<1>2. CASE ~ UNCHANGED <<results, observed, docs>>
  <2>1. /\ results' = [results EXCEPT ![b] = {r}]
        /\ observed' = IF seen THEN observed ELSE [observed EXCEPT ![b] = @ \cup {o}]
        /\ docs' = docs \cup req[c].source
        /\ UNCHANGED <<blobs, extracted>> /\ req[c].at \in {"first row", "row"}
    BY <1>2 DEF CommitRow, NewFigures
  <2>2. req[c] \in Request /\ Proper(req[c], blobs, extracted) /\ WorkTypes
    BY DEF RequestsInv, WorkTypes, RequestInv
  <2>3. req[c].rows # <<>> /\ req[c].source \subseteq blobs \cap extracted /\ req[c].rows \in Seq(Row)
    <3>1. req[c].rows \in Seq(Row)
      BY <2>2 DEF Request
    <3> QED BY <2>1, <2>2, <3>1 DEF Proper, Written
  <2>4. Head(req[c].rows) \in Row
    BY <2>3
  <2>5. b \in Benchmark /\ Head(req[c].rows).score \in Score
    BY <2>4 DEF Row
  <2>6. Linked(c, b) \in Document /\ Linked(c, b) \subseteq docs'
    BY <2>1, <2>2, <2>5, LinkedIsBacked
  <2>7. r \in Figures /\ r.doc \subseteq docs'
    BY <2>5, <2>6 DEF NewFigures, Figures
  <2> HIDE DEF b, r
  <2>8. /\ o \in [fingerprint : Seq(Value), figures : Figures]
        /\ o.fingerprint = Fingerprint(b, o.figures) /\ o.figures = r
    BY <2>5, <2>7, FingerprintIsSeq
  <2>9. seen => \E p \in observed[b] : p.figures = r
    <3> SUFFICES ASSUME NEW p \in observed[b], p.fingerprint = Fingerprint(b, r)
                 PROVE  p.figures = r
      OBVIOUS
    <3>1. p.figures \in Figures /\ p.fingerprint = Fingerprint(b, p.figures)
      BY <2>5 DEF CatalogInv
    <3> QED BY <2>5, <2>7, <3>1, SameFigures
  <2> HIDE DEF o, seen
  <2>10. \A x \in Benchmark : observed[x] \subseteq observed'[x]
    BY <2>1, <2>5 DEF CatalogInv
  <2>11. r \in {p.figures : p \in observed'[b]}
    <3>1. \E p \in observed'[b] : p.figures = r
      BY <2>1, <2>5, <2>8, <2>9 DEF CatalogInv
    <3> QED BY <3>1
  <2>12. results'[b] = {r} /\ \A x \in Benchmark \ {b} : results'[x] = results[x]
    BY <2>1, <2>5 DEF CatalogInv
  <2>13. CatalogInv'
    <3>1. results' \in [Benchmark -> SUBSET Figures]
      BY <2>1, <2>7 DEF CatalogInv
    <3>2. observed' \in [Benchmark -> SUBSET [fingerprint : Seq(Value), figures : Figures]]
      BY <2>1, <2>8 DEF CatalogInv
    <3>3. ASSUME NEW x \in Benchmark, NEW p \in results'[x], NEW q \in results'[x] PROVE p = q
      BY <2>12, <3>3 DEF CatalogInv
    <3>4. ASSUME NEW x \in Benchmark, NEW p \in observed'[x]
          PROVE  p.fingerprint = Fingerprint(x, p.figures)
      <4>1. p \in observed[x] \/ (x = b /\ p = o)
        BY <2>1, <2>5, <3>4 DEF CatalogInv
      <4> QED BY <2>8, <4>1 DEF CatalogInv
    <3> QED BY <3>1, <3>2, <3>3, <3>4 DEF CatalogInv, Fingerprint
  <2>14. FiguresAreBacked'
    <3>1. ASSUME NEW x \in Benchmark PROVE results'[x] \subseteq {p.figures : p \in observed'[x]}
      <4>1. CASE x = b
        BY <2>11, <2>12, <4>1
      <4>2. CASE x # b
        BY <2>10, <2>12, <4>2 DEF FiguresAreBacked
      <4> QED BY <4>1, <4>2
    <3>2. docs' \subseteq blobs' \cap extracted'
      BY <2>1, <2>3 DEF FiguresAreBacked
    <3>3. ASSUME NEW x \in Benchmark, NEW p \in results'[x] PROVE p.doc \subseteq docs'
      <4>1. CASE x = b
        BY <2>7, <2>12, <4>1
      <4>2. CASE x # b
        BY <2>1, <2>12, <4>2 DEF FiguresAreBacked
      <4> QED BY <4>1, <4>2
    <3> QED BY <3>1, <3>2, <3>3 DEF FiguresAreBacked
  <2> QED BY <2>13, <2>14
<1> QED BY <1>1, <1>2

\* What is stored and extracted only grows, and a document joins the committed
\* ones once both are.
LEMMA CatalogStep ==
  RequestsInv /\ CatalogInv /\ FiguresAreBacked /\ [WorkNext]_<<vars, work>>
    => CatalogInv' /\ FiguresAreBacked'
<1> SUFFICES ASSUME RequestsInv, CatalogInv, FiguresAreBacked, [WorkNext]_<<vars, work>>
             PROVE  CatalogInv' /\ FiguresAreBacked'
  OBVIOUS
<1>1. ASSUME UNCHANGED <<results, observed>>, docs \subseteq docs',
             docs' \subseteq blobs' \cap extracted'
      PROVE  CatalogInv' /\ FiguresAreBacked'
  BY <1>1 DEF CatalogInv, FiguresAreBacked, Fingerprint
<1>2. docs \subseteq blobs \cap extracted
  BY DEF FiguresAreBacked
<1>3. ASSUME NEW c \in Caller, FlushDocument(c) PROVE CatalogInv' /\ FiguresAreBacked'
  <2>1. req[c].at = "document" /\ Proper(req[c], blobs, extracted)
    BY <1>3 DEF FlushDocument, At, RequestsInv, RequestInv
  <2>2. req[c].source \subseteq blobs \cap extracted
    BY <2>1 DEF Proper
  <2>3. /\ UNCHANGED <<results, observed, blobs, extracted>>
        /\ docs' = docs \/ \E s \in req[c].source : docs' = docs \cup {s}
    BY <1>3 DEF FlushDocument
  <2> QED BY <1>1, <1>2, <2>2, <2>3
<1>4. ASSUME NEW c \in Caller, CommitRow(c) PROVE CatalogInv' /\ FiguresAreBacked'
  BY <1>4, CommitStep
<1>5. ASSUME UNCHANGED <<results, observed, docs>>, blobs \subseteq blobs', extracted \subseteq extracted'
      PROVE  CatalogInv' /\ FiguresAreBacked'
  BY <1>1, <1>2, <1>5
<1>6. ASSUME NEW c \in Caller,
             \/ WorkCall(c) \/ Kill(c) \/ BookIngest(c) \/ PutBlob(c)
             \/ StartPost(c) \/ CheckRow(c)
             \/ StartQuestion(c) \/ Retrieve(c) \/ Generate(c) \/ Persist(c)
             \/ StartOpener(c) \/ SeedOpener(c)
             \/ \E s \in Source : StartIngest(c, s)
      PROVE  UNCHANGED <<results, observed, docs>> /\ blobs \subseteq blobs' /\ extracted \subseteq extracted'
  BY <1>6 DEF WorkCall, Kill, BookIngest, PutBlob, StartPost, CheckRow, StartQuestion, Retrieve,
              Generate, Persist, StartOpener, SeedOpener, StartIngest, catalog
<1>7. CASE (NextHour /\ UNCHANGED work) \/ UNCHANGED <<vars, work>>
  BY <1>5, <1>7 DEF work
<1> QED BY <1>3, <1>4, <1>5, <1>6, <1>7 DEF WorkNext

\* The catalog is empty at the start.
LEMMA CatalogInit == WorkInit => CatalogInv /\ FiguresAreBacked
BY DEF WorkInit, CatalogInv, FiguresAreBacked

\* Every figure has its observation, and every document a figure or a skip
\* rests on is stored and its extraction booked, whatever fails or dies.
THEOREM FiguresStayBacked == WorkSpec => []FiguresAreBacked
<1>1. WorkSpec => []BudgetInv
  BY WorkUsesBudget, BudgetInvariant, PTL
<1>2. WorkSpec => []RequestsInv
  BY <1>1, RequestsInit, RequestsStep, PTL DEF WorkSpec
<1> QED BY <1>2, CatalogInit, CatalogStep, PTL DEF WorkSpec

=============================================================================
