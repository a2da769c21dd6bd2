------------------------------ MODULE Pods_proofs ------------------------------
(***************************************************************************)
(* Theorems about PodUsage: what pods of any size are charged.  The folds  *)
(* that add containers up are recursive; induction over them is over sets  *)
(* of numbers, as the provers cannot instantiate a theorem with a formula. *)
(***************************************************************************)
EXTENDS PodUsage, Limits_proofs

-----------------------------------------------------------------------------
(* Induction and recursion *)

\* Induction: numbers of which the successor is in T whenever they are fill Nat.
LEMMA Induction ==
    ASSUME NEW T \in SUBSET Nat, 0 \in T, \A n \in T : n + 1 \in T
    PROVE  T = Nat
<1> SUFFICES ASSUME Nat \ T # {} PROVE FALSE
  OBVIOUS
<1>1. PICK u \in Nat \ T : \A w \in Nat \ T : ~(<<w, u>> \in OpToRel(<, Nat))
  <2>1. Nat \ T \subseteq Nat
    OBVIOUS
  <2> QED
    BY <2>1, NatLessThanWellFounded, WFMin
<1>2. u \in Nat \ {0}
  BY <1>1
<1>3. u - 1 \in Nat /\ (u - 1) + 1 = u /\ u - 1 < u
  BY <1>2
<1>4. u - 1 \in Nat \ T
  BY <1>1, <1>3
<1>5. <<u - 1, u>> \in OpToRel(<, Nat)
  BY <1>2, <1>3 DEF OpToRel
<1> QED
  BY <1>1, <1>4, <1>5

\* pick chooses an element of every set, and step goes on from the value of the rest.
Stepwise(S, V, pick, step) ==
    /\ \A s \in SUBSET S : s # {} => pick[s] \in s
    /\ \A s \in SUBSET S, v \in V : s # {} => step[s][v] \in V

Recurs(g, S, V, base, pick, step) ==
    /\ g \in [SUBSET S -> V]
    /\ \A s \in SUBSET S : g[s] = IF s = {} THEN base ELSE step[s][g[s \ {pick[s]}]]

\* Recursion over the subsets of a finite set, one element at a time: it defines a
\* function.
LEMMA Recursion ==
    ASSUME NEW S, IsFiniteSet(S), NEW V, NEW base \in V, NEW pick, NEW step,
           Stepwise(S, V, pick, step)
    PROVE  \E g : Recurs(g, S, V, base, pick, step)
<1> USE DEF Stepwise
<1> DEFINE NextValue(g, s) == IF s = {} THEN base ELSE step[s][g[s \ {pick[s]}]]
           Upto(g, n) == \A s \in SUBSET S : Cardinality(s) <= n => g[s] = NextValue(g, s)
           T == {n \in Nat : \E g \in [SUBSET S -> V] : Upto(g, n)}
<1> HIDE DEF NextValue, Upto, T
<1>1. ASSUME NEW s \in SUBSET S PROVE IsFiniteSet(s) /\ Cardinality(s) \in Nat
  BY FS_Subset, FS_CardinalityType
<1>2. ASSUME NEW g \in [SUBSET S -> V], NEW s \in SUBSET S PROVE NextValue(g, s) \in V
  <2>1. CASE s = {}
    BY <2>1 DEF NextValue
  <2>2. CASE s # {}
    <3>1. g[s \ {pick[s]}] \in V
      OBVIOUS
    <3> QED
      BY <2>2, <3>1 DEF NextValue
  <2> QED
    BY <2>1, <2>2
<1>3. 0 \in T
  <2>1. ASSUME NEW s \in SUBSET S, Cardinality(s) <= 0 PROVE s = {}
    <3>1. IsFiniteSet(s) /\ Cardinality(s) \in Nat
      BY <1>1
    <3>2. Cardinality(s) = 0
      BY <2>1, <3>1
    <3> QED
      BY <3>1, <3>2, FS_EmptySet
  <2>2. [s \in SUBSET S |-> base] \in [SUBSET S -> V]
    OBVIOUS
  <2>3. Upto([s \in SUBSET S |-> base], 0)
    BY <2>1 DEF Upto, NextValue
  <2> QED
    BY <2>2, <2>3 DEF T
<1>4. ASSUME NEW n \in T PROVE n + 1 \in T
  <2>1. PICK g \in [SUBSET S -> V] : Upto(g, n)
    BY DEF T
  <2> DEFINE h == [s \in SUBSET S |-> NextValue(g, s)]
  <2>2. h \in [SUBSET S -> V]
    BY <1>2
  <2>3. Upto(h, n + 1)
    <3> SUFFICES ASSUME NEW s \in SUBSET S, Cardinality(s) <= n + 1 PROVE h[s] = NextValue(h, s)
      BY DEF Upto
    <3> DEFINE r == s \ {pick[s]}
    <3>1. CASE s = {}
      BY <3>1 DEF NextValue
    <3>2. CASE s # {}
      <4>1. r \in SUBSET S /\ pick[s] \in s
        BY <3>2
      <4>2. IsFiniteSet(s) /\ Cardinality(s) \in Nat /\ n \in Nat
        BY <1>1 DEF T
      <4>3. Cardinality(r) = Cardinality(s) - 1
        <5>1. \A x \in s : Cardinality(s \ {x}) = Cardinality(s) - 1
          BY <4>2, FS_RemoveElement
        <5> QED
          BY <4>1, <5>1
      <4>4. Cardinality(r) <= n
        BY <4>2, <4>3
      <4>5. h[r] = g[r]
        BY <2>1, <4>1, <4>4 DEF Upto
      <4> QED
        BY <3>2, <4>5 DEF NextValue
    <3> QED
      BY <3>1, <3>2
  <2>4. n + 1 \in Nat
    BY DEF T
  <2> QED
    BY <2>2, <2>3, <2>4 DEF T
<1>5. Cardinality(S) \in T
  <2>1. T \in SUBSET Nat
    BY DEF T
  <2> QED
    BY <1>3, <1>4, <2>1, Induction, FS_CardinalityType
<1>6. PICK g \in [SUBSET S -> V] : Upto(g, Cardinality(S))
  BY <1>5 DEF T
<1>7. \A s \in SUBSET S : Cardinality(s) <= Cardinality(S)
  BY FS_Subset
<1> QED
  BY <1>6, <1>7 DEF Upto, NextValue, Recurs

\* Induction over a finite set, one element at a time.
LEMMA SetInduction ==
    ASSUME NEW S, IsFiniteSet(S), NEW T,
           \A s \in SUBSET S : (\A x \in s : s \ {x} \in T) => s \in T
    PROVE  S \in T
<1> DEFINE F == (SUBSET S) \ T
<1> SUFFICES ASSUME S \in F PROVE FALSE
  OBVIOUS
<1>1. F # {} /\ F \subseteq SUBSET S
  OBVIOUS
<1>2. IsWellFoundedOn(StrictSubsetOrdering(S), SUBSET S)
  <2>1. FiniteSubsetsOf(S) = SUBSET S
    BY FS_FiniteSubsetsOfFinite
  <2>2. IsWellFoundedOn(StrictSubsetOrdering(S), FiniteSubsetsOf(S))
    BY FS_StrictSubsetOrderingWellFounded
  <2> QED
    BY <2>1, <2>2
<1> HIDE DEF F
<1>3. PICK s \in F : \A t \in F : ~(<<t, s>> \in StrictSubsetOrdering(S))
  BY <1>1, <1>2, WFMin
<1>4. s \in SUBSET S /\ s \notin T
  BY <1>3 DEF F
<1>5. PICK x \in s : s \ {x} \notin T
  BY <1>4
<1>6. s \ {x} \in F
  BY <1>4, <1>5 DEF F
<1>7. <<s \ {x}, s>> \in StrictSubsetOrdering(S)
  BY <1>4, <1>5 DEF StrictSubsetOrdering
<1> QED
  BY <1>3, <1>6, <1>7

-----------------------------------------------------------------------------
(* The largest of some numbers *)

\* A number of the set that no other exceeds is its maximum.
LEMMA MaxIs ==
    ASSUME NEW S \in SUBSET Int, NEW m \in S, \A x \in S : m >= x
    PROVE  Max(S) = m
<1>1. Max(S) \in S /\ \A x \in S : Max(S) >= x
  BY DEF Max
<1>2. Max(S) >= m /\ m >= Max(S)
  BY <1>1
<1>3. Max(S) \in Int /\ m \in Int
  BY <1>1
<1> QED
  BY <1>2, <1>3

\* A finite set of numbers has a maximum.
LEMMA MaxOfFinite ==
    ASSUME NEW S \in SUBSET Int, IsFiniteSet(S), S # {}
    PROVE  Max(S) \in S /\ \A x \in S : Max(S) >= x
<1> DEFINE HasMax(s) == s = {} \/ \E m \in s : \A x \in s : m >= x
           T == {s \in SUBSET S : HasMax(s)}
<1>1. ASSUME NEW s \in SUBSET S, NEW x \in s, HasMax(s \ {x}) PROVE HasMax(s)
  <2>1. CASE s = {x}
    BY <2>1
  <2>2. CASE s # {x}
    <3>1. PICK m \in s \ {x} : \A y \in s \ {x} : m >= y
      BY <1>1, <2>2
    <3>2. CASE m >= x
      BY <3>1, <3>2
    <3>3. CASE x >= m
      BY <3>1, <3>3
    <3> QED
      BY <3>1, <3>2, <3>3
  <2> QED
    BY <2>1, <2>2
<1>2. HasMax({})
  OBVIOUS
<1> HIDE DEF HasMax
<1>3. \A s \in SUBSET S : (\A x \in s : s \ {x} \in T) => s \in T
  BY <1>1, <1>2
<1> HIDE DEF T
<1>4. S \in T
  BY <1>3, SetInduction
<1>5. \E m \in S : \A x \in S : m >= x
  BY <1>4 DEF T, HasMax
<1> QED
  BY <1>5 DEF Max

-----------------------------------------------------------------------------
(* Sums *)

\* Each element of S as often as w says.
UnitsOf(w, S) == {x \in S \X Nat : x[2] \in 1 .. w[x[1]]}

\* An element adds its units.
LEMMA UnitsAdd ==
    ASSUME NEW S, NEW x \in S, NEW w, w[x] \in Nat, IsFiniteSet(UnitsOf(w, S \ {x}))
    PROVE  /\ IsFiniteSet(UnitsOf(w, S))
           /\ Cardinality(UnitsOf(w, S)) = Cardinality(UnitsOf(w, S \ {x})) + w[x]
<1> DEFINE U == UnitsOf(w, S \ {x})
           V == {x} \X (1 .. w[x])
<1>1. IsFiniteSet(V) /\ Cardinality(V) = w[x]
  <2>1. IsFiniteSet(1 .. w[x]) /\ Cardinality(1 .. w[x]) = w[x]
    <3>1. \A n \in Nat : IsFiniteSet(1 .. n) /\ Cardinality(1 .. n) = n
      BY FS_Interval
    <3> QED
      BY <3>1
  <2>2. IsFiniteSet({x}) /\ Cardinality({x}) = 1
    BY FS_Singleton
  <2>3. \A s, t : IsFiniteSet(s) /\ IsFiniteSet(t)
            => IsFiniteSet(s \X t) /\ Cardinality(s \X t) = Cardinality(s) * Cardinality(t)
    BY FS_Product
  <2>4. IsFiniteSet(V) /\ Cardinality(V) = Cardinality({x}) * Cardinality(1 .. w[x])
    <3> DEFINE J == 1 .. w[x]
               X == {x}
    <3>1. IsFiniteSet(X) /\ IsFiniteSet(J)
      BY <2>1, <2>2
    <3> HIDE DEF J, X
    <3>2. IsFiniteSet(X \X J) /\ Cardinality(X \X J) = Cardinality(X) * Cardinality(J)
      BY <3>1, <2>3
    <3> QED
      BY <3>2 DEF J, X
  <2>5. 1 * w[x] = w[x]
    OBVIOUS
  <2> QED
    BY <2>1, <2>2, <2>4, <2>5
<1>2. UnitsOf(w, S) = U \union V /\ U \intersect V = {}
  BY DEF UnitsOf
<1>3. IsFiniteSet(U) /\ Cardinality(U) \in Nat
  BY FS_CardinalityType
<1> HIDE DEF U, V
<1>4. IsFiniteSet(U \union V)
      /\ Cardinality(U \union V) = Cardinality(U) + Cardinality(V) - Cardinality({})
  BY <1>1, <1>2, <1>3, FS_Union
<1>5. Cardinality(U \union V) = Cardinality(U) + w[x]
  BY <1>1, <1>3, <1>4, FS_EmptySet
<1> QED
  BY <1>2, <1>4, <1>5 DEF U

\* A sum of whole amounts is the number of the units that they are made of.
LEMMA SumCounts ==
    ASSUME NEW S, IsFiniteSet(S), NEW w, \A x \in S : w[x] \in Nat
    PROVE  /\ IsFiniteSet(UnitsOf(w, S))
           /\ SumFunctionOnSet(w, S) = Cardinality(UnitsOf(w, S))
<1> DEFINE pick == [s \in SUBSET S |-> CHOOSE x \in s : TRUE]
           step == [s \in SUBSET S |-> [v \in Nat |-> w[pick[s]] + v]]
<1>1. \A s \in SUBSET S : s # {} => pick[s] \in s
  OBVIOUS
<1>2. Stepwise(S, Nat, pick, step)
  <2> SUFFICES ASSUME NEW s \in SUBSET S, NEW v \in Nat, s # {} PROVE step[s][v] \in Nat
    BY <1>1 DEF Stepwise
  <2>1. w[pick[s]] \in Nat
    BY <1>1
  <2> HIDE DEF pick
  <2> QED
    BY <2>1
<1>3. PICK g : Recurs(g, S, Nat, 0, pick, step)
  <2> HIDE DEF pick, step
  <2> QED
    BY <1>2, Recursion
<1>4. \A s \in SUBSET S : s # {} => pick[s] \in s /\ g[s] = w[pick[s]] + g[s \ {pick[s]}]
  <2> SUFFICES ASSUME NEW s \in SUBSET S, s # {}
               PROVE  pick[s] \in s /\ g[s] = w[pick[s]] + g[s \ {pick[s]}]
    OBVIOUS
  <2>1. pick[s] \in s /\ s \ {pick[s]} \in SUBSET S
    BY <1>1
  <2>2. g[s] = step[s][g[s \ {pick[s]}]] /\ g[s \ {pick[s]}] \in Nat
    BY <1>3, <2>1 DEF Recurs
  <2> HIDE DEF pick
  <2> QED
    BY <2>1, <2>2
<1>5. g = [s \in SUBSET S |-> IF s = {} THEN 0
                              ELSE w[CHOOSE x \in s : TRUE] + g[s \ {CHOOSE x \in s : TRUE}]]
  <2>1. ASSUME NEW s \in SUBSET S
        PROVE  g[s] = IF s = {} THEN 0
                      ELSE w[CHOOSE x \in s : TRUE] + g[s \ {CHOOSE x \in s : TRUE}]
    BY <1>3, <1>4 DEF Recurs
  <2> QED
    BY <1>3, <2>1 DEF Recurs
<1>6. PICK f : /\ f = [s \in SUBSET S |-> IF s = {} THEN 0
                            ELSE w[CHOOSE x \in s : TRUE] + f[s \ {CHOOSE x \in s : TRUE}]]
               /\ SumFunctionOnSet(w, S) = f[S]
  BY <1>5 DEF SumFunctionOnSet, FoldFunctionOnSet, MapThenFoldSet
<1>7. f[{}] = 0 /\ \A s \in SUBSET S : s # {} => \E x \in s : f[s] = w[x] + f[s \ {x}]
  <2>1. f[{}] = 0
    BY <1>6
  <2>2. ASSUME NEW s \in SUBSET S, s # {}
        PROVE  \E x \in s : f[s] = w[x] + f[s \ {x}]
    <3>1. (CHOOSE x \in s : TRUE) \in s
      BY <2>2
    <3>2. f[s] = w[CHOOSE x \in s : TRUE] + f[s \ {CHOOSE x \in s : TRUE}]
      BY <1>6, <2>2
    <3> QED
      BY <3>1, <3>2
  <2> QED
    BY <2>1, <2>2
<1> DEFINE T == {s \in SUBSET S : /\ IsFiniteSet(UnitsOf(w, s))
                                  /\ f[s] = Cardinality(UnitsOf(w, s))}
<1>8. {} \in T
  <2>1. UnitsOf(w, {}) = {}
    BY DEF UnitsOf
  <2> QED
    BY <1>7, <2>1, FS_EmptySet
<1>9. ASSUME NEW s \in SUBSET S, NEW x \in s, s \ {x} \in T, f[s] = w[x] + f[s \ {x}]
      PROVE  s \in T
  <2>1. w[x] \in Nat /\ IsFiniteSet(UnitsOf(w, s \ {x}))
        /\ f[s \ {x}] = Cardinality(UnitsOf(w, s \ {x}))
    BY <1>9
  <2>2. Cardinality(UnitsOf(w, s \ {x})) \in Nat
    BY <2>1, FS_CardinalityType
  <2>3. IsFiniteSet(UnitsOf(w, s))
        /\ Cardinality(UnitsOf(w, s)) = Cardinality(UnitsOf(w, s \ {x})) + w[x]
    BY <2>1, UnitsAdd
  <2> QED
    BY <1>9, <2>1, <2>2, <2>3
<1>10. S \in T
  <2>1. \A s \in SUBSET S : (\A x \in s : s \ {x} \in T) => s \in T
    <3> HIDE DEF T
    <3> QED
      BY <1>7, <1>8, <1>9
  <2> HIDE DEF T
  <2> QED
    BY <2>1, SetInduction
<1> QED
  BY <1>6, <1>10

\* So one more element adds its amount to a sum, which is whole itself.
LEMMA SumAdds ==
    ASSUME NEW S, IsFiniteSet(S), NEW x \in S, NEW w, \A y \in S : w[y] \in Nat
    PROVE  /\ SumFunctionOnSet(w, S \ {x}) \in Nat
           /\ SumFunctionOnSet(w, S) = SumFunctionOnSet(w, S \ {x}) + w[x]
<1>1. IsFiniteSet(S \ {x})
  BY FS_RemoveElement
<1>2. /\ IsFiniteSet(UnitsOf(w, S \ {x}))
      /\ SumFunctionOnSet(w, S \ {x}) = Cardinality(UnitsOf(w, S \ {x}))
  BY <1>1, SumCounts
<1>3. SumFunctionOnSet(w, S) = Cardinality(UnitsOf(w, S))
  BY SumCounts
<1> QED
  BY <1>2, <1>3, UnitsAdd, FS_CardinalityType

\* The sum over no element at all.
LEMMA SumNone == \A w : SumFunctionOnSet(w, {}) = 0
<1> SUFFICES ASSUME NEW w PROVE SumFunctionOnSet(w, {}) = 0
  OBVIOUS
<1>1. UnitsOf(w, {}) = {}
  BY DEF UnitsOf
<1>2. IsFiniteSet({}) /\ \A y \in {} : w[y] \in Nat
  BY FS_EmptySet
<1> QED
  BY <1>1, <1>2, SumCounts, FS_EmptySet

-----------------------------------------------------------------------------
(* Init containers *)

Needs == [sidecars : Nat, largest : Nat]

\* What a container adds to the needs of the ones before it.
With(acc, c, a) ==
    [sidecars |-> acc.sidecars + IF c.sidecar THEN c[a] ELSE 0,
     largest |-> Max({acc.largest, acc.sidecars + c[a]})]

\* The larger of two numbers.
LEMMA MaxOfTwo ==
    ASSUME NEW m \in Nat, NEW n \in Nat
    PROVE  Max({m, n}) = IF m >= n THEN m ELSE n
<1>1. CASE m >= n
  BY <1>1, MaxIs
<1>2. CASE ~(m >= n)
  <2>1. {m, n} \in SUBSET Int /\ \A x \in {m, n} : n >= x
    BY <1>2
  <2> QED
    BY <1>2, <2>1, MaxIs
<1> QED
  BY <1>1, <1>2

\* What an init container asks for and what is needed with it are whole amounts.
LEMMA WithType ==
    ASSUME NEW acc \in Needs, NEW c \in Container, NEW a \in {"requests", "limits"}
    PROVE  c[a] \in Nat /\ With(acc, c, a) \in Needs
<1>1. c[a] \in Nat /\ c.sidecar \in BOOLEAN
  BY DEF Container
<1>2. acc.sidecars \in Nat /\ acc.largest \in Nat
  BY DEF Needs
<1>3. Max({acc.largest, acc.sidecars + c[a]}) \in Nat
  BY <1>1, <1>2, MaxOfTwo
<1> QED
  BY <1>1, <1>2, <1>3 DEF With, Needs

\* The fold goes through the init containers from the first to the last.
LEMMA InitNeedsFolds ==
    ASSUME NEW pod \in Pod, NEW a \in {"requests", "limits"}
    PROVE  LET init == pod.initContainers
           IN \E acc \in [0 .. Len(init) -> Needs] :
                 /\ acc[0] = [sidecars |-> 0, largest |-> 0]
                 /\ \A i \in 1 .. Len(init) : acc[i] = With(acc[i - 1], init[i], a)
                 /\ InitNeeds(pod, a) = acc[Len(init)]
<1> DEFINE init == pod.initContainers
           n == Len(init)
           S == DOMAIN init
           base == [sidecars |-> 0, largest |-> 0]
           pick == [s \in SUBSET S |-> Max(s)]
           step == [s \in SUBSET S |-> [v \in Needs |-> With(v, init[pick[s]], a)]]
<1>1. init \in Seq(Container) /\ n \in Nat /\ S = 1 .. n /\ IsFiniteSet(S)
      /\ \A i \in S : init[i] \in Container
  <2>1. init \in Seq(Container)
    BY DEF Pod
  <2> HIDE DEF init
  <2> QED
    BY <2>1, FS_Interval
<1>2. base \in Needs
  BY DEF Needs
<1> HIDE DEF init
<1>3. \A s \in SUBSET S : s # {} => Max(s) \in s
  <2> SUFFICES ASSUME NEW s \in SUBSET S, s # {} PROVE Max(s) \in s
    OBVIOUS
  <2>1. s \in SUBSET Int
    BY <1>1
  <2>2. IsFiniteSet(s)
    BY <1>1, FS_Subset
  <2> QED
    BY <2>1, <2>2, MaxOfFinite
<1>4. Stepwise(S, Needs, pick, step)
  <2>1. ASSUME NEW s \in SUBSET S, NEW v \in Needs, s # {} PROVE step[s][v] \in Needs
    <3>1. init[pick[s]] \in Container
      BY <1>1, <1>3, <2>1
    <3> HIDE DEF pick
    <3> QED
      BY <3>1, WithType
  <2> QED
    BY <1>3, <2>1 DEF Stepwise
<1>5. PICK g : Recurs(g, S, Needs, base, pick, step)
  <2> HIDE DEF base, pick, step, S
  <2> QED
    BY <1>1, <1>2, <1>4, Recursion
<1>6. g \in [SUBSET S -> Needs]
  BY <1>5 DEF Recurs
<1>7. ASSUME NEW s \in SUBSET S
      PROVE  g[s] = IF s = {} THEN base ELSE With(g[s \ {Max(s)}], init[Max(s)], a)
  <2>1. CASE s = {}
    BY <1>5, <2>1 DEF Recurs
  <2>2. CASE s # {}
    <3>1. g[s] = step[s][g[s \ {pick[s]}]]
      BY <1>5, <2>2 DEF Recurs
    <3>2. g[s \ {Max(s)}] \in Needs
      BY <1>6
    <3> QED
      BY <2>2, <3>1, <3>2
  <2> QED
    BY <2>1, <2>2
<1>8. PICK f : /\ f = [s \in SUBSET S |-> IF s = {} THEN base
                            ELSE With(f[s \ {Max(s)}], init[Max(s)], a)]
               /\ InitNeeds(pod, a) = f[S]
  <2>1. g = [s \in SUBSET S |-> IF s = {} THEN base
                                ELSE With(g[s \ {Max(s)}], init[Max(s)], a)]
    BY <1>6, <1>7
  <2> QED
    BY <1>1, <2>1 DEF InitNeeds, FoldLeft, MapThenFoldSet, With, init
<1>9. ASSUME NEW i \in S
      PROVE  f[1 .. i] = With(f[1 .. (i - 1)], init[i], a)
  <2>1. 1 .. i \in SUBSET S /\ 1 .. i # {} /\ i \in 1 .. i
    BY <1>1
  <2>2. Max(1 .. i) = i
    <3>1. 1 .. i \in SUBSET Int /\ \A x \in 1 .. i : i >= x
      BY <1>1
    <3> QED
      BY <2>1, <3>1, MaxIs
  <2>3. (1 .. i) \ {i} = 1 .. (i - 1)
    BY <1>1
  <2>4. f[1 .. i] = With(f[(1 .. i) \ {Max(1 .. i)}], init[Max(1 .. i)], a)
    BY <1>8, <2>1
  <2> QED
    BY <2>2, <2>3, <2>4
<1>10. 1 .. 0 = {} /\ f[{}] = base
  BY <1>8
<1> DEFINE acc == [k \in 0 .. n |-> f[1 .. k]]
           T == {k \in Nat : k <= n => f[1 .. k] \in Needs}
<1> HIDE DEF base
<1>11. T = Nat
  <2>1. 0 \in T
    BY <1>2, <1>10
  <2>2. ASSUME NEW k \in T PROVE k + 1 \in T
    <3> SUFFICES ASSUME k + 1 <= n PROVE f[1 .. (k + 1)] \in Needs
      OBVIOUS
    <3>1. k \in Nat /\ k + 1 \in S /\ (k + 1) - 1 = k
      BY <1>1
    <3>2. f[1 .. k] \in Needs
      BY <1>1, <3>1
    <3>3. f[1 .. (k + 1)] = With(f[1 .. k], init[k + 1], a)
      BY <1>9, <3>1
    <3> QED
      BY <1>1, <3>1, <3>2, <3>3, WithType
  <2> HIDE DEF T
  <2>3. T \in SUBSET Nat
    BY DEF T
  <2> QED
    BY <2>1, <2>2, <2>3, Induction
<1>12. acc \in [0 .. n -> Needs]
  BY <1>1, <1>11
<1>13. acc[0] = base /\ InitNeeds(pod, a) = acc[n]
  BY <1>1, <1>8, <1>10
<1>14. \A i \in 1 .. n : acc[i] = With(acc[i - 1], init[i], a)
  BY <1>1, <1>9
<1> HIDE DEF acc
<1> QED
  BY <1>12, <1>13, <1>14 DEF init, base

\* The containers ask for a whole amount between them.
LEMMA TotalType ==
    ASSUME NEW pod \in Pod, NEW a \in {"requests", "limits"}
    PROVE  SumOfSeq(pod.containers, a) \in Nat
<1> DEFINE C == pod.containers
           w == [i \in DOMAIN C |-> C[i][a]]
<1>1. C \in Seq(Container)
  BY DEF Pod
<1> HIDE DEF C
<1>2. Len(C) \in Nat /\ DOMAIN C = 1 .. Len(C)
  BY <1>1
<1>3. IsFiniteSet(DOMAIN C)
  BY <1>2, FS_Interval
<1>4. \A i \in DOMAIN C : w[i] \in Nat
  <2> SUFFICES ASSUME NEW i \in DOMAIN C PROVE C[i][a] \in Nat
    OBVIOUS
  <2>1. C[i] \in Container
    BY <1>1
  <2> QED
    BY <2>1 DEF Container
<1>5. DOMAIN w = DOMAIN C
  OBVIOUS
<1> HIDE DEF w
<1>6. SumFunctionOnSet(w, DOMAIN C) \in Nat
  BY <1>3, <1>4, SumCounts, FS_CardinalityType
<1> QED
  BY <1>5, <1>6 DEF SumOfSeq, SumFunction, w, C

\* A sidecar is added to the sum of those before it, which is whole.
LEMMA SidecarAdds ==
    ASSUME NEW pod \in Pod, NEW a \in {"requests", "limits"},
           NEW i \in 1 .. Len(pod.initContainers)
    PROVE  SidecarsBefore(pod, a, i + 1)
           = SidecarsBefore(pod, a, i)
             + IF pod.initContainers[i].sidecar THEN pod.initContainers[i][a] ELSE 0
<1> DEFINE init == pod.initContainers
           w == [j \in DOMAIN init |-> init[j][a]]
           S(k) == {j \in 1 .. k - 1 : init[j].sidecar}
<1>1. init \in Seq(Container)
  BY DEF Pod
<1>2. Len(init) \in Nat /\ DOMAIN init = 1 .. Len(init) /\ i \in DOMAIN init
  BY <1>1
<1> HIDE DEF init
<1>3. \A j \in DOMAIN init : init[j] \in Container /\ init[j][a] \in Nat
  <2> SUFFICES ASSUME NEW j \in DOMAIN init PROVE init[j] \in Container /\ init[j][a] \in Nat
    OBVIOUS
  <2>1. init[j] \in Container
    BY <1>1
  <2> QED
    BY <2>1 DEF Container
<1>4. init[i].sidecar \in BOOLEAN /\ w[i] = init[i][a] /\ w[i] \in Nat
  BY <1>2, <1>3 DEF Container
<1>5. \A y \in S(i + 1) : w[y] \in Nat
  BY <1>2, <1>3
<1>6. IsFiniteSet(S(i + 1))
  <2>1. IsFiniteSet(1 .. i) /\ S(i + 1) \in SUBSET (1 .. i)
    BY <1>2, FS_Interval
  <2> HIDE DEF S
  <2> QED
    BY <2>1, FS_Subset
<1>7. CASE init[i].sidecar
  <2>1. i \in S(i + 1) /\ S(i + 1) \ {i} = S(i)
    BY <1>2, <1>7
  <2> HIDE DEF S, w
  <2>2. SumFunctionOnSet(w, S(i + 1)) = SumFunctionOnSet(w, S(i)) + w[i]
    BY <1>5, <1>6, <2>1, SumAdds
  <2> QED
    BY <1>4, <1>7, <2>2 DEF SidecarsBefore, S, w, init
<1>8. CASE ~init[i].sidecar
  <2>1. S(i + 1) = S(i)
    BY <1>2, <1>8
  <2>2. SumFunctionOnSet(w, S(i + 1)) \in Nat
    <3> HIDE DEF S, w
    <3> QED
      BY <1>5, <1>6, SumCounts, FS_CardinalityType
  <2> HIDE DEF S, w
  <2>3. SumFunctionOnSet(w, S(i + 1)) = SumFunctionOnSet(w, S(i)) + 0
    BY <2>1, <2>2
  <2> QED
    BY <1>8, <2>3 DEF SidecarsBefore, S, w, init
<1> QED
  BY <1>7, <1>8 DEF init

\* The aggregation walks the init containers once, and finds what the pod holds at its
\* worst moment.
LEMMA AggregateIsPeak ==
    ASSUME NEW pod \in Pod, NEW a \in {"requests", "limits"}
    PROVE  Aggregate(pod, a) = Peak(pod, a)
<1> DEFINE init == pod.initContainers
           n == Len(init)
           total == SumOfSeq(pod.containers, a)
           Held(i) == HeldAt(pod, a, i)
           Before(i) == SidecarsBefore(pod, a, i)
<1>1. init \in Seq(Container) /\ n \in Nat
  BY DEF Pod
<1>2. \A i \in 1 .. n : init[i] \in Container /\ init[i][a] \in Nat
                         /\ init[i].sidecar \in BOOLEAN
  <2> HIDE DEF init
  <2> SUFFICES ASSUME NEW i \in 1 .. Len(init)
               PROVE  init[i] \in Container /\ init[i][a] \in Nat /\ init[i].sidecar \in BOOLEAN
    BY DEF init
  <2>1. init[i] \in Container
    BY <1>1
  <2> QED
    BY <2>1 DEF Container
<1>3. PICK acc \in [0 .. n -> Needs] :
         /\ acc[0] = [sidecars |-> 0, largest |-> 0]
         /\ \A i \in 1 .. n : acc[i] = With(acc[i - 1], init[i], a)
         /\ InitNeeds(pod, a) = acc[n]
  BY InitNeedsFolds
<1>4. \A i \in 0 .. n : acc[i].sidecars \in Nat /\ acc[i].largest \in Nat
  BY DEF Needs
<1>5. \A i \in 1 .. n :
         /\ acc[i].sidecars = acc[i - 1].sidecars + IF init[i].sidecar THEN init[i][a] ELSE 0
         /\ acc[i].largest = Max({acc[i - 1].largest, acc[i - 1].sidecars + init[i][a]})
  <2>1. \A v, c : /\ With(v, c, a).sidecars = v.sidecars + IF c.sidecar THEN c[a] ELSE 0
                  /\ With(v, c, a).largest = Max({v.largest, v.sidecars + c[a]})
    BY DEF With
  <2> HIDE DEF init, n
  <2> QED
    BY <1>3, <2>1
<1>6. total \in Nat
  BY TotalType
<1>7. Before(1) = 0
  <2>1. {j \in 1 .. 1 - 1 : init[j].sidecar} = {}
    OBVIOUS
  <2> QED
    BY <2>1, SumNone DEF SidecarsBefore
<1>8. \A i \in 1 .. n : Before(i + 1)
                         = Before(i) + IF init[i].sidecar THEN init[i][a] ELSE 0
  BY SidecarAdds
<1>9. /\ \A i \in 1 .. n : Held(i) = Before(i) + init[i][a]
      /\ Held(n + 1) = Before(n + 1) + total
  BY <1>1 DEF HeldAt
<1> HIDE DEF init, n, total, Held, Before
<1> DEFINE Covers(k) == /\ acc[k].sidecars = Before(k + 1)
                        /\ \A i \in 1 .. k : Held(i) \in Nat /\ Held(i) <= acc[k].largest
                        /\ acc[k].largest = 0 \/ \E i \in 1 .. k : acc[k].largest = Held(i)
           T == {k \in Nat : k <= n => Covers(k)}
<1>10. T = Nat
  <2>1. 0 \in T
    BY <1>3, <1>7
  <2>2. ASSUME NEW k \in T PROVE k + 1 \in T
    <3> SUFFICES ASSUME k + 1 <= n PROVE Covers(k + 1)
      OBVIOUS
    <3> DEFINE c == init[k + 1]
    <3>1. k \in Nat /\ k + 1 \in 1 .. n /\ k \in 0 .. n /\ k + 1 \in 0 .. n /\ (k + 1) - 1 = k
      BY <1>1
    <3>2. Covers(k)
      BY <1>1, <3>1
    <3>3. /\ acc[k].sidecars \in Nat /\ acc[k].largest \in Nat /\ c[a] \in Nat
          /\ acc[k].sidecars = Before(k + 1)
      BY <1>2, <1>4, <3>1, <3>2
    <3>4. Held(k + 1) = acc[k].sidecars + c[a]
      BY <1>9, <3>1, <3>3
    <3>5. acc[k + 1].sidecars = Before((k + 1) + 1)
      BY <1>5, <1>8, <3>1, <3>3
    <3>6. acc[k + 1].largest = Max({acc[k].largest, Held(k + 1)})
      BY <1>5, <3>1, <3>4
    <3>7. Held(k + 1) \in Nat
      BY <3>3, <3>4
    <3> HIDE DEF c
    <3>8. acc[k + 1].largest = IF acc[k].largest >= Held(k + 1) THEN acc[k].largest
                               ELSE Held(k + 1)
      BY <3>3, <3>6, <3>7, MaxOfTwo
    <3>9. \A i \in 1 .. (k + 1) : i \in 1 .. k \/ i = k + 1
      BY <3>1
    <3>10. \A i \in 1 .. (k + 1) : Held(i) \in Nat /\ Held(i) <= acc[k + 1].largest
      BY <3>2, <3>3, <3>7, <3>8, <3>9
    <3>11. acc[k + 1].largest = 0 \/ \E i \in 1 .. (k + 1) : acc[k + 1].largest = Held(i)
      BY <3>1, <3>2, <3>8
    <3> QED
      BY <3>5, <3>10, <3>11
  <2>3. T \in SUBSET Nat
    OBVIOUS
  <2> HIDE DEF T
  <2> QED
    BY <2>1, <2>2, <2>3, Induction
<1>11. Covers(n) /\ acc[n].sidecars \in Nat /\ acc[n].largest \in Nat
  BY <1>1, <1>4, <1>10
<1> DEFINE x == total + acc[n].sidecars
           y == acc[n].largest
           m == IF x >= y THEN x ELSE y
           H == {Held(i) : i \in 1 .. n + 1}
<1>12. x \in Nat /\ y \in Nat /\ Held(n + 1) = x
  BY <1>6, <1>9, <1>11
<1>13. Aggregate(pod, a) = m
  BY <1>3, <1>12, MaxOfTwo DEF Aggregate, total
<1>14. \A i \in 1 .. n + 1 : i \in 1 .. n \/ i = n + 1
  BY <1>1
<1>15. H \in SUBSET Int /\ \A h \in H : m >= h
  <2> SUFFICES ASSUME NEW i \in 1 .. n + 1 PROVE Held(i) \in Int /\ m >= Held(i)
    OBVIOUS
  <2>1. CASE i \in 1 .. n
    <3>1. Held(i) \in Nat /\ Held(i) <= y
      BY <1>11, <2>1
    <3> HIDE DEF x, y
    <3> QED
      BY <1>12, <3>1
  <2>2. CASE i = n + 1
    <3> HIDE DEF x, y
    <3> QED
      BY <1>12, <2>2
  <2> QED
    BY <1>14, <2>1, <2>2
<1>16. m \in H
  <2>1. CASE m = x
    <3>1. n + 1 \in 1 .. n + 1
      BY <1>1
    <3> QED
      BY <1>12, <2>1, <3>1
  <2>2. CASE m # x
    <3>1. m = y /\ y # 0
      BY <1>12, <2>2
    <3>2. PICK i \in 1 .. n : y = Held(i)
      BY <1>11, <3>1
    <3>3. i \in 1 .. n + 1
      BY <1>1
    <3> QED
      BY <3>1, <3>2, <3>3
  <2> QED
    BY <2>1, <2>2
<1>17. Peak(pod, a) = Max(H)
  BY DEF Peak, H, Held, n, init
<1> HIDE DEF H, m
<1> QED
  BY <1>13, <1>15, <1>16, <1>17, MaxIs

\* PodEffectiveRequests and PodEffectiveLimits, for pods of any size: a pod is charged
\* the most that it can hold at one moment.
THEOREM PodChargedPeak ==
    \A pod \in Pod : /\ PodEffectiveRequests(pod) = PeakRequests(pod)
                     /\ PodEffectiveLimits(pod) = PeakLimits(pod)
BY AggregateIsPeak DEF PodLevel, PodEffectiveRequests, PodEffectiveLimits, PodHeld, PeakRequests,
                       PeakLimits

-----------------------------------------------------------------------------
(* What a project is charged *)

\* What a pod demands of CPU is its peak.
LEMMA DemandIsPeak ==
    ASSUME NEW o \in Objects, KindOf[o] = "pods", NEW r \in CpuResources \intersect Resources
    PROVE  /\ Demand[o][r] \in 0 .. MaxUnits
           /\ Demand[o][r] = IF r = "limits.cpu" THEN PeakLimits(PodSpec[o])
                             ELSE PeakRequests(PodSpec[o])
<1>1. Demand[o][r] \in 0 .. MaxUnits
  BY QuantityAssumption
<1>2. PodSpec[o] \in Pod /\ Demand[o][r] = PodDemand(PodSpec[o], r)
  BY PodAssumption
<1>3. /\ PodEffectiveRequests(PodSpec[o]) = PeakRequests(PodSpec[o])
      /\ PodEffectiveLimits(PodSpec[o]) = PeakLimits(PodSpec[o])
  BY <1>2, PodChargedPeak
<1> QED
  BY <1>1, <1>2, <1>3 DEF PodDemand, CpuResources

\* The units that a project with a limit on pods holds of CPU are those of its running
\* pods.
LEMMA TotalIsPeak ==
    ASSUME NEW prq, NEW view, NEW r \in CpuResources \intersect Resources,
           {"pods", r} \subseteq DOMAIN prq.hard
    PROVE  ProjectTotal(prq, view)[r] = PeakOf(RunningPods(prq, view), r)
<1> DEFINE R == RunningPods(prq, view)
           w == [o \in R |-> IF r = "limits.cpu" THEN PeakLimits(PodSpec[o])
                             ELSE PeakRequests(PodSpec[o])]
           H == {x \in Objects \X Units : /\ Claims(prq, NamespaceOf[x[1]])
                                          /\ IsAnnotationExists(view[x[1]])
                                          /\ x[2] <= Amount(x[1], view[x[1]].shape, r)}
<1>1. r \in ComputeResources /\ Gate(r) = "pods"
  BY DEF CpuResources, ComputeResources, ComputeRequests, ComputeLimits, Gate
<1>2. ProjectTotal(prq, view)[r] = Cardinality(H)
  BY <1>1 DEF ProjectTotal, Counts
<1>3. R \in SUBSET Objects /\ IsFiniteSet(R)
  <2>1. R \in SUBSET Objects
    BY DEF RunningPods
  <2> HIDE DEF R
  <2> QED
    BY <2>1, FS_Subset, ItemsAssumption
<1>4. ASSUME NEW o \in R PROVE w[o] = Demand[o][r] /\ w[o] \in 0 .. MaxUnits
  BY DemandIsPeak DEF RunningPods
<1>5. MaxUnits \in Nat \ {0}
  BY QuantityAssumption
<1>6. \A x \in R : w[x] \in Nat
  BY <1>4, <1>5
<1>7. SumFunctionOnSet(w, R) = Cardinality(UnitsOf(w, R))
  <2> HIDE DEF R, w
  <2> QED
    BY <1>3, <1>6, SumCounts
<1>8. ASSUME NEW o \in Objects, NEW u \in Nat
      PROVE  <<o, u>> \in H <=> <<o, u>> \in UnitsOf(w, R)
  <2>1. <<o, u>> \in H <=> /\ u \in 1 .. MaxUnits
                           /\ Claims(prq, NamespaceOf[o]) /\ IsAnnotationExists(view[o])
                           /\ u <= Amount(o, view[o].shape, r)
    BY DEF Units
  <2>2. <<o, u>> \in UnitsOf(w, R) <=> o \in R /\ u \in 1 .. w[o]
    <3> HIDE DEF R, w
    <3> QED
      BY DEF UnitsOf
  <2>3. CASE o \in R
    <3>1. /\ KindOf[o] = "pods" /\ ~isPodTerminated(view[o].shape)
          /\ Claims(prq, NamespaceOf[o]) /\ IsAnnotationExists(view[o])
      BY <2>3 DEF RunningPods
    <3>2. Amount(o, view[o].shape, r) = Demand[o][r]
      BY <1>1, <3>1 DEF Amount
    <3>3. w[o] = Demand[o][r] /\ w[o] \in 0 .. MaxUnits
      BY <1>4, <2>3
    <3> HIDE DEF H, R, w
    <3> QED
      BY <1>5, <2>1, <2>2, <2>3, <3>1, <3>2, <3>3
  <2>4. CASE o \notin R
    <3>1. Claims(prq, NamespaceOf[o]) /\ IsAnnotationExists(view[o])
            => KindOf[o] # "pods" \/ isPodTerminated(view[o].shape)
      BY <2>4 DEF RunningPods
    <3>2. Claims(prq, NamespaceOf[o]) /\ IsAnnotationExists(view[o])
            => Amount(o, view[o].shape, r) = 0
      BY <1>1, <3>1 DEF Amount
    <3> HIDE DEF H, R, w
    <3> QED
      BY <1>5, <2>1, <2>2, <2>4, <3>2
  <2> QED
    BY <2>3, <2>4
<1>9. H = UnitsOf(w, R)
  <2>1. H \subseteq Objects \X Nat
    BY <1>5 DEF Units
  <2>2. UnitsOf(w, R) \subseteq Objects \X Nat
    <3> HIDE DEF R, w
    <3> QED
      BY <1>3 DEF UnitsOf
  <2> HIDE DEF H, R, w
  <2> QED
    BY <1>8, <2>1, <2>2
<1> HIDE DEF H
<1> QED
  BY <1>2, <1>7, <1>9 DEF PeakOf

\* The calculation of Reconcile and util.go together, where names agree and no list
\* names a namespace twice: what a settled project shows of CPU is what its running pods
\* can hold at most, each at its worst moment.
THEOREM SettledPeak == NoRepeats /\ Spec /\ []NamesAgree => []SettledCpuIsPeak
<1>1. SettledUsageIsProjectTotal => SettledCpuIsPeak
  BY TotalIsPeak DEF SettledUsageIsProjectTotal, SettledCpuIsPeak
<1> QED
  BY <1>1, SettledTotal, PTL

================================================================================
