----------------------------- MODULE SetLemmas -----------------------------
(***************************************************************************)
(* Facts about sets of numbers and sums over finite sets that the proofs   *)
(* of several components need.                                             *)
(***************************************************************************)
EXTENDS Integers, FiniteSets, Functions, FiniteSetTheorems, WellFoundedInduction, TLAPS

\* Induction over a finite set: among its subsets that are bad, if there are
\* any, one has no bad subset but itself.
LEMMA MinimalSubset ==
    ASSUME NEW S, IsFiniteSet(S), NEW Bad \in SUBSET (SUBSET S), Bad # {}
    PROVE  \E s \in Bad : \A t \in Bad : t \subseteq s => t = s
<1>1. IsWellFoundedOn(StrictSubsetOrdering(S), FiniteSubsetsOf(S)) /\ FiniteSubsetsOf(S) = SUBSET S
  BY FS_StrictSubsetOrderingWellFounded, FS_FiniteSubsetsOfFinite
<1>2. PICK s \in Bad : \A t \in Bad : ~ (<<t, s>> \in StrictSubsetOrdering(S))
  BY <1>1, WFMin
<1>3. ASSUME NEW t \in Bad, t \subseteq s PROVE t = s
  <2>1. SUFFICES ASSUME t # s PROVE FALSE
    OBVIOUS
  <2>2. <<t, s>> \in StrictSubsetOrdering(S)
    BY <1>3, <2>1 DEF StrictSubsetOrdering
  <2>3. QED
    BY <1>2, <2>2
<1>4. QED
  BY <1>3

\* A set of numbers that is not empty has a smallest one.
LEMMA SmallestNumber ==
    ASSUME NEW T \in SUBSET Nat, T # {}
    PROVE  \E s \in T : \A t \in T : s <= t
<1>1. IsWellFoundedOn({ss \in Nat \X Nat : ss[1] < ss[2]}, Nat)
  BY NatLessThanWellFounded DEF OpToRel
<1>2. PICK s \in T : \A t \in T : ~ (<<t, s>> \in {ss \in Nat \X Nat : ss[1] < ss[2]})
  BY <1>1, WFMin
<1>3. ASSUME NEW t \in T PROVE s <= t
  <2>1. s \in Nat /\ t \in Nat
    OBVIOUS
  <2>2. ~ (t < s)
    BY <1>2, <2>1
  <2>3. QED
    BY <2>1, <2>2
<1>4. QED
  BY <1>3

\* If it is bounded, it has a largest one.
LEMMA LargestNumber ==
    ASSUME NEW T \in SUBSET Nat, T # {}, NEW b \in Nat, \A t \in T : t <= b
    PROVE  \E s \in T : \A t \in T : t <= s
<1> DEFINE Bounds == {n \in Nat : \A t \in T : t <= n}
<1>1. PICK n \in Bounds : \A m \in Bounds : n <= m
  <2>1. Bounds \in SUBSET Nat /\ b \in Bounds
    OBVIOUS
  <2>2. QED
    BY <2>1, SmallestNumber
<1>2. n \in T
  <2>1. SUFFICES ASSUME n \notin T PROVE FALSE
    OBVIOUS
  <2>2. n \in Nat /\ \A t \in T : t <= n /\ t # n
    BY <2>1
  <2>3. n > 0
    <3>1. PICK t \in T : TRUE
      OBVIOUS
    <3>2. t \in Nat /\ t <= n /\ t # n
      BY <2>2
    <3>3. QED
      BY <2>2, <3>2
  <2>4. n - 1 \in Bounds
    BY <2>2, <2>3
  <2>5. QED
    BY <1>1, <2>2, <2>4
<1>3. QED
  BY <1>2

\* The values of a function on a finite set.
LEMMA FiniteImage ==
    ASSUME NEW S, IsFiniteSet(S), NEW f
    PROVE  IsFiniteSet({f[x] : x \in S})
<1> DEFINE T == {f[x] : x \in S}
           g == [x \in S |-> f[x]]
<1>1. g \in Surjection(S, T)
  BY DEF Surjection
<1> HIDE DEF T, g
<1>2. IsFiniteSet(T)
  BY <1>1, FS_Surjection
<1>3. QED
  BY <1>2 DEF T

-----------------------------------------------------------------------------
(* SumFunctionOnSet adds up a function over a set, taking one element after *)
(* the other.                                                               *)

Next1(s) == CHOOSE x \in s : TRUE
Rest(s) == s \ {Next1(s)}

\* h is the recursive function of the definition.
IsSum(h, f, S) ==
    h = [s \in SUBSET S |-> IF s = {} THEN 0 ELSE f[Next1(s)] + h[Rest(s)]]

LEMMA NextIsElement == ASSUME NEW s, s # {} PROVE Next1(s) \in s /\ Rest(s) \subseteq s /\ Rest(s) # s
  BY DEF Next1, Rest

LEMMA EmptySum == ASSUME NEW f, NEW S, NEW h, IsSum(h, f, S) PROVE h[{}] = 0
<1>1. {} \in SUBSET S
  OBVIOUS
<1> DEFINE body(s) == IF s = {} THEN 0 ELSE f[Next1(s)] + h[Rest(s)]
<1>2. h = [s \in SUBSET S |-> body(s)]
  BY DEF IsSum
<1>3. body({}) = 0
  OBVIOUS
<1> HIDE DEF body
<1>4. QED
  BY <1>1, <1>2, <1>3

LEMMA SumDefinition ==
    ASSUME NEW f, NEW S
    PROVE  SumFunctionOnSet(f, S) = (CHOOSE h : IsSum(h, f, S))[S]
  BY DEF SumFunctionOnSet, FoldFunctionOnSet, MapThenFoldSet, IsSum, Next1, Rest

LEMMA SumUnique ==
    ASSUME NEW f, NEW S, NEW T, NEW g, NEW h, IsSum(g, f, S), IsSum(h, f, T),
           NEW s, s \subseteq S, s \subseteq T, IsFiniteSet(s)
    PROVE  g[s] = h[s]
<1> DEFINE Bad == {t \in SUBSET s : g[t] # h[t]}
<1>1. SUFFICES ASSUME Bad # {} PROVE FALSE
  OBVIOUS
<1>2. PICK t \in Bad : \A u \in Bad : u \subseteq t => u = t
  <2>1. Bad \in SUBSET (SUBSET s)
    OBVIOUS
  <2> HIDE DEF Bad
  <2>2. QED
    BY <1>1, <2>1, MinimalSubset
<1>3. CASE t = {}
  BY <1>3, EmptySum
<1>4. CASE t # {}
  <2>1. Rest(t) \subseteq t /\ Rest(t) # t
    BY <1>4, NextIsElement
  <2>2. g[Rest(t)] = h[Rest(t)]
    BY <1>2, <2>1
  <2>3. t \in SUBSET S /\ t \in SUBSET T
    OBVIOUS
  <2>4. g[t] = f[Next1(t)] + g[Rest(t)] /\ h[t] = f[Next1(t)] + h[Rest(t)]
    BY <1>4, <2>3 DEF IsSum
  <2>5. QED
    BY <2>2, <2>4
<1>5. QED
  BY <1>3, <1>4

LEMMA SumExists ==
    ASSUME NEW f, NEW S, IsFiniteSet(S)
    PROVE  \E h : IsSum(h, f, S)
<1> DEFINE Bad == {s \in SUBSET S : ~ \E h : IsSum(h, f, s)}
<1>1. SUFFICES ASSUME Bad # {} PROVE FALSE
  OBVIOUS
<1>2. PICK s \in Bad : \A t \in Bad : t \subseteq s => t = s
  <2>1. Bad \in SUBSET (SUBSET S)
    OBVIOUS
  <2> HIDE DEF Bad
  <2>2. QED
    BY <1>1, <2>1, MinimalSubset
<1> DEFINE H == [t \in SUBSET s |-> IF t = {} THEN 0 ELSE f[Next1(t)] + SumFunctionOnSet(f, Rest(t))]
<1>3. ASSUME NEW t \in SUBSET s, t # s PROVE H[t] = SumFunctionOnSet(f, t)
  <2>1. \E h : IsSum(h, f, t)
    BY <1>2, <1>3
  <2>2. PICK h : IsSum(h, f, t) /\ SumFunctionOnSet(f, t) = h[t]
    BY <2>1, SumDefinition
  <2>3. CASE t = {}
    BY <2>2, <2>3, EmptySum
  <2>4. CASE t # {}
    <3>1. Rest(t) \subseteq t /\ Rest(t) # s
      BY <1>3, <2>4, NextIsElement
    <3>2. \E g : IsSum(g, f, Rest(t))
      BY <1>2, <3>1
    <3>3. PICK g : IsSum(g, f, Rest(t)) /\ SumFunctionOnSet(f, Rest(t)) = g[Rest(t)]
      BY <3>2, SumDefinition
    <3>4. IsFiniteSet(Rest(t))
      BY <3>1, FS_Subset
    <3>5. g[Rest(t)] = h[Rest(t)]
      BY <2>2, <3>1, <3>3, <3>4, SumUnique
    <3>6. h[t] = f[Next1(t)] + h[Rest(t)]
      BY <2>2, <2>4 DEF IsSum
    <3>7. QED
      BY <2>2, <2>4, <3>3, <3>5, <3>6
  <2>5. QED
    BY <2>3, <2>4
<1>4. IsSum(H, f, s)
  <2>1. ASSUME NEW t \in SUBSET s, t # {} PROVE H[Rest(t)] = SumFunctionOnSet(f, Rest(t))
    <3>1. Rest(t) \in SUBSET s /\ Rest(t) # s
      BY <2>1, NextIsElement
    <3> HIDE DEF H
    <3>2. QED
      BY <1>3, <3>1
  <2>2. ASSUME NEW t \in SUBSET s, t # {} PROVE H[t] = f[Next1(t)] + H[Rest(t)]
    <3>1. H[t] = f[Next1(t)] + SumFunctionOnSet(f, Rest(t))
      BY <2>2
    <3>2. QED
      BY <2>1, <2>2, <3>1
  <2>3. \A t \in SUBSET s : H[t] = IF t = {} THEN 0 ELSE f[Next1(t)] + H[Rest(t)]
    BY <2>2
  <2>4. H = [t \in SUBSET s |-> H[t]]
    OBVIOUS
  <2> HIDE DEF H
  <2>5. QED
    BY <2>3, <2>4 DEF IsSum
<1>5. QED
  BY <1>2, <1>4

\* One step of the sum, and its end.
LEMMA SumNext ==
    ASSUME NEW f, NEW S, IsFiniteSet(S)
    PROVE  SumFunctionOnSet(f, S) = IF S = {} THEN 0
                                    ELSE f[Next1(S)] + SumFunctionOnSet(f, Rest(S))
<1>1. PICK h : IsSum(h, f, S) /\ SumFunctionOnSet(f, S) = h[S]
  BY SumExists, SumDefinition
<1>2. CASE S = {}
  BY <1>1, <1>2, EmptySum
<1>3. CASE S # {}
  <2>1. Rest(S) \subseteq S /\ IsFiniteSet(Rest(S))
    BY <1>3, NextIsElement, FS_Subset
  <2>2. PICK g : IsSum(g, f, Rest(S)) /\ SumFunctionOnSet(f, Rest(S)) = g[Rest(S)]
    BY <2>1, SumExists, SumDefinition
  <2>3. g[Rest(S)] = h[Rest(S)]
    BY <1>1, <2>1, <2>2, SumUnique
  <2>4. h[S] = f[Next1(S)] + h[Rest(S)]
    BY <1>1, <1>3 DEF IsSum
  <2>5. QED
    BY <1>1, <1>3, <2>2, <2>3, <2>4
<1>4. QED
  BY <1>2, <1>3

LEMMA SumOfNothing == ASSUME NEW f PROVE SumFunctionOnSet(f, {}) = 0
  BY SumNext, FS_EmptySet

\* Sums of natural numbers are natural numbers.
LEMMA SumType ==
    ASSUME NEW S, IsFiniteSet(S), NEW f, \A x \in S : f[x] \in Nat
    PROVE  SumFunctionOnSet(f, S) \in Nat
<1> DEFINE Bad == {s \in SUBSET S : SumFunctionOnSet(f, s) \notin Nat}
<1>1. SUFFICES ASSUME Bad # {} PROVE FALSE
  OBVIOUS
<1>2. PICK s \in Bad : \A t \in Bad : t \subseteq s => t = s
  <2>1. Bad \in SUBSET (SUBSET S)
    OBVIOUS
  <2> HIDE DEF Bad
  <2>2. QED
    BY <1>1, <2>1, MinimalSubset
<1>3. s # {}
  <2>1. SumFunctionOnSet(f, {}) = 0 /\ SumFunctionOnSet(f, s) \notin Nat
    BY SumOfNothing
  <2>2. QED
    BY <2>1
<1>4. Next1(s) \in s /\ Rest(s) \subseteq s /\ Rest(s) # s /\ IsFiniteSet(s)
  BY <1>3, NextIsElement, FS_Subset
<1>5. SumFunctionOnSet(f, Rest(s)) \in Nat
  BY <1>2, <1>4
<1>6. SumFunctionOnSet(f, s) = f[Next1(s)] + SumFunctionOnSet(f, Rest(s))
  BY <1>3, <1>4, SumNext
<1>7. QED
  BY <1>2, <1>4, <1>5, <1>6

\* Any element may be taken first.
LEMMA SumRemove ==
    ASSUME NEW S, IsFiniteSet(S), NEW f, \A x \in S : f[x] \in Nat, NEW x \in S
    PROVE  SumFunctionOnSet(f, S) = f[x] + SumFunctionOnSet(f, S \ {x})
<1> DEFINE Takes(s, y) == SumFunctionOnSet(f, s) = f[y] + SumFunctionOnSet(f, s \ {y})
           Bad == {s \in SUBSET S : \E y \in s : ~ Takes(s, y)}
<1>1. SUFFICES ASSUME Bad # {} PROVE FALSE
  OBVIOUS
<1>2. PICK s \in Bad : \A t \in Bad : t \subseteq s => t = s
  <2>1. Bad \in SUBSET (SUBSET S)
    OBVIOUS
  <2> HIDE DEF Bad
  <2>2. QED
    BY <1>1, <2>1, MinimalSubset
<1>3. PICK y \in s : ~ Takes(s, y)
  BY <1>2
<1>4. ASSUME NEW t, t \subseteq s, t # s, NEW z \in t PROVE Takes(t, z)
  BY <1>2, <1>4
<1> HIDE DEF Bad
<1> DEFINE c == Next1(s)
<1>5. c \in s /\ s \ {c} = Rest(s) /\ IsFiniteSet(s) /\ s \subseteq S
  BY <1>2, <1>3, NextIsElement, FS_Subset DEF Rest, Bad
<1>6. Takes(s, c)
  BY <1>3, <1>5, SumNext
<1> HIDE DEF c
<1>7. y # c
  BY <1>3, <1>6
<1>8. Takes(s \ {c}, y)
  BY <1>4, <1>5, <1>7
<1>9. Takes(s \ {y}, c)
  BY <1>4, <1>3, <1>5, <1>7
<1>10. (s \ {c}) \ {y} = (s \ {y}) \ {c}
  OBVIOUS
<1>11. SumFunctionOnSet(f, (s \ {c}) \ {y}) \in Nat
  <2>1. (s \ {c}) \ {y} \subseteq S /\ IsFiniteSet((s \ {c}) \ {y})
    BY <1>5, FS_Subset
  <2>2. QED
    BY <2>1, SumType
<1>12. f[c] \in Nat /\ f[y] \in Nat
  BY <1>3, <1>5
<1>13. QED
  BY <1>3, <1>6, <1>8, <1>9, <1>10, <1>11, <1>12

\* The sum depends on the values only.
LEMMA SumAgree ==
    ASSUME NEW S, IsFiniteSet(S), NEW f, NEW g, \A x \in S : f[x] = g[x] /\ f[x] \in Nat
    PROVE  SumFunctionOnSet(f, S) = SumFunctionOnSet(g, S)
<1> DEFINE Bad == {s \in SUBSET S : SumFunctionOnSet(f, s) # SumFunctionOnSet(g, s)}
<1>1. SUFFICES ASSUME Bad # {} PROVE FALSE
  OBVIOUS
<1>2. PICK s \in Bad : \A t \in Bad : t \subseteq s => t = s
  <2>1. Bad \in SUBSET (SUBSET S)
    OBVIOUS
  <2> HIDE DEF Bad
  <2>2. QED
    BY <1>1, <2>1, MinimalSubset
<1>3. s \in SUBSET S /\ IsFiniteSet(s)
  BY FS_Subset
<1>4. s # {}
  BY <1>2, SumOfNothing
<1>5. Next1(s) \in s /\ Rest(s) \subseteq s /\ Rest(s) # s
  BY <1>4, NextIsElement
<1>6. SumFunctionOnSet(f, Rest(s)) = SumFunctionOnSet(g, Rest(s))
  BY <1>2, <1>5
<1>7. /\ SumFunctionOnSet(f, s) = f[Next1(s)] + SumFunctionOnSet(f, Rest(s))
      /\ SumFunctionOnSet(g, s) = g[Next1(s)] + SumFunctionOnSet(g, Rest(s))
  BY <1>3, <1>4, SumNext
<1>8. QED
  BY <1>2, <1>3, <1>5, <1>6, <1>7

-----------------------------------------------------------------------------
(* Sums that count: f[x] elements are counted for x, those of g[x].         *)

LEMMA UnionCardinality ==
    ASSUME NEW S, NEW T, IsFiniteSet(S), IsFiniteSet(T)
    PROVE  /\ IsFiniteSet(S \cup T)
           /\ Cardinality(S \cup T) \in Nat
           /\ Cardinality(S) \in Nat /\ Cardinality(T) \in Nat
           /\ Cardinality(S \cup T) <= Cardinality(S) + Cardinality(T)
           /\ S \cap T = {} => Cardinality(S \cup T) = Cardinality(S) + Cardinality(T)
<1>1. IsFiniteSet(S \cup T) /\ Cardinality(S \cup T) = Cardinality(S) + Cardinality(T) - Cardinality(S \cap T)
  BY FS_Union
<1>2. IsFiniteSet(S \cap T)
  BY FS_Intersection
<1>3. /\ Cardinality(S) \in Nat /\ Cardinality(T) \in Nat
      /\ Cardinality(S \cup T) \in Nat /\ Cardinality(S \cap T) \in Nat
  BY <1>1, <1>2, FS_CardinalityType
<1>4. S \cap T = {} => Cardinality(S \cap T) = 0
  BY FS_EmptySet
<1>5. QED
  BY <1>1, <1>3, <1>4

\* If each x counts for all that it covers, the sum counts all that is covered.
LEMMA SumCovers ==
    ASSUME NEW X, IsFiniteSet(X), NEW f, NEW g, NEW D, IsFiniteSet(D),
           \A x \in X : f[x] \in Nat /\ g[x] \subseteq D /\ f[x] >= Cardinality(g[x]),
           \A e \in D : \E x \in X : e \in g[x]
    PROVE  SumFunctionOnSet(f, X) >= Cardinality(D)
<1> DEFINE Covered(s) == UNION {g[x] : x \in s}
           Holds(s) == SumFunctionOnSet(f, s) >= Cardinality(Covered(s))
           Bad == {s \in SUBSET X : ~ Holds(s)}
<1>1. ASSUME NEW s \in SUBSET X PROVE Covered(s) \subseteq D /\ IsFiniteSet(Covered(s))
  <2>1. Covered(s) \subseteq D
    OBVIOUS
  <2>2. QED
    BY <2>1, FS_Subset
<1>2. Bad = {}
  <2>1. SUFFICES ASSUME Bad # {} PROVE FALSE
    OBVIOUS
  <2>2. PICK s \in Bad : \A t \in Bad : t \subseteq s => t = s
    <3>1. Bad \in SUBSET (SUBSET X)
      OBVIOUS
    <3> HIDE DEF Bad
    <3>2. QED
      BY <2>1, <3>1, MinimalSubset
  <2>3. s # {}
    <3>1. SUFFICES ASSUME s = {} PROVE Holds(s)
      OBVIOUS
    <3>2. Covered(s) = {}
      BY <3>1
    <3> HIDE DEF Covered
    <3>3. SumFunctionOnSet(f, s) = 0
      BY <3>1, SumOfNothing
    <3>4. Cardinality(Covered(s)) = 0
      BY <3>2, FS_EmptySet
    <3>5. QED
      BY <3>3, <3>4
  <2>4. PICK x \in s : TRUE
    BY <2>3
  <2> DEFINE t == s \ {x}
  <2>5. t \in SUBSET X /\ x \in X /\ IsFiniteSet(s) /\ IsFiniteSet(t) /\ Holds(t)
    <3>1. t \in SUBSET X /\ t # s /\ t \subseteq s /\ x \in X
      BY <2>4
    <3>2. IsFiniteSet(s) /\ IsFiniteSet(t)
      BY <3>1, FS_Subset
    <3>3. t \notin Bad
      BY <2>2, <3>1
    <3>4. QED
      BY <3>1, <3>2, <3>3
  <2>6. SumFunctionOnSet(f, s) = f[x] + SumFunctionOnSet(f, t) /\ SumFunctionOnSet(f, t) \in Nat
    <3>1. \A y \in s : f[y] \in Nat
      OBVIOUS
    <3>2. QED
      BY <2>4, <2>5, <3>1, SumRemove, SumType
  <2>7. Covered(s) = g[x] \cup Covered(t)
    BY <2>4
  <2>8. IsFiniteSet(g[x]) /\ f[x] \in Nat /\ f[x] >= Cardinality(g[x])
    BY <2>5, FS_Subset
  <2>9. IsFiniteSet(Covered(t))
    BY <1>1, <2>5
  <2> HIDE DEF Covered, t
  <2>10. Holds(s)
    <3>1. /\ Cardinality(Covered(s)) <= Cardinality(g[x]) + Cardinality(Covered(t))
          /\ Cardinality(Covered(s)) \in Nat /\ Cardinality(g[x]) \in Nat
          /\ Cardinality(Covered(t)) \in Nat
      BY <2>7, <2>8, <2>9, UnionCardinality
    <3>2. QED
      BY <2>5, <2>6, <2>8, <3>1
  <2>11. QED
    BY <2>10
<1>3. Covered(X) = D
  OBVIOUS
<1>4. QED
  <2>1. Holds(X)
    BY <1>2
  <2>2. QED
    BY <1>3, <2>1

\* If each x counts no more than what is its own, the sum counts at most all.
LEMMA SumOfParts ==
    ASSUME NEW X, IsFiniteSet(X), NEW f, NEW g, NEW D, IsFiniteSet(D),
           \A x \in X : f[x] \in Nat /\ g[x] \subseteq D /\ f[x] <= Cardinality(g[x]),
           \A x, y \in X : x # y => g[x] \cap g[y] = {}
    PROVE  SumFunctionOnSet(f, X) <= Cardinality(D)
<1> DEFINE Covered(s) == UNION {g[x] : x \in s}
           Holds(s) == SumFunctionOnSet(f, s) <= Cardinality(Covered(s))
           Bad == {s \in SUBSET X : ~ Holds(s)}
<1>1. ASSUME NEW s \in SUBSET X PROVE Covered(s) \subseteq D /\ IsFiniteSet(Covered(s))
  <2>1. Covered(s) \subseteq D
    OBVIOUS
  <2>2. QED
    BY <2>1, FS_Subset
<1>2. Bad = {}
  <2>1. SUFFICES ASSUME Bad # {} PROVE FALSE
    OBVIOUS
  <2>2. PICK s \in Bad : \A t \in Bad : t \subseteq s => t = s
    <3>1. Bad \in SUBSET (SUBSET X)
      OBVIOUS
    <3> HIDE DEF Bad
    <3>2. QED
      BY <2>1, <3>1, MinimalSubset
  <2>3. s # {}
    <3>1. SUFFICES ASSUME s = {} PROVE Holds(s)
      OBVIOUS
    <3>2. Covered(s) = {}
      BY <3>1
    <3> HIDE DEF Covered
    <3>3. SumFunctionOnSet(f, s) = 0
      BY <3>1, SumOfNothing
    <3>4. Cardinality(Covered(s)) = 0
      BY <3>2, FS_EmptySet
    <3>5. QED
      BY <3>3, <3>4
  <2>4. PICK x \in s : TRUE
    BY <2>3
  <2> DEFINE t == s \ {x}
  <2>5. t \in SUBSET X /\ x \in X /\ IsFiniteSet(s) /\ IsFiniteSet(t) /\ Holds(t)
    <3>1. t \in SUBSET X /\ t # s /\ t \subseteq s /\ x \in X
      BY <2>4
    <3>2. IsFiniteSet(s) /\ IsFiniteSet(t)
      BY <3>1, FS_Subset
    <3>3. t \notin Bad
      BY <2>2, <3>1
    <3>4. QED
      BY <3>1, <3>2, <3>3
  <2>6. SumFunctionOnSet(f, s) = f[x] + SumFunctionOnSet(f, t) /\ SumFunctionOnSet(f, t) \in Nat
    <3>1. \A y \in s : f[y] \in Nat
      OBVIOUS
    <3>2. QED
      BY <2>4, <2>5, <3>1, SumRemove, SumType
  <2>7. Covered(s) = g[x] \cup Covered(t)
    BY <2>4
  <2>8. g[x] \cap Covered(t) = {}
    BY <2>4, <2>5
  <2>9. IsFiniteSet(g[x]) /\ f[x] \in Nat /\ f[x] <= Cardinality(g[x])
    BY <2>5, FS_Subset
  <2>10. IsFiniteSet(Covered(t))
    BY <1>1, <2>5
  <2> HIDE DEF Covered, t
  <2>11. Holds(s)
    <3>1. /\ Cardinality(Covered(s)) = Cardinality(g[x]) + Cardinality(Covered(t))
          /\ Cardinality(Covered(s)) \in Nat /\ Cardinality(g[x]) \in Nat
          /\ Cardinality(Covered(t)) \in Nat
      BY <2>7, <2>8, <2>9, <2>10, UnionCardinality
    <3>2. QED
      BY <2>5, <2>6, <2>9, <3>1
  <2>12. QED
    BY <2>11
<1>3. Cardinality(Covered(X)) <= Cardinality(D)
  BY <1>1, FS_Subset
<1>4. QED
  <2>1. Holds(X)
    BY <1>2
  <2>2. SumFunctionOnSet(f, X) \in Nat /\ Cardinality(Covered(X)) \in Nat /\ Cardinality(D) \in Nat
    BY <1>1, SumType, FS_CardinalityType
  <2> HIDE DEF Covered
  <2>3. QED
    BY <1>3, <2>1, <2>2
=============================================================================
