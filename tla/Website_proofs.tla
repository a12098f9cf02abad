--------------------------- MODULE Website_proofs ---------------------------
(***************************************************************************)
(* Proofs about Website, for every set of payloads, time spans, groups,    *)
(* clock and limit: types, the health check, and that the numbers of a     *)
(* page agree with each other and with the range that the page is of.      *)
(***************************************************************************)
EXTENDS Website, SetLemmas, SequenceTheorems, TLAPS

-----------------------------------------------------------------------------
(* Consolidation goes through the builders in an order, from left to right. *)

\* The builder taken last, and what is left before it.
LastOf(s) == Max(s)
Before(s) == s \ {LastOf(s)}

\* h is the recursive function of the fold.
IsFold(h, e, g, o, S) ==
    h = [s \in SUBSET S |->
            IF s = {} THEN Empty
            ELSE ConsolidateEntry(h[Before(s)], o[LastOf(s)], e[o[LastOf(s)]], g[o[LastOf(s)]])]

Fold(e, g, o, S) == (CHOOSE h : IsFold(h, e, g, o, S))[S]

LEMMA FoldDefinition == ASSUME NEW e, NEW g, NEW o PROVE Consolidated(e, g, o) = Fold(e, g, o, DOMAIN o)
  BY DEF Consolidated, FoldLeft, MapThenFoldSet, Fold, IsFold, LastOf, Before

\* A finite set of positions in an order.
Positions(s) == IsFiniteSet(s) /\ s \subseteq Nat

LEMMA SubsetOfPositions == ASSUME NEW s, Positions(s), NEW t \in SUBSET s PROVE Positions(t)
  BY FS_Subset DEF Positions

\* They have a last one.
LEMMA LastIsGreatest ==
    ASSUME NEW s, Positions(s), s # {}
    PROVE  \E m \in s : \A x \in s : m >= x
<1> DEFINE HasLast(t) == \E m \in t : \A x \in t : m >= x
           Bad == {t \in SUBSET s : t # {} /\ ~ HasLast(t)}
<1>1. HasLast(s)
  <2>1. SUFFICES ASSUME Bad # {} PROVE FALSE
    OBVIOUS
  <2>2. PICK t \in Bad : \A u \in Bad : u \subseteq t => u = t
    <3>1. Bad \in SUBSET (SUBSET s) /\ IsFiniteSet(s)
      BY DEF Positions
    <3> HIDE DEF Bad
    <3>2. QED
      BY <2>1, <3>1, MinimalSubset
  <2>3. PICK y \in t : TRUE
    OBVIOUS
  <2>4. \A x \in t : x \in Nat
    BY DEF Positions
  <2>5. CASE t \ {y} = {}
    <3>1. \A x \in t : y >= x
      BY <2>3, <2>4, <2>5
    <3>2. QED
      BY <2>3, <3>1
  <2>6. CASE t \ {y} # {}
    <3>1. PICK m \in t \ {y} : \A x \in t \ {y} : m >= x
      <4>1. t \ {y} \in SUBSET s /\ t \ {y} # t
        BY <2>3
      <4>2. QED
        BY <2>2, <2>6, <4>1
    <3>2. CASE m >= y
      BY <3>1, <3>2
    <3>3. CASE ~ (m >= y)
      <4>1. \A x \in t : y >= x
        <5>1. TAKE x \in t
        <5>2. x \in Nat /\ m \in Nat /\ y \in Nat /\ (x = y \/ m >= x)
          BY <2>3, <2>4, <3>1
        <5>3. QED
          BY <3>3, <5>2
      <4>2. QED
        BY <2>3, <4>1
    <3>4. QED
      BY <3>2, <3>3
  <2>7. QED
    BY <2>5, <2>6
<1>2. QED
  BY <1>1

LEMMA LastIsElement ==
    ASSUME NEW s, Positions(s), s # {}
    PROVE  LastOf(s) \in s /\ Before(s) \subseteq s /\ Before(s) # s
<1>1. LastOf(s) \in s
  BY LastIsGreatest DEF LastOf, Max
<1>2. QED
  BY <1>1 DEF Before

LEMMA EmptyFold ==
    ASSUME NEW e, NEW g, NEW o, NEW S, NEW h, IsFold(h, e, g, o, S)
    PROVE  h[{}] = Empty
<1> DEFINE body(s) ==
        IF s = {} THEN Empty
        ELSE ConsolidateEntry(h[Before(s)], o[LastOf(s)], e[o[LastOf(s)]], g[o[LastOf(s)]])
<1>1. h = [s \in SUBSET S |-> body(s)]
  BY DEF IsFold
<1>2. {} \in SUBSET S /\ body({}) = Empty
  OBVIOUS
<1> HIDE DEF body
<1>3. QED
  BY <1>1, <1>2

LEMMA FoldUnique ==
    ASSUME NEW e, NEW g, NEW o, NEW S, NEW T, NEW a, NEW b, IsFold(a, e, g, o, S), IsFold(b, e, g, o, T),
           NEW s, s \subseteq S, s \subseteq T, Positions(s)
    PROVE  a[s] = b[s]
<1> DEFINE Bad == {t \in SUBSET s : a[t] # b[t]}
<1>1. SUFFICES ASSUME Bad # {} PROVE FALSE
  OBVIOUS
<1>2. PICK t \in Bad : \A u \in Bad : u \subseteq t => u = t
  <2>1. Bad \in SUBSET (SUBSET s) /\ IsFiniteSet(s)
    BY DEF Positions
  <2> HIDE DEF Bad
  <2>2. QED
    BY <1>1, <2>1, MinimalSubset
<1>3. t \in SUBSET S /\ t \in SUBSET T /\ Positions(t)
  BY SubsetOfPositions
<1>4. CASE t = {}
  BY <1>2, <1>4, EmptyFold
<1>5. CASE t # {}
  <2>1. Before(t) \subseteq t /\ Before(t) # t
    BY <1>3, <1>5, LastIsElement
  <2>2. a[Before(t)] = b[Before(t)]
    BY <1>2, <2>1
  <2> DEFINE x == o[LastOf(t)]
  <2>3. a[t] = ConsolidateEntry(a[Before(t)], x, e[x], g[x])
    BY <1>3, <1>5 DEF IsFold
  <2>4. b[t] = ConsolidateEntry(b[Before(t)], x, e[x], g[x])
    BY <1>3, <1>5 DEF IsFold
  <2> HIDE DEF x
  <2>5. QED
    BY <1>2, <2>2, <2>3, <2>4
<1>6. QED
  BY <1>4, <1>5

LEMMA FoldExists ==
    ASSUME NEW e, NEW g, NEW o, NEW S, Positions(S)
    PROVE  \E h : IsFold(h, e, g, o, S)
<1> DEFINE Bad == {s \in SUBSET S : ~ \E h : IsFold(h, e, g, o, s)}
<1>1. SUFFICES ASSUME Bad # {} PROVE FALSE
  OBVIOUS
<1>2. PICK s \in Bad : \A t \in Bad : t \subseteq s => t = s
  <2>1. Bad \in SUBSET (SUBSET S) /\ IsFiniteSet(S)
    BY DEF Positions
  <2> HIDE DEF Bad
  <2>2. QED
    BY <1>1, <2>1, MinimalSubset
<1> DEFINE Step(t, m) == ConsolidateEntry(m, o[LastOf(t)], e[o[LastOf(t)]], g[o[LastOf(t)]])
           H == [t \in SUBSET s |-> IF t = {} THEN Empty ELSE Step(t, Fold(e, g, o, Before(t)))]
<1>3. ASSUME NEW t \in SUBSET s, t # {} PROVE Before(t) \in SUBSET s /\ Before(t) # s /\ Before(t) \subseteq t
  <2>1. Positions(t)
    BY SubsetOfPositions
  <2>2. QED
    BY <1>3, <2>1, LastIsElement
<1>4. ASSUME NEW t \in SUBSET s, t # s PROVE H[t] = Fold(e, g, o, t)
  <2>1. \E h : IsFold(h, e, g, o, t)
    BY <1>2, <1>4
  <2>2. PICK h : IsFold(h, e, g, o, t) /\ Fold(e, g, o, t) = h[t]
    BY <2>1 DEF Fold
  <2>3. CASE t = {}
    BY <2>2, <2>3, EmptyFold
  <2>4. CASE t # {}
    <3>1. Before(t) \in SUBSET s /\ Before(t) # s /\ Before(t) \subseteq t
      BY <1>3, <2>4
    <3>2. \E k : IsFold(k, e, g, o, Before(t))
      BY <1>2, <3>1
    <3>3. PICK k : IsFold(k, e, g, o, Before(t)) /\ Fold(e, g, o, Before(t)) = k[Before(t)]
      BY <3>2 DEF Fold
    <3>4. Positions(Before(t))
      BY <3>1, SubsetOfPositions
    <3>5. k[Before(t)] = h[Before(t)]
      BY <2>2, <3>1, <3>3, <3>4, FoldUnique
    <3>6. h[t] = Step(t, h[Before(t)])
      BY <2>2, <2>4 DEF IsFold
    <3> HIDE DEF Step
    <3>7. QED
      BY <2>2, <2>4, <3>3, <3>5, <3>6
  <2>5. QED
    BY <2>3, <2>4
<1>5. IsFold(H, e, g, o, s)
  <2>1. ASSUME NEW t \in SUBSET s, t # {} PROVE H[Before(t)] = Fold(e, g, o, Before(t))
    <3>1. Before(t) \in SUBSET s /\ Before(t) # s
      BY <1>3, <2>1
    <3> HIDE DEF H
    <3>2. QED
      BY <1>4, <3>1
  <2>2. ASSUME NEW t \in SUBSET s, t # {} PROVE H[t] = Step(t, H[Before(t)])
    <3>1. H[t] = Step(t, Fold(e, g, o, Before(t)))
      BY <2>2
    <3> HIDE DEF H, Step
    <3>2. QED
      BY <2>1, <2>2, <3>1
  <2>3. \A t \in SUBSET s : H[t] = IF t = {} THEN Empty ELSE Step(t, H[Before(t)])
    <3>1. H[{}] = Empty
      OBVIOUS
    <3> HIDE DEF H, Step
    <3>2. QED
      BY <2>2, <3>1
  <2>4. H = [t \in SUBSET s |-> H[t]]
    OBVIOUS
  <2> HIDE DEF H
  <2>5. QED
    BY <2>3, <2>4 DEF IsFold
<1>6. QED
  BY <1>2, <1>5

\* One step of the fold, and its start.
LEMMA FoldNext ==
    ASSUME NEW e, NEW g, NEW o, NEW S, Positions(S)
    PROVE  /\ S = {} => Fold(e, g, o, S) = Empty
           /\ S # {} => Fold(e, g, o, S) =
                 ConsolidateEntry(Fold(e, g, o, Before(S)), o[LastOf(S)], e[o[LastOf(S)]], g[o[LastOf(S)]])
<1>1. PICK h : IsFold(h, e, g, o, S) /\ Fold(e, g, o, S) = h[S]
  BY FoldExists DEF Fold
<1>2. ASSUME S = {} PROVE Fold(e, g, o, S) = Empty
  BY <1>1, <1>2, EmptyFold
<1>3. ASSUME S # {}
      PROVE  Fold(e, g, o, S) =
               ConsolidateEntry(Fold(e, g, o, Before(S)), o[LastOf(S)], e[o[LastOf(S)]], g[o[LastOf(S)]])
  <2>1. Before(S) \subseteq S /\ Positions(Before(S))
    BY <1>3, LastIsElement, SubsetOfPositions
  <2>2. PICK k : IsFold(k, e, g, o, Before(S)) /\ Fold(e, g, o, Before(S)) = k[Before(S)]
    BY <2>1, FoldExists DEF Fold
  <2>3. k[Before(S)] = h[Before(S)]
    BY <1>1, <2>1, <2>2, FoldUnique
  <2>4. h[S] = ConsolidateEntry(h[Before(S)], o[LastOf(S)], e[o[LastOf(S)]], g[o[LastOf(S)]])
    BY <1>1, <1>3 DEF IsFold
  <2>5. QED
    BY <1>1, <2>2, <2>3, <2>4
<1>4. QED
  BY <1>2, <1>3

-----------------------------------------------------------------------------
(* Numbers for some keys.                                                   *)

IsCounts(m) == IsFiniteSet(DOMAIN m) /\ \A k \in DOMAIN m : m[k] \in Nat

LEMMA EmptyCounts == IsCounts(Empty) /\ Sum(Empty) = 0 /\ DOMAIN Empty = {}
<1>1. DOMAIN Empty = {}
  BY DEF Empty
<1>2. IsFiniteSet({})
  BY FS_EmptySet
<1>3. SumFunctionOnSet(Empty, {}) = 0
  BY SumOfNothing
<1>4. QED
  BY <1>1, <1>2, <1>3 DEF IsCounts, Sum, SumFunction

\* An entry that is put replaces what its key had.
LEMMA PutCounts ==
    ASSUME NEW m, IsCounts(m), NEW k, NEW n \in Nat
    PROVE  /\ IsCounts(Put(m, k, n))
           /\ DOMAIN Put(m, k, n) = DOMAIN m \cup {k}
           /\ Sum(m) \in Nat
           /\ k \notin DOMAIN m => Sum(Put(m, k, n)) = Sum(m) + n
           /\ k \in DOMAIN m => m[k] \in Nat /\ Sum(Put(m, k, n)) = Sum(m) - m[k] + n
<1> DEFINE p == Put(m, k, n)
           D == DOMAIN m
           R == D \ {k}
<1>1. /\ DOMAIN p = D \cup {k}
      /\ p[k] = n
      /\ \A x \in D : x # k => p[x] = m[x]
  BY DEF Put
<1>2. IsFiniteSet(D) /\ IsFiniteSet(D \cup {k}) /\ IsFiniteSet(R)
  BY FS_AddElement, FS_Subset DEF IsCounts
<1>3. \A x \in D \cup {k} : p[x] \in Nat
  BY <1>1 DEF IsCounts
<1> HIDE DEF p
<1>4. IsCounts(p)
  BY <1>1, <1>2, <1>3 DEF IsCounts
<1>5. Sum(m) = SumFunctionOnSet(m, D) /\ Sum(p) = SumFunctionOnSet(p, D \cup {k})
  BY <1>1 DEF Sum, SumFunction
<1>6. \A x \in D : m[x] \in Nat
  BY DEF IsCounts
<1> HIDE DEF D
<1>7. Sum(m) \in Nat
  BY <1>2, <1>5, <1>6, SumType
<1>8. SumFunctionOnSet(p, D \cup {k}) = p[k] + SumFunctionOnSet(p, (D \cup {k}) \ {k})
  BY <1>2, <1>3, SumRemove
<1>9. (D \cup {k}) \ {k} = R
  OBVIOUS
<1>10. SumFunctionOnSet(p, R) = SumFunctionOnSet(m, R)
  <2>1. \A x \in R : p[x] = m[x] /\ p[x] \in Nat
    BY <1>1, <1>3
  <2>2. QED
    BY <1>2, <2>1, SumAgree
<1>11. SumFunctionOnSet(m, R) \in Nat
  <2>1. \A x \in R : m[x] \in Nat
    BY <1>6
  <2>2. QED
    BY <1>2, <2>1, SumType
<1>12. Sum(p) = n + SumFunctionOnSet(m, R)
  BY <1>1, <1>5, <1>8, <1>9, <1>10
<1>13. ASSUME k \notin D PROVE Sum(p) = Sum(m) + n
  <2>1. R = D
    BY <1>13
  <2> HIDE DEF R
  <2>2. QED
    BY <1>5, <1>7, <1>12, <2>1
<1>14. ASSUME k \in D PROVE m[k] \in Nat /\ Sum(p) = Sum(m) - m[k] + n
  <2>1. SumFunctionOnSet(m, D) = m[k] + SumFunctionOnSet(m, R)
    BY <1>2, <1>6, <1>14, SumRemove
  <2>2. m[k] \in Nat
    BY <1>6, <1>14
  <2> HIDE DEF R
  <2>3. QED
    BY <1>5, <1>7, <1>11, <1>12, <2>1, <2>2
<1>15. QED
  BY <1>1, <1>4, <1>7, <1>13, <1>14 DEF D, p

LEMMA PutNew ==
    ASSUME NEW m, IsCounts(m), NEW n \in Nat, NEW k, k \notin DOMAIN m
    PROVE  Sum(Put(m, k, n)) = Sum(m) + n
  BY PutCounts

LEMMA PutType ==
    ASSUME NEW m, IsCounts(m), NEW n \in Nat, NEW k
    PROVE  IsCounts(Put(m, k, n)) /\ DOMAIN Put(m, k, n) = DOMAIN m \cup {k} /\ Sum(m) \in Nat
  BY PutCounts

\* A member is added to its group.
LEMMA PutAddingCounts ==
    ASSUME NEW m, IsCounts(m), NEW n \in Nat, NEW k
    PROVE  /\ IsCounts(PutAdding(m, k, n))
           /\ DOMAIN PutAdding(m, k, n) = DOMAIN m \cup {k}
           /\ Sum(PutAdding(m, k, n)) = Sum(m) + n
<1>1. Sum(m) \in Nat
  BY PutType
<1> DEFINE w == IF k \in DOMAIN m THEN m[k] + n ELSE n
<1>2. w \in Nat /\ PutAdding(m, k, n) = Put(m, k, w)
  BY DEF PutAdding, IsCounts
<1>3. ASSUME k \notin DOMAIN m PROVE Sum(Put(m, k, w)) = Sum(m) + n
  <2>1. w = n
    BY <1>3
  <2> HIDE DEF w
  <2>2. QED
    BY <1>3, <2>1, PutNew
<1>4. ASSUME k \in DOMAIN m PROVE Sum(Put(m, k, w)) = Sum(m) + n
  <2> DEFINE v == m[k]
  <2>1. v \in Nat /\ w = v + n
    BY <1>4 DEF IsCounts
  <2> HIDE DEF w
  <2>2. Sum(Put(m, k, w)) = Sum(m) - v + w
    BY <1>2, <1>4, PutCounts
  <2> HIDE DEF v
  <2>3. QED
    BY <1>1, <2>1, <2>2
<1> HIDE DEF w
<1>5. Sum(Put(m, k, w)) = Sum(m) + n
  BY <1>3, <1>4
<1>6. IsCounts(Put(m, k, w)) /\ DOMAIN Put(m, k, w) = DOMAIN m \cup {k}
  BY <1>2, PutType
<1>7. QED
  BY <1>2, <1>5, <1>6

-----------------------------------------------------------------------------
(* One builder after the other.                                             *)

\* The key a builder is put under.
KeyOf(g, x) == IF g[x] = Unchecked THEN x ELSE g[x]

Entries(e) == IsCounts(e) /\ DOMAIN e \subseteq Extras

\* m is what the builders of X add up to.
Holds(m, e, g, X) ==
    /\ IsCounts(m)
    /\ DOMAIN m = {KeyOf(g, y) : y \in X}
    /\ Free(m) => Sum(m) = SumFunctionOnSet(e, X)

\* The entry of one more builder.
LEMMA OneMore ==
    ASSUME NEW e, Entries(e), NEW g \in GroupChoices(e),
           NEW X \in SUBSET DOMAIN e, NEW x \in DOMAIN e \ X,
           NEW m, Holds(m, e, g, X)
    PROVE  Holds(ConsolidateEntry(m, x, e[x], g[x]), e, g, X \cup {x})
<1> DEFINE p == ConsolidateEntry(m, x, e[x], g[x])
           k == KeyOf(g, x)
           Keys(Y) == {KeyOf(g, y) : y \in Y}
<1>0. IsCounts(m)
  BY DEF Holds
<1>1. e[x] \in Nat
  BY DEF IsCounts, Entries
<1>2. Keys(X \cup {x}) = Keys(X) \cup {k}
  OBVIOUS
<1>3. \A y \in DOMAIN e : IF Groups[y] = {} THEN g[y] = Unchecked ELSE g[y] \in Groups[y]
  BY DEF GroupChoices
<1>4. \A y \in DOMAIN e : Groups[y] # {} => g[y] # Unchecked
  <2>1. \A y \in DOMAIN e : Unchecked \notin Groups[y]
    BY RowsAssumption DEF Entries
  <2>2. QED
    BY <1>3, <2>1
<1>5. SumFunctionOnSet(e, X \cup {x}) = e[x] + SumFunctionOnSet(e, X)
  <2>1. X \cup {x} \subseteq DOMAIN e /\ (X \cup {x}) \ {x} = X
    OBVIOUS
  <2>2. IsFiniteSet(X \cup {x}) /\ \A y \in X \cup {x} : e[y] \in Nat
    BY <2>1, FS_Subset DEF IsCounts, Entries
  <2>3. SumFunctionOnSet(e, X \cup {x}) = e[x] + SumFunctionOnSet(e, (X \cup {x}) \ {x})
    BY <2>2, SumRemove
  <2>4. QED
    BY <2>1, <2>3
<1>6. ASSUME DOMAIN p = DOMAIN m \cup {k}, Free(p) PROVE Free(m)
  BY <1>6 DEF Free
<1>61. DOMAIN m = Keys(X) /\ (Free(m) => Sum(m) = SumFunctionOnSet(e, X))
  BY DEF Holds
<1> HIDE DEF k, p, Keys
<1>7. CASE g[x] = Unchecked
  <2>1. p = Put(m, x, e[x]) /\ k = x
    BY <1>7 DEF ConsolidateEntry, KeyOf, k, p
  <2>2. IsCounts(p) /\ DOMAIN p = DOMAIN m \cup {k} /\ (x \notin DOMAIN m => Sum(p) = Sum(m) + e[x])
    BY <1>0, <1>1, <2>1, PutType, PutNew
  <2>3. ASSUME Free(p) PROVE x \notin DOMAIN m
    <3>1. SUFFICES ASSUME NEW y \in X, x = KeyOf(g, y) PROVE FALSE
      BY <1>61 DEF Keys
    <3>2. y # x /\ y \in DOMAIN e /\ y \in Extras /\ x \in Extras
      BY DEF Entries
    <3>3. g[y] = x /\ g[y] # Unchecked
      BY <3>1, <3>2 DEF KeyOf
    <3>4. x \in Groups[y]
      BY <1>3, <3>2, <3>3
    <3>5. Groups[x] = {}
      BY <1>4, <1>7
    <3>6. Collides(x)
      BY <3>2, <3>4, <3>5 DEF Collides
    <3>7. QED
      BY <2>1, <2>2, <2>3, <3>6 DEF Free
  <2>4. ASSUME Free(p) PROVE Sum(p) = SumFunctionOnSet(e, X \cup {x})
    <3>1. Sum(m) = SumFunctionOnSet(e, X) /\ Sum(p) = Sum(m) + e[x]
      BY <1>6, <1>61, <2>2, <2>3, <2>4
    <3>2. Sum(m) \in Nat
      BY <1>0, <1>1, PutType
    <3>3. QED
      BY <1>1, <1>5, <3>1, <3>2
  <2>5. QED
    BY <1>2, <1>61, <2>2, <2>4 DEF Holds, Keys, p
<1>8. CASE g[x] # Unchecked
  <2>1. p = PutAdding(m, k, e[x])
    BY <1>8 DEF ConsolidateEntry, KeyOf, k, p
  <2>2. Sum(m) \in Nat
    BY <1>0, <1>1, PutType
  <2>3. IsCounts(p) /\ DOMAIN p = DOMAIN m \cup {k} /\ Sum(p) = Sum(m) + e[x]
    BY <1>0, <1>1, <2>1, PutAddingCounts
  <2>4. ASSUME Free(p) PROVE Sum(p) = SumFunctionOnSet(e, X \cup {x})
    <3>1. Sum(m) = SumFunctionOnSet(e, X)
      BY <1>6, <1>61, <2>3, <2>4
    <3>2. QED
      BY <1>1, <1>5, <2>2, <2>3, <3>1
  <2>5. QED
    BY <1>2, <1>61, <2>3, <2>4 DEF Holds, Keys, p
<1>9. QED
  BY <1>7, <1>8
\* An order without repetition, as long as there are builders, has each of them.
LEMMA OrderHasAll ==
    ASSUME NEW S, IsFiniteSet(S), NEW o \in SetToSeqs(S)
    PROVE  /\ DOMAIN o = 1 .. Cardinality(S) /\ Positions(DOMAIN o)
           /\ {o[i] : i \in DOMAIN o} = S
           /\ \A i, j \in DOMAIN o : i # j => o[i] # o[j]
<1> DEFINE n == Cardinality(S)
           D == 1 .. n
           T == {o[i] : i \in D}
<1>1. n \in Nat
  BY FS_CardinalityType
<1>2. o \in [D -> S] /\ \A i, j \in D : i # j => o[i] # o[j]
  BY DEF SetToSeqs
<1>3. IsFiniteSet(D) /\ Cardinality(D) = n
  BY <1>1, FS_Interval
<1>4. o \in Injection(D, S)
  BY <1>2 DEF Injection, IsInjective
<1>5. o \in Surjection(D, S)
  BY <1>3, <1>4, FS_Injection
<1>7. T = S
  BY <1>5 DEF Surjection
<1>8. D \subseteq Nat
  BY DEF D
<1>9. QED
  BY <1>2, <1>3, <1>7, <1>8 DEF D, n, T, Positions

\* Consolidation keeps every block, unless a builder without a group bears the
\* name of one.
LEMMA ConsolidationKeepsAll ==
    ASSUME NEW e, Entries(e), NEW g \in GroupChoices(e), NEW o \in SetToSeqs(DOMAIN e)
    PROVE  Holds(Consolidated(e, g, o), e, g, DOMAIN e)
<1> DEFINE F(s) == Fold(e, g, o, s)
           Of(s) == {o[i] : i \in s}
           Good(s) == Holds(F(s), e, g, Of(s))
           Bad == {s \in SUBSET DOMAIN o : ~ Good(s)}
<1>1. /\ Positions(DOMAIN o) /\ Of(DOMAIN o) = DOMAIN e
      /\ \A i, j \in DOMAIN o : i # j => o[i] # o[j]
  <2>1. IsFiniteSet(DOMAIN e)
    BY DEF Entries, IsCounts
  <2>2. QED
    BY <2>1, OrderHasAll
<1>2. Bad = {}
  <2>1. SUFFICES ASSUME Bad # {} PROVE FALSE
    OBVIOUS
  <2>2. PICK s \in Bad : \A t \in Bad : t \subseteq s => t = s
    <3>1. Bad \in SUBSET (SUBSET DOMAIN o) /\ IsFiniteSet(DOMAIN o)
      BY <1>1 DEF Positions
    <3> HIDE DEF Bad
    <3>2. QED
      BY <2>1, <3>1, MinimalSubset
  <2>3. s \in SUBSET DOMAIN o /\ ~ Good(s) /\ \A t \in SUBSET s : t # s => Good(t)
    BY <2>2
  <2> HIDE DEF Bad, F, Of
  <2>4. Positions(s)
    BY <1>1, <2>3, SubsetOfPositions
  <2>5. CASE s = {}
    <3>1. F(s) = Empty /\ Of(s) = {}
      BY <2>4, <2>5, FoldNext DEF F, Of
    <3>2. SumFunctionOnSet(e, {}) = 0
      BY SumOfNothing
    <3>3. QED
      BY <2>3, <3>1, <3>2, EmptyCounts DEF Holds
  <2>6. CASE s # {}
    <3> DEFINE i == LastOf(s)
               t == Before(s)
    <3>1. i \in s /\ t \subseteq s /\ t # s /\ t = s \ {i}
      BY <2>4, <2>6, LastIsElement DEF Before
    <3>2. F(s) = ConsolidateEntry(F(t), o[i], e[o[i]], g[o[i]])
      BY <2>4, <2>6, FoldNext DEF F
    <3> HIDE DEF i, t
    <3>3. Good(t)
      BY <2>3, <3>1
    <3>4. Of(t) \in SUBSET DOMAIN e /\ o[i] \in DOMAIN e \ Of(t) /\ Of(s) = Of(t) \cup {o[i]}
      BY <1>1, <2>3, <3>1 DEF Of
    <3>5. Holds(ConsolidateEntry(F(t), o[i], e[o[i]], g[o[i]]), e, g, Of(t) \cup {o[i]})
      BY <3>3, <3>4, OneMore
    <3>6. QED
      BY <2>3, <3>2, <3>4, <3>5
  <2>7. QED
    BY <2>5, <2>6
<1>3. Good(DOMAIN o)
  BY <1>2
<1> HIDE DEF F, Of
<1>4. QED
  BY <1>1, <1>3, FoldDefinition DEF F

LEMMA KeysAreNames ==
    ASSUME NEW e, Entries(e), NEW g \in GroupChoices(e)
    PROVE  \A x \in DOMAIN e : KeyOf(g, x) \in Names
<1>1. SUFFICES ASSUME NEW x \in DOMAIN e, g[x] # Unchecked PROVE g[x] \in Names
  BY DEF KeyOf, Names, Entries
<1>2. g[x] \in Groups[x] /\ x \in Extras
  BY <1>1 DEF GroupChoices, Entries
<1>3. QED
  BY <1>2 DEF Names

\* What is shown for builders.
Shown(m, n) == IsCounts(m) /\ DOMAIN m \subseteq Names /\ (Free(m) => Sum(m) = n)

LEMMA ConsolidatedIsShown ==
    ASSUME NEW e, Entries(e),
           NEW m \in ConsolidateBuilderEntries(e) \cup ConsolidateBuilderProfitEntries(e)
    PROVE  Shown(m, Sum(e)) /\ Sum(e) \in Nat
<1>1. PICK o \in SetToSeqs(DOMAIN e), g \in GroupChoices(e) : m = Consolidated(e, g, o)
  <2>1. CASE m \in ConsolidateBuilderEntries(e)
    <3>1. \E o \in Orders(e), g \in GroupChoices(e) : m = Consolidated(e, g, o)
      BY <2>1 DEF ConsolidateBuilderEntries
    <3>2. Orders(e) \subseteq SetToSeqs(DOMAIN e)
      BY DEF Orders
    <3>3. QED
      BY <3>1, <3>2
  <2>2. CASE m \in ConsolidateBuilderProfitEntries(e)
    BY <2>2 DEF ConsolidateBuilderProfitEntries
  <2>3. QED
    BY <2>1, <2>2
<1>2. Holds(m, e, g, DOMAIN e)
  BY <1>1, ConsolidationKeepsAll
<1>3. IsCounts(m) /\ DOMAIN m = {KeyOf(g, x) : x \in DOMAIN e}
  BY <1>2 DEF Holds
<1>4. DOMAIN m \subseteq Names
  BY <1>3, KeysAreNames
<1>5. Free(m) => Sum(m) = Sum(e)
  BY <1>2 DEF Holds, Sum, SumFunction
<1>6. Sum(e) \in Nat
  <2>1. IsCounts(e)
    BY DEF Entries
  <2>2. QED
    BY <2>1, PutType, 0 \in Nat
<1>7. QED
  BY <1>3, <1>4, <1>5, <1>6 DEF Shown

-----------------------------------------------------------------------------
(* The highest numbers of a set, from the highest on.                       *)

First(q, n) == {q[j] : j \in 1 .. n}
Highest(S, n, q) ==
    q \in [1 .. n -> S] /\ \A i \in 1 .. n : q[i] = Max(S \ First(q, i - 1))

LEMMA MaxOf ==
    ASSUME NEW S, Positions(S), S # {}
    PROVE  Max(S) \in S /\ \A s \in S : Max(S) >= s
<1> DEFINE m == CHOOSE x \in S : \A y \in S : x >= y
<1>1. LastOf(S) \in S
  BY LastIsElement
<1>2. \E x \in S : \A y \in S : x >= y
  BY LastIsGreatest
<1>3. m \in S /\ \A y \in S : m >= y
  BY <1>2
<1>4. QED
  BY <1>3 DEF Max

\* There are always that many left.
LEMMA SomeAreLeft ==
    ASSUME NEW S, Positions(S), NEW n \in Nat, NEW q \in [1 .. n -> S], NEW k \in Nat, k <= n,
           k < Cardinality(S)
    PROVE  Positions(S \ First(q, k)) /\ S \ First(q, k) # {}
<1> DEFINE D == 1 .. k
<1>1. IsFiniteSet(D) /\ Cardinality(D) = k /\ D \subseteq 1 .. n
  BY FS_Interval
<1>2. First(q, k) \subseteq S
  BY <1>1 DEF First
<1>3. [j \in D |-> q[j]] \in Surjection(D, First(q, k))
  BY DEF Surjection, First
<1> HIDE DEF D
<1>4. Cardinality(First(q, k)) <= k
  BY <1>1, <1>3, FS_Surjection
<1>5. S # First(q, k)
  <2>1. SUFFICES ASSUME S = First(q, k) PROVE FALSE
    OBVIOUS
  <2>2. Cardinality(S) \in Nat
    BY FS_CardinalityType DEF Positions
  <2>3. QED
    BY <1>4, <2>1, <2>2
<1>6. QED
  BY <1>2, <1>5, SubsetOfPositions

LEMMA HighestExists ==
    ASSUME NEW S, Positions(S), NEW n \in Nat, n <= Cardinality(S)
    PROVE  \E q : Highest(S, n, q)
<1> DEFINE Bad == {k \in 0 .. n : ~ \E q : Highest(S, k, q)}
<1>1. SUFFICES ASSUME Bad # {} PROVE FALSE
  OBVIOUS
<1>2. PICK k \in Bad : \A j \in Bad : k <= j
  <2>1. Bad \in SUBSET Nat
    OBVIOUS
  <2> HIDE DEF Bad
  <2>2. QED
    BY <1>1, <2>1, SmallestNumber
<1>3. k \in Nat /\ k <= n /\ Cardinality(S) \in Nat
  BY FS_CardinalityType DEF Positions
<1>4. k # 0
  <2>1. Highest(S, 0, <<>>)
    BY DEF Highest
  <2>2. QED
    BY <2>1
<1>5. PICK q : Highest(S, k - 1, q)
  <2>1. k - 1 \in 0 .. n /\ ~ (k <= k - 1)
    BY <1>3, <1>4
  <2>2. QED
    BY <1>2, <2>1
<1> DEFINE left == S \ First(q, k - 1)
           p == [i \in 1 .. k |-> IF i = k THEN Max(left) ELSE q[i]]
<1>6. Positions(left) /\ left # {}
  <2>1. k - 1 \in Nat /\ k - 1 < Cardinality(S) /\ q \in [1 .. k - 1 -> S]
    BY <1>3, <1>4, <1>5 DEF Highest
  <2>2. QED
    BY <2>1, SomeAreLeft
<1>7. Max(left) \in S
  <2> HIDE DEF left
  <2>1. Max(left) \in left
    BY <1>6, MaxOf
  <2>2. QED
    BY <2>1 DEF left
<1>8. \A i \in 1 .. k : p[i] = IF i = k THEN Max(left) ELSE q[i]
  OBVIOUS
<1>9. \A i \in 1 .. k : First(p, i - 1) = First(q, i - 1)
  <2>1. ASSUME NEW i \in 1 .. k, NEW j \in 1 .. i - 1 PROVE p[j] = q[j]
    <3>1. j \in 1 .. k /\ j # k
      BY <1>3
    <3>2. QED
      BY <1>8, <3>1
  <2>2. QED
    BY <2>1 DEF First
<1>10. Highest(S, k, p)
  <2>1. p \in [1 .. k -> S]
    <3>1. ASSUME NEW i \in 1 .. k, i # k PROVE q[i] \in S
      <4>1. i \in 1 .. k - 1
        BY <1>3, <3>1
      <4>2. QED
        BY <1>5, <4>1 DEF Highest
    <3>2. QED
      BY <1>7, <3>1
  <2>2. ASSUME NEW i \in 1 .. k PROVE p[i] = Max(S \ First(p, i - 1))
    <3>1. CASE i = k
      BY <1>8, <1>9, <3>1
    <3>2. CASE i # k
      <4>1. i \in 1 .. k - 1
        BY <1>3, <3>2
      <4>2. q[i] = Max(S \ First(q, i - 1))
        BY <1>5, <4>1 DEF Highest
      <4>3. QED
        BY <1>8, <1>9, <3>2, <4>2
    <3>3. QED
      BY <3>1, <3>2
  <2> HIDE DEF p
  <2>3. QED
    BY <2>1, <2>2 DEF Highest
<1>11. QED
  BY <1>2, <1>10

LEMMA DescendingIsHighest ==
    ASSUME NEW S, Positions(S), NEW n \in Nat, n <= Cardinality(S)
    PROVE  Highest(S, n, Descending(S, n))
<1>1. Descending(S, n) = CHOOSE q \in [1 .. n -> S] : \A i \in 1 .. n : q[i] = Max(S \ First(q, i - 1))
  BY DEF Descending, First
<1>2. \E q \in [1 .. n -> S] : \A i \in 1 .. n : q[i] = Max(S \ First(q, i - 1))
  BY HighestExists DEF Highest
<1>3. QED
  BY <1>1, <1>2 DEF Highest

\* What is left after some of them are the numbers below.
LEMMA LeftAreBelow ==
    ASSUME NEW S, Positions(S), NEW n \in Nat, n <= Cardinality(S), NEW q, Highest(S, n, q),
           NEW i \in 1 .. n
    PROVE  S \ First(q, i) = {s \in S : s < q[i]}
<1>0. q \in [1 .. n -> S] /\ Cardinality(S) \in Nat /\ S \subseteq Nat
  BY FS_CardinalityType DEF Highest, Positions
<1>1. ASSUME NEW j \in 1 .. n
      PROVE  /\ q[j] \in S \ First(q, j - 1)
             /\ \A s \in S \ First(q, j - 1) : q[j] >= s
  <2>1. j - 1 \in Nat /\ j - 1 <= n /\ j - 1 < Cardinality(S)
    BY <1>0
  <2>2. Positions(S \ First(q, j - 1)) /\ S \ First(q, j - 1) # {}
    BY <1>0, <2>1, SomeAreLeft
  <2>3. q[j] = Max(S \ First(q, j - 1))
    BY DEF Highest
  <2>4. QED
    BY <2>2, <2>3, MaxOf
<1>2. ASSUME NEW s \in S \ First(q, i) PROVE s < q[i]
  <2>1. s \notin First(q, i - 1) /\ s # q[i]
    BY DEF First
  <2>2. q[i] >= s
    BY <1>1, <2>1
  <2>3. s \in Nat /\ q[i] \in Nat
    BY <1>0
  <2>4. QED
    BY <2>1, <2>2, <2>3
<1>3. ASSUME NEW s \in S, s < q[i], s \in First(q, i) PROVE FALSE
  <2>1. PICK j \in 1 .. i : s = q[j]
    BY <1>3 DEF First
  <2>2. j \in 1 .. n /\ j - 1 \in Nat /\ j - 1 <= i - 1 /\ j \in Nat /\ i \in Nat
    OBVIOUS
  <2>3. First(q, j - 1) \subseteq First(q, i - 1)
    <3>1. 1 .. j - 1 \subseteq 1 .. i - 1
      BY <2>2
    <3>2. QED
      BY <3>1 DEF First
  <2>4. q[i] \in S \ First(q, j - 1)
    BY <1>1, <2>3
  <2>5. q[j] >= q[i]
    BY <1>1, <2>2, <2>4
  <2>6. q[j] \in Nat /\ q[i] \in Nat
    BY <1>0, <2>2
  <2>7. QED
    BY <1>3, <2>1, <2>5, <2>6
<1>4. QED
  BY <1>2, <1>3

\* Slots of payloads.
LEMMA SlotsArePositions ==
    ASSUME NEW R \in SUBSET Rows
    PROVE  IsFiniteSet(R) /\ Positions(SlotsOf(R))
<1>1. IsFiniteSet(R)
  BY RowsAssumption, FS_Subset
<1> DEFINE f == [r \in R |-> r.slot]
<1>2. f \in Surjection(R, SlotsOf(R))
  BY DEF Surjection, SlotsOf
<1>3. IsFiniteSet(SlotsOf(R))
  BY <1>1, <1>2, FS_Surjection
<1>4. SlotsOf(R) \subseteq Nat
  BY RowsAssumption DEF SlotsOf
<1>5. QED
  BY <1>1, <1>3, <1>4 DEF Positions

\* A sequence of that many.
LEMMA SequenceOf ==
    ASSUME NEW S, NEW n \in Nat, NEW q \in [1 .. n -> S]
    PROVE  q \in Seq(S) /\ Len(q) = n /\ DOMAIN q = 1 .. n
  OBVIOUS

LEMMA FrontOf ==
    ASSUME NEW S, NEW n \in Nat \ {0}, NEW q \in [1 .. n -> S]
    PROVE  /\ DOMAIN Front(q) = 1 .. n - 1
           /\ \A i \in 1 .. n - 1 : Front(q)[i] = q[i]
<1>1. q \in Seq(S) /\ Len(q) = n
  BY SequenceOf
<1>2. Front(q) = SubSeq(q, 1, n - 1)
  BY <1>1 DEF Front
<1>3. QED
  BY <1>1, <1>2

LEMMA ListsHaveNoGap ==
    ASSUME NEW x, table \subseteq Rows
    PROVE  RecentNameTheirPrevious(x)
<1> DEFINE S == SlotsOfExtra(x)
           all == Cardinality(S)
           n == IF Limit + 1 < all THEN Limit + 1 ELSE all
           q == GetRecentPayloadsForExtraData(x, Limit + 1)
           entry(i) == [slot |-> q[i], prevSlot |-> IF i < Len(q) THEN q[i + 1] ELSE 0]
           all_entries == [i \in DOMAIN q |-> entry(i)]
<1>1. Positions(S)
  <2>1. {r \in table : extra[r] = x} \in SUBSET Rows
    OBVIOUS
  <2>2. QED
    BY <2>1, SlotsArePositions DEF SlotsOfExtra
<1>2. all \in Nat /\ n \in Nat /\ n <= all
  <2>1. all \in Nat
    BY <1>1, FS_CardinalityType DEF Positions
  <2>2. Limit \in Nat
    BY TimeAssumption
  <2>3. QED
    BY <2>1, <2>2
<1>3. Highest(S, n, q)
  <2>1. q = Descending(S, n)
    BY DEF GetRecentPayloadsForExtraData
  <2>2. QED
    BY <1>1, <1>2, <2>1, DescendingIsHighest
<1> SUFFICES ASSUME NEW entries \in ExtraDataPayloads(x), NEW i \in 1 .. Limit, i \in DOMAIN entries
             PROVE  LET before == {s \in S : s < entries[i].slot}
                    IN  /\ before # {}
                        /\ entries[i].prevSlot = Max(before)
                        /\ i + 1 \in DOMAIN entries => entries[i + 1].slot = entries[i].prevSlot
  BY DEF RecentNameTheirPrevious
<1>4. entries = Front(all_entries) /\ q # <<>>
  BY DEF ExtraDataPayloads
<1> HIDE DEF S, n, q
<1>5. q \in [1 .. n -> S] /\ Len(q) = n /\ DOMAIN q = 1 .. n
  BY <1>2, <1>3, SequenceOf DEF Highest
<1>6. n # 0
  <2>1. SUFFICES ASSUME n = 0 PROVE q = <<>>
    BY <1>4
  <2>2. QED
    BY <1>5, <2>1
<1> DEFINE T == {entry(j) : j \in 1 .. n}
<1>7. all_entries \in [1 .. n -> T]
  BY <1>5
<1>8. \A j \in 1 .. n : all_entries[j] = entry(j)
  BY <1>5
<1> HIDE DEF all_entries, entry, T
<1>9. /\ DOMAIN entries = 1 .. n - 1
      /\ \A j \in 1 .. n - 1 : entries[j] = all_entries[j]
  <2>1. n \in Nat \ {0}
    BY <1>2, <1>6
  <2>2. /\ DOMAIN Front(all_entries) = 1 .. n - 1
        /\ \A j \in 1 .. n - 1 : Front(all_entries)[j] = all_entries[j]
    BY <1>7, <2>1, FrontOf
  <2>3. QED
    BY <1>4, <2>2
<1>10. /\ i \in 1 .. n - 1 /\ i \in 1 .. n /\ i + 1 \in 1 .. n /\ i < n /\ (i + 1) - 1 = i
  BY <1>2, <1>9
<1>11. entries[i].slot = q[i] /\ entries[i].prevSlot = q[i + 1]
  <2>1. entries[i] = entry(i)
    BY <1>8, <1>9, <1>10
  <2>2. entry(i).slot = q[i] /\ entry(i).prevSlot = q[i + 1]
    BY <1>5, <1>10 DEF entry
  <2>3. QED
    BY <2>1, <2>2
<1>12. i + 1 \in DOMAIN entries => entries[i + 1].slot = q[i + 1]
  <2>1. SUFFICES ASSUME i + 1 \in DOMAIN entries PROVE entries[i + 1].slot = q[i + 1]
    OBVIOUS
  <2>2. entries[i + 1] = entry(i + 1)
    BY <1>8, <1>9, <1>10, <2>1
  <2>3. entry(i + 1).slot = q[i + 1]
    BY DEF entry
  <2>4. QED
    BY <2>2, <2>3
<1>13. S \ First(q, i) = {s \in S : s < q[i]}
  BY <1>1, <1>2, <1>3, <1>10, LeftAreBelow
<1>14. q[i + 1] = Max(S \ First(q, i))
  BY <1>3, <1>10 DEF Highest
<1>15. S \ First(q, i) # {}
  <2>1. i \in Nat /\ i <= n /\ i < Cardinality(S)
    BY <1>2, <1>10
  <2>2. QED
    BY <1>1, <1>2, <1>5, <2>1, SomeAreLeft
<1>16. QED
  BY <1>11, <1>12, <1>13, <1>14, <1>15

-----------------------------------------------------------------------------
(* Rows, slots and blocks.                                                  *)

\* There are as many payloads as slots, or more.
LEMMA SlotsOfRows ==
    ASSUME NEW R \in SUBSET Rows
    PROVE  /\ IsFiniteSet(R) /\ IsFiniteSet(SlotsOf(R))
           /\ Cardinality(R) \in Nat /\ Cardinality(SlotsOf(R)) \in Nat
           /\ Cardinality(SlotsOf(R)) <= Cardinality(R)
<1> DEFINE f == [r \in R |-> r.slot]
<1>1. f \in Surjection(R, SlotsOf(R))
  BY DEF Surjection, SlotsOf
<1>2. IsFiniteSet(R) /\ IsFiniteSet(SlotsOf(R))
  BY SlotsArePositions DEF Positions
<1> HIDE DEF f
<1>3. Cardinality(SlotsOf(R)) <= Cardinality(R)
  BY <1>1, <1>2, FS_Surjection
<1>4. QED
  BY <1>2, <1>3, FS_CardinalityType

\* The payloads of a slot that have a verdict have the same extra data.
OneExtra(R) == \A q, r \in R : q.slot = r.slot => extra[q] = extra[r]

\* Then blocks are slots.
LEMMA BlocksAreSlots ==
    ASSUME NEW R \in SUBSET Rows, \A r \in R : extra[r] \in Extras, OneExtra(R)
    PROVE  Entries(BlocksOf(R)) /\ Sum(BlocksOf(R)) = Cardinality(SlotsOf(R))
<1> DEFINE D == SlotsOf(R)
           X == {extra[r] : r \in R}
           Of(x) == SlotsOf({r \in R : extra[r] = x})
           g == [x \in X |-> Of(x)]
           f == BlocksOf(R)
<1>1. IsFiniteSet(R) /\ IsFiniteSet(D) /\ IsFiniteSet(X)
  BY SlotsArePositions, FiniteImage DEF Positions
<1>2. DOMAIN f = X /\ \A x \in X : f[x] = Cardinality(g[x])
  BY DEF BlocksOf
<1>3. \A x \in X : g[x] \subseteq D
  BY DEF SlotsOf
<1>4. \A x, y \in X : x # y => g[x] \cap g[y] = {}
  BY DEF SlotsOf, OneExtra
<1>5. \A s \in D : \E x \in X : s \in g[x]
  <2>1. TAKE s \in D
  <2>2. PICK r \in R : s = r.slot
    BY DEF SlotsOf
  <2>3. extra[r] \in X /\ s \in g[extra[r]]
    BY <2>2 DEF SlotsOf
  <2>4. QED
    BY <2>3
<1>6. X \subseteq Extras
  OBVIOUS
<1> HIDE DEF D, X, g, f
<1>7. \A x \in X : IsFiniteSet(g[x]) /\ f[x] \in Nat
  BY <1>1, <1>2, <1>3, FS_Subset, FS_CardinalityType
<1>8. Entries(f)
  BY <1>1, <1>2, <1>6, <1>7 DEF Entries, IsCounts
<1>9. SumFunctionOnSet(f, X) \in Nat /\ Cardinality(D) \in Nat
  BY <1>1, <1>7, SumType, FS_CardinalityType
<1>10. SumFunctionOnSet(f, X) >= Cardinality(D)
  <2>1. \A x \in X : f[x] \in Nat /\ g[x] \subseteq D /\ f[x] >= Cardinality(g[x])
    BY <1>2, <1>3, <1>7
  <2>2. QED
    BY <1>1, <1>5, <2>1, SumCovers
<1>11. SumFunctionOnSet(f, X) <= Cardinality(D)
  <2>1. \A x \in X : f[x] \in Nat /\ g[x] \subseteq D /\ f[x] <= Cardinality(g[x])
    BY <1>2, <1>3, <1>7
  <2>2. QED
    BY <1>1, <1>4, <2>1, SumOfParts
<1>12. Sum(f) = SumFunctionOnSet(f, X)
  BY <1>2 DEF Sum, SumFunction
<1>13. QED
  BY <1>8, <1>9, <1>10, <1>11, <1>12 DEF f, D

-----------------------------------------------------------------------------
(* Ranges of time.                                                          *)

LEMMA SlotOfTime ==
    ASSUME NEW t \in Int, NEW s \in Int
    PROVE  /\ t <= SlotToTime(s) => TimeToSlot(t) <= s
           /\ SlotToTime(s) <= t => s <= TimeToSlot(t)
           /\ TimeToSlot(t) <= s => t - SlotLen + 1 <= SlotToTime(s)
           /\ s <= TimeToSlot(t) => SlotToTime(s) <= t
<1> DEFINE p == TimeToSlot(t)
           x == t - Genesis
<1>1. SlotLen \in Nat \ {0} /\ x \in Int /\ Genesis \in Int
  BY TimeAssumption
<1>2. p \in Int /\ SlotLen * p <= x /\ x < SlotLen * p + SlotLen
  <2>1. p = x \div SlotLen
    BY DEF TimeToSlot
  <2> HIDE DEF x, p
  <2>2. x \div SlotLen \in Int /\ SlotLen * (x \div SlotLen) <= x
        /\ x < SlotLen * (x \div SlotLen) + SlotLen
    BY <1>1
  <2>3. QED
    BY <2>1, <2>2
<1> HIDE DEF p, x
<1>3. SlotToTime(s) = SlotLen * s + Genesis
  BY <1>1 DEF SlotToTime
<1>4. t = x + Genesis
  BY <1>1 DEF x
<1>5. SlotLen * p \in Int /\ SlotLen * s \in Int
  BY <1>1, <1>2
<1>6. p <= s => SlotLen * p <= SlotLen * s
  BY <1>1, <1>2
<1>7. s <= p => SlotLen * s <= SlotLen * p
  BY <1>1, <1>2
<1>8. s < p => SlotLen * s + SlotLen <= SlotLen * p
  <2>1. s < p => s + 1 <= p
    BY <1>2
  <2>2. s + 1 <= p => SlotLen * (s + 1) <= SlotLen * p
    BY <1>1, <1>2
  <2>3. SlotLen * (s + 1) = SlotLen * s + SlotLen
    BY <1>1
  <2>4. QED
    BY <2>1, <2>2, <2>3
<1>9. p < s => SlotLen * p + SlotLen <= SlotLen * s
  <2>1. p < s => p + 1 <= s
    BY <1>2
  <2>2. p + 1 <= s => SlotLen * (p + 1) <= SlotLen * s
    BY <1>1, <1>2
  <2>3. SlotLen * (p + 1) = SlotLen * p + SlotLen
    BY <1>1, <1>2
  <2>4. QED
    BY <2>1, <2>2, <2>3
<1> DEFINE P == SlotLen * p
           Q == SlotLen * s
<1>10. /\ P \in Int /\ Q \in Int /\ P <= x /\ x < P + SlotLen
       /\ (s < p => Q + SlotLen <= P) /\ (p < s => P + SlotLen <= Q)
       /\ (p <= s => P <= Q) /\ (s <= p => Q <= P)
       /\ SlotToTime(s) = Q + Genesis
  BY <1>2, <1>3, <1>5, <1>6, <1>7, <1>8, <1>9
<1> HIDE DEF P, Q
<1>11. t <= SlotToTime(s) => p <= s
  BY <1>1, <1>2, <1>4, <1>10
<1>12. SlotToTime(s) <= t => s <= p
  BY <1>1, <1>2, <1>4, <1>10
<1>13. p <= s => t - SlotLen + 1 <= SlotToTime(s)
  BY <1>1, <1>2, <1>4, <1>10
<1>14. s <= p => SlotToTime(s) <= t
  BY <1>1, <1>2, <1>4, <1>10
<1>15. QED
  BY <1>11, <1>12, <1>13, <1>14 DEF p

\* The queries of a range, over the payloads V that have a verdict.
Within(V, since, until) == {r \in V : TimeToSlot(since) <= r.slot /\ r.slot <= TimeToSlot(until)}
StartingIn(V, since, until) ==
    {s \in SlotsOf(V) : since <= SlotToTime(s) /\ SlotToTime(s) <= until}
OfRelay(V, a) == {r \in V : r.relay = a}
Slots(V) == Cardinality(SlotsOf(V))
Beyond(V) == Cardinality(V) - Slots(V)

LEMMA RangeCounts ==
    ASSUME NEW V \in SUBSET Rows, NEW since \in Int, NEW until \in Int
    PROVE  /\ Slots(Within(V, since, until)) \in Nat
           /\ Cardinality(StartingIn(V, since, until)) \in Nat
           /\ Cardinality(StartingIn(V, since, until)) <= Slots(Within(V, since, until))
           /\ Cardinality(StartingIn(V, since - SlotLen + 1, until)) \in Nat
           /\ Slots(Within(V, since, until)) <= Cardinality(StartingIn(V, since - SlotLen + 1, until))
<1> DEFINE W == SlotsOf(Within(V, since, until))
           A == StartingIn(V, since, until)
           B == StartingIn(V, since - SlotLen + 1, until)
<1>1. ASSUME NEW s \in SlotsOf(V)
      PROVE  /\ s \in Int
             /\ s \in A => TimeToSlot(since) <= s /\ s <= TimeToSlot(until)
             /\ TimeToSlot(since) <= s /\ s <= TimeToSlot(until) => s \in B
  <2>1. s \in Int
    BY RowsAssumption DEF SlotsOf
  <2>2. QED
    BY <2>1, SlotOfTime DEF StartingIn
<1>2. W = {s \in SlotsOf(V) : TimeToSlot(since) <= s /\ s <= TimeToSlot(until)}
  BY DEF SlotsOf, Within
<1>3. A \subseteq W /\ W \subseteq B /\ B \subseteq SlotsOf(V)
  BY <1>1, <1>2 DEF StartingIn
<1>4. IsFiniteSet(SlotsOf(V))
  BY SlotsArePositions DEF Positions
<1> HIDE DEF W, A, B
<1>5. IsFiniteSet(B) /\ IsFiniteSet(W) /\ IsFiniteSet(A)
  BY <1>3, <1>4, FS_Subset
<1>6. /\ Cardinality(A) \in Nat /\ Cardinality(W) \in Nat /\ Cardinality(B) \in Nat
      /\ Cardinality(A) <= Cardinality(W) /\ Cardinality(W) <= Cardinality(B)
  BY <1>3, <1>5, FS_Subset, FS_CardinalityType
<1>7. QED
  BY <1>6 DEF W, A, B, Slots

\* More payloads with a verdict, more slots.
LEMMA MoreRowsMoreSlots ==
    ASSUME NEW W \in SUBSET Rows, NEW V \in SUBSET W
    PROVE  Slots(V) \in Nat /\ Slots(W) \in Nat /\ Slots(V) <= Slots(W)
<1>1. SlotsOf(V) \subseteq SlotsOf(W)
  BY DEF SlotsOf
<1>2. IsFiniteSet(SlotsOf(W)) /\ IsFiniteSet(SlotsOf(V))
  BY SlotsArePositions DEF Positions
<1>3. QED
  BY <1>1, <1>2, FS_Subset, FS_CardinalityType DEF Slots

\* And no fewer payloads beyond one per slot.
LEMMA MoreRowsMoreBeyond ==
    ASSUME NEW W \in SUBSET Rows, NEW V \in SUBSET W
    PROVE  /\ Beyond(V) \in Int /\ Beyond(W) \in Int /\ Beyond(V) <= Beyond(W)
           /\ Cardinality(V) \in Nat /\ Cardinality(W) \in Nat /\ Cardinality(V) <= Cardinality(W)
<1> DEFINE N == W \ V
<1>1. V \in SUBSET Rows /\ N \in SUBSET Rows /\ W = V \cup N /\ V \cap N = {}
  OBVIOUS
<1>2. SlotsOf(W) = SlotsOf(V) \cup SlotsOf(N)
  BY DEF SlotsOf
<1> HIDE DEF N
<1>3. /\ IsFiniteSet(V) /\ IsFiniteSet(SlotsOf(V)) /\ Cardinality(V) \in Nat
      /\ Cardinality(SlotsOf(V)) \in Nat
  BY <1>1, SlotsOfRows
<1>4. /\ IsFiniteSet(N) /\ IsFiniteSet(SlotsOf(N)) /\ Cardinality(N) \in Nat
      /\ Cardinality(SlotsOf(N)) \in Nat /\ Cardinality(SlotsOf(N)) <= Cardinality(N)
  BY <1>1, SlotsOfRows
<1>5. Cardinality(W) = Cardinality(V) + Cardinality(N)
  <2>1. Cardinality(V \cup N) = Cardinality(V) + Cardinality(N) - Cardinality(V \cap N)
    BY <1>3, <1>4, FS_Union
  <2>2. Cardinality(V \cap N) = 0
    BY <1>1, FS_EmptySet
  <2>3. QED
    BY <1>1, <1>3, <1>4, <2>1, <2>2
<1>6. Cardinality(SlotsOf(W)) \in Nat
      /\ Cardinality(SlotsOf(W)) <= Cardinality(SlotsOf(V)) + Cardinality(SlotsOf(N))
  <2> DEFINE both == SlotsOf(V) \cap SlotsOf(N)
  <2>1. Cardinality(SlotsOf(W)) = Cardinality(SlotsOf(V)) + Cardinality(SlotsOf(N)) - Cardinality(both)
    BY <1>2, <1>3, <1>4, FS_Union
  <2>2. Cardinality(both) \in Nat
    BY <1>3, FS_Intersection, FS_CardinalityType
  <2>3. Cardinality(SlotsOf(W)) \in Nat
    BY SlotsOfRows
  <2> HIDE DEF both
  <2>4. QED
    BY <1>3, <1>4, <2>1, <2>2, <2>3
<1>7. QED
  BY <1>3, <1>4, <1>5, <1>6 DEF Beyond, Slots

-----------------------------------------------------------------------------
(* A reader at work: what it has read so far, and what the table has now.   *)

Steps(r) == {"idle", "builders"}
                \cup (IF r = Weekly THEN {} ELSE {"relays", "profits"})
                \cup (IF r \in DOMAIN Spans THEN {"byRelay", "save"} ELSE {"respond"})

JobShape(r, j) ==
    /\ DOMAIN j = DOMAIN Idle
    /\ j.pc \in Steps(r)
    /\ j.since \in Int /\ j.until \in Int
    /\ DOMAIN j.relays \subseteq RelayNames /\ \A a \in DOMAIN j.relays : j.relays[a] \in Nat
    /\ DOMAIN j.byRelay \subseteq DOMAIN j.relays
    /\ \A a \in DOMAIN j.byRelay :
         /\ DOMAIN j.byRelay[a] \subseteq Names
         /\ Sum(j.byRelay[a]) \in Nat
    /\ Shown(j.builders, j.total) /\ j.total \in Nat
    /\ Shown(j.profits, j.profitTotal) /\ j.profitTotal \in Nat
    /\ j.seen \in Nat
    /\ j.pc \in {"relays", "builders", "profits"} => j.byRelay = Empty
    /\ j.pc = "save" => DOMAIN j.byRelay = DOMAIN j.relays

\* Each part of a page counts at least what the parts before it counted, but for
\* several payloads in a slot, and no more than the table has by now.
JobCounts(r, j, V) ==
    j.clean /\ j.pc # "idle" =>
        LET rows == Within(V, j.since, j.until)
        IN  /\ j.seen <= Slots(rows)
            /\ \A a \in DOMAIN j.relays : j.relays[a] <= Cardinality(OfRelay(rows, a))
            /\ j.pc \notin {"relays", "builders"} =>
                 /\ j.seen <= j.total /\ j.total <= Slots(rows)
                 /\ \A a \in DOMAIN j.relays : j.relays[a] <= j.total + Beyond(OfRelay(rows, a))
            /\ r # Weekly /\ j.pc \notin {"relays", "builders", "profits"} => j.total <= j.profitTotal
            /\ \A a \in DOMAIN j.byRelay :
                 Free(j.byRelay[a]) => j.relays[a] <= Sum(j.byRelay[a]) + Beyond(OfRelay(rows, a))

JobOK(r, j, V) == JobShape(r, j) /\ JobCounts(r, j, V)

LEMMA IdleJob == ASSUME NEW r \in Readers, NEW V PROVE JobOK(r, Idle, V)
<1>1. /\ Idle.pc = "idle" /\ Idle.since = 0 /\ Idle.until = 0 /\ Idle.relays = Empty
      /\ Idle.builders = Empty /\ Idle.total = 0 /\ Idle.profits = Empty /\ Idle.profitTotal = 0
      /\ Idle.byRelay = Empty /\ Idle.seen = 0
  BY DEF Idle
<1>2. Shown(Empty, 0) /\ DOMAIN Empty = {}
  BY EmptyCounts DEF Shown
<1>3. "idle" \in Steps(r)
  BY DEF Steps
<1>4. QED
  BY <1>1, <1>2, <1>3 DEF JobOK, JobShape, JobCounts

\* As long as no verdict is taken back, the table has more and more.
LEMMA MoreVerdicts ==
    ASSUME NEW r, NEW j, NEW W \in SUBSET Rows, NEW V \in SUBSET W, JobOK(r, j, V)
    PROVE  JobOK(r, j, W)
<1> DEFINE v == Within(V, j.since, j.until)
           w == Within(W, j.since, j.until)
<1>1. v \subseteq w /\ w \in SUBSET Rows
  BY DEF Within
<1>2. \A a : OfRelay(v, a) \subseteq OfRelay(w, a) /\ OfRelay(w, a) \in SUBSET Rows
  BY <1>1 DEF OfRelay
<1> HIDE DEF v, w
<1>3. Slots(v) \in Nat /\ Slots(w) \in Nat /\ Slots(v) <= Slots(w)
  BY <1>1, MoreRowsMoreSlots
<1>4. \A a : /\ Cardinality(OfRelay(v, a)) \in Nat /\ Cardinality(OfRelay(w, a)) \in Nat
             /\ Cardinality(OfRelay(v, a)) <= Cardinality(OfRelay(w, a))
             /\ Beyond(OfRelay(v, a)) \in Int /\ Beyond(OfRelay(w, a)) \in Int
             /\ Beyond(OfRelay(v, a)) <= Beyond(OfRelay(w, a))
  BY <1>2, MoreRowsMoreBeyond
<1>5. JobShape(r, j)
  BY DEF JobOK
<1>6. /\ j.seen \in Nat /\ j.total \in Nat /\ \A a \in DOMAIN j.relays : j.relays[a] \in Nat
      /\ \A a \in DOMAIN j.byRelay : a \in DOMAIN j.relays /\ Sum(j.byRelay[a]) \in Nat
  BY <1>5 DEF JobShape
<1>7. SUFFICES ASSUME j.clean, j.pc # "idle" PROVE JobCounts(r, j, W)
  BY <1>5 DEF JobOK, JobCounts
<1>8. /\ j.seen <= Slots(v)
      /\ \A a \in DOMAIN j.relays : j.relays[a] <= Cardinality(OfRelay(v, a))
      /\ j.pc \notin {"relays", "builders"} =>
           /\ j.seen <= j.total /\ j.total <= Slots(v)
           /\ \A a \in DOMAIN j.relays : j.relays[a] <= j.total + Beyond(OfRelay(v, a))
      /\ r # Weekly /\ j.pc \notin {"relays", "builders", "profits"} => j.total <= j.profitTotal
      /\ \A a \in DOMAIN j.byRelay :
           Free(j.byRelay[a]) => j.relays[a] <= Sum(j.byRelay[a]) + Beyond(OfRelay(v, a))
  BY <1>7 DEF JobOK, JobCounts, v
<1>9. j.seen <= Slots(w) /\ (j.total <= Slots(v) => j.total <= Slots(w))
  BY <1>3, <1>6, <1>8
<1>10. ASSUME NEW a \in DOMAIN j.relays
       PROVE  /\ j.relays[a] <= Cardinality(OfRelay(w, a))
              /\ j.relays[a] <= j.total + Beyond(OfRelay(v, a)) =>
                   j.relays[a] <= j.total + Beyond(OfRelay(w, a))
              /\ \A n \in Nat : j.relays[a] <= n + Beyond(OfRelay(v, a)) =>
                                  j.relays[a] <= n + Beyond(OfRelay(w, a))
  <2> DEFINE b == Beyond(OfRelay(v, a))
             d == Beyond(OfRelay(w, a))
             c == Cardinality(OfRelay(v, a))
             e == Cardinality(OfRelay(w, a))
             x == j.relays[a]
             y == j.total
  <2>1. b \in Int /\ d \in Int /\ b <= d /\ c \in Nat /\ e \in Nat /\ c <= e
    BY <1>4
  <2>2. x \in Nat /\ x <= c /\ y \in Nat
    BY <1>6, <1>8
  <2> HIDE DEF b, c, d, e, x, y
  <2>3. x <= e /\ (x <= y + b => x <= y + d) /\ \A n \in Nat : x <= n + b => x <= n + d
    BY <2>1, <2>2
  <2>4. QED
    BY <2>3 DEF b, c, d, e, x, y
<1>11. j.pc \notin {"relays", "builders"} =>
         \A a \in DOMAIN j.relays : j.relays[a] <= j.total + Beyond(OfRelay(w, a))
  BY <1>8, <1>10
<1>12. \A a \in DOMAIN j.byRelay :
         Free(j.byRelay[a]) => j.relays[a] <= Sum(j.byRelay[a]) + Beyond(OfRelay(w, a))
  BY <1>6, <1>8, <1>10
<1>13. QED
  BY <1>8, <1>9, <1>10, <1>11, <1>12 DEF JobCounts, w

-----------------------------------------------------------------------------
(* The steps of one reader: j before, k after.                              *)

\* A page is begun.
LEMMA BeginJob ==
    ASSUME NEW r \in Readers, NEW V \in SUBSET Rows, NEW since \in Int, NEW until \in Int,
           NEW first \in {"relays", "builders"}, first \in Steps(r),
           NEW k, k = [Idle EXCEPT !.pc = first, !.since = since, !.until = until,
                                   !.seen = Cardinality(StartingIn(V, since, until))]
    PROVE  JobOK(r, k, V)
<1>1. /\ DOMAIN k = DOMAIN Idle /\ k.pc = first /\ k.since = since /\ k.until = until
      /\ k.relays = Empty /\ k.builders = Empty /\ k.total = 0 /\ k.profits = Empty
      /\ k.profitTotal = 0 /\ k.byRelay = Empty
      /\ k.seen = Cardinality(StartingIn(V, since, until))
  BY DEF Idle
<1>2. Shown(Empty, 0) /\ DOMAIN Empty = {}
  BY EmptyCounts DEF Shown
<1>3. k.seen \in Nat /\ k.seen <= Slots(Within(V, k.since, k.until))
  BY <1>1, RangeCounts
<1>4. JobShape(r, k)
  BY <1>1, <1>2, <1>3 DEF JobShape
<1>5. JobCounts(r, k, V)
  BY <1>1, <1>2, <1>3 DEF JobCounts
<1>6. QED
  BY <1>4, <1>5 DEF JobOK

\* The relays are read.
LEMMA RelaysJob ==
    ASSUME NEW r \in Readers, NEW V \in SUBSET Rows, NEW j, JobOK(r, j, V), j.pc = "relays",
           NEW rows, rows = Within(V, j.since, j.until),
           NEW k, k = [j EXCEPT !.pc = "builders",
                          !.relays = [a \in {q.relay : q \in rows} |-> Cardinality({q \in rows : q.relay = a})]]
    PROVE  JobOK(r, k, V)
<1>1. DOMAIN j = DOMAIN Idle /\ JobShape(r, j)
  BY DEF JobOK, JobShape
<1>2. /\ DOMAIN k = DOMAIN Idle /\ k.pc = "builders" /\ k.since = j.since /\ k.until = j.until
      /\ k.builders = j.builders /\ k.total = j.total /\ k.profits = j.profits
      /\ k.profitTotal = j.profitTotal /\ k.byRelay = j.byRelay /\ k.seen = j.seen /\ k.clean = j.clean
      /\ k.relays = [a \in {q.relay : q \in rows} |-> Cardinality({q \in rows : q.relay = a})]
  BY <1>1 DEF Idle
<1>3. rows \in SUBSET Rows
  BY DEF Within
<1>4. \A a \in DOMAIN k.relays : k.relays[a] \in Nat /\ k.relays[a] <= Cardinality(OfRelay(rows, a))
  <2>1. TAKE a \in DOMAIN k.relays
  <2>2. k.relays[a] = Cardinality(OfRelay(rows, a))
    BY <1>2 DEF OfRelay
  <2>3. OfRelay(rows, a) \in SUBSET Rows
    BY <1>3 DEF OfRelay
  <2>4. Cardinality(OfRelay(rows, a)) \in Nat
    BY <2>3, SlotsOfRows
  <2>5. QED
    BY <2>2, <2>4
<1>5. DOMAIN k.relays \subseteq RelayNames
  BY <1>2, <1>3 DEF RelayNames
<1>6. k.byRelay = Empty /\ DOMAIN Empty = {}
  BY <1>1, <1>2, EmptyCounts DEF JobShape
<1>7. JobShape(r, k)
  BY <1>1, <1>2, <1>4, <1>5, <1>6 DEF JobShape, Steps
<1>8. JobCounts(r, k, V)
  <2>1. SUFFICES ASSUME k.clean PROVE k.seen <= Slots(rows)
    BY <1>2, <1>4, <1>6 DEF JobCounts
  <2>2. QED
    BY <1>2, <2>1 DEF JobOK, JobCounts
<1>9. QED
  BY <1>7, <1>8 DEF JobOK

\* The builders are read.
LEMMA BuildersJob ==
    ASSUME NEW r \in Readers, NEW V \in SUBSET Rows, NEW j, JobOK(r, j, V), j.pc = "builders",
           NEW rows, rows = Within(V, j.since, j.until),
           NEW total \in Nat, total = Slots(rows), NEW shown, Shown(shown, total),
           NEW k, k = [j EXCEPT !.pc = AfterBuilders(r), !.builders = shown, !.total = total]
    PROVE  JobOK(r, k, V)
<1>1. DOMAIN j = DOMAIN Idle /\ JobShape(r, j)
  BY DEF JobOK, JobShape
<1>2. /\ DOMAIN k = DOMAIN Idle /\ k.pc = AfterBuilders(r) /\ k.since = j.since /\ k.until = j.until
      /\ k.builders = shown /\ k.total = total /\ k.profits = j.profits
      /\ k.profitTotal = j.profitTotal /\ k.byRelay = j.byRelay /\ k.seen = j.seen /\ k.clean = j.clean
      /\ k.relays = j.relays
  BY <1>1 DEF Idle
<1>3. k.pc \in {"respond", "profits"} /\ k.pc \in Steps(r) /\ (r # Weekly => k.pc = "profits")
  BY <1>2, ReadersAssumption DEF AfterBuilders, Steps
<1>4. k.byRelay = Empty /\ DOMAIN Empty = {}
  BY <1>1, <1>2, EmptyCounts DEF JobShape
<1>5. JobShape(r, k)
  BY <1>1, <1>2, <1>3, <1>4 DEF JobShape
<1>6. JobCounts(r, k, V)
  <2>1. SUFFICES ASSUME k.clean PROVE JobCounts(r, k, V)
    BY DEF JobCounts
  <2>2. /\ k.seen <= Slots(rows)
        /\ \A a \in DOMAIN k.relays : k.relays[a] <= Cardinality(OfRelay(rows, a))
    BY <1>2, <2>1 DEF JobOK, JobCounts
  <2>3. \A a \in DOMAIN k.relays : k.relays[a] <= k.total + Beyond(OfRelay(rows, a))
    <3>1. TAKE a \in DOMAIN k.relays
    <3> DEFINE m == Cardinality(OfRelay(rows, a))
               n == Slots(OfRelay(rows, a))
    <3>2. rows \in SUBSET Rows /\ OfRelay(rows, a) \in SUBSET rows
      BY DEF Within, OfRelay
    <3>3. n \in Nat /\ Slots(rows) \in Nat /\ n <= Slots(rows)
      BY <3>2, MoreRowsMoreSlots
    <3>4. m \in Nat
      BY <3>2, SlotsOfRows
    <3>5. k.relays[a] \in Nat /\ k.relays[a] <= m
      BY <1>5, <2>2 DEF JobShape
    <3>6. Beyond(OfRelay(rows, a)) = m - n
      BY DEF Beyond
    <3> HIDE DEF m, n
    <3>7. QED
      BY <1>2, <3>3, <3>4, <3>5, <3>6
  <2>4. k.seen <= k.total /\ k.total <= Slots(rows)
    BY <1>2, <2>2
  <2>5. QED
    BY <1>2, <1>3, <1>4, <2>2, <2>3, <2>4 DEF JobCounts
<1>7. QED
  BY <1>5, <1>6 DEF JobOK

\* The profits are read: by now there are as many slots as before, or more.
LEMMA ProfitsJob ==
    ASSUME NEW r \in Readers, NEW V \in SUBSET Rows, NEW j, JobOK(r, j, V), j.pc = "profits",
           NEW total \in Nat, total = Slots(Within(V, j.since, j.until)), NEW shown, Shown(shown, total),
           NEW k, k = [j EXCEPT !.pc = AfterProfits(r), !.profits = shown, !.profitTotal = total]
    PROVE  JobOK(r, k, V)
<1>1. DOMAIN j = DOMAIN Idle /\ JobShape(r, j)
  BY DEF JobOK, JobShape
<1>2. /\ DOMAIN k = DOMAIN Idle /\ k.pc = AfterProfits(r) /\ k.since = j.since /\ k.until = j.until
      /\ k.builders = j.builders /\ k.total = j.total /\ k.profits = shown
      /\ k.profitTotal = total /\ k.byRelay = j.byRelay /\ k.seen = j.seen /\ k.clean = j.clean
      /\ k.relays = j.relays
  BY <1>1 DEF Idle
<1>3. k.pc \in {"respond", "byRelay"} /\ k.pc \in Steps(r)
  <2>1. r # Weekly
    BY <1>1 DEF JobShape, Steps
  <2>2. r # Daily => r \in DOMAIN Spans
    BY <2>1 DEF Readers
  <2>3. Daily \notin DOMAIN Spans
    BY ReadersAssumption
  <2>4. QED
    BY <1>2, <2>2, <2>3 DEF AfterProfits, Steps
<1>4. k.byRelay = Empty /\ DOMAIN Empty = {}
  BY <1>1, <1>2, EmptyCounts DEF JobShape
<1>5. JobShape(r, k)
  BY <1>1, <1>2, <1>3, <1>4 DEF JobShape
<1>6. JobCounts(r, k, V)
  <2>1. SUFFICES ASSUME k.clean PROVE JobCounts(r, k, V)
    BY DEF JobCounts
  <2>2. /\ k.seen <= Slots(Within(V, k.since, k.until))
        /\ \A a \in DOMAIN k.relays : k.relays[a] <= Cardinality(OfRelay(Within(V, k.since, k.until), a))
        /\ k.seen <= k.total /\ k.total <= Slots(Within(V, k.since, k.until))
        /\ \A a \in DOMAIN k.relays :
             k.relays[a] <= k.total + Beyond(OfRelay(Within(V, k.since, k.until), a))
    BY <1>2, <2>1 DEF JobOK, JobCounts
  <2>3. k.total <= k.profitTotal
    BY <1>2, <2>2
  <2>4. QED
    BY <1>3, <1>4, <2>2, <2>3 DEF JobCounts
<1>7. QED
  BY <1>5, <1>6 DEF JobOK

\* The builders of one relay are read.
LEMMA ByRelayJob ==
    ASSUME NEW r \in DOMAIN Spans, NEW V \in SUBSET Rows, NEW j, JobOK(r, j, V), j.pc = "byRelay",
           NEW a \in DOMAIN j.relays, NEW shown, NEW total \in Nat,
           total = Slots(OfRelay(Within(V, j.since, j.until), a)), Shown(shown, total),
           NEW k, k = [j EXCEPT !.byRelay = Put(j.byRelay, a, shown)]
    PROVE  JobOK(r, k, V)
<1>1. DOMAIN j = DOMAIN Idle /\ JobShape(r, j)
  BY DEF JobOK, JobShape
<1>2. /\ DOMAIN k = DOMAIN Idle /\ k.pc = "byRelay" /\ k.since = j.since /\ k.until = j.until
      /\ k.builders = j.builders /\ k.total = j.total /\ k.profits = j.profits
      /\ k.profitTotal = j.profitTotal /\ k.seen = j.seen /\ k.clean = j.clean
      /\ k.relays = j.relays /\ k.byRelay = Put(j.byRelay, a, shown)
  BY <1>1 DEF Idle
<1>3. /\ DOMAIN k.byRelay = DOMAIN j.byRelay \cup {a}
      /\ \A b \in DOMAIN k.byRelay : k.byRelay[b] = IF b = a THEN shown ELSE j.byRelay[b]
  BY <1>2 DEF Put
<1>31. DOMAIN shown \subseteq Names /\ Sum(shown) \in Nat
  <2>1. IsCounts(shown) /\ DOMAIN shown \subseteq Names
    BY DEF Shown
  <2>2. QED
    BY <2>1, PutType, 0 \in Nat
<1>4. JobShape(r, k)
  BY <1>1, <1>2, <1>3, <1>31 DEF JobShape
<1>5. JobCounts(r, k, V)
  <2>1. SUFFICES ASSUME k.clean PROVE JobCounts(r, k, V)
    BY DEF JobCounts
  <2>2. /\ k.seen <= Slots(Within(V, k.since, k.until))
        /\ \A b \in DOMAIN k.relays : k.relays[b] <= Cardinality(OfRelay(Within(V, k.since, k.until), b))
        /\ k.seen <= k.total /\ k.total <= Slots(Within(V, k.since, k.until))
        /\ \A b \in DOMAIN k.relays :
             k.relays[b] <= k.total + Beyond(OfRelay(Within(V, k.since, k.until), b))
        /\ r # Weekly => k.total <= k.profitTotal
        /\ \A b \in DOMAIN j.byRelay :
             Free(j.byRelay[b]) =>
               k.relays[b] <= Sum(j.byRelay[b]) + Beyond(OfRelay(Within(V, k.since, k.until), b))
    BY <1>2, <2>1 DEF JobOK, JobCounts
  <2>3. Free(shown) => k.relays[a] <= Sum(shown) + Beyond(OfRelay(Within(V, k.since, k.until), a))
    <3> DEFINE R == OfRelay(Within(V, k.since, k.until), a)
               m == Cardinality(R)
               n == Slots(R)
    <3>1. R \in SUBSET Rows
      BY DEF Within, OfRelay
    <3>2. m \in Nat /\ n \in Nat /\ k.relays[a] \in Nat /\ k.relays[a] <= m
      BY <1>2, <1>4, <2>2, <3>1, SlotsOfRows DEF JobShape, Slots
    <3>3. Free(shown) => Sum(shown) = n
      BY <1>2 DEF Shown
    <3>4. Beyond(R) = m - n
      BY DEF Beyond
    <3> HIDE DEF R, m, n
    <3>5. Free(shown) => k.relays[a] <= Sum(shown) + Beyond(R)
      BY <3>2, <3>3, <3>4
    <3>6. QED
      BY <3>5 DEF R
  <2>4. \A b \in DOMAIN k.byRelay :
          Free(k.byRelay[b]) =>
            k.relays[b] <= Sum(k.byRelay[b]) + Beyond(OfRelay(Within(V, k.since, k.until), b))
    BY <1>3, <2>2, <2>3
  <2>5. QED
    BY <1>2, <2>2, <2>4 DEF JobCounts
<1>6. QED
  BY <1>4, <1>5 DEF JobOK

\* The pages are rendered.
LEMMA RenderJob ==
    ASSUME NEW r \in DOMAIN Spans, NEW V \in SUBSET Rows, NEW j, JobOK(r, j, V), j.pc = "byRelay",
           DOMAIN j.byRelay = DOMAIN j.relays, NEW s,
           NEW k, k = [j EXCEPT !.pc = "save", !.slot = s]
    PROVE  JobOK(r, k, V)
<1>1. DOMAIN j = DOMAIN Idle /\ JobShape(r, j)
  BY DEF JobOK, JobShape
<1>2. /\ DOMAIN k = DOMAIN Idle /\ k.pc = "save" /\ k.since = j.since /\ k.until = j.until
      /\ k.builders = j.builders /\ k.total = j.total /\ k.profits = j.profits
      /\ k.profitTotal = j.profitTotal /\ k.seen = j.seen /\ k.clean = j.clean
      /\ k.relays = j.relays /\ k.byRelay = j.byRelay
  BY <1>1 DEF Idle
<1>3. JobShape(r, k)
  BY <1>1, <1>2 DEF JobShape, Steps
<1>4. JobCounts(r, k, V)
  BY <1>2 DEF JobOK, JobCounts
<1>5. QED
  BY <1>3, <1>4 DEF JobOK

\* A verdict is taken back: the reader is marked.
LEMMA MarkedJob ==
    ASSUME NEW r \in Readers, NEW V, NEW W, NEW j, JobOK(r, j, V),
           NEW k, k = [j EXCEPT !.clean = j.pc = "idle"]
    PROVE  JobOK(r, k, W)
<1>1. DOMAIN j = DOMAIN Idle /\ JobShape(r, j)
  BY DEF JobOK, JobShape
<1>2. /\ DOMAIN k = DOMAIN Idle /\ k.pc = j.pc /\ k.since = j.since /\ k.until = j.until
      /\ k.builders = j.builders /\ k.total = j.total /\ k.profits = j.profits
      /\ k.profitTotal = j.profitTotal /\ k.seen = j.seen
      /\ k.relays = j.relays /\ k.byRelay = j.byRelay
  BY <1>1 DEF Idle
<1>3. k.clean = (j.pc = "idle")
  BY <1>1 DEF Idle
<1>4. JobShape(r, k)
  BY <1>1, <1>2 DEF JobShape
<1>5. JobCounts(r, k, W)
  BY <1>2, <1>3 DEF JobCounts
<1>6. QED
  BY <1>4, <1>5 DEF JobOK

-----------------------------------------------------------------------------
(* Days and weeks.                                                          *)

LEMMA DivisionOf ==
    ASSUME NEW m \in Nat \ {0}, NEW q \in Int, NEW c \in 0 .. m - 1, NEW a, a = m * q + c
    PROVE  a \in Int /\ a \div m = q /\ a % m = c
<1>1. m * q \in Int /\ a \in Int
  OBVIOUS
<1> DEFINE p == a \div m
<1>2. p \in Int /\ m * p <= a /\ a < m * p + m /\ a % m = a - m * p
  BY <1>1
<1> HIDE DEF p
<1>3. p = q
  <2>1. ASSUME p < q PROVE FALSE
    <3>1. m * (p + 1) <= m * q /\ m * (p + 1) = m * p + m
      BY <1>2, <2>1
    <3>2. m * p \in Int
      BY <1>2
    <3>3. QED
      BY <1>1, <1>2, <3>1, <3>2
  <2>2. ASSUME q < p PROVE FALSE
    <3>1. m * (q + 1) <= m * p /\ m * (q + 1) = m * q + m
      BY <1>2, <2>2
    <3>2. m * p \in Int
      BY <1>2
    <3>3. QED
      BY <1>1, <1>2, <3>1, <3>2
  <2>3. QED
    BY <1>2, <2>1, <2>2
<1>4. QED
  BY <1>1, <1>2, <1>3 DEF p

LEMMA RemainderOf ==
    ASSUME NEW m \in Nat \ {0}, NEW a \in Int
    PROVE  /\ a \div m \in Int /\ a % m \in 0 .. m - 1
           /\ a = m * (a \div m) + (a % m)
  OBVIOUS

LEMMA DaysInOrder ==
    ASSUME NEW t \in Int, NEW u \in Int, t <= u
    PROVE  DayOf(t) \in Int /\ DayOf(u) \in Int /\ DayOf(t) <= DayOf(u)
<1> DEFINE p == t \div DayLen
           q == u \div DayLen
<1>1. DayLen \in Nat \ {0}
  BY TimeAssumption
<1>2. p \in Int /\ DayLen * p <= t /\ t < DayLen * p + DayLen
  BY <1>1
<1>3. q \in Int /\ DayLen * q <= u /\ u < DayLen * q + DayLen
  BY <1>1
<1> HIDE DEF p, q
<1>4. p <= q
  <2>1. ASSUME q < p PROVE FALSE
    <3>1. DayLen * (q + 1) <= DayLen * p /\ DayLen * (q + 1) = DayLen * q + DayLen
      BY <1>1, <1>2, <1>3, <2>1
    <3>2. DayLen * p \in Int /\ DayLen * q \in Int
      BY <1>1, <1>2, <1>3
    <3>3. QED
      BY <1>1, <1>2, <1>3, <3>1, <3>2
  <2>2. QED
    BY <1>2, <1>3, <2>1
<1>5. QED
  BY <1>2, <1>3, <1>4 DEF DayOf, p, q

\* A day's last second is of that day.
LEMMA EndOfDay ==
    ASSUME NEW d \in Int
    PROVE  /\ BeginningOfDay(d) \in Int /\ BeginningOfDay(d + 1) - 1 \in Int
           /\ DayOf(BeginningOfDay(d)) = d /\ BeginningOfDay(d) % DayLen = 0
           /\ DayOf(BeginningOfDay(d + 1) - 1) = d
<1>1. DayLen \in Nat \ {0} /\ 0 \in 0 .. DayLen - 1 /\ DayLen - 1 \in 0 .. DayLen - 1
  BY TimeAssumption
<1> DEFINE a == BeginningOfDay(d)
           b == BeginningOfDay(d + 1) - 1
<1>2. a = DayLen * d + 0 /\ b = DayLen * d + (DayLen - 1)
  BY <1>1 DEF BeginningOfDay
<1> HIDE DEF a, b
<1>3. a \in Int /\ a \div DayLen = d /\ a % DayLen = 0
  BY <1>1, <1>2, DivisionOf
<1>4. b \in Int /\ b \div DayLen = d
  BY <1>1, <1>2, DivisionOf
<1>5. QED
  BY <1>3, <1>4 DEF a, b, DayOf

\* A beginning of a week.
StartsWeek(t) == t \in Int /\ t % DayLen = 0 /\ Weekday(DayOf(t)) = Wednesday

LEMMA WeekdayOf ==
    ASSUME NEW q \in Int, NEW d \in Int, d + Weekday0 = WeekLen * q + Wednesday
    PROVE  StartsWeek(BeginningOfDay(d))
<1>1. /\ WeekLen \in Nat \ {0} /\ Wednesday \in 0 .. WeekLen - 1 /\ Weekday0 \in Int
  BY TimeAssumption
<1> DEFINE a == d + Weekday0
<1>2. a % WeekLen = Wednesday
  <2>1. a = WeekLen * q + Wednesday
    OBVIOUS
  <2> HIDE DEF a
  <2>2. QED
    BY <1>1, <2>1, DivisionOf
<1>3. QED
  BY <1>2, EndOfDay DEF StartsWeek, Weekday

LEMMA WeeksBeginOnWednesday ==
    ASSUME now \in Int
    PROVE  /\ StartsWeek(LastWednesday) /\ LastWednesday <= now
           /\ StartsWeek(LastWednesday - BeginningOfDay(WeekLen))
<1> DEFINE dd == DayOf(now)
           a == dd + Weekday0
           q == a \div WeekLen
           w == a % WeekLen
           d == dd - (w - Wednesday)
           e == IF BeginningOfDay(d) > now THEN d - WeekLen ELSE d
<1>1. /\ WeekLen \in Nat \ {0} /\ Wednesday \in 0 .. WeekLen - 1 /\ Weekday0 \in Int
      /\ DayLen \in Nat \ {0}
  BY TimeAssumption
<1>2. dd \in Int /\ dd * DayLen <= now
  <2>1. now \div DayLen \in Int /\ DayLen * (now \div DayLen) <= now
    BY <1>1
  <2>2. QED
    BY <1>1, <2>1 DEF DayOf
<1>3. LastWednesday = BeginningOfDay(e)
  BY DEF LastWednesday, Weekday
<1> HIDE DEF dd
<1>4. a \in Int /\ q \in Int /\ w \in 0 .. WeekLen - 1 /\ a = WeekLen * q + w
  <2>1. a \in Int
    BY <1>1, <1>2
  <2> HIDE DEF a
  <2>2. QED
    BY <1>1, <2>1, RemainderOf
<1>5. a = dd + Weekday0
  OBVIOUS
<1> HIDE DEF a, q, w
<1>6. d \in Int /\ d + Weekday0 = WeekLen * q + Wednesday
  <2>1. WeekLen * q \in Int
    BY <1>1, <1>4
  <2>2. QED
    BY <1>1, <1>2, <1>4, <1>5, <2>1
<1>7. d - WeekLen < dd
  BY <1>1, <1>2, <1>4
<1> HIDE DEF d
<1>8. /\ WeekLen * (q - 1) = WeekLen * q - WeekLen /\ WeekLen * (q - 2) = WeekLen * q - WeekLen - WeekLen
      /\ WeekLen * q \in Int
  BY <1>1, <1>4
<1>9. PICK p \in Int : e \in Int /\ e + Weekday0 = WeekLen * p + Wednesday
  <2>1. CASE BeginningOfDay(d) > now
    <3>1. d - WeekLen \in Int /\ q - 1 \in Int /\ (d - WeekLen) + Weekday0 = WeekLen * (q - 1) + Wednesday
      BY <1>1, <1>4, <1>6, <1>8
    <3>2. QED
      BY <2>1, <3>1
  <2>2. CASE ~ (BeginningOfDay(d) > now)
    BY <1>4, <1>6, <2>2
  <2>3. QED
    BY <2>1, <2>2
<1>10. BeginningOfDay(e) <= now
  <2>1. CASE BeginningOfDay(d) > now
    <3> DEFINE f == d - WeekLen
    <3>1. f \in Int /\ f < dd /\ e = f
      BY <1>1, <1>6, <1>7, <2>1
    <3> HIDE DEF f
    <3>2. f * DayLen <= dd * DayLen /\ f * DayLen \in Int /\ dd * DayLen \in Int
      BY <1>1, <1>2, <3>1
    <3> HIDE DEF e
    <3>3. BeginningOfDay(e) = f * DayLen
      BY <3>1 DEF BeginningOfDay
    <3>4. QED
      BY <1>2, <3>2, <3>3
  <2>2. CASE ~ (BeginningOfDay(d) > now)
    <3>1. BeginningOfDay(d) \in Int /\ e = d
      BY <1>6, <2>2, EndOfDay
    <3>2. QED
      BY <2>2, <3>1
  <2>3. QED
    BY <2>1, <2>2
<1> HIDE DEF e
<1>11. StartsWeek(BeginningOfDay(e))
  BY <1>9, WeekdayOf
<1>12. StartsWeek(BeginningOfDay(e - WeekLen))
  <2>1. WeekLen * (p - 1) = WeekLen * p - WeekLen /\ WeekLen * p \in Int
    BY <1>1, <1>9
  <2>2. p - 1 \in Int /\ e - WeekLen \in Int /\ (e - WeekLen) + Weekday0 = WeekLen * (p - 1) + Wednesday
    BY <1>1, <1>9, <2>1
  <2>3. QED
    BY <2>2, WeekdayOf
<1>13. BeginningOfDay(e - WeekLen) = BeginningOfDay(e) - BeginningOfDay(WeekLen)
  BY <1>1, <1>9 DEF BeginningOfDay
<1>14. QED
  BY <1>3, <1>10, <1>11, <1>12, <1>13

\* The ranges of a day's page and of a week's.
DailyOK(j, t) == j.pc # "idle" => DayOf(j.until) < DayOf(t)
WeeklyOK(j, t) ==
    j.pc # "idle" => j.until <= t /\ StartsWeek(j.since) /\ StartsWeek(j.until)

LEMMA RangesStayPast ==
    ASSUME NEW j, NEW t \in Int, NEW u \in Int, t <= u, j.until \in Int
    PROVE  /\ DailyOK(j, t) => DailyOK(j, u)
           /\ WeeklyOK(j, t) => WeeklyOK(j, u)
<1>1. DayOf(t) \in Int /\ DayOf(u) \in Int /\ DayOf(t) <= DayOf(u) /\ DayOf(j.until) \in Int
  BY DaysInOrder
<1>2. DailyOK(j, t) => DailyOK(j, u)
  BY <1>1 DEF DailyOK
<1>3. WeeklyOK(j, t) => WeeklyOK(j, u)
  BY DEF WeeklyOK
<1>4. QED
  BY <1>2, <1>3

-----------------------------------------------------------------------------
(* The health check.                                                        *)

\* The slot of an earlier time is not later, and no slot exceeds its time.
LEMMA SlotsFollowTime ==
    ASSUME NEW t \in Start .. MaxNow, NEW u \in Start .. MaxNow, t <= u
    PROVE  /\ TimeToSlot(t) \in Nat
           /\ TimeToSlot(t) <= t
           /\ TimeToSlot(t) <= TimeToSlot(u)
<1> USE TimeAssumption, RowsAssumption
<1> DEFINE p == (t - Genesis) \div SlotLen
           q == (u - Genesis) \div SlotLen
<1>1. /\ SlotLen \in Nat \ {0} /\ Genesis \in Nat /\ t \in Int /\ u \in Int
      /\ t - Genesis \in Nat /\ u - Genesis \in Nat /\ t - Genesis <= u - Genesis
      /\ t - Genesis <= t
  OBVIOUS
<1> HIDE TimeAssumption, RowsAssumption
<1>2. p \in Int /\ SlotLen * p <= t - Genesis /\ t - Genesis < SlotLen * (p + 1)
  BY <1>1
<1>3. q \in Int /\ SlotLen * q <= u - Genesis /\ u - Genesis < SlotLen * (q + 1)
  BY <1>1
<1>4. p >= 0
  BY <1>1, <1>2
<1>5. p <= t - Genesis
  BY <1>1, <1>2, <1>4
<1>6. p <= q
  BY <1>1, <1>2, <1>3
<1>7. QED
  BY <1>1, <1>2, <1>4, <1>5, <1>6 DEF TimeToSlot

\* The unsigned difference of small numbers does not wrap.
LEMMA SmallDifference ==
    ASSUME NEW n \in 0 .. MaxNow
    PROVE  n % UintMod = n
<1> USE TimeAssumption, RowsAssumption
<1>1. UintMod \in Int /\ UintMod > n /\ n \in Nat
  OBVIOUS
<1> HIDE TimeAssumption, RowsAssumption
<1>2. QED
  BY <1>1

\* Two answers, of which the client sees the status of the first.
LEMMA TwoAnswers ==
    ASSUME NEW first, NEW second
    PROVE  /\ <<first>> \o <<second>> = <<first, second>>
           /\ Head(<<first, second>>) = first
           /\ Head(<<first>>) = first
<1>1. <<first>> \o <<second>> = <<first, second>>
  <2> DEFINE S == {first, second}
  <2>1. <<first>> \in Seq(S) /\ <<second>> \in Seq(S) /\ <<first, second>> \in Seq(S)
    OBVIOUS
  <2>2. <<first>> \o <<second>> \in Seq(S) /\ Len(<<first>> \o <<second>>) = 2
    BY <2>1
  <2>3. (<<first>> \o <<second>>)[1] = first /\ (<<first>> \o <<second>>)[2] = second
    BY <2>1
  <2>4. Len(<<first, second>>) = 2 /\ <<first, second>>[1] = first /\ <<first, second>>[2] = second
    OBVIOUS
  <2>5. \A i \in 1 .. 2 : (<<first>> \o <<second>>)[i] = <<first, second>>[i]
    BY <2>3, <2>4
  <2>6. QED
    BY <2>1, <2>2, <2>4, <2>5, SeqEqual
<1>2. Head(<<first, second>>) = first
  OBVIOUS
<1>3. Head(<<first>>) = first
  OBVIOUS
<1>4. QED
  BY <1>1, <1>2, <1>3

\* What the health check says: one verdict, in the status and in every body.
LEMMA AnswersAgree ==
    /\ HealthStatus = 200 <=> SlotsSinceUpdate <= MaxSlotsSinceLastUpdate
    /\ \A i \in DOMAIN HealthAnswers :
         HealthAnswers[i].healthy <=> SlotsSinceUpdate <= MaxSlotsSinceLastUpdate
<1> DEFINE healthy == SlotsSinceUpdate <= MaxSlotsSinceLastUpdate
           ok  == [status |-> 200, healthy |-> healthy]
           err == [status |-> 500, healthy |-> FALSE]
<1>1. HealthAnswers = IF healthy THEN <<ok>> ELSE <<err>> \o <<ok>>
  BY DEF HealthAnswers
<1>2. ok.status = 200 /\ (ok.healthy <=> healthy) /\ err.status = 500 /\ ~ err.healthy
  OBVIOUS
<1> HIDE DEF healthy, ok, err
<1>3. CASE healthy
  <2>1. HealthAnswers = <<ok>>
    BY <1>1, <1>3
  <2>2. HealthStatus = 200
    BY <1>2, <2>1, TwoAnswers DEF HealthStatus
  <2>3. \A i \in DOMAIN HealthAnswers : HealthAnswers[i] = ok
    BY <2>1
  <2>4. QED
    BY <1>2, <1>3, <2>2, <2>3 DEF healthy
<1>4. CASE ~ healthy
  <2>1. HealthAnswers = <<err, ok>>
    BY <1>1, <1>4, TwoAnswers
  <2>2. HealthStatus = 500
    BY <1>2, <2>1, TwoAnswers DEF HealthStatus
  <2>3. \A i \in DOMAIN HealthAnswers : HealthAnswers[i] \in {err, ok}
    BY <2>1
  <2>4. QED
    BY <1>2, <1>4, <2>2, <2>3 DEF healthy
<1>5. QED
  BY <1>3, <1>4

-----------------------------------------------------------------------------
(* The latest slot is that of a stored payload; payloads are never removed  *)
(* and none is of the future.                                               *)

HealthInv ==
    /\ now \in Start .. MaxNow
    /\ table \subseteq Rows
    /\ \A r \in table : r.slot <= TimeToSlot(now)
    /\ slotRead \subseteq SlotsOf(table)
    /\ slotRead # Nothing => \E s \in SlotsOf(table) : slotRead = {s}
    /\ latestSlot \in {0} \cup SlotsOf(table)

\* The query returns the slot of a row.
LEMMA LatestIsStored ==
    ASSUME HealthInv, HasVerdict # {}
    PROVE  GetLatestDeliveredPayload \in SlotsOf(table)
<1> USE TimeAssumption, RowsAssumption
<1>1. SlotsOf(HasVerdict) \subseteq SlotsOf(table) /\ SlotsOf(HasVerdict) # {}
  BY DEF SlotsOf, HasVerdict
<1>2. SlotsOf(HasVerdict) \in SUBSET Nat /\ TimeToSlot(now) \in Nat
  BY SlotsFollowTime DEF HealthInv, SlotsOf, HasVerdict
<1>3. \A s \in SlotsOf(HasVerdict) : s <= TimeToSlot(now)
  BY DEF HealthInv, SlotsOf, HasVerdict
<1>4. PICK m \in SlotsOf(HasVerdict) : \A s \in SlotsOf(HasVerdict) : s <= m
  BY <1>1, <1>2, <1>3, LargestNumber
<1>5. \A s \in SlotsOf(HasVerdict) : m >= s
  BY <1>2, <1>4
<1>6. Max(SlotsOf(HasVerdict)) \in SlotsOf(HasVerdict)
  BY <1>5 DEF Max
<1>7. QED
  BY <1>1, <1>6 DEF GetLatestDeliveredPayload

LEMMA HealthInit == Init => HealthInv
  BY TimeAssumption, RowsAssumption DEF Init, HealthInv, Nothing, TimeToSlot

LEMMA HealthStep == HealthInv /\ [Next]_vars => HealthInv'
<1> USE TimeAssumption, RowsAssumption
<1> SUFFICES ASSUME HealthInv, [Next]_vars PROVE HealthInv'
  OBVIOUS
<1>1. CASE Tick
  <2>1. now \in Start .. MaxNow /\ now' \in Start .. MaxNow /\ now <= now'
    BY <1>1 DEF Tick, HealthInv
  <2>2. TimeToSlot(now) \in Nat /\ TimeToSlot(now') \in Nat /\ TimeToSlot(now) <= TimeToSlot(now')
    BY <2>1, SlotsFollowTime
  <2>3. \A r \in table : r.slot <= TimeToSlot(now')
    <3>1. TAKE r \in table
    <3>2. r.slot \in Nat /\ r.slot <= TimeToSlot(now)
      BY DEF HealthInv
    <3>3. QED
      BY <2>2, <3>2
  <2>4. TimeToSlot(now)' = TimeToSlot(now')
    BY DEF TimeToSlot
  <2>5. QED
    BY <1>1, <2>1, <2>3, <2>4 DEF Tick, HealthInv, SlotsOf
<1>2. ASSUME NEW r \in Rows, InsertPayload(r) PROVE HealthInv'
  <2>1. SlotsOf(table) \subseteq SlotsOf(table)'
    BY <1>2 DEF InsertPayload, SlotsOf
  <2>2. TimeToSlot(now)' = TimeToSlot(now)
    BY <1>2 DEF InsertPayload, TimeToSlot
  <2>3. QED
    BY <1>2, <2>1, <2>2 DEF InsertPayload, HealthInv
<1>3. CASE ReadLatestSlot
  <2>1. GetLatestDeliveredPayload \in SlotsOf(table)
    BY <1>3, LatestIsStored DEF ReadLatestSlot
  <2>2. slotRead' = {GetLatestDeliveredPayload} /\ UNCHANGED <<now, table, latestSlot>>
    BY <1>3 DEF ReadLatestSlot, dbVars
  <2>3. QED
    BY <2>1, <2>2 DEF HealthInv, SlotsOf, TimeToSlot
<1>4. CASE StoreLatestSlot
  <2>1. PICK s \in SlotsOf(table) : slotRead = {s}
    BY <1>4 DEF StoreLatestSlot, HealthInv
  <2>2. s \in Nat
    BY DEF HealthInv, SlotsOf
  <2>3. Max(slotRead) = s
    BY <2>1, <2>2 DEF Max
  <2>4. latestSlot' = s /\ slotRead' = {} /\ UNCHANGED <<now, table>>
    BY <1>4, <2>3 DEF StoreLatestSlot, dbVars, Nothing
  <2>5. QED
    BY <2>4 DEF HealthInv, SlotsOf, TimeToSlot, Nothing
<1>5. ASSUME UNCHANGED <<now, table, slotRead, latestSlot>> PROVE HealthInv'
  BY <1>5 DEF HealthInv, SlotsOf, TimeToSlot
<1>6. CASE UNCHANGED vars
  BY <1>5, <1>6 DEF vars
<1>7. ASSUME NEW s \in SlotsOf(Rows), NEW x \in Extras, CheckPayload(s, x) PROVE HealthInv'
  BY <1>5, <1>7 DEF CheckPayload
<1>8. ASSUME NEW s \in SlotsOf(Rows), ResetVerdict(s) PROVE HealthInv'
  BY <1>5, <1>8 DEF ResetVerdict
<1>9. ASSUME NEW t \in DOMAIN Spans,
             \/ StartUpdate(t) \/ Render(t) \/ SavePage(t)
             \/ \E a \in {r.relay : r \in Rows} : QueryByRelay(t, a)
      PROVE  HealthInv'
  BY <1>5, <1>9 DEF StartUpdate, Render, SavePage, QueryByRelay, dbVars
<1>10. ASSUME NEW d \in DayOf(Start) - 1 .. DayOf(MaxNow), DailyStats(d) PROVE HealthInv'
  BY <1>5, <1>10 DEF DailyStats, dbVars
<1>11. CASE Cowstats
  BY <1>5, <1>11 DEF Cowstats, dbVars
<1>12. ASSUME NEW r \in Readers,
              QueryRelays(r) \/ QueryBuilders(r) \/ QueryProfits(r) \/ UpdateFails(r) \/ Respond(r)
       PROVE  HealthInv'
  BY <1>5, <1>12 DEF QueryRelays, QueryBuilders, QueryProfits, UpdateFails, Respond, dbVars
<1>13. \A r \in {Daily, Weekly} : r \in Readers
  BY DEF Readers
<1>14. QED
  BY <1>1, <1>2, <1>3, <1>4, <1>6, <1>7, <1>8, <1>9, <1>10, <1>11, <1>12, <1>13 DEF Next

\* A latest slot of nothing read is too old by the years that have passed; any
\* other is of a stored payload, and not of the future.
LEMMA HealthyIsFresh == HealthInv => HealthyMeansFresh
<1> USE TimeAssumption, RowsAssumption
<1> SUFFICES ASSUME HealthInv PROVE HealthyMeansFresh
  OBVIOUS
<1> DEFINE slot == TimeToSlot(now)
<1>1. /\ now \in Nat /\ slot \in Nat /\ slot <= MaxNow /\ MaxNow \in Nat
      /\ TimeToSlot(Start) \in Nat /\ TimeToSlot(Start) <= slot
  <2>1. now \in Start .. MaxNow /\ Start \in Start .. MaxNow /\ Start <= now
    BY DEF HealthInv
  <2>2. slot \in Nat /\ slot <= now
    BY <2>1, SlotsFollowTime
  <2>3. TimeToSlot(Start) \in Nat /\ TimeToSlot(Start) <= slot
    BY <2>1, SlotsFollowTime
  <2> HIDE DEF slot
  <2>4. QED
    BY <2>1, <2>2, <2>3
<1>2. ASSUME SlotsSinceUpdate <= MaxSlotsSinceLastUpdate
      PROVE  \E r \in table : r.slot \in slot - MaxSlotsSinceLastUpdate .. slot
  <2>1. latestSlot \in Nat /\ latestSlot <= slot
    BY <1>1 DEF HealthInv, SlotsOf
  <2>2. slot - latestSlot \in 0 .. MaxNow
    <3> HIDE DEF slot
    <3>1. QED
      BY <1>1, <2>1
  <2>3. SlotsSinceUpdate = slot - latestSlot
    BY <2>2, SmallDifference DEF SlotsSinceUpdate
  <2>4. TimeToSlot(Start) > MaxSlotsSinceLastUpdate
    BY DEF TimeToSlot
  <2>5. MaxSlotsSinceLastUpdate \in Nat
    OBVIOUS
  <2>6. slot - latestSlot <= MaxSlotsSinceLastUpdate
    BY <1>2, <2>3
  <2>7. latestSlot # 0
    <3> HIDE DEF slot
    <3>1. QED
      BY <1>1, <2>4, <2>5, <2>6
  <2>8. PICK r \in table : latestSlot = r.slot
    BY <2>7 DEF HealthInv, SlotsOf
  <2>9. r.slot \in slot - MaxSlotsSinceLastUpdate .. slot
    <3> HIDE DEF slot
    <3>1. QED
      BY <1>1, <2>1, <2>5, <2>6, <2>8
  <2>10. QED
    BY <2>9
<1>3. QED
  BY <1>2, AnswersAgree DEF HealthyMeansFresh

\* The health check of the website: it answers OK only if a payload of one of
\* the last slots is stored, whatever the readers, checks and resets do.
THEOREM HealthyHolds == Spec => []HealthyMeansFresh
<1>1. Init => HealthInv
  BY HealthInit
<1>2. HealthInv /\ [Next]_vars => HealthInv'
  BY HealthStep
<1>3. HealthInv => HealthyMeansFresh
  BY HealthyIsFresh
<1>4. QED
  BY <1>1, <1>2, <1>3, PTL DEF Spec

-----------------------------------------------------------------------------
(* The table: payloads of a slot have their verdict from one check.         *)

TableInv ==
    /\ table \subseteq Rows
    /\ extra \in [Rows -> Extras \cup {Unchecked}]
    /\ \A r \in Rows \ table : extra[r] = Unchecked
    /\ OneExtra(HasVerdict)

JobsInv ==
    /\ DOMAIN job = Readers
    /\ \A r \in Readers : JobOK(r, job[r], HasVerdict)
    /\ DailyOK(job[Daily], now)
    /\ WeeklyOK(job[Weekly], now)

SiteInv == HealthInv /\ TableInv /\ JobsInv /\ page \subseteq DOMAIN Spans

LEMMA VerdictRows ==
    ASSUME TableInv
    PROVE  /\ HasVerdict \in SUBSET Rows /\ HasVerdict \in SUBSET table
           /\ \A r \in HasVerdict : extra[r] \in Extras
  BY RowsAssumption DEF TableInv, HasVerdict

\* The queries' rows.
LEMMA RangeIs ==
    ASSUME NEW since, NEW until
    PROVE  /\ InRange(since, until) = Within(HasVerdict, since, until)
           /\ SlotsStarting(since, until) = StartingIn(HasVerdict, since, until)
  BY DEF InRange, Within, SlotsStarting, StartingIn

LEMMA SiteInit == Init => SiteInv
<1> SUFFICES ASSUME Init PROVE SiteInv
  OBVIOUS
<1>1. HealthInv
  BY HealthInit
<1>2. TableInv
  BY RowsAssumption DEF Init, TableInv, HasVerdict, OneExtra
<1>3. \A r \in Readers : job[r] = Idle
  BY DEF Init
<1>4. DOMAIN job = Readers /\ Daily \in Readers /\ Weekly \in Readers /\ Idle.pc = "idle"
  BY DEF Init, Readers, Idle
<1>5. JobsInv
  BY <1>3, <1>4, IdleJob DEF JobsInv, DailyOK, WeeklyOK
<1>6. QED
  BY <1>1, <1>2, <1>5 DEF SiteInv, Init

\* A payload is stored without a verdict.
LEMMA InsertStep ==
    ASSUME TableInv, NEW r \in Rows, InsertPayload(r)
    PROVE  TableInv' /\ HasVerdict' = HasVerdict
<1>1. r \in Rows \ table /\ table' = table \cup {r} /\ extra' = extra /\ extra[r] = Unchecked
  BY DEF InsertPayload, TableInv
<1>2. HasVerdict' = HasVerdict
  BY <1>1 DEF HasVerdict
<1>3. OneExtra(HasVerdict)'
  BY <1>1, <1>2 DEF TableInv, OneExtra
<1>4. QED
  BY <1>1, <1>2, <1>3 DEF TableInv

\* A verdict is written to all payloads of its slot.
LEMMA WriteStep ==
    ASSUME TableInv, NEW s, NEW x \in Extras \cup {Unchecked}, table' = table, extra' = Written(s, x)
    PROVE  TableInv' /\ (x # Unchecked => HasVerdict \subseteq HasVerdict')
<1>1. \A r \in Rows : extra'[r] = IF r \in table /\ r.slot = s THEN x ELSE extra[r]
  BY DEF Written, RowsOfSlot
<1>2. extra' \in [Rows -> Extras \cup {Unchecked}]
  BY DEF Written, RowsOfSlot, TableInv
<1>3. \A r \in Rows \ table' : extra'[r] = Unchecked
  BY <1>1 DEF TableInv
<1>4. HasVerdict' \subseteq table /\ \A r \in HasVerdict' : extra'[r] # Unchecked
  BY DEF HasVerdict
<1>5. ASSUME NEW q \in HasVerdict', NEW r \in HasVerdict', q.slot = r.slot PROVE extra'[q] = extra'[r]
  <2>1. q \in table /\ r \in table /\ q \in Rows /\ r \in Rows
    BY <1>4 DEF TableInv
  <2>2. CASE r.slot = s
    BY <1>1, <1>5, <2>1, <2>2
  <2>3. CASE r.slot # s
    <3>1. extra'[q] = extra[q] /\ extra'[r] = extra[r]
      BY <1>1, <1>5, <2>1, <2>3
    <3>2. q \in HasVerdict /\ r \in HasVerdict
      BY <1>4, <2>1, <3>1 DEF HasVerdict
    <3>3. QED
      BY <1>5, <3>1, <3>2 DEF TableInv, OneExtra
  <2>4. QED
    BY <2>2, <2>3
<1>6. x # Unchecked => HasVerdict \subseteq HasVerdict'
  BY <1>1 DEF HasVerdict, TableInv
<1>7. OneExtra(HasVerdict)'
  BY <1>5 DEF OneExtra
<1>8. QED
  BY <1>2, <1>3, <1>6, <1>7 DEF TableInv

\* The other steps leave the table alone.
LEMMA TableStays ==
    ASSUME TableInv, UNCHANGED <<table, extra>>
    PROVE  TableInv' /\ HasVerdict' = HasVerdict
<1>1. HasVerdict' = HasVerdict
  BY DEF HasVerdict
<1>2. QED
  BY <1>1 DEF TableInv, OneExtra

\* Readers at rest see more verdicts, and later times.
LEMMA JobsStay ==
    ASSUME TableInv, TableInv', JobsInv, job' = job, HasVerdict \subseteq HasVerdict',
           now \in Int, now' \in Int, now <= now'
    PROVE  JobsInv'
<1>1. HasVerdict' \in SUBSET Rows
  BY DEF TableInv, HasVerdict
<1>2. \A r \in Readers : JobOK(r, job[r], HasVerdict')
  BY <1>1, MoreVerdicts DEF JobsInv
<1>3. Daily \in Readers /\ Weekly \in Readers
  BY DEF Readers
<1>4. job[Daily].until \in Int /\ job[Weekly].until \in Int
  BY <1>3 DEF JobsInv, JobOK, JobShape
<1>5. DailyOK(job[Daily], now') /\ WeeklyOK(job[Weekly], now')
  BY <1>4, RangesStayPast DEF JobsInv
<1>6. QED
  BY <1>2, <1>5 DEF JobsInv

\* One reader makes a step.
LEMMA OneJobStep ==
    ASSUME JobsInv, NEW r \in Readers, NEW k, DOMAIN job' = DOMAIN job, job'[r] = k,
           \A q \in Readers : q # r => job'[q] = job[q],
           UNCHANGED <<now, table, extra>>, JobOK(r, k, HasVerdict),
           r = Daily => DailyOK(k, now), r = Weekly => WeeklyOK(k, now)
    PROVE  JobsInv'
<1>1. DOMAIN job' = Readers /\ job'[r] = k /\ \A q \in Readers : q # r => job'[q] = job[q]
  BY DEF JobsInv
<1>2. HasVerdict' = HasVerdict
  BY DEF HasVerdict
<1>3. \A q \in Readers : JobOK(q, job'[q], HasVerdict)
  BY <1>1 DEF JobsInv
<1>4. Daily \in Readers /\ Weekly \in Readers
  BY DEF Readers
<1>5. DailyOK(job'[Daily], now)
  <2>1. CASE r = Daily
    BY <1>1, <2>1
  <2>2. CASE r # Daily
    BY <1>1, <1>4, <2>2 DEF JobsInv
  <2>3. QED
    BY <2>1, <2>2
<1>6. WeeklyOK(job'[Weekly], now)
  <2>1. CASE r = Weekly
    BY <1>1, <2>1
  <2>2. CASE r # Weekly
    BY <1>1, <1>4, <2>2 DEF JobsInv
  <2>3. QED
    BY <2>1, <2>2
<1>7. QED
  BY <1>1, <1>2, <1>3, <1>5, <1>6 DEF JobsInv

\* It goes on with its range.
LEMMA GoesOn ==
    ASSUME JobsInv, NEW r \in Readers, job[r].pc # "idle", NEW k, DOMAIN job' = DOMAIN job, job'[r] = k,
           \A q \in Readers : q # r => job'[q] = job[q],
           UNCHANGED <<now, table, extra>>, JobOK(r, k, HasVerdict),
           k.since = job[r].since, k.until = job[r].until
    PROVE  JobsInv'
<1>1. r = Daily => DailyOK(k, now)
  BY DEF JobsInv, DailyOK
<1>2. r = Weekly => WeeklyOK(k, now)
  BY DEF JobsInv, WeeklyOK
<1>3. QED
  BY <1>1, <1>2, OneJobStep

\* It is through, or has failed.
LEMMA ComesToRest ==
    ASSUME JobsInv, NEW r \in Readers, job' = [job EXCEPT ![r] = Idle], UNCHANGED <<now, table, extra>>
    PROVE  JobsInv'
<1>1. JobOK(r, Idle, HasVerdict) /\ Idle.pc = "idle"
  BY IdleJob DEF Idle
<1>2. DOMAIN job' = DOMAIN job /\ job'[r] = Idle /\ \A q \in Readers : q # r => job'[q] = job[q]
  BY DEF JobsInv
<1>3. DailyOK(Idle, now) /\ WeeklyOK(Idle, now)
  BY <1>1 DEF DailyOK, WeeklyOK
<1>4. QED
  BY <1>1, <1>2, <1>3, OneJobStep

-----------------------------------------------------------------------------
(* The steps of the readers and of the database.                            *)

\* A reader begins, in a range that its page may have.
LEMMA BeginStep ==
    ASSUME SiteInv, NEW r \in Readers, NEW first \in {"relays", "builders"}, first \in Steps(r),
           NEW since \in Int, NEW until \in Int, Begin(r, first, since, until),
           UNCHANGED <<now, table, extra>>,
           r = Daily => DayOf(until) < DayOf(now),
           r = Weekly => until <= now /\ StartsWeek(since) /\ StartsWeek(until)
    PROVE  JobsInv'
<1> DEFINE k == [Idle EXCEPT !.pc = first, !.since = since, !.until = until,
                             !.seen = Cardinality(SlotsStarting(since, until))]
<1>1. job' = [job EXCEPT ![r] = k]
  BY DEF Begin
<1>2. k.since = since /\ k.until = until
  BY DEF Idle
<1>3. HasVerdict \in SUBSET Rows
  BY VerdictRows DEF SiteInv
<1>4. JobOK(r, k, HasVerdict)
  <2>1. SlotsStarting(since, until) = StartingIn(HasVerdict, since, until)
    BY RangeIs
  <2>2. QED
    BY <1>3, <2>1, BeginJob
<1>5. JobsInv /\ DOMAIN job = Readers
  BY DEF SiteInv, JobsInv
<1> HIDE DEF k
<1>6. DOMAIN job' = DOMAIN job /\ job'[r] = k /\ \A q \in Readers : q # r => job'[q] = job[q]
  BY <1>1, <1>5
<1>7. (r = Daily => DailyOK(k, now)) /\ (r = Weekly => WeeklyOK(k, now))
  BY <1>2 DEF DailyOK, WeeklyOK
<1>8. QED
  BY <1>4, <1>5, <1>6, <1>7, OneJobStep

LEMMA StartUpdateStep == ASSUME SiteInv, NEW t \in DOMAIN Spans, StartUpdate(t) PROVE JobsInv'
<1>1. t \in Readers /\ t # Daily /\ t # Weekly /\ "relays" \in Steps(t)
  BY ReadersAssumption DEF Readers, Steps
<1>2. now \in Int /\ Spans[t] \in Int
  BY TimeAssumption DEF SiteInv, HealthInv
<1>3. now - Spans[t] \in Int
  BY <1>2
<1>4. Begin(t, "relays", now - Spans[t], now) /\ UNCHANGED <<now, table, extra>>
  BY DEF StartUpdate, dbVars
<1>5. QED
  BY <1>1, <1>2, <1>3, <1>4, BeginStep

LEMMA DailyStep ==
    ASSUME SiteInv, NEW d \in DayOf(Start) - 1 .. DayOf(MaxNow), DailyStats(d)
    PROVE  JobsInv'
<1>1. Daily \in Readers /\ Daily # Weekly /\ "relays" \in Steps(Daily)
  BY DEF Readers, Steps, Daily, Weekly
<1>2. now \in Int /\ Start \in Int /\ MaxNow \in Int
  BY TimeAssumption DEF SiteInv, HealthInv
<1>3. DayOf(Start) \in Int /\ DayOf(now) \in Int /\ DayOf(MaxNow) \in Int
  BY <1>2, DaysInOrder
<1>4. d \in Int
  BY <1>3
<1> DEFINE since == BeginningOfDay(d)
           until == BeginningOfDay(d + 1) - 1
<1>5. since \in Int /\ until \in Int /\ DayOf(until) = d
  BY <1>4, EndOfDay
<1>6. /\ d <= DayOf(now) - 1 /\ Begin(Daily, "relays", since, until)
      /\ UNCHANGED <<now, table, extra>>
  BY DEF DailyStats, DayIsOver, dbVars
<1> HIDE DEF since, until
<1>7. DayOf(until) < DayOf(now)
  BY <1>3, <1>4, <1>5, <1>6
<1>8. QED
  BY <1>1, <1>5, <1>6, <1>7, BeginStep

LEMMA CowstatsStep == ASSUME SiteInv, Cowstats PROVE JobsInv'
<1>1. Weekly \in Readers /\ Daily # Weekly /\ "builders" \in Steps(Weekly)
  BY DEF Readers, Steps, Daily, Weekly
<1>2. now \in Int
  BY TimeAssumption DEF SiteInv, HealthInv
<1> DEFINE until == LastWednesday
           since == LastWednesday - BeginningOfDay(WeekLen)
<1>3. StartsWeek(until) /\ StartsWeek(since) /\ until <= now
  BY <1>2, WeeksBeginOnWednesday
<1>4. Begin(Weekly, "builders", since, until) /\ UNCHANGED <<now, table, extra>>
  BY DEF Cowstats, dbVars
<1> HIDE DEF since, until
<1>5. since \in Int /\ until \in Int
  BY <1>3 DEF StartsWeek
<1>6. QED
  BY <1>1, <1>3, <1>4, <1>5, BeginStep

LEMMA RelaysStep == ASSUME SiteInv, NEW r \in Readers, QueryRelays(r) PROVE JobsInv'
<1> DEFINE j == job[r]
           rows == Within(HasVerdict, j.since, j.until)
           new == [a \in {q.relay : q \in rows} |-> Cardinality({q \in rows : q.relay = a})]
           k == [j EXCEPT !.pc = "builders", !.relays = new]
<1>1. HasVerdict \in SUBSET Rows /\ JobsInv /\ DOMAIN job = Readers
  BY VerdictRows DEF SiteInv, JobsInv
<1>2. JobOK(r, j, HasVerdict) /\ j.pc = "relays" /\ DOMAIN j = DOMAIN Idle
  BY <1>1 DEF JobsInv, QueryRelays, JobOK, JobShape
<1>3. new = GetTopRelays(j.since, j.until)
  BY RangeIs DEF GetTopRelays
<1> HIDE DEF new
<1>4. DOMAIN job' = DOMAIN job /\ job'[r] = k /\ \A q \in Readers : q # r => job'[q] = job[q]
  BY <1>1, <1>3 DEF QueryRelays
<1>5. k.since = j.since /\ k.until = j.until
  BY <1>2 DEF Idle
<1>6. JobOK(r, k, HasVerdict)
  BY <1>1, <1>2, RelaysJob DEF new
<1>7. UNCHANGED <<now, table, extra>>
  BY DEF QueryRelays, dbVars
<1> HIDE DEF k
<1>8. QED
  BY <1>1, <1>2, <1>4, <1>5, <1>6, <1>7, GoesOn

\* All builders of the range, as they are shown.
LEMMA BlocksOfRange ==
    ASSUME TableInv, NEW since, NEW until, NEW R \in SUBSET InRange(since, until)
    PROVE  Entries(BlocksOf(R)) /\ Sum(BlocksOf(R)) = Slots(R) /\ Slots(R) \in Nat
<1>1. R \in SUBSET HasVerdict /\ R \in SUBSET Rows
  BY VerdictRows DEF InRange
<1>2. (\A r \in R : extra[r] \in Extras) /\ OneExtra(R)
  BY <1>1, VerdictRows DEF TableInv, OneExtra
<1>3. QED
  BY <1>1, <1>2, BlocksAreSlots, MoreRowsMoreSlots DEF Slots

LEMMA BuildersStep == ASSUME SiteInv, NEW r \in Readers, QueryBuilders(r) PROVE JobsInv'
<1> DEFINE j == job[r]
           rows == Within(HasVerdict, j.since, j.until)
           e == GetTopBuilders(j.since, j.until)
           total == Sum(e)
<1>1. HasVerdict \in SUBSET Rows /\ JobsInv /\ DOMAIN job = Readers /\ TableInv
  BY VerdictRows DEF SiteInv, JobsInv
<1>2. JobOK(r, j, HasVerdict) /\ j.pc = "builders" /\ DOMAIN j = DOMAIN Idle
  BY <1>1 DEF JobsInv, QueryBuilders, JobOK, JobShape
<1>3. PICK shown \in ConsolidateBuilderEntries(e) :
        job' = [job EXCEPT ![r].pc = AfterBuilders(r), ![r].builders = shown, ![r].total = total]
  BY DEF QueryBuilders
<1>4. rows = InRange(j.since, j.until)
  BY RangeIs
<1>5. Entries(e) /\ total = Slots(rows) /\ total \in Nat
  BY <1>1, <1>4, BlocksOfRange DEF GetTopBuilders
<1>6. Shown(shown, total)
  BY <1>5, ConsolidatedIsShown
<1> HIDE DEF total, e
<1> DEFINE k == [j EXCEPT !.pc = AfterBuilders(r), !.builders = shown, !.total = total]
<1>7. DOMAIN job' = DOMAIN job /\ job'[r] = k /\ \A q \in Readers : q # r => job'[q] = job[q]
  BY <1>1, <1>3
<1>8. k.since = j.since /\ k.until = j.until
  BY <1>2 DEF Idle
<1>9. JobOK(r, k, HasVerdict)
  BY <1>1, <1>2, <1>5, <1>6, BuildersJob
<1>10. UNCHANGED <<now, table, extra>>
  BY DEF QueryBuilders, dbVars
<1> HIDE DEF k
<1>11. QED
  BY <1>1, <1>2, <1>7, <1>8, <1>9, <1>10, GoesOn

LEMMA ProfitsStep == ASSUME SiteInv, NEW r \in Readers, QueryProfits(r) PROVE JobsInv'
<1> DEFINE j == job[r]
           rows == Within(HasVerdict, j.since, j.until)
           e == GetBuilderProfits(j.since, j.until)
           total == Sum(e)
<1>1. HasVerdict \in SUBSET Rows /\ JobsInv /\ DOMAIN job = Readers /\ TableInv
  BY VerdictRows DEF SiteInv, JobsInv
<1>2. JobOK(r, j, HasVerdict) /\ j.pc = "profits" /\ DOMAIN j = DOMAIN Idle
  BY <1>1 DEF JobsInv, QueryProfits, JobOK, JobShape
<1>3. PICK shown \in ConsolidateBuilderProfitEntries(e) :
        job' = [job EXCEPT ![r].pc = AfterProfits(r), ![r].profits = shown, ![r].profitTotal = total]
  BY DEF QueryProfits
<1>4. rows = InRange(j.since, j.until)
  BY RangeIs
<1>5. Entries(e) /\ total = Slots(rows) /\ total \in Nat
  BY <1>1, <1>4, BlocksOfRange DEF GetBuilderProfits
<1>6. Shown(shown, total)
  BY <1>5, ConsolidatedIsShown
<1> HIDE DEF total, e
<1> DEFINE k == [j EXCEPT !.pc = AfterProfits(r), !.profits = shown, !.profitTotal = total]
<1>7. DOMAIN job' = DOMAIN job /\ job'[r] = k /\ \A q \in Readers : q # r => job'[q] = job[q]
  BY <1>1, <1>3
<1>8. k.since = j.since /\ k.until = j.until
  BY <1>2 DEF Idle
<1>9. JobOK(r, k, HasVerdict)
  BY <1>1, <1>2, <1>5, <1>6, ProfitsJob
<1>10. UNCHANGED <<now, table, extra>>
  BY DEF QueryProfits, dbVars
<1> HIDE DEF k
<1>11. QED
  BY <1>1, <1>2, <1>7, <1>8, <1>9, <1>10, GoesOn

LEMMA ByRelayStep == ASSUME SiteInv, NEW t \in DOMAIN Spans, NEW a, QueryByRelay(t, a) PROVE JobsInv'
<1> DEFINE j == job[t]
           rows == Within(HasVerdict, j.since, j.until)
           e == GetTopBuildersOfRelay(j.since, j.until, a)
           total == Sum(e)
<1>1. /\ HasVerdict \in SUBSET Rows /\ JobsInv /\ DOMAIN job = Readers /\ TableInv /\ t \in Readers
  BY VerdictRows DEF SiteInv, JobsInv, Readers
<1>2. /\ JobOK(t, j, HasVerdict) /\ j.pc = "byRelay" /\ DOMAIN j = DOMAIN Idle
      /\ a \in DOMAIN j.relays
  BY <1>1 DEF JobsInv, QueryByRelay, JobOK, JobShape
<1>3. PICK shown \in ConsolidateBuilderEntries(e) :
        job' = [job EXCEPT ![t].byRelay = Put(@, a, shown)]
  BY DEF QueryByRelay
<1>31. rows = InRange(j.since, j.until)
  BY RangeIs
<1>4. Entries(e) /\ total = Slots(OfRelay(rows, a)) /\ total \in Nat
  <2>1. OfRelay(rows, a) \in SUBSET InRange(j.since, j.until)
    BY <1>31 DEF OfRelay
  <2>2. e = BlocksOf(OfRelay(rows, a))
    BY <1>31 DEF GetTopBuildersOfRelay, OfRelay
  <2> HIDE DEF e
  <2>3. QED
    BY <1>1, <2>1, <2>2, BlocksOfRange
<1>41. Shown(shown, total)
  BY <1>4, ConsolidatedIsShown
<1> HIDE DEF total, e
<1> DEFINE k == [j EXCEPT !.byRelay = Put(j.byRelay, a, shown)]
<1>5. DOMAIN job' = DOMAIN job /\ job'[t] = k /\ \A q \in Readers : q # t => job'[q] = job[q]
  BY <1>1, <1>3
<1>6. k.since = j.since /\ k.until = j.until
  BY <1>2 DEF Idle
<1>7. JobOK(t, k, HasVerdict)
  BY <1>1, <1>2, <1>4, <1>41, ByRelayJob
<1>8. UNCHANGED <<now, table, extra>>
  BY DEF QueryByRelay, dbVars
<1> HIDE DEF k
<1>9. QED
  BY <1>1, <1>2, <1>5, <1>6, <1>7, <1>8, GoesOn

LEMMA RenderStep == ASSUME SiteInv, NEW t \in DOMAIN Spans, Render(t) PROVE JobsInv'
<1> DEFINE j == job[t]
           k == [j EXCEPT !.pc = "save", !.slot = latestSlot]
<1>1. /\ HasVerdict \in SUBSET Rows /\ JobsInv /\ DOMAIN job = Readers /\ t \in Readers
  BY VerdictRows DEF SiteInv, JobsInv, Readers
<1>2. /\ JobOK(t, j, HasVerdict) /\ j.pc = "byRelay" /\ DOMAIN j = DOMAIN Idle
      /\ DOMAIN j.byRelay = DOMAIN j.relays
  BY <1>1 DEF JobsInv, Render, JobOK, JobShape
<1>3. DOMAIN job' = DOMAIN job /\ job'[t] = k /\ \A q \in Readers : q # t => job'[q] = job[q]
  BY <1>1 DEF Render
<1>4. k.since = j.since /\ k.until = j.until
  BY <1>2 DEF Idle
<1>5. JobOK(t, k, HasVerdict)
  BY <1>1, <1>2, RenderJob
<1>6. UNCHANGED <<now, table, extra>>
  BY DEF Render, dbVars
<1> HIDE DEF k
<1>7. QED
  BY <1>1, <1>2, <1>3, <1>4, <1>5, <1>6, GoesOn

LEMMA ResetStep == ASSUME SiteInv, NEW s, ResetVerdict(s) PROVE TableInv' /\ JobsInv'
<1>1. /\ table' = table /\ now' = now /\ extra' = Written(s, Unchecked)
      /\ job' = [r \in Readers |-> [job[r] EXCEPT !.clean = job[r].pc = "idle"]]
  BY DEF ResetVerdict
<1>2. TableInv /\ JobsInv
  BY DEF SiteInv
<1>3. TableInv'
  BY <1>1, <1>2, WriteStep
<1>4. \A r \in Readers : job'[r] = [job[r] EXCEPT !.clean = job[r].pc = "idle"]
  BY <1>1
<1>5. \A r \in Readers : JobOK(r, job'[r], HasVerdict')
  <2>1. TAKE r \in Readers
  <2>2. JobOK(r, job[r], HasVerdict)
    BY <1>2 DEF JobsInv
  <2>3. QED
    BY <1>4, <2>2, MarkedJob
<1>6. \A r \in Readers : /\ job'[r].pc = job[r].pc /\ job'[r].since = job[r].since
                         /\ job'[r].until = job[r].until
  <2>1. TAKE r \in Readers
  <2>2. DOMAIN job[r] = DOMAIN Idle
    BY <1>2 DEF JobsInv, JobOK, JobShape
  <2>3. QED
    BY <1>4, <2>2 DEF Idle
<1>7. Daily \in Readers /\ Weekly \in Readers /\ DOMAIN job' = Readers
  BY <1>1 DEF Readers
<1>8. DailyOK(job'[Daily], now') /\ WeeklyOK(job'[Weekly], now')
  BY <1>1, <1>2, <1>6, <1>7 DEF JobsInv, DailyOK, WeeklyOK
<1>9. QED
  BY <1>3, <1>5, <1>7, <1>8 DEF JobsInv

LEMMA TableAndJobsStep == SiteInv /\ [Next]_vars => TableInv' /\ JobsInv'
<1> SUFFICES ASSUME SiteInv, [Next]_vars PROVE TableInv' /\ JobsInv'
  OBVIOUS
<1>1. TableInv /\ JobsInv /\ now \in Int
  BY TimeAssumption DEF SiteInv, HealthInv
<1>2. ASSUME UNCHANGED <<table, extra>>, job' = job, now' \in Int, now <= now'
      PROVE  TableInv' /\ JobsInv'
  <2>1. TableInv' /\ HasVerdict' = HasVerdict
    BY <1>1, <1>2, TableStays
  <2>2. QED
    BY <1>1, <1>2, <2>1, JobsStay
<1>3. ASSUME UNCHANGED <<now, table, extra, job>> PROVE TableInv' /\ JobsInv'
  BY <1>1, <1>2, <1>3
<1>4. ASSUME UNCHANGED <<table, extra>> PROVE TableInv'
  BY <1>1, <1>4, TableStays
<1>5. CASE Tick
  BY <1>1, <1>2, <1>5 DEF Tick
<1>6. ASSUME NEW r \in Rows, InsertPayload(r) PROVE TableInv' /\ JobsInv'
  <2>1. TableInv' /\ HasVerdict' = HasVerdict
    BY <1>1, <1>6, InsertStep
  <2>2. job' = job /\ now' = now
    BY <1>6 DEF InsertPayload
  <2>3. QED
    BY <1>1, <2>1, <2>2, JobsStay
<1>7. ASSUME NEW s \in SlotsOf(Rows), NEW x \in Extras, CheckPayload(s, x) PROVE TableInv' /\ JobsInv'
  <2>1. table' = table /\ extra' = Written(s, x) /\ job' = job /\ now' = now
    BY <1>7 DEF CheckPayload
  <2>2. x # Unchecked
    BY RowsAssumption
  <2>3. TableInv' /\ HasVerdict \subseteq HasVerdict'
    BY <1>1, <2>1, <2>2, WriteStep
  <2>4. QED
    BY <1>1, <2>1, <2>3, JobsStay
<1>8. ASSUME NEW s \in SlotsOf(Rows), ResetVerdict(s) PROVE TableInv' /\ JobsInv'
  BY <1>8, ResetStep
<1>9. CASE ReadLatestSlot
  BY <1>3, <1>9 DEF ReadLatestSlot, dbVars
<1>10. CASE StoreLatestSlot
  BY <1>3, <1>10 DEF StoreLatestSlot, dbVars
<1>11. ASSUME NEW t \in DOMAIN Spans, StartUpdate(t) PROVE TableInv' /\ JobsInv'
  BY <1>4, <1>11, StartUpdateStep DEF StartUpdate, dbVars
<1>12. ASSUME NEW t \in DOMAIN Spans, Render(t) PROVE TableInv' /\ JobsInv'
  BY <1>4, <1>12, RenderStep DEF Render, dbVars
<1>13. ASSUME NEW t \in DOMAIN Spans, NEW a, QueryByRelay(t, a) PROVE TableInv' /\ JobsInv'
  BY <1>4, <1>13, ByRelayStep DEF QueryByRelay, dbVars
<1>14. ASSUME NEW r \in Readers, SavePage(r) \/ UpdateFails(r) \/ Respond(r) PROVE TableInv' /\ JobsInv'
  <2>1. job' = [job EXCEPT ![r] = Idle] /\ UNCHANGED <<now, table, extra>>
    BY <1>14 DEF SavePage, UpdateFails, Respond, dbVars
  <2>2. QED
    BY <1>1, <1>4, <2>1, ComesToRest
<1>15. ASSUME NEW d \in DayOf(Start) - 1 .. DayOf(MaxNow), DailyStats(d) PROVE TableInv' /\ JobsInv'
  BY <1>4, <1>15, DailyStep DEF DailyStats, dbVars
<1>16. CASE Cowstats
  BY <1>4, <1>16, CowstatsStep DEF Cowstats, dbVars
<1>17. ASSUME NEW r \in Readers, QueryRelays(r) PROVE TableInv' /\ JobsInv'
  BY <1>4, <1>17, RelaysStep DEF QueryRelays, dbVars
<1>18. ASSUME NEW r \in Readers, QueryBuilders(r) PROVE TableInv' /\ JobsInv'
  BY <1>4, <1>18, BuildersStep DEF QueryBuilders, dbVars
<1>19. ASSUME NEW r \in Readers, QueryProfits(r) PROVE TableInv' /\ JobsInv'
  BY <1>4, <1>19, ProfitsStep DEF QueryProfits, dbVars
<1>20. CASE UNCHANGED vars
  BY <1>3, <1>20 DEF vars
<1>21. DOMAIN Spans \subseteq Readers /\ Daily \in Readers /\ Weekly \in Readers
  BY DEF Readers
<1>22. CASE Next
  <2>1. \/ Tick \/ ReadLatestSlot \/ StoreLatestSlot \/ Cowstats
        \/ \E r \in Rows : InsertPayload(r)
        \/ \E s \in SlotsOf(Rows), x \in Extras : CheckPayload(s, x)
        \/ \E s \in SlotsOf(Rows) : ResetVerdict(s)
        \/ \E t \in DOMAIN Spans : StartUpdate(t)
        \/ \E t \in DOMAIN Spans : Render(t)
        \/ \E t \in DOMAIN Spans, a \in {r.relay : r \in Rows} : QueryByRelay(t, a)
        \/ \E r \in Readers : SavePage(r) \/ UpdateFails(r) \/ Respond(r)
        \/ \E d \in DayOf(Start) - 1 .. DayOf(MaxNow) : DailyStats(d)
        \/ \E r \in Readers : QueryRelays(r)
        \/ \E r \in Readers : QueryBuilders(r)
        \/ \E r \in Readers : QueryProfits(r)
    BY <1>21, <1>22 DEF Next
  <2>2. QED
    BY <1>5, <1>6, <1>7, <1>8, <1>9, <1>10, <1>11, <1>12, <1>13, <1>14, <1>15, <1>16, <1>17, <1>18,
       <1>19, <2>1
<1>23. QED
  BY <1>20, <1>22

LEMMA PageStep == page \subseteq DOMAIN Spans /\ [Next]_vars => (page \subseteq DOMAIN Spans)'
  BY DEF Next, vars, dbVars, Tick, InsertPayload, CheckPayload, ResetVerdict, ReadLatestSlot,
         StoreLatestSlot, StartUpdate, Render, SavePage, QueryByRelay, DailyStats, Cowstats,
         QueryRelays, QueryBuilders, QueryProfits, UpdateFails, Respond

LEMMA SiteInvariant == Spec => []SiteInv
<1>1. SiteInv /\ [Next]_vars => SiteInv'
  BY HealthStep, TableAndJobsStep, PageStep DEF SiteInv
<1>2. QED
  BY <1>1, SiteInit, PTL DEF Spec

\* Readers go through the steps that their pages need, with numbers for relays
\* and builders that there are; the latest slot is 0 or one of a payload.
THEOREM TypeCorrect == Spec => []TypeOK
<1>1. SiteInv => TypeOK
  <2>1. SUFFICES ASSUME SiteInv PROVE TypeOK
    OBVIOUS
  <2>2. HealthInv /\ TableInv /\ JobsInv /\ page \subseteq DOMAIN Spans
    BY <2>1 DEF SiteInv
  <2>3. SlotsOf(table) \subseteq SlotsOf(Rows)
    BY <2>2 DEF TableInv, SlotsOf
  <2>4. /\ now \in Start .. MaxNow
        /\ slotRead \in {Nothing} \cup {{s} : s \in SlotsOf(Rows)}
        /\ latestSlot \in {0} \cup SlotsOf(Rows)
    BY <2>2, <2>3 DEF HealthInv
  <2>5. \A r \in Readers :
          /\ DOMAIN job[r] = DOMAIN Idle
          /\ job[r].pc \in Steps(r)
          /\ DOMAIN job[r].relays \subseteq RelayNames
          /\ DOMAIN job[r].builders \cup DOMAIN job[r].profits \subseteq Names
          /\ DOMAIN job[r].byRelay \subseteq DOMAIN job[r].relays
          /\ \A a \in DOMAIN job[r].byRelay : DOMAIN job[r].byRelay[a] \subseteq Names
    <3>1. TAKE r \in Readers
    <3>2. JobShape(r, job[r])
      BY <2>2 DEF JobsInv, JobOK
    <3>3. QED
      BY <3>2 DEF JobShape, Shown
  <2>6. QED
    BY <2>2, <2>4, <2>5 DEF TypeOK, TableInv, JobsInv, Steps
<1>2. QED
  BY <1>1, SiteInvariant, PTL

\* However the queries of a page interleave with new payloads, verdicts and
\* other pages: as long as no verdict is taken back meanwhile, no part shows less
\* than one read before it, and a relay more payloads than blocks only by the
\* payloads that it has beyond one per slot.  The groups add up to all blocks, whatever order
\* groups are tried in and builders come in, unless a builder without a group
\* bears the name of one.  The lists of payloads have no gap.
THEOREM CoherenceHolds == Spec => []PagesAreCoherent
<1>1. SiteInv => PagesAreCoherent
  <2>1. SUFFICES ASSUME SiteInv PROVE PagesAreCoherent
    OBVIOUS
  <2>2. \A r \in Readers : JobShape(r, job[r]) /\ JobCounts(r, job[r], HasVerdict)
    BY <2>1 DEF SiteInv, JobsInv, JobOK
  <2>3. ASSUME NEW r \in Readers PROVE LaterPartsSeeMore(r)
    <3> DEFINE rows == Within(HasVerdict, job[r].since, job[r].until)
    <3>1. \A a : Surplus(r, a) = Beyond(OfRelay(rows, a))
      BY RangeIs DEF Surplus, Beyond, Slots, OfRelay
    <3>2. SUFFICES ASSUME job[r].pc \in {"save", "respond"}, job[r].clean
                   PROVE  /\ \A a \in DOMAIN job[r].relays :
                               /\ job[r].relays[a] <= job[r].total + Beyond(OfRelay(rows, a))
                               /\ job[r].pc = "save" /\ Free(job[r].byRelay[a]) =>
                                    job[r].relays[a] <= Sum(job[r].byRelay[a]) + Beyond(OfRelay(rows, a))
                          /\ r # Weekly => job[r].total <= job[r].profitTotal
      BY <3>1 DEF LaterPartsSeeMore, Done
    <3>3. /\ \A a \in DOMAIN job[r].relays : job[r].relays[a] <= job[r].total + Beyond(OfRelay(rows, a))
          /\ r # Weekly => job[r].total <= job[r].profitTotal
          /\ \A a \in DOMAIN job[r].byRelay :
               Free(job[r].byRelay[a]) =>
                 job[r].relays[a] <= Sum(job[r].byRelay[a]) + Beyond(OfRelay(rows, a))
      BY <2>2, <3>2 DEF JobCounts
    <3>4. job[r].pc = "save" => DOMAIN job[r].byRelay = DOMAIN job[r].relays
      BY <2>2 DEF JobShape
    <3> HIDE DEF rows
    <3>5. QED
      BY <3>3, <3>4
  <2>4. ASSUME NEW r \in Readers PROVE PartsAddUp(r)
    <3>1. Shown(job[r].builders, job[r].total) /\ Shown(job[r].profits, job[r].profitTotal)
      BY <2>2 DEF JobShape
    <3>2. QED
      BY <3>1 DEF Shown, PartsAddUp
  <2>5. table \subseteq Rows
    BY <2>1 DEF SiteInv, TableInv
  <2>6. QED
    BY <2>3, <2>4, <2>5, ListsHaveNoGap DEF PagesAreCoherent
<1>2. QED
  BY <1>1, SiteInvariant, PTL

\* A page counts every slot that started in its range and had a verdict when the
\* page was begun, and none that starts a slot before it or earlier, or later; a
\* day's page is of a day that is over, a week's runs from one Wednesday to the
\* next and ends at one that has come.
THEOREM RangesHold == Spec => []PagesCountTheirRange
<1>1. SiteInv => PagesCountTheirRange
  <2>1. SUFFICES ASSUME SiteInv PROVE PagesCountTheirRange
    OBVIOUS
  <2>2. \A r \in Readers : JobShape(r, job[r]) /\ JobCounts(r, job[r], HasVerdict)
    BY <2>1 DEF SiteInv, JobsInv, JobOK
  <2>3. HasVerdict \in SUBSET Rows
    BY <2>1, VerdictRows DEF SiteInv
  <2>4. ASSUME NEW r \in Readers, job[r].pc \in {"save", "respond"}, job[r].clean
        PROVE  /\ job[r].seen <= job[r].total
               /\ job[r].total <= Cardinality(SlotsStarting(job[r].since - SlotLen + 1, job[r].until))
    <3> DEFINE since == job[r].since
               until == job[r].until
               W == Slots(Within(HasVerdict, since, until))
               B == Cardinality(StartingIn(HasVerdict, since - SlotLen + 1, until))
    <3>1. job[r].seen <= job[r].total /\ job[r].total <= W
      BY <2>2, <2>4 DEF JobCounts
    <3>2. since \in Int /\ until \in Int /\ job[r].total \in Nat
      BY <2>2 DEF JobShape
    <3>3. W \in Nat /\ B \in Nat /\ W <= B
      BY <2>3, <3>2, RangeCounts
    <3>4. B = Cardinality(SlotsStarting(since - SlotLen + 1, until))
      BY RangeIs
    <3> HIDE DEF W, B
    <3>5. job[r].total <= B
      BY <3>1, <3>2, <3>3
    <3>6. QED
      BY <3>1, <3>4, <3>5
  <2>5. DailyOK(job[Daily], now) /\ WeeklyOK(job[Weekly], now)
    BY <2>1 DEF SiteInv, JobsInv
  <2>6. QED
    BY <2>4, <2>5 DEF PagesCountTheirRange, Done, DailyOK, WeeklyOK, StartsWeek
<1>2. QED
  BY <1>1, SiteInvariant, PTL
=============================================================================
