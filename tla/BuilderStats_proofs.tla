------------------------ MODULE BuilderStats_proofs ------------------------
(***************************************************************************)
(* Proofs about BuilderStats, for all payloads, names and groups, every    *)
(* length of slots and days, and any number of runs and checks.            *)
(***************************************************************************)
EXTENDS BuilderStats, SetLemmas, TLAPS

-----------------------------------------------------------------------------
(* Slots, times and days.                                                   *)

\* Division by a positive number rounds down.
LEMMA Division ==
    ASSUME NEW m \in Nat \ {0}, NEW a \in Int
    PROVE  a \div m \in Int /\ m * (a \div m) <= a /\ a < m * (a \div m) + m
  OBVIOUS

\* The slots from SlotStart to SlotEnd are those that start in the range.
LEMMA SlotsOfRange ==
    ASSUME NEW t \in Int, NEW s \in Int
    PROVE  /\ SlotStart(t) <= s <=> t <= SlotToTime(s)
           /\ s <= SlotEnd(t) <=> SlotToTime(s) <= t
<1> DEFINE k == (t - Genesis) \div SlotLen
<1>1. SlotLen \in Nat \ {0} /\ Genesis \in Nat /\ t - Genesis \in Int
  BY TimeAssumption
<1>2. k \in Int /\ SlotLen * k <= t - Genesis /\ t - Genesis < SlotLen * k + SlotLen
  BY <1>1, Division
<1>3. k = TimeToSlot(t)
  BY DEF TimeToSlot
<1> HIDE DEF k
<1>4. /\ s > k => SlotLen * s >= SlotLen * k + SlotLen
      /\ s <= k => SlotLen * s <= SlotLen * k
      /\ s < k => SlotLen * s + SlotLen <= SlotLen * k
      /\ SlotLen * s \in Int /\ SlotLen * k \in Int
      /\ s * SlotLen = SlotLen * s /\ k * SlotLen = SlotLen * k
      /\ s = k => SlotLen * s = SlotLen * k
  <2>1. SlotLen * s \in Int /\ SlotLen * k \in Int
    BY <1>1, <1>2
  <2>2. s > k => SlotLen * s >= SlotLen * k + SlotLen
    BY <1>1, <1>2
  <2>3. s <= k => SlotLen * s <= SlotLen * k
    BY <1>1, <1>2
  <2>4. s < k => SlotLen * s + SlotLen <= SlotLen * k
    BY <1>1, <1>2
  <2>5. s * SlotLen = SlotLen * s /\ k * SlotLen = SlotLen * k
    BY <1>1, <1>2
  <2>6. QED
    BY <2>1, <2>2, <2>3, <2>4, <2>5
<1> DEFINE Ls == SlotLen * s
           Lk == SlotLen * k
<1>5. SlotToTime(s) = Ls + Genesis /\ SlotToTime(k) = Lk + Genesis
  BY <1>4 DEF SlotToTime
<1>6. /\ Ls \in Int /\ Lk \in Int /\ (s > k => Ls >= Lk + SlotLen) /\ (s <= k => Ls <= Lk)
      /\ (s < k => Ls + SlotLen <= Lk) /\ Lk <= t - Genesis /\ t - Genesis < Lk + SlotLen
      /\ (s = k => Ls = Lk)
  BY <1>2, <1>4
<1> HIDE DEF Ls, Lk
<1>7. SlotStart(t) = IF SlotToTime(k) < t THEN k + 1 ELSE k
  BY <1>3 DEF SlotStart
<1>8. SlotEnd(t) = IF SlotToTime(k) > t THEN k + 1 ELSE k
  BY <1>3 DEF SlotEnd
<1>9. SlotStart(t) <= s <=> t <= SlotToTime(s)
  BY <1>1, <1>2, <1>5, <1>6, <1>7
<1>10. s <= SlotEnd(t) <=> SlotToTime(s) <= t
  BY <1>1, <1>2, <1>5, <1>6, <1>8
<1>11. QED
  BY <1>9, <1>10

\* The day of a slot.
LEMMA DayOfSlot ==
    ASSUME NEW s \in Nat
    PROVE  /\ SlotToTime(s) \in Nat
           /\ DayOf(s) \in Nat
           /\ BeginningOfDay(DayOf(s)) <= SlotToTime(s)
           /\ SlotToTime(s) < BeginningOfDay(DayOf(s) + 1)
<1>1. SlotLen \in Nat \ {0} /\ Genesis \in Nat /\ DayLen \in Nat \ {0}
  BY TimeAssumption
<1>2. SlotToTime(s) \in Nat
  BY <1>1 DEF SlotToTime
<1> DEFINE d == SlotToTime(s) \div DayLen
<1>3. d \in Int /\ DayLen * d <= SlotToTime(s) /\ SlotToTime(s) < DayLen * d + DayLen
  BY <1>1, <1>2, Division
<1>4. d = DayOf(s)
  BY DEF DayOf
<1> HIDE DEF d
<1>5. d * DayLen = DayLen * d /\ (d + 1) * DayLen = DayLen * d + DayLen
  BY <1>1, <1>3
<1>6. d >= 0
  BY <1>1, <1>2, <1>3
<1>7. QED
  BY <1>2, <1>3, <1>4, <1>5, <1>6 DEF BeginningOfDay

\* Days follow one another.
LEMMA DaysInOrder ==
    ASSUME NEW c \in Int, NEW d \in Int
    PROVE  /\ BeginningOfDay(c) \in Int
           /\ c < d => BeginningOfDay(c + 1) <= BeginningOfDay(d)
           /\ c <= d => BeginningOfDay(c) <= BeginningOfDay(d)
           /\ BeginningOfDay(c) < BeginningOfDay(c + 1)
<1>1. DayLen \in Nat \ {0}
  BY TimeAssumption
<1>2. c * DayLen \in Int /\ (c + 1) * DayLen = c * DayLen + DayLen
  BY <1>1
<1>3. c < d => c * DayLen + DayLen <= d * DayLen
  BY <1>1
<1>4. c <= d => c * DayLen <= d * DayLen
  BY <1>1
<1>5. QED
  BY <1>1, <1>2, <1>3, <1>4 DEF BeginningOfDay

\* No slot starts with a day.
LEMMA SlotsStartWithinDays ==
    ASSUME NEW s \in Int, NEW d \in Int
    PROVE  SlotToTime(s) # BeginningOfDay(d)
<1>1. /\ SlotLen \in Nat \ {0} /\ Genesis \in Nat /\ DayLen \in Nat \ {0}
      /\ DayLen % SlotLen = 0 /\ Genesis % SlotLen # 0
  BY TimeAssumption
<1>2. SUFFICES ASSUME s * SlotLen + Genesis = d * DayLen PROVE FALSE
  BY DEF SlotToTime, BeginningOfDay
<1> DEFINE q == DayLen \div SlotLen
<1>3. q \in Int /\ DayLen = SlotLen * q
  BY <1>1
<1> HIDE DEF q
<1> DEFINE k == d * q - s
<1>4. k \in Int /\ Genesis = SlotLen * k
  <2>1. d * DayLen = SlotLen * (d * q)
    BY <1>1, <1>3
  <2>2. s * SlotLen = SlotLen * s
    BY <1>1
  <2>3. SlotLen * (d * q - s) = SlotLen * (d * q) - SlotLen * s
    BY <1>1, <1>3
  <2>4. d * q \in Int /\ SlotLen * (d * q) \in Int /\ SlotLen * s \in Int
    BY <1>1, <1>3
  <2>5. QED
    BY <1>1, <1>2, <2>1, <2>2, <2>3, <2>4
<1> HIDE DEF k
<1>5. Genesis % SlotLen = 0
  BY <1>1, <1>4
<1>6. QED
  BY <1>1, <1>5

-----------------------------------------------------------------------------
(* The inductive invariant.                                                 *)

\* The statistics of one type count every slot of the day, under a name each.
EntryOf(type, d, name, x) ==
    [type |-> type, day |-> d, name |-> x,
     n |-> Cardinality({s \in SlotsOfDay(d) : name[s] = x})]

Full(X, type, d) ==
    \E name \in [SlotsOfDay(d) -> AllNames] :
        \A s \in SlotsOfDay(d) : EntryOf(type, d, name, name[s]) \in X

\* Slots of the day that may count under a name.
Named(type, d, x) ==
    {s \in SlotsOfDay(d) : \E r \in table : r.slot = s /\ x \in NameAsStored(type, r)}

\* Days before the last saved one, and those that the run at work leaves behind
\* because they have no payload.
Passed(d) ==
    \/ stats # {} /\ d < LastEntryDay
    \/ d \notin PendingDays /\ \E c \in PendingDays : d < c

OneEntryPerKey(X) == \A e, f \in X : Key(e) = Key(f) => e = f

\* Statistics come in both types.
HasExtraData(X) == \A e \in X : \E f \in X : f.type = "extra_data" /\ f.day = e.day

NotMore(X) ==
    \A e \in X : (e.type = "extra_data" => e.day \notin renamed) =>
        e.n <= Cardinality(Named(e.type, e.day, e.name))

StatsInv ==
    /\ TypeOK
    /\ \A r \in table : DayOf(r.slot) <= today
    /\ IsFiniteSet(stats) /\ IsFiniteSet(pending)
    /\ OneEntryPerKey(pending)
    /\ HasExtraData(stats) /\ HasExtraData(pending)
    /\ NotMore(stats) /\ NotMore(pending)
    /\ \A d \in due, type \in Types : Passed(d) => Full(stats, type, d)
    /\ \A d \in due \cap PendingDays, type \in Types : Full(pending, type, d)

-----------------------------------------------------------------------------
(* What the invariant says of the totals.                                   *)

LEMMA FiniteSlots ==
    ASSUME StatsInv, NEW d
    PROVE  /\ IsFiniteSet(table) /\ IsFiniteSet(SlotsIn(table)) /\ SlotsIn(table) \subseteq Nat
           /\ IsFiniteSet(SlotsOfDay(d)) /\ SlotsOfDay(d) \subseteq Nat
<1>1. IsFiniteSet(table) /\ table \subseteq Rows
  BY RowsAssumption, FS_Subset DEF StatsInv, TypeOK
<1> DEFINE f == [r \in Rows |-> r.slot]
<1>2. IsFiniteSet({f[r] : r \in table})
  BY <1>1, FiniteImage
<1>3. {f[r] : r \in table} = SlotsIn(table)
  BY <1>1 DEF SlotsIn
<1>4. SlotsIn(table) \subseteq Nat
  BY <1>1, RowsAssumption DEF SlotsIn
<1>5. SlotsOfDay(d) \subseteq SlotsIn(table)
  BY DEF SlotsOfDay
<1>6. QED
  BY <1>1, <1>2, <1>3, <1>4, <1>5, FS_Subset

LEMMA FiniteSaved ==
    ASSUME StatsInv, NEW type, NEW d
    PROVE  /\ IsFiniteSet(SavedOf(type, d))
           /\ SavedOf(type, d) \subseteq stats
           /\ \A e \in SavedOf(type, d) : e.n \in Nat /\ e.type = type /\ e.day = d
           /\ Total(type, d) =
                SumFunctionOnSet([e \in SavedOf(type, d) |-> e.n], SavedOf(type, d))
           /\ Total(type, d) \in Nat
<1>1. SavedOf(type, d) \subseteq stats /\ IsFiniteSet(SavedOf(type, d))
  BY FS_Subset DEF SavedOf, StatsInv
<1>2. \A e \in SavedOf(type, d) : e.n \in Nat /\ e.type = type /\ e.day = d
  BY DEF SavedOf, StatsInv, TypeOK, Stats
<1>3. Total(type, d) = SumFunctionOnSet([e \in SavedOf(type, d) |-> e.n], SavedOf(type, d))
  BY DEF Total, SumFunction
<1>4. \A e \in SavedOf(type, d) : [x \in SavedOf(type, d) |-> x.n][e] \in Nat
  BY <1>2
<1>5. QED
  BY <1>1, <1>2, <1>3, <1>4, SumType

\* Full statistics count every slot.
LEMMA FullCountsAll ==
    ASSUME StatsInv, NEW type, NEW d, Full(stats, type, d)
    PROVE  Total(type, d) >= Cardinality(SlotsOfDay(d))
<1> DEFINE X == SavedOf(type, d)
           D == SlotsOfDay(d)
           f == [e \in X |-> e.n]
<1>1. PICK name \in [D -> AllNames] : \A s \in D : EntryOf(type, d, name, name[s]) \in stats
  BY DEF Full
<1> DEFINE g == [e \in X |-> IF e = EntryOf(type, d, name, e.name)
                             THEN {u \in D : name[u] = e.name} ELSE {}]
<1>2. IsFiniteSet(X) /\ IsFiniteSet(D)
  BY FiniteSaved, FiniteSlots
<1>3. ASSUME NEW e \in X PROVE f[e] \in Nat /\ g[e] \subseteq D /\ f[e] >= Cardinality(g[e])
  <2>1. f[e] = e.n /\ e.n \in Nat
    BY FiniteSaved
  <2>2. CASE e = EntryOf(type, d, name, e.name)
    <3>1. e.n = Cardinality({u \in D : name[u] = e.name})
      BY <2>2 DEF EntryOf
    <3>2. g[e] = {u \in D : name[u] = e.name}
      BY <2>2
    <3>3. f[e] = Cardinality(g[e]) /\ g[e] \subseteq D
      BY <2>1, <3>1, <3>2
    <3> HIDE DEF f, g
    <3>4. QED
      BY <2>1, <3>3
  <2>3. CASE e # EntryOf(type, d, name, e.name)
    <3>1. g[e] = {}
      BY <2>3
    <3>2. Cardinality(g[e]) = 0
      BY <3>1, FS_EmptySet
    <3> HIDE DEF f, g
    <3>3. QED
      BY <2>1, <3>1, <3>2
  <2>4. QED
    BY <2>2, <2>3
<1>4. ASSUME NEW s \in D PROVE \E e \in X : s \in g[e]
  <2> DEFINE e == EntryOf(type, d, name, name[s])
  <2>1. e.type = type /\ e.day = d /\ e.name = name[s]
    BY DEF EntryOf
  <2>2. e \in X /\ e = EntryOf(type, d, name, e.name)
    BY <1>1, <2>1 DEF SavedOf
  <2> HIDE DEF e
  <2>3. g[e] = {u \in D : name[u] = e.name}
    BY <2>2
  <2>4. QED
    BY <2>1, <2>2, <2>3
<1>5. Total(type, d) = SumFunctionOnSet(f, X)
  BY FiniteSaved
<1> HIDE DEF X, D, f, g
<1>6. SumFunctionOnSet(f, X) >= Cardinality(D)
  BY <1>2, <1>3, <1>4, SumCovers
<1>7. QED
  BY <1>5, <1>6 DEF D

\* Statistics with an entry for each name count no slot twice, if each slot of
\* the day has one name.
LEMMA OneNameCountsOnce ==
    ASSUME StatsInv, NEW type \in Types, NEW d, OneName(type, d)
    PROVE  Total(type, d) <= Cardinality(SlotsOfDay(d))
<1> DEFINE X == SavedOf(type, d)
           D == SlotsOfDay(d)
           f == [e \in X |-> e.n]
           g == [e \in X |-> Named(type, d, e.name)]
<1>1. IsFiniteSet(X) /\ IsFiniteSet(D)
  BY FiniteSaved, FiniteSlots
<1>2. ASSUME NEW e \in X PROVE f[e] \in Nat /\ g[e] \subseteq D /\ f[e] <= Cardinality(g[e])
  <2>1. e \in stats /\ e.n \in Nat /\ e.type = type /\ e.day = d
    BY FiniteSaved
  <2>2. e.type = "extra_data" => e.day \notin renamed
    BY <2>1 DEF OneName
  <2>3. e.n <= Cardinality(Named(type, d, e.name))
    BY <2>1, <2>2 DEF StatsInv, NotMore
  <2>4. f[e] = e.n /\ g[e] = Named(type, d, e.name) /\ g[e] \subseteq D
    BY DEF Named
  <2> HIDE DEF f, g
  <2>5. QED
    BY <2>1, <2>3, <2>4
<1>3. ASSUME NEW e1 \in X, NEW e2 \in X, e1 # e2 PROVE g[e1] \cap g[e2] = {}
  <2>1. e1 \in stats /\ e2 \in stats /\ e1.type = e2.type /\ e1.day = e2.day
    BY DEF SavedOf
  <2>2. e1.name # e2.name
    BY <1>3, <2>1 DEF StatsInv, TypeOK, Key
  <2>3. ASSUME NEW s \in Named(type, d, e1.name), s \in Named(type, d, e2.name) PROVE FALSE
    <3>1. DayOf(s) = d
      BY DEF Named, SlotsOfDay
    <3>2. PICK r1 \in table : r1.slot = s /\ e1.name \in NameAsStored(type, r1)
      BY DEF Named
    <3>3. PICK r2 \in table : r2.slot = s /\ e2.name \in NameAsStored(type, r2)
      BY <2>3 DEF Named
    <3> DEFINE both == NameAsStored(type, r1) \cup NameAsStored(type, r2)
    <3>4. Cardinality(both) = 1
      BY <3>1, <3>2, <3>3 DEF OneName
    <3>5. IsFiniteSet(both)
      <4>1. ASSUME NEW r \in table PROVE IsFiniteSet(NameAsStored(type, r))
        <5>1. extra[r] \in Extras \cup {NoExtra}
          BY DEF StatsInv, TypeOK
        <5>2. IsFiniteSet(Groups[extra[r]])
          BY <5>1, RowsAssumption
        <5>3. IsFiniteSet({extra[r]}) /\ IsFiniteSet({r.pubkey})
          BY FS_Singleton
        <5>4. QED
          BY <5>2, <5>3 DEF NameAsStored, BuilderNames
      <4>2. QED
        BY <4>1, UnionCardinality
    <3>6. e1.name \in both /\ e2.name \in both
      BY <3>2, <3>3
    <3> HIDE DEF both
    <3>7. PICK x : both = {x}
      BY <3>4, <3>5, FS_Singleton
    <3>8. QED
      BY <2>2, <3>6, <3>7
  <2>4. g[e1] = Named(type, d, e1.name) /\ g[e2] = Named(type, d, e2.name)
    OBVIOUS
  <2> HIDE DEF g
  <2>5. QED
    BY <2>3, <2>4
<1>4. Total(type, d) = SumFunctionOnSet(f, X)
  BY FiniteSaved
<1> HIDE DEF X, D, f, g
<1>5. SumFunctionOnSet(f, X) <= Cardinality(D)
  BY <1>1, <1>2, <1>3, SumOfParts
<1>6. QED
  BY <1>4, <1>5 DEF D

LEMMA TotalsFollow == StatsInv => DaysAreExact
<1> SUFFICES ASSUME StatsInv, NEW d \in due, stats # {}, d < LastEntryDay, NEW type \in Types
             PROVE  /\ Total(type, d) >= Cardinality(SlotsOfDay(d))
                    /\ OneName(type, d) => Total(type, d) = Cardinality(SlotsOfDay(d))
  BY DEF DaysAreExact
<1>1. Full(stats, type, d)
  BY DEF StatsInv, Passed
<1>2. Total(type, d) >= Cardinality(SlotsOfDay(d))
  BY <1>1, FullCountsAll
<1>3. OneName(type, d) => Total(type, d) <= Cardinality(SlotsOfDay(d))
  BY OneNameCountsOnce
<1>4. Total(type, d) \in Nat /\ Cardinality(SlotsOfDay(d)) \in Nat
  BY FiniteSaved, FiniteSlots, FS_CardinalityType
<1>5. QED
  BY <1>2, <1>3, <1>4

-----------------------------------------------------------------------------
(* The steps of the environment.                                            *)

LEMMA LastDayOf ==
    ASSUME NEW T \in SUBSET Days, T # {}
    PROVE  Max(T) \in T /\ \A t \in T : t <= Max(T)
<1>1. T \in SUBSET Nat /\ LastDay \in Nat /\ \A t \in T : t <= LastDay
  BY TimeAssumption DEF Days
<1>2. PICK m \in T : \A t \in T : t <= m
  BY <1>1, LargestNumber
<1>3. \A t \in T : m >= t
  BY <1>1, <1>2
<1>4. Max(T) \in T /\ \A t \in T : Max(T) >= t
  BY <1>3 DEF Max
<1>5. QED
  BY <1>1, <1>4

LEMMA StatsInit == Init => StatsInv
<1> SUFFICES ASSUME Init PROVE StatsInv
  OBVIOUS
<1>1. TypeOK
  BY TimeAssumption DEF Init, TypeOK, Days
<1>2. IsFiniteSet(stats) /\ IsFiniteSet(pending)
  BY FS_EmptySet DEF Init
<1>3. QED
  BY <1>1, <1>2 DEF Init, StatsInv, OneEntryPerKey, HasExtraData, NotMore, PendingDays

\* What depends on the table only through its slots.
LEMMA SameSlotsSameCounts ==
    ASSUME NEW d, SlotsOfDay(d)' = SlotsOfDay(d), NEW type, NEW X
    PROVE  Full(X, type, d)' <=> Full(X, type, d)
  BY DEF Full, EntryOf

LEMMA NextDayStep == ASSUME StatsInv, NextDay PROVE StatsInv'
<1>1. today' = today + 1 /\ today < LastDay
      /\ UNCHANGED <<table, extra, stats, pending, due, renamed>>
  BY DEF NextDay
<1>2. TypeOK'
  BY <1>1, TimeAssumption DEF StatsInv, TypeOK, Days
<1>3. \A r \in table' : DayOf(r.slot) <= today'
  <2>1. \A r \in table : DayOf(r.slot) \in Nat /\ DayOf(r.slot) <= today
    BY DayOfSlot, RowsAssumption DEF StatsInv, TypeOK
  <2>2. today \in Nat
    BY DEF StatsInv, TypeOK, Days
  <2>3. QED
    BY <1>1, <2>1, <2>2
<1>4. \A d : SlotsOfDay(d)' = SlotsOfDay(d) /\ Passed(d)' = Passed(d)
  BY <1>1 DEF SlotsOfDay, SlotsIn, Passed, PendingDays, LastEntryDay, SavedDays
<1>5. NotMore(stats)' /\ NotMore(pending)'
  BY <1>1 DEF StatsInv, NotMore, Named, NameAsStored, SlotsOfDay, SlotsIn
<1>6. ASSUME NEW d \in due', NEW type \in Types, Passed(d)' PROVE Full(stats, type, d)'
  BY <1>1, <1>4, <1>6, SameSlotsSameCounts DEF StatsInv, Full
<1>7. ASSUME NEW d \in (due \cap PendingDays)', NEW type \in Types PROVE Full(pending, type, d)'
  BY <1>1, <1>4, SameSlotsSameCounts DEF StatsInv, PendingDays, Full
<1>8. QED
  BY <1>1, <1>2, <1>3, <1>5, <1>6, <1>7 DEF StatsInv, OneEntryPerKey, HasExtraData

LEMMA InsertStep ==
    ASSUME StatsInv, NEW r \in Rows, InsertPayload(r)
    PROVE  StatsInv'
<1>1. /\ table' = table \cup {r} /\ DayOf(r.slot) <= today
      /\ due' = due \ {DayOf(r.slot)} /\ UNCHANGED <<today, extra, stats, pending, renamed>>
  BY DEF InsertPayload
<1>2. TypeOK'
  BY <1>1 DEF StatsInv, TypeOK
<1>3. \A q \in table' : DayOf(q.slot) <= today'
  BY <1>1 DEF StatsInv
<1>4. ASSUME NEW d, d # DayOf(r.slot) PROVE SlotsOfDay(d)' = SlotsOfDay(d)
  BY <1>1, <1>4 DEF SlotsOfDay, SlotsIn
<1>5. ASSUME NEW X, NotMore(X), \A e \in X : e.n \in Nat PROVE NotMore(X)'
  <2>1. SUFFICES ASSUME NEW e \in X, e.type = "extra_data" => e.day \notin renamed
                 PROVE  e.n <= Cardinality(Named(e.type, e.day, e.name)')
    BY <1>1 DEF NotMore
  <2>2. e.n <= Cardinality(Named(e.type, e.day, e.name))
    BY <1>5, <2>1 DEF NotMore
  <2>3. Named(e.type, e.day, e.name) \subseteq Named(e.type, e.day, e.name)'
    BY <1>1 DEF Named, SlotsOfDay, SlotsIn, NameAsStored
  <2>4. IsFiniteSet(Named(e.type, e.day, e.name)')
    <3>1. Named(e.type, e.day, e.name)' \subseteq SlotsOfDay(e.day) \cup {r.slot}
      BY <1>1 DEF Named, SlotsOfDay, SlotsIn
    <3>2. IsFiniteSet(SlotsOfDay(e.day) \cup {r.slot})
      BY FiniteSlots, FS_AddElement
    <3>3. QED
      BY <3>1, <3>2, FS_Subset
  <2>5. /\ Cardinality(Named(e.type, e.day, e.name)) <= Cardinality(Named(e.type, e.day, e.name)')
        /\ Cardinality(Named(e.type, e.day, e.name)) \in Nat
        /\ Cardinality(Named(e.type, e.day, e.name)') \in Nat
    BY <2>3, <2>4, FS_Subset, FS_CardinalityType
  <2>6. e.n \in Nat
    BY <1>5
  <2>7. QED
    BY <2>2, <2>5, <2>6
<1>6. NotMore(stats)' /\ NotMore(pending)'
  BY <1>1, <1>5 DEF StatsInv, TypeOK, Stats, NotMore
<1>7. ASSUME NEW d \in due' PROVE Passed(d)' = Passed(d) /\ SlotsOfDay(d)' = SlotsOfDay(d)
  BY <1>1, <1>4 DEF Passed, PendingDays, LastEntryDay, SavedDays
<1>8. ASSUME NEW d \in due', NEW type \in Types, Passed(d)' PROVE Full(stats, type, d)'
  BY <1>1, <1>7, <1>8, SameSlotsSameCounts DEF StatsInv, Full
<1>9. ASSUME NEW d \in (due \cap PendingDays)', NEW type \in Types PROVE Full(pending, type, d)'
  BY <1>1, <1>7, SameSlotsSameCounts DEF StatsInv, PendingDays, Full
<1>10. QED
  BY <1>1, <1>2, <1>3, <1>6, <1>8, <1>9 DEF StatsInv, OneEntryPerKey, HasExtraData

LEMMA CheckStep ==
    ASSUME StatsInv, NEW s \in SlotsIn(Rows), NEW x \in Extras \cup {NoExtra}, CheckPayload(s, x)
    PROVE  StatsInv'
<1> DEFINE changed == {r \in table : r.slot = s /\ extra[r] # x}
<1>1. /\ extra' = [r \in Rows |-> IF r \in changed THEN x ELSE extra[r]]
      /\ due' = due \ {DayOf(s)} /\ renamed' = renamed \cup {DayOf(s)} /\ changed # {}
      /\ UNCHANGED <<today, table, stats, pending>>
  BY DEF CheckPayload
<1>2. DayOf(s) \in Days
  <2>1. PICK r \in table : r.slot = s
    BY <1>1
  <2>2. DayOf(s) <= today /\ today \in Days
    BY <2>1 DEF StatsInv, TypeOK
  <2>3. s \in Nat
    BY RowsAssumption DEF SlotsIn
  <2>4. QED
    BY <2>2, <2>3, DayOfSlot, TimeAssumption DEF Days
<1>3. \A r \in Rows : r.slot # s => extra'[r] = extra[r]
  BY <1>1
<1>4. TypeOK'
  <2>1. extra' \in [Rows -> Extras \cup {NoExtra}]
    BY <1>1 DEF StatsInv, TypeOK
  <2> HIDE DEF changed
  <2>2. QED
    BY <1>1, <1>2, <2>1 DEF StatsInv, TypeOK
<1> HIDE DEF changed
<1>5. ASSUME NEW X, NotMore(X) PROVE NotMore(X)'
  <2>1. SUFFICES ASSUME NEW e \in X, e.type = "extra_data" => e.day \notin renamed'
                 PROVE  e.n <= Cardinality(Named(e.type, e.day, e.name)')
    BY <1>1 DEF NotMore
  <2>2. e.n <= Cardinality(Named(e.type, e.day, e.name))
    BY <1>1, <1>5, <2>1 DEF NotMore
  <2>3. ASSUME NEW r \in table, DayOf(r.slot) = e.day
        PROVE  NameAsStored(e.type, r)' = NameAsStored(e.type, r)
    <3>1. e.type = "extra_data" => extra'[r] = extra[r]
      BY <1>1, <1>3, <2>1, <2>3 DEF StatsInv, TypeOK
    <3>2. QED
      BY <3>1 DEF NameAsStored, BuilderNames
  <2>4. SlotsOfDay(e.day)' = SlotsOfDay(e.day)
    BY <1>1 DEF SlotsOfDay, SlotsIn
  <2>5. Named(e.type, e.day, e.name)' = Named(e.type, e.day, e.name)
    BY <1>1, <2>3, <2>4 DEF Named, SlotsOfDay
  <2>6. QED
    BY <2>2, <2>5
<1>6. NotMore(stats)' /\ NotMore(pending)'
  BY <1>1, <1>5 DEF StatsInv, NotMore
<1>7. \A d : SlotsOfDay(d)' = SlotsOfDay(d) /\ Passed(d)' = Passed(d)
  BY <1>1 DEF SlotsOfDay, SlotsIn, Passed, PendingDays, LastEntryDay, SavedDays
<1>8. ASSUME NEW d \in due', NEW type \in Types, Passed(d)' PROVE Full(stats, type, d)'
  BY <1>1, <1>7, <1>8, SameSlotsSameCounts DEF StatsInv, Full
<1>9. ASSUME NEW d \in (due \cap PendingDays)', NEW type \in Types PROVE Full(pending, type, d)'
  BY <1>1, <1>7, SameSlotsSameCounts DEF StatsInv, PendingDays, Full
<1>10. \A r \in table' : DayOf(r.slot) <= today'
  BY <1>1 DEF StatsInv
<1>11. QED
  BY <1>1, <1>4, <1>6, <1>8, <1>9, <1>10 DEF StatsInv, OneEntryPerKey, HasExtraData

-----------------------------------------------------------------------------
(* The steps of the command.                                                *)

LEMMA RowsOfRange ==
    ASSUME StatsInv, NEW from \in Int, NEW to \in Int,
           NEW rows, rows = GetDeliveredPayloadsForSlots(SlotStart(from), SlotEnd(to))
    PROVE  /\ rows \subseteq table
           /\ SlotsIn(rows) \subseteq SlotsIn(table)
           /\ \A s \in SlotsIn(table) :
                s \in SlotsIn(rows) <=> from <= SlotToTime(s) /\ SlotToTime(s) <= to
<1>1. rows \subseteq table
  BY DEF GetDeliveredPayloadsForSlots
<1>2. \A s \in SlotsIn(table) : s \in Nat
  BY FiniteSlots
<1>3. ASSUME NEW s \in SlotsIn(table)
      PROVE  s \in SlotsIn(rows) <=> from <= SlotToTime(s) /\ SlotToTime(s) <= to
  <2>1. s \in SlotsIn(rows) <=> SlotStart(from) <= s /\ s <= SlotEnd(to)
    BY DEF GetDeliveredPayloadsForSlots, SlotsIn
  <2>2. SlotStart(from) <= s <=> from <= SlotToTime(s)
    BY <1>2, SlotsOfRange
  <2>3. s <= SlotEnd(to) <=> SlotToTime(s) <= to
    BY <1>2, SlotsOfRange
  <2>4. QED
    BY <2>1, <2>2, <2>3
<1>4. SlotsIn(rows) \subseteq SlotsIn(table)
  BY <1>1 DEF SlotsIn
<1>5. QED
  BY <1>1, <1>3, <1>4

\* Statistics of one type that count all the slots and no others.
CountOf(X, type, S) ==
    /\ X \subseteq Stats /\ IsFiniteSet(X)
    /\ OneEntryPerKey(X) /\ NotMore(X)
    /\ \A e \in X : e.type = type /\ \E s \in S : e.day = DayOf(s)
    /\ \A s \in S : \E e \in X : e.day = DayOf(s)
    /\ \A d : SlotsOfDay(d) \subseteq S => Full(X, type, d)

\* Counting counts each slot, under a name that a stored payload gives it.
LEMMA CountIsRight ==
    ASSUME StatsInv, NEW type \in Types, NEW S, S \subseteq SlotsIn(table),
           NEW name \in [S -> AllNames],
           \A s \in S : \E r \in table : r.slot = s /\ name[s] \in NameAsStored(type, r)
    PROVE  CountOf(Count(type, name), type, S)
<1> DEFINE with(s) == {t \in S : DayOf(t) = DayOf(s) /\ name[t] = name[s]}
           entry(s) == [type |-> type, day |-> DayOf(s), name |-> name[s],
                        n |-> Cardinality(with(s))]
<1>1. Count(type, name) = {entry(s) : s \in S}
  BY DEF Count
<1>2. S \subseteq Nat /\ IsFiniteSet(S)
  BY FiniteSlots, FS_Subset
<1>3. ASSUME NEW s \in S
      PROVE  /\ with(s) \subseteq Named(type, DayOf(s), name[s])
             /\ IsFiniteSet(Named(type, DayOf(s), name[s]))
             /\ Cardinality(with(s)) \in Nat \ {0}
             /\ Cardinality(with(s)) <= Cardinality(Named(type, DayOf(s), name[s]))
  <2>1. with(s) \subseteq Named(type, DayOf(s), name[s])
    BY DEF Named, SlotsOfDay
  <2>2. IsFiniteSet(Named(type, DayOf(s), name[s]))
    <3>1. Named(type, DayOf(s), name[s]) \subseteq SlotsOfDay(DayOf(s))
      BY DEF Named
    <3>2. QED
      BY <3>1, FiniteSlots, FS_Subset
  <2>3. s \in with(s)
    OBVIOUS
  <2>4. IsFiniteSet(with(s)) /\ with(s) # {}
    BY <2>1, <2>2, <2>3, FS_Subset
  <2> HIDE DEF with
  <2>5. Cardinality(with(s)) \in Nat /\ Cardinality(with(s)) # 0
    BY <2>4, FS_CardinalityType, FS_EmptySet
  <2>6. QED
    BY <2>1, <2>2, <2>5, FS_Subset
<1>4. ASSUME NEW s \in S PROVE DayOf(s) \in Days
  <2>1. PICK r \in table : r.slot = s
    OBVIOUS
  <2>2. DayOf(s) \in Nat /\ DayOf(s) <= today /\ today \in Days
    BY <1>2, <2>1, DayOfSlot DEF StatsInv, TypeOK
  <2>3. QED
    BY <2>2, TimeAssumption DEF Days
<1>5. Count(type, name) \subseteq Stats
  <2>1. ASSUME NEW s \in S PROVE entry(s) \in Stats
    <3>1. Cardinality(with(s)) \in Nat \ {0} /\ DayOf(s) \in Days /\ name[s] \in AllNames
      BY <1>3, <1>4
    <3> HIDE DEF with
    <3>2. QED
      BY <3>1 DEF Stats
  <2>2. QED
    BY <1>1, <2>1
<1>6. IsFiniteSet(Count(type, name))
  <2> HIDE DEF entry
  <2> DEFINE f == [s \in S |-> entry(s)]
  <2>1. \A h : IsFiniteSet({h[s] : s \in S})
    BY <1>2, FiniteImage
  <2>2. {f[s] : s \in S} = {entry(s) : s \in S}
    BY Zenon
  <2> HIDE DEF f
  <2>3. IsFiniteSet({f[s] : s \in S})
    BY <2>1
  <2>4. QED
    BY <1>1, <2>2, <2>3, Zenon
<1>7. OneEntryPerKey(Count(type, name))
  <2>1. ASSUME NEW s \in S, NEW t \in S, Key(entry(s)) = Key(entry(t)) PROVE entry(s) = entry(t)
    <3>1. DayOf(s) = DayOf(t) /\ name[s] = name[t]
      BY <2>1 DEF Key
    <3>2. with(s) = with(t)
      BY <3>1
    <3> HIDE DEF with
    <3>3. QED
      BY <3>1, <3>2
  <2> HIDE DEF entry
  <2>2. QED
    BY <1>1, <2>1 DEF OneEntryPerKey
<1>8. NotMore(Count(type, name))
  <2>1. ASSUME NEW s \in S
        PROVE  entry(s).n <= Cardinality(Named(entry(s).type, entry(s).day, entry(s).name))
    <3>1. Cardinality(with(s)) <= Cardinality(Named(type, DayOf(s), name[s]))
      BY <1>3
    <3> HIDE DEF with
    <3>2. QED
      BY <3>1
  <2> HIDE DEF entry
  <2>2. QED
    BY <1>1, <2>1 DEF NotMore
<1>9. \A e \in Count(type, name) : e.type = type /\ \E s \in S : e.day = DayOf(s)
  <2>1. \A s \in S : entry(s).type = type /\ entry(s).day = DayOf(s)
    OBVIOUS
  <2> HIDE DEF entry
  <2>2. QED
    BY <1>1, <2>1
<1>10. \A s \in S : \E e \in Count(type, name) : e.day = DayOf(s)
  <2>1. \A s \in S : entry(s).day = DayOf(s) /\ entry(s) \in Count(type, name)
    BY <1>1
  <2> HIDE DEF entry
  <2>2. QED
    BY <2>1
<1>11. ASSUME NEW d, SlotsOfDay(d) \subseteq S PROVE Full(Count(type, name), type, d)
  <2> DEFINE nm == [s \in SlotsOfDay(d) |-> name[s]]
  <2>1. nm \in [SlotsOfDay(d) -> AllNames]
    BY <1>11
  <2>2. ASSUME NEW s \in SlotsOfDay(d) PROVE EntryOf(type, d, nm, nm[s]) \in Count(type, name)
    <3>1. s \in S /\ DayOf(s) = d /\ nm[s] = name[s]
      BY <1>11 DEF SlotsOfDay
    <3>2. {u \in SlotsOfDay(d) : nm[u] = name[s]} = with(s)
      BY <1>11, <3>1 DEF SlotsOfDay
    <3>3. EntryOf(type, d, nm, nm[s]) = [type |-> type, day |-> d, name |-> name[s],
             n |-> Cardinality({u \in SlotsOfDay(d) : nm[u] = name[s]})]
      BY <3>1 DEF EntryOf
    <3> HIDE DEF nm, with
    <3>4. EntryOf(type, d, nm, nm[s]) = entry(s)
      BY <3>1, <3>2, <3>3
    <3> HIDE DEF entry
    <3>5. QED
      BY <1>1, <3>1, <3>4
  <2> HIDE DEF nm
  <2>3. QED
    BY <2>1, <2>2 DEF Full
<1>12. QED
  BY <1>5, <1>6, <1>7, <1>8, <1>9, <1>10, <1>11 DEF CountOf

LEMMA SavedDaysOf ==
    ASSUME StatsInv
    PROVE  /\ SavedDays \in SUBSET Days
           /\ stats # {} => SavedDays # {}
           /\ SavedDays # {} =>
                LastEntryDay \in SavedDays /\ \A c \in SavedDays : c <= LastEntryDay
<1>1. SavedDays \in SUBSET Days
  BY DEF SavedDays, StatsInv, TypeOK, Stats
<1>2. stats # {} => SavedDays # {}
  BY DEF SavedDays, StatsInv, HasExtraData
<1>3. QED
  BY <1>1, <1>2, LastDayOf DEF LastEntryDay

LEMMA StartRunStep ==
    ASSUME StatsInv, NEW from \in Int, NEW to \in Int, StartRun(from, to)
    PROVE  StatsInv'
<1> DEFINE rows == GetDeliveredPayloadsForSlots(SlotStart(from), SlotEnd(to))
           S == SlotsIn(rows)
<1>1. /\ pending = {} /\ UNCHANGED <<today, table, extra, stats, renamed>>
      /\ due' = (due \ (Jumped(from) \cup CutDays(from, to)))
                  \cup {d \in WholeDays(from, to) : NotBehind(d)}
      /\ \E entries \in EntriesBySlot(rows) : pending' \in DayBuckets(entries)
  BY DEF StartRun
<1>2. PICK entries \in EntriesBySlot(rows) : pending' \in DayBuckets(entries)
  BY <1>1
<1>3. /\ rows \subseteq table /\ S \subseteq SlotsIn(table)
      /\ \A s \in SlotsIn(table) : s \in S <=> from <= SlotToTime(s) /\ SlotToTime(s) <= to
  BY RowsOfRange
<1> HIDE DEF rows
<1>4. entries \in [S -> rows] /\ DOMAIN entries = S /\ \A s \in S : entries[s].slot = s
  BY <1>2 DEF EntriesBySlot
<1> DEFINE key == [s \in S |-> entries[s].pubkey]
<1>5. PICK name \in [S -> AllNames] :
        /\ \A s \in S : name[s] \in BuilderNames(extra[entries[s]])
        /\ pending' = Count("extra_data", name) \cup Count("builder_pubkey", key)
  BY <1>2, <1>4 DEF DayBuckets
<1> DEFINE A == Count("extra_data", name)
           B == Count("builder_pubkey", key)
<1>6. CountOf(A, "extra_data", S)
  <2>1. ASSUME NEW s \in S
        PROVE  \E r \in table : r.slot = s /\ name[s] \in NameAsStored("extra_data", r)
    BY <1>3, <1>4, <1>5 DEF NameAsStored
  <2>2. "extra_data" \in Types
    BY DEF Types
  <2>3. QED
    BY <1>3, <2>1, <2>2, CountIsRight
<1>7. CountOf(B, "builder_pubkey", S)
  <2>1. ASSUME NEW s \in S
        PROVE  \E r \in table : r.slot = s /\ key[s] \in NameAsStored("builder_pubkey", r)
    BY <1>3, <1>4 DEF NameAsStored
  <2>2. key \in [S -> AllNames]
    BY <1>3, <1>4 DEF AllNames, StatsInv, TypeOK
  <2>3. "builder_pubkey" \in Types
    BY DEF Types
  <2> HIDE DEF key
  <2>4. QED
    BY <1>3, <2>1, <2>2, <2>3, CountIsRight
<1>8. pending' = A \cup B
  BY <1>5
<1> HIDE DEF A, B, S, key
<1>9. \A d : SlotsOfDay(d)' = SlotsOfDay(d)
  BY <1>1 DEF SlotsOfDay, SlotsIn
<1>10. TypeOK'
  <2>1. pending' \subseteq Stats
    BY <1>6, <1>7, <1>8 DEF CountOf
  <2>2. due' \subseteq Days
    BY <1>1 DEF StatsInv, TypeOK, WholeDays
  <2>3. QED
    BY <1>1, <2>1, <2>2 DEF StatsInv, TypeOK
<1>11. IsFiniteSet(pending')
  BY <1>6, <1>7, <1>8, UnionCardinality DEF CountOf
<1>12. OneEntryPerKey(pending)'
  BY <1>6, <1>7, <1>8 DEF CountOf, OneEntryPerKey, Key
<1>13. HasExtraData(pending)'
  BY <1>6, <1>7, <1>8 DEF CountOf, HasExtraData
<1>14. NotMore(stats)' /\ NotMore(pending)'
  <2>1. \A type, d, x : Named(type, d, x)' = Named(type, d, x)
    BY <1>1, <1>9 DEF Named, NameAsStored
  <2>2. QED
    BY <1>1, <1>6, <1>7, <1>8, <2>1 DEF StatsInv, CountOf, NotMore
<1>15. (PendingDays)' = {DayOf(s) : s \in S}
  BY <1>6, <1>7, <1>8 DEF CountOf, PendingDays
<1>16. ASSUME NEW s \in S
       PROVE  /\ s \in Nat /\ SlotToTime(s) \in Nat
              /\ DayOf(s) \in Nat
              /\ BeginningOfDay(DayOf(s)) <= SlotToTime(s)
              /\ SlotToTime(s) < BeginningOfDay(DayOf(s) + 1)
              /\ from <= SlotToTime(s) /\ SlotToTime(s) <= to
  <2>1. s \in Nat
    BY <1>3, FiniteSlots
  <2>2. QED
    BY <1>3, <2>1, DayOfSlot
<1>17. ASSUME NEW d \in WholeDays(from, to)
       PROVE  SlotsOfDay(d) \subseteq S /\ \A type \in Types : Full(pending, type, d)'
  <2>1. from <= BeginningOfDay(d) /\ BeginningOfDay(d + 1) <= to /\ d \in Nat
    BY DEF WholeDays, Days
  <2>2. BeginningOfDay(d) \in Int /\ BeginningOfDay(d + 1) \in Int
    BY <2>1, DaysInOrder
  <2>3. ASSUME NEW s \in SlotsOfDay(d) PROVE s \in S
    <3>1. s \in SlotsIn(table) /\ DayOf(s) = d /\ s \in Nat
      BY FiniteSlots DEF SlotsOfDay
    <3>2. SlotToTime(s) \in Nat /\ BeginningOfDay(d) <= SlotToTime(s)
          /\ SlotToTime(s) < BeginningOfDay(d + 1)
      BY <3>1, DayOfSlot
    <3>3. from <= SlotToTime(s) /\ SlotToTime(s) <= to
      BY <2>1, <2>2, <3>2
    <3>4. QED
      BY <1>3, <3>1, <3>3
  <2>4. Full(A, "extra_data", d) /\ Full(B, "builder_pubkey", d)
    BY <1>6, <1>7, <2>3 DEF CountOf
  <2>5. \A type \in Types : Full(pending', type, d)
    BY <1>8, <2>4 DEF Full, Types
  <2>6. QED
    BY <1>9, <2>3, <2>5 DEF Full, EntryOf
<1>18. ASSUME NEW d \in due', NEW type \in Types, Passed(d)' PROVE Full(stats, type, d)'
  <2>1. d \in Nat /\ d \in Days
    BY <1>10 DEF TypeOK, Days
  <2>2. SUFFICES Full(stats, type, d)
    BY <1>1, <1>9 DEF Full, EntryOf
  <2>3. stats' = stats /\ LastEntryDay' = LastEntryDay
    BY <1>1 DEF LastEntryDay, SavedDays
  <2>4. stats # {} => LastEntryDay \in Nat
    BY SavedDaysOf DEF Days
  <2>5. CASE stats # {} /\ d < LastEntryDay
    <3>1. ~ NotBehind(d)
      BY <2>1, <2>4, <2>5 DEF NotBehind
    <3>2. d \in due
      BY <1>1, <3>1
    <3>3. QED
      BY <2>5, <3>2 DEF StatsInv, Passed
  <2>6. CASE ~ (stats # {} /\ d < LastEntryDay)
    <3>1. PICK s \in S : d < DayOf(s)
      BY <1>15, <1>18, <2>3, <2>6 DEF Passed
    <3>2. /\ BeginningOfDay(d) \in Int /\ BeginningOfDay(d + 1) \in Int
          /\ BeginningOfDay(DayOf(s)) \in Int
          /\ BeginningOfDay(d) < BeginningOfDay(d + 1)
          /\ BeginningOfDay(d + 1) <= BeginningOfDay(DayOf(s))
      BY <1>16, <2>1, <3>1, DaysInOrder
    <3>3. BeginningOfDay(d + 1) <= to /\ BeginningOfDay(d) < to
      BY <1>16, <3>2
    <3>4. d \in WholeDays(from, to)
      <4>1. SUFFICES ASSUME d \notin WholeDays(from, to) PROVE FALSE
        OBVIOUS
      <4>2. d \notin Jumped(from) /\ d \notin CutDays(from, to)
        BY <1>1, <4>1
      <4>3. BeginningOfDay(d + 1) <= from
        BY <2>1, <3>2, <3>3, <4>1, <4>2 DEF CutDays
      <4>4. stats # {} /\ ~ (d >= LastEntryDay)
        BY <2>1, <4>2, <4>3 DEF Jumped
      <4>5. QED
        BY <2>1, <2>4, <2>6, <4>4
    <3>5. d \notin {DayOf(u) : u \in S}
      BY <1>15, <1>18, <2>3, <2>6 DEF Passed
    <3>6. SlotsOfDay(d) = {}
      BY <1>17, <3>4, <3>5 DEF SlotsOfDay
    <3>7. \E h \in [{} -> AllNames] : \A u \in {} : EntryOf(type, d, h, h[u]) \in stats
      <4>1. [u \in {} |-> u] \in [{} -> AllNames]
        OBVIOUS
      <4>2. QED
        BY <4>1
    <3>8. QED
      BY <3>6, <3>7 DEF Full
  <2>7. QED
    BY <2>5, <2>6
<1>19. ASSUME NEW d \in (due \cap PendingDays)', NEW type \in Types PROVE Full(pending, type, d)'
  <2>1. PICK s \in S : d = DayOf(s)
    BY <1>15
  <2>2. d \in Days /\ d \in Nat
    BY <1>10 DEF TypeOK, Days
  <2>3. /\ BeginningOfDay(d) \in Int /\ BeginningOfDay(d + 1) \in Int
        /\ SlotToTime(s) # BeginningOfDay(d)
    BY <1>16, <2>2, DaysInOrder, SlotsStartWithinDays
  <2>4. from < BeginningOfDay(d + 1) /\ BeginningOfDay(d) < to
    BY <1>16, <2>1, <2>3
  <2>5. d \in WholeDays(from, to)
    BY <1>1, <2>2, <2>4 DEF CutDays
  <2>6. QED
    BY <1>17, <2>5
<1>20. \A r \in table' : DayOf(r.slot) <= today'
  BY <1>1 DEF StatsInv
<1>21. IsFiniteSet(stats)' /\ HasExtraData(stats)'
  BY <1>1 DEF StatsInv, HasExtraData
<1>22. QED
  BY <1>10, <1>11, <1>12, <1>13, <1>14, <1>18, <1>19, <1>20, <1>21 DEF StatsInv

LEMMA SaveDayStep ==
    ASSUME StatsInv, NEW d \in Days, SaveDay(d)
    PROVE  StatsInv'
<1> DEFINE new == {e \in pending : e.day = d}
<1>1. /\ d \in PendingDays /\ \A c \in PendingDays : d <= c
      /\ stats' = {e \in stats : \A f \in new : Key(e) # Key(f)} \cup new
      /\ pending' = pending \ new
      /\ UNCHANGED <<today, table, extra, due, renamed>>
  BY DEF SaveDay, IsNextDay, SaveBuilderStats
<1>2. new \subseteq pending /\ \A e \in pending : e \in new <=> e.day = d
  OBVIOUS
<1> HIDE DEF new
<1>3. \A type, c, x : SlotsOfDay(c)' = SlotsOfDay(c) /\ Named(type, c, x)' = Named(type, c, x)
  BY <1>1 DEF SlotsOfDay, SlotsIn, Named, NameAsStored
<1>4. TypeOK'
  <2>1. stats' \subseteq Stats /\ pending' \subseteq Stats
    BY <1>1, <1>2 DEF StatsInv, TypeOK
  <2>2. ASSUME NEW e \in stats', NEW f \in stats', Key(e) = Key(f) PROVE e = f
    <3>1. e \in new <=> f \in new
      BY <1>1, <2>2
    <3>2. QED
      BY <1>1, <1>2, <2>2, <3>1 DEF StatsInv, TypeOK, OneEntryPerKey
  <2>3. QED
    BY <1>1, <2>1, <2>2 DEF StatsInv, TypeOK
<1>5. IsFiniteSet(stats') /\ IsFiniteSet(pending')
  <2>1. IsFiniteSet(new) /\ IsFiniteSet(pending')
    BY <1>1, <1>2, FS_Subset DEF StatsInv
  <2>2. IsFiniteSet({e \in stats : \A f \in new : Key(e) # Key(f)})
    BY FS_Subset DEF StatsInv
  <2>3. QED
    BY <1>1, <2>1, <2>2, UnionCardinality
<1>6. OneEntryPerKey(pending)'
  BY <1>1 DEF StatsInv, OneEntryPerKey
<1>7. HasExtraData(stats)' /\ HasExtraData(pending)'
  <2>1. ASSUME NEW e \in new PROVE \E f \in new : f.type = "extra_data" /\ f.day = e.day
    BY <1>2 DEF StatsInv, HasExtraData
  <2>2. ASSUME NEW e \in stats PROVE \E f \in stats' : f.type = "extra_data" /\ f.day = e.day
    <3>1. PICK f \in stats : f.type = "extra_data" /\ f.day = e.day
      BY DEF StatsInv, HasExtraData
    <3>2. CASE \A g \in new : Key(f) # Key(g)
      BY <1>1, <3>1, <3>2
    <3>3. CASE \E g \in new : Key(f) = Key(g)
      BY <1>1, <3>1, <3>3 DEF Key
    <3>4. QED
      BY <3>2, <3>3
  <2>3. HasExtraData(pending)'
    BY <1>1, <1>2 DEF StatsInv, HasExtraData
  <2>4. QED
    BY <1>1, <2>1, <2>2, <2>3 DEF HasExtraData
<1>8. NotMore(stats)' /\ NotMore(pending)'
  BY <1>1, <1>2, <1>3 DEF StatsInv, NotMore
<1>9. (PendingDays)' = PendingDays \ {d}
  BY <1>1, <1>2 DEF PendingDays
<1>10. PendingDays \subseteq Days
  BY DEF PendingDays, StatsInv, TypeOK, Stats
<1>11. ASSUME NEW c \in due', Passed(c)', c # d PROVE Passed(c)
  <2>1. c \in Nat /\ d \in Nat
    BY <1>4 DEF TypeOK, Days
  <2>2. CASE stats' # {} /\ c < LastEntryDay'
    <3>1. LastEntryDay' \in SavedDays' /\ SavedDays' \in SUBSET Days
      <4>1. SavedDays' \in SUBSET Days
        BY <1>4 DEF SavedDays, TypeOK, Stats
      <4>2. SavedDays' # {}
        BY <1>7, <2>2 DEF SavedDays, HasExtraData
      <4>3. Max(SavedDays') \in SavedDays'
        BY <4>1, <4>2, LastDayOf
      <4>4. QED
        BY <4>1, <4>3 DEF LastEntryDay
    <3>2. SavedDays' \subseteq SavedDays \cup {d}
      BY <1>1, <1>2 DEF SavedDays
    <3>3. CASE LastEntryDay' = d
      BY <1>1, <1>10, <1>11, <2>1, <2>2, <3>3 DEF Passed, Days
    <3>4. CASE LastEntryDay' \in SavedDays
      <4>1. stats # {} /\ LastEntryDay \in Nat /\ LastEntryDay' <= LastEntryDay /\ LastEntryDay' \in Nat
        BY <3>1, <3>4, SavedDaysOf DEF SavedDays, Days
      <4>2. QED
        BY <2>1, <2>2, <4>1 DEF Passed
    <3>5. QED
      BY <3>1, <3>2, <3>3, <3>4
  <2>3. CASE c \notin (PendingDays)' /\ \E b \in (PendingDays)' : c < b
    BY <1>9, <1>11, <2>3 DEF Passed
  <2>4. QED
    BY <1>11, <2>2, <2>3 DEF Passed
<1>12. ASSUME NEW c \in due', NEW type \in Types, Passed(c)' PROVE Full(stats, type, c)'
  <2>1. SUFFICES Full(stats', type, c)
    BY <1>3 DEF Full, EntryOf
  <2>2. CASE c = d
    <3>1. Full(pending, type, c)
      BY <1>1, <2>2 DEF StatsInv
    <3>2. PICK name \in [SlotsOfDay(c) -> AllNames] :
            \A s \in SlotsOfDay(c) : EntryOf(type, c, name, name[s]) \in pending
      BY <3>1 DEF Full
    <3>3. ASSUME NEW s \in SlotsOfDay(c) PROVE EntryOf(type, c, name, name[s]) \in stats'
      <4>1. EntryOf(type, c, name, name[s]).day = c
        BY DEF EntryOf
      <4>2. QED
        BY <1>1, <1>2, <2>2, <3>2, <4>1
    <3>4. QED
      BY <3>3 DEF Full
  <2>3. CASE c # d
    <3>1. Full(stats, type, c)
      BY <1>1, <1>11, <1>12, <2>3 DEF StatsInv
    <3>2. PICK name \in [SlotsOfDay(c) -> AllNames] :
            \A s \in SlotsOfDay(c) : EntryOf(type, c, name, name[s]) \in stats
      BY <3>1 DEF Full
    <3>3. ASSUME NEW s \in SlotsOfDay(c) PROVE EntryOf(type, c, name, name[s]) \in stats'
      <4>1. EntryOf(type, c, name, name[s]).day = c
        BY DEF EntryOf
      <4>2. \A f \in new : f.day = d
        BY <1>2
      <4>3. QED
        BY <1>1, <2>3, <3>2, <4>1, <4>2 DEF Key
    <3>4. QED
      BY <3>3 DEF Full
  <2>4. QED
    BY <2>2, <2>3
<1>13. ASSUME NEW c \in (due \cap PendingDays)', NEW type \in Types PROVE Full(pending, type, c)'
  <2>1. c # d /\ c \in due \cap PendingDays
    BY <1>1, <1>9
  <2>2. PICK name \in [SlotsOfDay(c) -> AllNames] :
          \A s \in SlotsOfDay(c) : EntryOf(type, c, name, name[s]) \in pending
    BY <2>1 DEF StatsInv, Full
  <2>3. ASSUME NEW s \in SlotsOfDay(c) PROVE EntryOf(type, c, name, name[s]) \in pending'
    <3>1. EntryOf(type, c, name, name[s]).day = c
      BY DEF EntryOf
    <3>2. QED
      BY <1>1, <1>2, <2>1, <2>2, <3>1
  <2>4. Full(pending', type, c)
    BY <2>3 DEF Full
  <2>5. QED
    BY <1>3, <2>4 DEF Full, EntryOf
<1>14. \A r \in table' : DayOf(r.slot) <= today'
  BY <1>1 DEF StatsInv
<1>15. QED
  BY <1>4, <1>5, <1>6, <1>7, <1>8, <1>12, <1>13, <1>14 DEF StatsInv

LEMMA CrashStep == ASSUME StatsInv, Crash PROVE StatsInv'
<1>1. pending' = {} /\ UNCHANGED <<today, table, extra, stats, due, renamed>>
  BY DEF Crash
<1>2. TypeOK' /\ IsFiniteSet(pending')
  BY <1>1, FS_EmptySet DEF StatsInv, TypeOK
<1>3. \A type, d, x : SlotsOfDay(d)' = SlotsOfDay(d) /\ Named(type, d, x)' = Named(type, d, x)
  BY <1>1 DEF SlotsOfDay, SlotsIn, Named, NameAsStored
<1>4. NotMore(stats)' /\ NotMore(pending)'
  BY <1>1, <1>3 DEF StatsInv, NotMore
<1>5. ASSUME NEW d \in due', NEW type \in Types, Passed(d)' PROVE Full(stats, type, d)'
  <2>1. Passed(d)
    BY <1>1, <1>5 DEF Passed, PendingDays, LastEntryDay, SavedDays
  <2>2. QED
    BY <1>1, <1>3, <2>1 DEF StatsInv, Full, EntryOf
<1>6. QED
  BY <1>1, <1>2, <1>4, <1>5
  DEF StatsInv, OneEntryPerKey, HasExtraData, PendingDays

-----------------------------------------------------------------------------
(* The theorems.                                                            *)

LEMMA StatsStep == ASSUME StatsInv, [Next]_vars PROVE StatsInv'
<1>1. CASE NextDay
  BY <1>1, NextDayStep
<1>2. CASE \E r \in Rows : InsertPayload(r)
  BY <1>2, InsertStep
<1>3. CASE \E s \in SlotsIn(Rows), x \in Extras \cup {NoExtra} : CheckPayload(s, x)
  BY <1>3, CheckStep
<1>4. \A d \in Int : BeginningOfDay(d) \in Int
  BY TimeAssumption DEF BeginningOfDay
<1>5. today \in Int
  BY DEF StatsInv, TypeOK, Days
<1>6. HalfDays \subseteq Int
  <2>1. DayLen \in Nat /\ DayLen \div 2 \in Int
    BY TimeAssumption
  <2>2. \A d \in 1 .. LastDay, h \in {0, DayLen \div 2} : d * DayLen + h \in Int
    BY <2>1
  <2>3. QED
    BY <2>2 DEF HalfDays
<1>7. CASE \E from \in HalfDays :
             \/ RunUntilToday(from)
             \/ \E to \in HalfDays : from < to /\ RunRange(from, to)
  BY <1>4, <1>5, <1>6, <1>7, StartRunStep DEF RunUntilToday, RunRange
<1>8. CASE RunBackfill
  <2>1. LastEntryDay \in Int
    BY <1>8, SavedDaysOf DEF RunBackfill, Days
  <2>2. QED
    BY <1>4, <1>5, <1>8, <2>1, StartRunStep DEF RunBackfill
<1>9. CASE \E d \in Days : SaveDay(d)
  BY <1>9, SaveDayStep
<1>10. CASE Crash
  BY <1>10, CrashStep
<1>11. CASE UNCHANGED vars
  <2>1. \A type, d, x : SlotsOfDay(d)' = SlotsOfDay(d) /\ Named(type, d, x)' = Named(type, d, x)
    BY <1>11 DEF vars, SlotsOfDay, SlotsIn, Named, NameAsStored
  <2>2. NotMore(stats)' /\ NotMore(pending)'
    BY <1>11, <2>1 DEF vars, StatsInv, NotMore
  <2>3. \A X, type, d : Full(X, type, d)' <=> Full(X, type, d)
    BY <2>1, SameSlotsSameCounts
  <2>4. \A d : Passed(d)' <=> Passed(d)
    BY <1>11 DEF vars, Passed, PendingDays, LastEntryDay, SavedDays
  <2>5. TypeOK'
    BY <1>11 DEF vars, StatsInv, TypeOK
  <2>6. QED
    BY <1>11, <2>1, <2>2, <2>4, <2>5
    DEF vars, StatsInv, OneEntryPerKey, HasExtraData, PendingDays, Full, EntryOf
<1>12. QED
  BY <1>1, <1>2, <1>3, <1>7, <1>8, <1>9, <1>10, <1>11 DEF Next

\* The invariant holds of every run of the command and whatever else changes
\* the tables.
LEMMA StatsInvariant == Spec => []StatsInv
  BY StatsInit, StatsStep, PTL DEF Spec

\* Saved statistics have one row per type, day and name, and name builders
\* that the payloads' extra data or public keys give.
THEOREM TypeCorrect == Spec => []TypeOK
<1>1. StatsInv => TypeOK
  BY DEF StatsInv
<1>2. QED
  BY <1>1, StatsInvariant, PTL

\* However runs of update-builder-stats are cut, killed or repeated, a day that
\* they should have right counts every slot with a payload in both statistics,
\* and none twice unless a builder changed its name.
THEOREM DaysHold == Spec => []DaysAreExact
  BY StatsInvariant, TotalsFollow, PTL
=============================================================================
