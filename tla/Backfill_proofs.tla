-------------------------- MODULE Backfill_proofs --------------------------
(***************************************************************************)
(* Proofs about Backfill under the service of BackfillRunner, for every    *)
(* set of relays and payloads, page limit, cursor and minimum slot.        *)
(***************************************************************************)
EXTENDS BackfillRunner, SetLemmas, FiniteSetTheorems, TLAPS

USE LimitAssumption

\* What MinSlotOf returns for payloads.
LEMMA MinSlotFact ==
    ASSUME NEW P \in SUBSET Payloads, P # {}
    PROVE  /\ MinSlotOf(P) \in {p.slot : p \in P}
           /\ \A p \in P : MinSlotOf(P) <= p.slot
<1>1. {p.slot : p \in P} \in SUBSET Nat /\ {p.slot : p \in P} # {}
  BY PayloadsAssumption
<1>2. PICK s \in {p.slot : p \in P} : \A t \in {p.slot : p \in P} : s <= t
  BY <1>1, SmallestNumber
<1>3. \A p \in P : s <= p.slot
  BY <1>2
<1>4. QED
  BY <1>3 DEF MinSlotOf

\* Likewise the largest, of payloads up to a slot.
LEMMA MaxSlotFact ==
    ASSUME NEW P \in SUBSET Payloads, P # {}, NEW b \in Nat, \A p \in P : p.slot <= b
    PROVE  /\ MaxSlotOf(P) \in {p.slot : p \in P}
           /\ \A p \in P : p.slot <= MaxSlotOf(P)
<1>1. {p.slot : p \in P} \in SUBSET Nat /\ {p.slot : p \in P} # {}
  BY PayloadsAssumption
<1>2. \A t \in {p.slot : p \in P} : t <= b
  OBVIOUS
<1>3. PICK s \in {p.slot : p \in P} : \A t \in {p.slot : p \in P} : t <= s
  BY <1>1, <1>2, LargestNumber
<1>4. \A p \in P : s >= p.slot
  BY <1>1, <1>3
<1>5. PICK m \in {p.slot : p \in P} : m = MaxSlotOf(P) /\ \A p \in P : m >= p.slot
  BY <1>4 DEF MaxSlotOf
<1>6. QED
  BY <1>1, <1>5

-----------------------------------------------------------------------------
(* Type correctness.                                                        *)

\* No relay has delivered a payload of a slot to come.
HeadIsNewest == \A p \in delivered : p.slot <= headSlot

TypeInv == TypeOK /\ HeadIsNewest

\* A run begins, of the command or of a cycle of the service.
Begin == pc = "idle" /\ \E c \in InitCursors \cup {0}, m \in MinSlots \cup {0} : BeginRun(c, m)

\* What the service and the command do to the variables of Backfill.
Move == NextSlot \/ RelayStep \/ Begin \/ BackfillStep \/ Die

\* A fault is counted.
LEMMA FaultType ==
    ASSUME nFaults \in 0 .. MaxFaults, Fault
    PROVE  nFaults' \in 0 .. MaxFaults
  BY DEF Fault

\* So is a process.
LEMMA ProcessType ==
    ASSUME nRuns \in 0 .. MaxRuns, NewProcess
    PROVE  nRuns' \in 0 .. MaxRuns
  BY DEF NewProcess

\* Every step of the service is such a move or leaves Backfill alone.
LEMMA RunnerMove ==
    ASSUME RunnerTypeOK, [RunnerNext]_runnerVars
    PROVE  /\ Move \/ UNCHANGED vars
           /\ nRuns' \in 0 .. MaxRuns
           /\ nFaults' \in 0 .. MaxFaults
<1>1. /\ nRuns \in 0 .. MaxRuns /\ nFaults \in 0 .. MaxFaults
      /\ svc = "wait" => pc = "idle"
      /\ offset \in MinSlots \cup {0}
  BY DEF RunnerTypeOK, TypeOK
<1>2. CASE BackfillAlone
  <2>1. CASE World
    BY <1>1, <2>1 DEF World, Move, NextSlot, RelayStep, Deliver
  <2>2. CASE FetchFails \/ SaveBuilderFails
    <3>1. Fault /\ nRuns' = nRuns
      BY <2>2 DEF FetchFails, SaveBuilderFails
    <3>2. QED
      BY <1>1, <2>2, <3>1, FaultType DEF Move, BackfillStep
  <2>3. CASE StartRelay \/ EndRun \/ FetchPage \/ FetchHangs \/ SaveBuilders
    <3>1. nRuns' = nRuns /\ nFaults' = nFaults
      BY <2>3 DEF StartRelay, EndRun, FetchPage, FetchHangs, SaveBuilders
    <3>2. QED
      BY <1>1, <2>3, <3>1 DEF Move, BackfillStep
  <2>4. CASE Call
    <3>1. PICK c \in InitCursors, m \in MinSlots : pc = "idle" /\ NewProcess /\ BeginRun(c, m)
      BY <2>4 DEF Call, StartRun
    <3>2. nFaults' = nFaults
      BY <3>1 DEF BeginRun
    <3>3. QED
      BY <1>1, <3>1, <3>2, ProcessType DEF Begin, Move
  <2>5. CASE Kill
    <3>1. Fault /\ Die /\ nRuns' = nRuns
      BY <2>5 DEF Kill, Die
    <3>2. QED
      BY <1>1, <3>1, FaultType DEF Move
  <2>6. QED
    BY <1>2, <2>1, <2>2, <2>3, <2>4, <2>5 DEF BackfillAlone, BackfillStep
<1>3. CASE RunnerCall
  <2>1. PICK m \in MinSlots : pc = "idle" /\ NewProcess /\ BeginRun(0, m)
    BY <1>3 DEF RunnerCall, StartService
  <2>2. nFaults' = nFaults
    BY <2>1 DEF BeginRun
  <2>3. QED
    BY <1>1, <2>1, <2>2, ProcessType DEF Begin, Move
<1>4. CASE EndCycle \/ EndOnce \/ CycleHangs \/ Signal \/ TakeSignal \/ UNCHANGED runnerVars
  <2>1. UNCHANGED vars
    BY <1>4 DEF EndCycle, EndOnce, CycleHangs, Signal, TakeSignal, runnerVars
  <2>2. QED
    BY <1>1, <2>1 DEF vars
<1>5. CASE TakeTick
  <2>1. pc = "idle" /\ BeginRun(0, offset) /\ nRuns' = nRuns /\ nFaults' = nFaults
    BY <1>1, <1>5 DEF TakeTick, BeginRun
  <2>2. QED
    BY <1>1, <2>1 DEF Begin, Move
<1>6. CASE EarlySignal
  BY <1>1, <1>6 DEF EarlySignal, Die, Move
<1>7. CASE KillService
  <2>1. Fault /\ Die /\ nRuns' = nRuns
    BY <1>7 DEF KillService, Die
  <2>2. QED
    BY <1>1, <2>1, FaultType DEF Move
<1>8. QED
  BY <1>2, <1>3, <1>4, <1>5, <1>6, <1>7 DEF RunnerNext

\* Ending a relay or a run leaves its variables typed.
LEMMA EndType ==
    ASSUME TypeInv, EndRelay
    PROVE  /\ latestSlotInDB' \in Nat
           /\ cursorSlot' \in Nat
           /\ slotsReceived' \in SUBSET Nat
           /\ newBuilders' \in SUBSET {p.builder : p \in Payloads}
           /\ payloadsNew' \in BOOLEAN
  BY DEF EndRelay

\* The relay at hand, and those left.
LEMMA HeadTail ==
    ASSUME NEW S, NEW q \in Seq(S), q # <<>>
    PROVE  Head(q) \in S /\ Tail(q) \in Seq(S)
  OBVIOUS

\* The minimum slot of a run is a number.
LEMMA MinSlotType ==
    ASSUME headSlot \in StartHead .. MaxHead, NEW m \in MinSlots \cup {0}
    PROVE  EffectiveMinSlot(m) \in Nat
  BY OffsetAssumption DEF EffectiveMinSlot

\* The newest row of a relay has a slot that was reached.
LEMMA LatestType ==
    ASSUME TypeInv, NEW r
    PROVE  /\ MaxSlotOf(Of(r, db)) \in Nat
           /\ MaxSlotOf(Of(r, db)) <= headSlot
           /\ \A q \in Of(r, db) : q.slot <= MaxSlotOf(Of(r, db))
           /\ MaxSlotOf(Of(r, db)) \in {q.slot : q \in Of(r, db)} \cup {0}
<1>1. Of(r, db) \in SUBSET Payloads /\ headSlot \in Nat
  BY DEF TypeInv, TypeOK, Of
<1>2. \A p \in Of(r, db) : p.slot <= headSlot
  BY DEF TypeInv, TypeOK, HeadIsNewest, Of
<1>3. CASE Of(r, db) = {}
  BY <1>1, <1>3 DEF MaxSlotOf
<1>4. CASE Of(r, db) # {}
  BY <1>1, <1>2, <1>4, MaxSlotFact, PayloadsAssumption
<1>5. QED
  BY <1>3, <1>4

\* A page is of the payloads the relay delivered.
LEMMA PageType ==
    ASSUME TypeInv, NEW S \in SUBSET Visible(cur, cursorSlot)
    PROVE  /\ S \in SUBSET delivered /\ S \in SUBSET Payloads
           /\ {p.slot : p \in S} \in SUBSET Nat
           /\ {p.builder : p \in S} \in SUBSET {p.builder : p \in Payloads}
           /\ CursorAfter(cursorSlot, S) \in Nat
<1>1. S \in SUBSET delivered /\ S \in SUBSET Payloads
  BY DEF TypeInv, TypeOK, Visible, Of
<1>2. {p.slot : p \in S} \in SUBSET Nat
  BY <1>1, PayloadsAssumption
<1>3. S # {} => MinSlotOf(S) \in Nat
  BY <1>1, <1>2, MinSlotFact
<1>4. QED
  BY <1>1, <1>2, <1>3 DEF CursorAfter, TypeInv, TypeOK

\* Every move keeps the types.
LEMMA MoveType ==
    ASSUME TypeInv, Move, nRuns' \in 0 .. MaxRuns, nFaults' \in 0 .. MaxFaults
    PROVE  TypeInv'
<1> USE DEF TypeInv, TypeOK, HeadIsNewest
<1>1. CASE NextSlot
  BY <1>1, PayloadsAssumption DEF NextSlot, dbVars, runVars, bfVars, obsVars
<1>2. CASE RelayStep
  <2>1. PICK d \in Payloads : Deliver(d)
    BY <1>2 DEF RelayStep
  <2>2. /\ delivered' = delivered \cup {d} /\ late' \in SUBSET (late \cup {d})
        /\ d.slot <= headSlot
        /\ UNCHANGED <<headSlot, dbVars, pc, runVars, bfVars, floor, interrupted, errorLog, clean>>
    BY <2>1, PayloadsAssumption DEF Deliver
  <2>3. QED
    BY <2>2 DEF dbVars, runVars, bfVars
<1>3. CASE Begin
  <2>1. PICK c \in InitCursors \cup {0}, m \in MinSlots \cup {0} : BeginRun(c, m)
    BY <1>3 DEF Begin
  <2>2. EffectiveMinSlot(m) \in Nat
    <3>1. headSlot \in StartHead .. MaxHead
      OBVIOUS
    <3>2. QED
      BY <3>1, MinSlotType
  <2>3. c \in Nat
    OBVIOUS
  <2>4. floor' \in Nat
    BY <2>1, <2>2 DEF BeginRun
  <2>5. QED
    BY <2>1, <2>2, <2>3, <2>4, RelaysAssumption DEF BeginRun, dbVars, bfVars
<1>4. CASE StartRelay
  BY <1>4, LatestType DEF StartRelay, dbVars, runVars, obsVars
<1>5. CASE EndRun
  BY <1>5 DEF EndRun, Idle, dbVars, bfVars, obsVars
<1>6. CASE FetchPage
  <2>1. PICK S \in SUBSET Visible(cur, cursorSlot) :
          /\ db' = db \cup S
          /\ payloadsNew' = (\E p \in S : p.slot \notin slotsReceived)
          /\ slotsReceived' = slotsReceived \cup {p.slot : p \in S}
          /\ cursorSlot' = CursorAfter(cursorSlot, S)
          /\ newBuilders' = newBuilders \cup {p.builder : p \in S}
    BY <1>6 DEF FetchPage
  <2>2. db' \in SUBSET delivered /\ slotsReceived' \in SUBSET Nat
    BY <2>1, PageType
  <2>3. newBuilders' \in SUBSET {p.builder : p \in Payloads} /\ cursorSlot' \in Nat
    BY <2>1, PageType
  <2>4. QED
    BY <1>6, <2>1, <2>2, <2>3 DEF FetchPage, runVars, obsVars
<1>11. CASE FetchHangs
  BY <1>11 DEF FetchHangs, dbVars, runVars, bfVars, obsVars
<1>7. CASE FetchFails
  <2>1. todo # <<>> /\ cur \in RelaySet /\ Tail(todo) \in Seq(RelaySet)
    BY <1>7, HeadTail DEF FetchFails, cur
  <2>2. QED
    BY <1>7, <2>1, EndType DEF FetchFails, Interrupt, NextRelay, dbVars
<1>8. CASE SaveBuilders \/ SaveBuilderFails
  <2>1. todo # <<>> /\ Tail(todo) \in Seq(RelaySet)
    BY <1>8, HeadTail DEF SaveBuilders, SaveBuilderFails
  <2>2. /\ todo' \in Seq(RelaySet)
        /\ pc' \in {"fetch", "relay"}
        /\ pc' = "fetch" => todo' # <<>>
        /\ latestSlotInDB' \in Nat /\ cursorSlot' \in Nat
        /\ slotsReceived' \in SUBSET Nat /\ payloadsNew' \in BOOLEAN
        /\ newBuilders' \in SUBSET {p.builder : p \in Payloads}
    BY <1>8, <2>1, EndType DEF SaveBuilders, SaveBuilderFails, Continue, NextRelay, bfVars
  <2>3. builders' \in SUBSET {p.builder : p \in Payloads}
        /\ errorLog' \in SUBSET {p.builder : p \in Payloads}
    BY <1>8 DEF SaveBuilders, SaveBuilderFails, obsVars
  <2>4. QED
    BY <1>8, <2>2, <2>3 DEF SaveBuilders, SaveBuilderFails, obsVars
<1>9. CASE Die
  <2>1. pc \in {"fetch", "hung", "builders"} => cur \in RelaySet
    BY HeadTail DEF cur
  <2>2. clean' = FALSE /\ interrupted' \in SUBSET RelaySet
    BY <1>9, <2>1 DEF Die, Interrupt
  <2>3. clean' \in BOOLEAN
    BY <2>2
  <2>4. pc' = "idle" /\ todo' = <<>> /\ minSlot' = 0 /\ initCursor' = 0
    BY <1>9 DEF Die, Idle
  <2>5. /\ latestSlotInDB' \in Nat /\ cursorSlot' \in Nat
        /\ slotsReceived' \in SUBSET Nat /\ payloadsNew' \in BOOLEAN
        /\ newBuilders' \in SUBSET {p.builder : p \in Payloads}
    BY <1>9, EndType DEF Die
  <2>6. UNCHANGED <<headSlot, delivered, db, builders, floor, errorLog, late>>
    BY <1>9 DEF Die, dbVars
  <2>7. QED
    BY <2>2, <2>4, <2>5, <2>6, <2>3
<1>10. QED
  BY <1>1, <1>2, <1>3, <1>4, <1>5, <1>6, <1>7, <1>8, <1>9, <1>11 DEF Move, BackfillStep

\* The variables of the service, and what they say of the run at hand.
LEMMA ServiceType ==
    ASSUME RunnerTypeOK, [RunnerNext]_runnerVars
    PROVE  /\ svc' \in {"off", "cycle", "wait", "hung"}
           /\ offset' \in MinSlots \cup {0}
           /\ registered' \in BOOLEAN
           /\ sigC' \in 0 .. 1
           /\ svc' = "wait" => pc' = "idle" /\ registered'
           /\ svc' = "hung" => pc' = "idle"
           /\ svc' = "off" => ~ registered'
<1> USE DEF RunnerTypeOK
<1>1. CASE BackfillAlone
  <2>1. svc \in {"wait", "hung"} => pc' = pc
    BY <1>1 DEF BackfillAlone, World, NextSlot, RelayStep, Deliver, BackfillStep, StartRelay, EndRun,
                FetchPage, FetchFails, FetchHangs, SaveBuilders, SaveBuilderFails
  <2>2. QED
    BY <1>1, <2>1 DEF BackfillAlone, svcVars
<1>2. CASE RunnerCall
  BY <1>2 DEF RunnerCall, StartService
<1>3. CASE EndCycle
  BY <1>3 DEF EndCycle, vars
<1>11. CASE CycleHangs
  BY <1>11 DEF CycleHangs, vars
<1>4. CASE Signal
  BY <1>4 DEF Signal, vars
<1>5. ASSUME Off PROVE /\ svc' = "off" /\ registered' = FALSE
                       /\ offset' \in MinSlots \cup {0} /\ sigC' \in 0 .. 1
  BY <1>5 DEF Off
<1>6. ASSUME Off PROVE registered' \in BOOLEAN /\ ~ registered'
  BY <1>5, <1>6
<1>7. CASE TakeTick
  BY <1>7 DEF TakeTick
<1>8. CASE EndOnce \/ TakeSignal \/ EarlySignal \/ KillService
  <2>1. Off
    BY <1>8 DEF EndOnce, TakeSignal, EarlySignal, KillService
  <2>2. QED
    BY <2>1, <1>5, <1>6
<1>9. CASE UNCHANGED runnerVars
  BY <1>9 DEF runnerVars, svcVars, vars
<1>10. QED
  BY <1>1, <1>2, <1>3, <1>4, <1>7, <1>8, <1>9, <1>11 DEF RunnerNext

RunnerTypeInv == RunnerTypeOK /\ HeadIsNewest

\* RunnerTypeInv holds initially.
LEMMA TypeInit == RunnerInit => RunnerTypeInv
<1> SUFFICES ASSUME RunnerInit PROVE RunnerTypeInv
  OBVIOUS
<1>1. clean \in BOOLEAN /\ payloadsNew \in BOOLEAN
  BY DEF RunnerInit, Init
<1>2. todo \in Seq(RelaySet) /\ headSlot \in StartHead .. MaxHead
  BY DEF RunnerInit, Init
<1>3. TypeOK /\ HeadIsNewest
  BY <1>1, <1>2 DEF RunnerInit, Init, TypeOK, HeadIsNewest
<1>4. svc = "off" /\ offset = 0 /\ registered = FALSE /\ sigC = 0
  BY DEF RunnerInit
<1>5. registered \in BOOLEAN /\ ~ registered
  BY <1>4
<1>6. offset \in MinSlots \cup {0} /\ sigC \in 0 .. 1 /\ svc \in {"off", "cycle", "wait", "hung"}
  BY <1>4
<1>7. QED
  BY <1>3, <1>4, <1>5, <1>6 DEF RunnerTypeInv, RunnerTypeOK

\* Every step keeps RunnerTypeInv.
LEMMA TypeStep == RunnerTypeInv /\ [RunnerNext]_runnerVars => RunnerTypeInv'
<1> SUFFICES ASSUME RunnerTypeInv, [RunnerNext]_runnerVars PROVE RunnerTypeInv'
  OBVIOUS
<1>1. TypeInv /\ RunnerTypeOK
  BY DEF RunnerTypeInv, RunnerTypeOK, TypeInv
<1>2. TypeInv'
  <2>1. CASE UNCHANGED vars
    BY <1>1, <2>1 DEF TypeInv, TypeOK, HeadIsNewest, vars, dbVars, runVars, bfVars, obsVars
  <2>2. CASE Move
    BY <1>1, <2>2, RunnerMove, MoveType
  <2>3. QED
    BY <1>1, <2>1, <2>2, RunnerMove
<1>3. QED
  BY <1>1, <1>2, ServiceType DEF RunnerTypeInv, RunnerTypeOK, TypeInv

\* The service's and the backfill's variables keep their types; a minimum slot
\* given as an offset never becomes negative (runBackfillCycle, RunBackfill).
THEOREM TypeCorrect == RunnerSpec => []RunnerTypeOK
<1>1. RunnerTypeInv => RunnerTypeOK
  BY DEF RunnerTypeInv
<1>2. QED
  BY <1>1, TypeInit, TypeStep, PTL DEF RunnerSpec

-----------------------------------------------------------------------------
(* Pages leave nothing out.                                                 *)

\* Payloads the relay has and the table lacks, above every minimum slot, and not
\* listed late.
Missing(r) == {p \in Of(r, delivered) \ (db \cup late) : floor <= p.slot}

\* The pages of this relay's backfill are past p, or there is none so far, or
\* none is to come.
Settled(p) ==
    p.slot > cursorSlot \/ slotsReceived = {} \/ (pc = "builders" /\ ~ payloadsNew)

RelayInv(r) ==
    /\ ~ InProgress(r) => \A p \in Missing(r) : IsNewest(p, r)
    /\ InProgress(r) =>
         latestSlotInDB = 0 \/ \E q \in Of(r, db) : latestSlotInDB <= q.slot
    /\ InProgress(r) =>
         \A p \in Missing(r) : latestSlotInDB <= p.slot /\ (Settled(p) => IsNewest(p, r))

\* The variables of a relay's backfill are fresh before it, the cursor is the
\* lowest slot received, and the bounds are known.
LocalInv ==
    /\ pc \in {"idle", "relay"} => slotsReceived = {}
    /\ slotsReceived = {} => newBuilders = {}
    /\ slotsReceived # {} => cursorSlot > 0 /\ \A s \in slotsReceived : cursorSlot <= s
    /\ minSlot <= floor

HoleInv ==
    /\ TypeInv
    /\ LocalInv
    /\ \A r \in RelaySet : r \notin interrupted => RelayInv(r)

\* The cursor after a page is the page's lowest slot.
LEMMA CursorFact ==
    ASSUME TypeInv, NEW S \in SUBSET Visible(cur, cursorSlot)
    PROVE  /\ S = {} => CursorAfter(cursorSlot, S) = cursorSlot
           /\ S # {} => CursorAfter(cursorSlot, S) = MinSlotOf(S)
<1>1. CASE S = {}
  BY <1>1 DEF CursorAfter
<1>2. CASE S # {}
  <2>1. S \in SUBSET Payloads
    BY PageType
  <2>2. PICK p \in S : MinSlotOf(S) = p.slot
    BY <1>2, <2>1, MinSlotFact
  <2>3. cursorSlot \in Nat /\ p.slot \in Nat
    BY <2>1, PayloadsAssumption DEF TypeInv, TypeOK
  <2>4. cursorSlot > 0 => p.slot <= cursorSlot
    BY DEF Visible
  <2>5. QED
    BY <1>2, <2>2, <2>3, <2>4 DEF CursorAfter
<1>3. QED
  BY <1>1, <1>2

\* What is visible and not in a page is at or below the next cursor; a page of
\* slots received before is all there is.
LEMMA PageFact ==
    ASSUME TypeInv, LocalInv, NEW S \in SUBSET Visible(cur, cursorSlot),
           IsPage(S, Visible(cur, cursorSlot)), NEW c, c = CursorAfter(cursorSlot, S)
    PROVE  /\ S = {} => c = cursorSlot
           /\ S # {} => c \in {p.slot : p \in S} /\ \A p \in S : c <= p.slot
           /\ \A p \in Visible(cur, cursorSlot) \ S : p.slot <= c
           /\ (\A p \in S : p.slot \in slotsReceived) => S = Visible(cur, cursorSlot)
<1> DEFINE V == Visible(cur, cursorSlot)
<1>1. S \in SUBSET Payloads /\ V \in SUBSET Payloads
  BY PageType
<1>2. S # {} => c \in {p.slot : p \in S} /\ \A p \in S : c <= p.slot
  BY <1>1, CursorFact, MinSlotFact
<1>3. S = {} => c = cursorSlot
  BY CursorFact
<1>4. S = {} => V = {}
  BY PageAssumption, FS_EmptySet DEF IsPage
<1>5. ASSUME NEW p \in V \ S PROVE p.slot <= c
  <2>1. S # {}
    BY <1>4
  <2>2. PICK q \in S : c = q.slot
    BY <1>2, <2>1
  <2>3. q.slot >= p.slot /\ p.slot \in Nat /\ q.slot \in Nat
    BY <1>1, PayloadsAssumption DEF IsPage
  <2>4. QED
    BY <2>2, <2>3
<1>6. ASSUME \A p \in S : p.slot \in slotsReceived PROVE S = V
  <2>1. CASE S = {}
    BY <1>4, <2>1
  <2>2. CASE S # {}
    <3>1. PICK q \in S : TRUE
      BY <2>2
    <3>2. slotsReceived # {} /\ cursorSlot > 0 /\ \A s \in slotsReceived : cursorSlot <= s
      BY <1>6, <3>1 DEF LocalInv
    <3>3. cursorSlot \in Nat
      BY DEF TypeInv, TypeOK
    <3>4. ASSUME NEW p \in S PROVE p.slot = cursorSlot /\ p.relay = cur
      <4>1. p.slot <= cursorSlot /\ p.relay = cur
        BY <3>2, <3>3 DEF Visible, Of
      <4>2. cursorSlot <= p.slot /\ p.slot \in Nat
        BY <1>1, <1>6, <3>2, PayloadsAssumption
      <4>3. QED
        BY <3>3, <4>1, <4>2
    <3>5. S \subseteq {p \in Payloads : p.relay = q.relay /\ p.slot = q.slot}
      BY <1>1, <3>4
    <3>6. Cardinality(S) < PageLimit
      <4> DEFINE Q == {p \in Payloads : p.relay = q.relay /\ p.slot = q.slot}
      <4>1. IsFiniteSet(Q)
        BY PayloadsAssumption, FS_Subset
      <4>2. IsFiniteSet(S) /\ Cardinality(S) <= Cardinality(Q)
        BY <3>5, <4>1, FS_Subset
      <4>3. Cardinality(Q) < PageLimit
        BY <1>1, PageAssumption
      <4>4. Cardinality(S) \in Nat /\ Cardinality(Q) \in Nat
        BY <4>1, <4>2, FS_CardinalityType
      <4>5. QED
        BY <4>2, <4>3, <4>4
    <3>7. Cardinality(S) \in Nat
      <4>1. IsFiniteSet(S)
        BY <1>1, PayloadsAssumption, FS_Subset
      <4>2. QED
        BY <4>1, FS_CardinalityType
    <3>8. QED
      BY <3>6, <3>7 DEF IsPage
  <2>3. QED
    BY <2>1, <2>2
<1>7. QED
  BY <1>2, <1>3, <1>5, <1>6

\* Every move keeps LocalInv.
LEMMA LocalStep ==
    ASSUME TypeInv, LocalInv, Move
    PROVE  LocalInv'
<1>1. headSlot \in Nat /\ floor \in Nat /\ cursorSlot \in Nat /\ latestSlotInDB \in Nat
  BY DEF TypeInv, TypeOK
<1>2. ASSUME EndRelay, minSlot' \in {minSlot, 0}, UNCHANGED <<headSlot, floor>>
      PROVE  LocalInv'
  BY <1>1, <1>2 DEF EndRelay, LocalInv
<1>3. CASE NextSlot
  BY <1>1, <1>3 DEF NextSlot, LocalInv, runVars, bfVars, obsVars
<1>4. CASE RelayStep \/ FetchHangs
  BY <1>1, <1>4 DEF RelayStep, Deliver, FetchHangs, LocalInv, runVars, bfVars, obsVars
<1>5. CASE Begin
  <2>1. PICK c \in InitCursors \cup {0}, m \in MinSlots \cup {0} : BeginRun(c, m)
    BY <1>5 DEF Begin
  <2>2. EffectiveMinSlot(m) \in Nat
    BY MinSlotType DEF TypeInv, TypeOK
  <2>3. minSlot' <= floor'
    BY <1>1, <2>1, <2>2 DEF BeginRun
  <2>4. QED
    BY <1>5, <2>1, <2>3 DEF BeginRun, Begin, LocalInv, bfVars
<1>6. CASE StartRelay
  BY <1>6 DEF StartRelay, LocalInv, runVars, obsVars
<1>7. CASE EndRun
  BY <1>1, <1>7 DEF EndRun, Idle, LocalInv, bfVars, obsVars
<1>8. CASE FetchPage
  <2>1. PICK S \in SUBSET Visible(cur, cursorSlot) :
          /\ IsPage(S, Visible(cur, cursorSlot))
          /\ slotsReceived' = slotsReceived \cup {p.slot : p \in S}
          /\ cursorSlot' = CursorAfter(cursorSlot, S)
          /\ newBuilders' = newBuilders \cup {p.builder : p \in S}
    BY <1>8 DEF FetchPage
  <2>2. /\ S = {} => cursorSlot' = cursorSlot
        /\ S # {} => cursorSlot' \in {p.slot : p \in S} /\ \A p \in S : cursorSlot' <= p.slot
    BY <2>1, PageFact
  <2>3. ASSUME S # {} PROVE cursorSlot' > 0 /\ \A t \in slotsReceived' : cursorSlot' <= t
    <3>1. PICK p \in S : cursorSlot' = p.slot
      BY <2>2, <2>3
    <3>2. p.slot \in Nat \ {0} /\ slotsReceived \in SUBSET Nat
      BY PageType, PayloadsAssumption DEF TypeInv, TypeOK
    <3>3. ASSUME NEW t \in slotsReceived PROVE cursorSlot' <= t
      <4>1. cursorSlot > 0 /\ cursorSlot <= t /\ t \in Nat
        BY <3>2, <3>3 DEF LocalInv
      <4>2. p.slot <= cursorSlot
        BY <4>1, <1>1 DEF Visible
      <4>3. QED
        BY <1>1, <3>1, <3>2, <4>1, <4>2
    <3>4. QED
      BY <2>1, <2>2, <2>3, <3>1, <3>2, <3>3
  <2>4. /\ slotsReceived' # {} => cursorSlot' > 0 /\ \A t \in slotsReceived' : cursorSlot' <= t
        /\ slotsReceived' = {} => newBuilders' = {}
    <3>1. CASE S = {}
      BY <2>1, <2>2, <3>1 DEF LocalInv
    <3>2. CASE S # {}
      BY <2>1, <2>3, <3>2
    <3>3. QED
      BY <3>1, <3>2
  <2>5. pc' = "builders" /\ UNCHANGED <<minSlot, floor>>
    BY <1>8 DEF FetchPage, runVars, obsVars
  <2>6. QED
    BY <2>4, <2>5 DEF LocalInv
<1>9. CASE FetchFails
  BY <1>2, <1>9 DEF FetchFails, NextRelay
<1>10. CASE SaveBuilders \/ SaveBuilderFails
  <2>1. CASE Done
    BY <1>2, <1>10, <2>1 DEF SaveBuilders, SaveBuilderFails, Continue, NextRelay, obsVars
  <2>2. CASE ~ Done
    BY <1>10, <2>2 DEF SaveBuilders, SaveBuilderFails, Continue, bfVars, obsVars, LocalInv
  <2>3. QED
    BY <2>1, <2>2
<1>11. CASE Die
  BY <1>2, <1>11 DEF Die, Idle
<1>12. QED
  BY <1>3, <1>4, <1>5, <1>6, <1>7, <1>8, <1>9, <1>10, <1>11 DEF Move, BackfillStep

\* Where a relay's backfill ends undisturbed, nothing that is missing is below
\* the newest row; where it breaks off, nothing is if no page has come.
LEMMA EndsSettled ==
    ASSUME HoleInv, InProgress(cur), cur \in RelaySet, cur \notin interrupted,
           slotsReceived = {} \/ (pc = "builders" /\ Done)
    PROVE  \A p \in Missing(cur) : IsNewest(p, cur)
<1> SUFFICES ASSUME NEW p \in Missing(cur) PROVE IsNewest(p, cur)
  OBVIOUS
<1>1. latestSlotInDB <= p.slot /\ (Settled(p) => IsNewest(p, cur))
  BY DEF HoleInv, RelayInv
<1>2. /\ p.slot \in Nat /\ cursorSlot \in Nat /\ latestSlotInDB \in Nat
      /\ minSlot \in Nat /\ floor \in Nat
  BY PayloadsAssumption DEF HoleInv, TypeInv, TypeOK, Missing, Of
<1>3. floor <= p.slot /\ minSlot <= floor
  BY DEF Missing, HoleInv, LocalInv
<1>4. Settled(p)
  BY <1>1, <1>2, <1>3 DEF Settled, Done
<1>5. QED
  BY <1>1, <1>4

\* A step between relays, before and after which none is at hand, keeps what
\* holds of each, if no row or payload comes and the floor does not fall.
LEMMA BetweenRelays ==
    ASSUME HoleInv, pc \in {"idle", "relay"}, pc' \in {"idle", "relay"},
           UNCHANGED <<delivered, db, late, interrupted>>, floor' \in Nat, floor <= floor'
    PROVE  \A r \in RelaySet : r \notin interrupted' => RelayInv(r)'
<1> SUFFICES ASSUME NEW r \in RelaySet, r \notin interrupted PROVE RelayInv(r)'
  OBVIOUS
<1>1. \A p \in Missing(r) : IsNewest(p, r)
  BY DEF HoleInv, RelayInv, InProgress
<1>2. ASSUME NEW p \in Missing(r)' PROVE p \in Missing(r)
  <2>1. p.slot \in Nat /\ floor \in Nat
    BY PayloadsAssumption DEF HoleInv, TypeInv, TypeOK, Missing, Of
  <2>2. QED
    BY <2>1 DEF Missing, Of
<1>3. \A p : IsNewest(p, r)' <=> IsNewest(p, r)
  BY DEF IsNewest, Of
<1>4. QED
  BY <1>1, <1>2, <1>3 DEF RelayInv, InProgress

\* A step that ends a relay's backfill, undisturbed or broken off.
LEMMA RelayEnds ==
    ASSUME HoleInv, pc \in {"fetch", "hung", "builders"}, pc' \in {"idle", "relay"},
           UNCHANGED <<delivered, db, late, floor>>,
           \/ UNCHANGED interrupted /\ (slotsReceived = {} \/ (pc = "builders" /\ Done))
           \/ interrupted' = interrupted \cup {cur}
    PROVE  \A r \in RelaySet : r \notin interrupted' => RelayInv(r)'
<1> SUFFICES ASSUME NEW r \in RelaySet, r \notin interrupted' PROVE RelayInv(r)'
  OBVIOUS
<1>1. \A p \in Missing(r) : IsNewest(p, r)
  <2>1. r \notin interrupted
    OBVIOUS
  <2>2. CASE r = cur
    BY <2>1, <2>2, EndsSettled DEF InProgress
  <2>3. CASE r # cur
    BY <2>1, <2>3 DEF HoleInv, RelayInv, InProgress
  <2>4. QED
    BY <2>2, <2>3
<1>2. Missing(r)' = Missing(r)
  BY DEF Missing, Of
<1>3. \A p : IsNewest(p, r)' <=> IsNewest(p, r)
  BY DEF IsNewest, Of
<1>4. QED
  BY <1>1, <1>2, <1>3 DEF RelayInv, InProgress

\* Every move keeps what holds of each relay.
LEMMA HoleStep ==
    ASSUME HoleInv, Move
    PROVE  \A r \in RelaySet : r \notin interrupted' => RelayInv(r)'
<1>1. /\ headSlot \in Nat /\ floor \in Nat /\ cursorSlot \in Nat /\ latestSlotInDB \in Nat
      /\ minSlot \in Nat
      /\ db \in SUBSET delivered /\ delivered \in SUBSET Payloads
      /\ \A p \in Payloads : p.slot \in Nat
  BY PayloadsAssumption DEF HoleInv, TypeInv, TypeOK
<1>0. delivered' \in SUBSET Payloads
  <2>1. \A d \in Payloads : Deliver(d) => delivered' = delivered \cup {d}
    BY DEF Deliver
  <2>2. RelayStep \/ delivered' = delivered
    BY DEF Move, BackfillStep, NextSlot, Begin, BeginRun, StartRelay, EndRun, FetchPage, FetchFails,
           FetchHangs, SaveBuilders, SaveBuilderFails, Die
  <2>3. QED
    BY <1>1, <2>1, <2>2 DEF RelayStep
<1>2. ASSUME UNCHANGED <<db, interrupted, todo, floor, bfVars>>,
             pc' = pc \/ (pc = "fetch" /\ pc' = "hung"), late \subseteq late',
             NEW r \in RelaySet, r \notin interrupted,
             \A p \in Of(r, delivered') \ (Of(r, delivered) \cup late') : IsNewest(p, r)
      PROVE  RelayInv(r)'
  <2>1. RelayInv(r)
    BY <1>2 DEF HoleInv
  <2>2. \A p : (IsNewest(p, r)' <=> IsNewest(p, r)) /\ (Settled(p)' <=> Settled(p))
    BY <1>2 DEF IsNewest, Of, Settled, bfVars
  <2>3. InProgress(r)' <=> InProgress(r)
    BY <1>2 DEF InProgress, cur
  <2>4. \A p \in Missing(r)' : (p \in Missing(r) \/ IsNewest(p, r)) /\ p.slot \in Nat
    <3>1. Missing(r)' \in SUBSET Payloads
      <4>1. delivered' \in SUBSET Payloads
        BY <1>0
      <4>2. QED
        BY <4>1 DEF Missing, Of
    <3>2. QED
      BY <1>1, <1>2, <3>1 DEF Missing, Of
  <2>5. ASSUME InProgress(r), NEW p, IsNewest(p, r), p.slot \in Nat PROVE latestSlotInDB <= p.slot
    <3>1. latestSlotInDB = 0 \/ \E q \in Of(r, db) : latestSlotInDB <= q.slot
      BY <2>1, <2>5 DEF RelayInv
    <3>2. \A q \in Of(r, db) : q.slot \in Nat /\ q.slot <= p.slot
      BY <1>1, <2>5 DEF IsNewest, Of
    <3>3. QED
      BY <1>1, <2>5, <3>1, <3>2
  <2>6. Of(r, db') = Of(r, db) /\ latestSlotInDB' = latestSlotInDB
    BY <1>2 DEF bfVars
  <2>7. QED
    BY <2>1, <2>2, <2>3, <2>4, <2>5, <2>6 DEF RelayInv
<1>3. CASE NextSlot
  <2>1. /\ UNCHANGED <<db, late, interrupted, pc, todo, floor, bfVars>>
        /\ delivered' = delivered
    BY <1>3 DEF NextSlot, dbVars, runVars, obsVars
  <2>2. QED
    BY <1>2, <2>1
<1>13. CASE FetchHangs
  <2>1. /\ UNCHANGED <<db, late, interrupted, todo, floor, bfVars>>
        /\ delivered' = delivered /\ pc = "fetch" /\ pc' = "hung"
    BY <1>13 DEF FetchHangs, dbVars, runVars, obsVars
  <2>2. QED
    BY <1>2, <2>1
<1>4. CASE RelayStep
  <2>1. PICK d \in Payloads : Deliver(d)
    BY <1>4 DEF RelayStep
  <2>2. /\ UNCHANGED <<db, interrupted, pc, todo, floor, bfVars>>
        /\ delivered' = delivered \cup {d}
        /\ late \subseteq late'
        /\ IsNewest(d, d.relay) \/ d \in late'
    BY <2>1 DEF Deliver, dbVars, runVars
  <2>3. \A r : \A p \in Of(r, delivered') \ (Of(r, delivered) \cup late') : IsNewest(p, r)
    BY <2>2 DEF Of
  <2>4. QED
    BY <1>2, <2>2, <2>3
<1>5. CASE Begin
  <2>1. PICK c \in InitCursors \cup {0}, m \in MinSlots \cup {0} : BeginRun(c, m)
    BY <1>5 DEF Begin
  <2>2. EffectiveMinSlot(m) \in Nat
    BY MinSlotType DEF HoleInv, TypeInv, TypeOK
  <2>3. floor' \in Nat /\ floor <= floor'
    BY <1>1, <2>1, <2>2 DEF BeginRun
  <2>4. pc = "idle" /\ pc' = "relay" /\ UNCHANGED <<delivered, db, late, interrupted>>
    BY <1>5, <2>1 DEF Begin, BeginRun, dbVars
  <2>5. QED
    BY <2>3, <2>4, BetweenRelays
<1>6. CASE StartRelay
  <2>1. /\ pc = "relay" /\ pc' = "fetch" /\ todo' = todo
        /\ latestSlotInDB' = MaxSlotOf(Of(cur, db))
        /\ UNCHANGED <<delivered, db, late, floor, interrupted, slotsReceived>>
    BY <1>6 DEF StartRelay, dbVars, runVars, obsVars
  <2>2. ASSUME NEW r \in RelaySet, r \notin interrupted PROVE RelayInv(r)'
    <3>1. \A p \in Missing(r) : IsNewest(p, r)
      BY <2>1, <2>2 DEF HoleInv, RelayInv, InProgress
    <3>2. Missing(r)' = Missing(r) /\ \A p : IsNewest(p, r)' <=> IsNewest(p, r)
      BY <2>1 DEF Missing, Of, IsNewest
    <3>3. ASSUME r = cur, NEW p \in Missing(r) PROVE latestSlotInDB' <= p.slot
      <4>1. p.slot \in Nat
        BY <1>1 DEF Missing, Of
      <4>2. CASE MaxSlotOf(Of(cur, db)) = 0
        BY <2>1, <4>1, <4>2
      <4>3. CASE MaxSlotOf(Of(cur, db)) # 0
        <5>1. PICK q \in Of(cur, db) : q.slot = MaxSlotOf(Of(cur, db))
          BY <4>3, LatestType DEF HoleInv
        <5>2. QED
          BY <2>1, <3>1, <3>3, <5>1 DEF IsNewest
      <4>4. QED
        BY <4>2, <4>3
    <3>4. InProgress(r)' => r = cur
      BY <2>1 DEF InProgress, cur
    <3>5. r = cur => latestSlotInDB' = 0 \/ \E q \in Of(r, db') : latestSlotInDB' <= q.slot
      <4>1. MaxSlotOf(Of(r, db)) \in {q.slot : q \in Of(r, db)} \cup {0} /\ MaxSlotOf(Of(r, db)) \in Nat
        BY LatestType DEF HoleInv
      <4>2. QED
        BY <2>1, <4>1
    <3>6. QED
      BY <3>1, <3>2, <3>3, <3>4, <3>5 DEF RelayInv
  <2>3. QED
    BY <2>1, <2>2
<1>7. CASE EndRun
  <2>1. /\ pc = "relay" /\ pc' = "idle"
        /\ UNCHANGED <<delivered, db, late, interrupted, floor>>
    BY <1>7 DEF EndRun, Idle, dbVars, obsVars
  <2>2. QED
    BY <1>1, <2>1, BetweenRelays
<1>8. CASE FetchPage
  <2>1. PICK S \in SUBSET Visible(cur, cursorSlot) :
          /\ IsPage(S, Visible(cur, cursorSlot))
          /\ db' = db \cup S
          /\ payloadsNew' = (\E p \in S : p.slot \notin slotsReceived)
          /\ slotsReceived' = slotsReceived \cup {p.slot : p \in S}
          /\ cursorSlot' = CursorAfter(cursorSlot, S)
    BY <1>8 DEF FetchPage
  <2>2. /\ pc = "fetch" /\ pc' = "builders"
        /\ UNCHANGED <<delivered, late, todo, latestSlotInDB, floor, interrupted>>
    BY <1>8 DEF FetchPage, runVars, obsVars
  <2>3. /\ S = {} => cursorSlot' = cursorSlot
        /\ S # {} => cursorSlot' \in {p.slot : p \in S} /\ \A p \in S : cursorSlot' <= p.slot
        /\ \A p \in Visible(cur, cursorSlot) \ S : p.slot <= cursorSlot'
        /\ (\A p \in S : p.slot \in slotsReceived) => S = Visible(cur, cursorSlot)
    BY <2>1, PageFact DEF HoleInv
  <2>4. ASSUME NEW r \in RelaySet, r \notin interrupted, r # cur PROVE RelayInv(r)'
    <3>1. ~ InProgress(r) /\ ~ InProgress(r)'
      BY <2>2, <2>4 DEF InProgress, cur
    <3>2. Of(r, db') = Of(r, db)
      BY <2>1, <2>4 DEF Of, Visible
    <3>3. Missing(r)' = Missing(r) /\ \A p : IsNewest(p, r)' <=> IsNewest(p, r)
      BY <2>2, <3>2 DEF Missing, Of, IsNewest
    <3>4. QED
      BY <2>4, <3>1, <3>3 DEF HoleInv, RelayInv
  <2>5. ASSUME cur \in RelaySet, cur \notin interrupted,
               NEW p \in Of(cur, delivered) \ (db' \cup late), floor <= p.slot
        PROVE  /\ latestSlotInDB <= p.slot
               /\ Settled(p)' => \A q \in Of(cur, db') : q.slot <= p.slot
    <3>1. p \in Missing(cur) /\ p \notin S /\ p.slot \in Nat
      BY <1>1, <2>1, <2>5 DEF Missing, Of
    <3>2. latestSlotInDB <= p.slot /\ (Settled(p) => IsNewest(p, cur))
      BY <2>2, <2>5, <3>1 DEF HoleInv, RelayInv, InProgress
    <3>3. CASE S = {}
      <4>1. db' = db /\ slotsReceived' = slotsReceived /\ cursorSlot' = cursorSlot
        BY <2>1, <2>3, <3>3
      <4>2. Visible(cur, cursorSlot) = {}
        BY <2>3, <3>3
      <4>3. p.slot > cursorSlot
        BY <1>1, <2>5, <3>1, <4>2 DEF Visible
      <4>4. QED
        BY <3>2, <4>1, <4>3 DEF Settled, IsNewest
    <3>4. CASE S # {}
      <4>1. cursorSlot' \in Nat /\ (cursorSlot > 0 => cursorSlot' <= cursorSlot)
        <5>1. PICK q \in S : cursorSlot' = q.slot
          BY <2>3, <3>4
        <5>2. QED
          BY <1>1, <5>1 DEF Visible, Of
      <4>2. ASSUME Settled(p)' PROVE cursorSlot > 0 /\ p.slot > cursorSlot
        <5>1. slotsReceived' # {}
          BY <2>1, <3>4
        <5>2. CASE p.slot > cursorSlot'
          <6>1. p \notin Visible(cur, cursorSlot)
            BY <2>3, <3>1, <4>1, <5>2
          <6>2. QED
            BY <1>1, <2>5, <3>1, <6>1 DEF Visible
        <5>3. CASE ~ payloadsNew'
          <6>1. p \notin Visible(cur, cursorSlot)
            BY <2>1, <2>3, <3>1, <5>3
          <6>2. QED
            BY <1>1, <2>5, <3>1, <6>1 DEF Visible
        <5>4. QED
          BY <4>2, <5>1, <5>2, <5>3 DEF Settled
      <4>3. ASSUME Settled(p)', NEW q \in Of(cur, db') PROVE q.slot <= p.slot
        <5>1. cursorSlot > 0 /\ p.slot > cursorSlot
          BY <4>2, <4>3
        <5>2. CASE q \in db
          BY <3>2, <4>3, <5>1, <5>2 DEF Settled, IsNewest, Of
        <5>3. CASE q \in S
          BY <1>1, <3>1, <5>1, <5>3 DEF Visible, Of
        <5>4. QED
          BY <2>1, <4>3, <5>2, <5>3 DEF Of
      <4>4. QED
        BY <3>2, <4>3
    <3>5. QED
      BY <3>3, <3>4
  <2>6. ASSUME NEW r \in RelaySet, r \notin interrupted, r = cur PROVE RelayInv(r)'
    <3>1. InProgress(r)'
      BY <2>2, <2>6 DEF InProgress, cur
    <3>2. ASSUME NEW p \in Missing(r)'
          PROVE  latestSlotInDB' <= p.slot /\ (Settled(p)' => IsNewest(p, r)')
      <4>1. p \in Of(cur, delivered) \ (db' \cup late) /\ floor <= p.slot
        BY <2>2, <2>6, <3>2 DEF Missing, Of
      <4>2. QED
        BY <2>2, <2>5, <2>6, <4>1 DEF IsNewest, Of
    <3>3. latestSlotInDB' = 0 \/ \E q \in Of(r, db') : latestSlotInDB' <= q.slot
      BY <2>1, <2>2, <2>6 DEF HoleInv, RelayInv, InProgress, Of
    <3>4. QED
      BY <3>1, <3>2, <3>3 DEF RelayInv
  <2>7. QED
    BY <2>2, <2>4, <2>6
<1>9. CASE FetchFails
  <2>1. /\ pc = "fetch" /\ pc' = "relay"
        /\ UNCHANGED <<delivered, db, late, floor>>
        /\ interrupted' = IF slotsReceived = {} THEN interrupted ELSE interrupted \cup {cur}
    BY <1>9 DEF FetchFails, Interrupt, NextRelay, dbVars
  <2>2. QED
    BY <2>1, RelayEnds
<1>10. CASE SaveBuilders \/ SaveBuilderFails
  <2>1. pc = "builders" /\ UNCHANGED <<delivered, db, late, floor, interrupted>>
    BY <1>10 DEF SaveBuilders, SaveBuilderFails, obsVars
  <2>2. CASE Done
    <3>1. pc' = "relay"
      BY <1>10, <2>2 DEF SaveBuilders, SaveBuilderFails, Continue, NextRelay
    <3>2. QED
      BY <2>1, <2>2, <3>1, RelayEnds
  <2>3. CASE ~ Done
    <3>1. pc' = "fetch" /\ UNCHANGED <<todo, bfVars>>
      BY <1>10, <2>3 DEF SaveBuilders, SaveBuilderFails, Continue
    <3>2. ASSUME NEW r \in RelaySet, r \notin interrupted PROVE RelayInv(r)'
      <4>1. RelayInv(r)
        BY <3>2 DEF HoleInv
      <4>2. InProgress(r)' <=> InProgress(r)
        BY <2>1, <3>1 DEF InProgress, cur
      <4>3. Missing(r)' = Missing(r) /\ \A p : IsNewest(p, r)' <=> IsNewest(p, r)
        BY <2>1 DEF Missing, Of, IsNewest
      <4>4. \A p : Settled(p)' => Settled(p)
        BY <3>1 DEF Settled, bfVars
      <4>5. latestSlotInDB' = latestSlotInDB /\ Of(r, db') = Of(r, db)
        BY <2>1, <3>1 DEF bfVars
      <4>6. QED
        BY <4>1, <4>2, <4>3, <4>4, <4>5 DEF RelayInv
    <3>3. QED
      BY <2>1, <3>2
  <2>4. QED
    BY <2>2, <2>3
<1>11. CASE Die
  <2>1. pc' = "idle" /\ UNCHANGED <<delivered, db, late, floor>>
    BY <1>11 DEF Die, Idle, dbVars
  <2>2. CASE pc \in {"fetch", "hung", "builders"}
    <3>1. interrupted' = IF slotsReceived = {} THEN interrupted ELSE interrupted \cup {cur}
      BY <1>11, <2>2 DEF Die, Interrupt
    <3>2. QED
      BY <2>1, <2>2, <3>1, RelayEnds
  <2>3. CASE pc \in {"idle", "relay"}
    <3>1. interrupted' = interrupted
      BY <1>11, <2>3 DEF Die
    <3>2. QED
      BY <1>1, <2>1, <2>3, <3>1, BetweenRelays
  <2>4. QED
    BY <2>2, <2>3 DEF HoleInv, TypeInv, TypeOK
<1>12. QED
  BY <1>3, <1>4, <1>5, <1>6, <1>7, <1>8, <1>9, <1>10, <1>11, <1>13 DEF Move, BackfillStep

RunnerInv == RunnerTypeInv /\ HoleInv

\* RunnerInv holds initially.
LEMMA RunnerInvInit == RunnerInit => RunnerInv
<1> SUFFICES ASSUME RunnerInit PROVE RunnerInv
  OBVIOUS
<1>1. TypeInv /\ RunnerTypeInv
  BY TypeInit DEF RunnerTypeInv, RunnerTypeOK, TypeInv
<1>2. LocalInv
  BY DEF RunnerInit, Init, LocalInv
<1>3. \A r : Missing(r) = {} /\ ~ InProgress(r)
  BY DEF RunnerInit, Init, Missing, Of, InProgress
<1>4. QED
  BY <1>1, <1>2, <1>3 DEF RunnerInv, HoleInv, RelayInv

\* Every step keeps RunnerInv, the inductive invariant.
LEMMA RunnerInvStep == RunnerInv /\ [RunnerNext]_runnerVars => RunnerInv'
<1> SUFFICES ASSUME RunnerInv, [RunnerNext]_runnerVars PROVE RunnerInv'
  OBVIOUS
<1>1. RunnerTypeInv' /\ TypeInv'
  BY TypeStep DEF RunnerInv, RunnerTypeInv, RunnerTypeOK, TypeInv
<1>2. CASE UNCHANGED vars
  <2>1. LocalInv'
    BY <1>2 DEF RunnerInv, HoleInv, LocalInv, vars, runVars, bfVars, obsVars
  <2>2. ASSUME NEW r \in RelaySet, r \notin interrupted PROVE RelayInv(r)'
    <3>1. RelayInv(r)
      BY <2>2 DEF RunnerInv, HoleInv
    <3>2. InProgress(r)' <=> InProgress(r)
      BY <1>2 DEF InProgress, cur, vars, runVars
    <3>3. Missing(r)' = Missing(r) /\ \A p : IsNewest(p, r)' <=> IsNewest(p, r)
      BY <1>2 DEF Missing, Of, IsNewest, vars, dbVars, obsVars
    <3>4. \A p : Settled(p)' <=> Settled(p)
      BY <1>2 DEF Settled, vars, bfVars
    <3>5. latestSlotInDB' = latestSlotInDB /\ Of(r, db') = Of(r, db)
      BY <1>2 DEF vars, bfVars, dbVars
    <3>6. QED
      BY <3>1, <3>2, <3>3, <3>4, <3>5 DEF RelayInv
  <2>3. interrupted' = interrupted
    BY <1>2 DEF vars, obsVars
  <2>4. QED
    BY <1>1, <2>1, <2>2, <2>3 DEF RunnerInv, HoleInv
<1>3. CASE Move
  <2>1. LocalInv' /\ \A r \in RelaySet : r \notin interrupted' => RelayInv(r)'
    BY <1>3, LocalStep, HoleStep DEF RunnerInv, HoleInv
  <2>2. QED
    BY <1>1, <2>1 DEF RunnerInv, HoleInv
<1>4. QED
  BY <1>2, <1>3, RunnerMove DEF RunnerInv, RunnerTypeInv

\* A hole is a missing payload that is not newer than every row.
LEMMA HoleFact ==
    ASSUME TypeInv, NEW r, NEW p \in Holes(r, floor)
    PROVE  p \in Missing(r) /\ ~ IsNewest(p, r)
<1>1. p \in Missing(r) /\ p.slot \in Nat /\ p.slot < MaxSlotOf(Of(r, db))
  BY PayloadsAssumption DEF Holes, Missing, Of, TypeInv, TypeOK
<1>2. PICK q \in Of(r, db) : q.slot = MaxSlotOf(Of(r, db))
  BY <1>1, LatestType
<1>3. QED
  BY <1>1, <1>2, LatestType DEF IsNewest

\* Between runs only a backfill that was broken off can have left a hole: not
\* page borders, nor what relays deliver meanwhile, nor another relay's failure.
THEOREM HolesHold == RunnerSpec => []HolesOnlyAfterInterruption
<1>1. RunnerInv => HolesOnlyAfterInterruption
  BY HoleFact DEF RunnerInv, HoleInv, RelayInv, HolesOnlyAfterInterruption
<1>2. QED
  BY <1>1, RunnerInvInit, RunnerInvStep, PTL DEF RunnerSpec

\* While a relay is backfilled, its pages leave nothing out above the cursor.
THEOREM PagesHold == RunnerSpec => []PagesAreContiguous
<1>1. RunnerInv => PagesAreContiguous
  BY HoleFact DEF RunnerInv, HoleInv, RelayInv, PagesAreContiguous, Settled
<1>2. QED
  BY <1>1, RunnerInvInit, RunnerInvStep, PTL DEF RunnerSpec

-----------------------------------------------------------------------------
(* Builders of rows are known.                                              *)

\* Builders that are saved, logged, or wait for the end of the page.
Known == builders \cup errorLog \cup newBuilders

BuildersInv ==
    \A r \in RelaySet : r \notin interrupted =>
        {p.builder : p \in Of(r, db)}
            \subseteq IF InProgress(r) THEN Known ELSE builders \cup errorLog

\* Every move keeps BuildersInv.
LEMMA BuildersStep ==
    ASSUME TypeInv, LocalInv, BuildersInv, Move
    PROVE  BuildersInv'
<1>1. ASSUME UNCHANGED <<db, builders, errorLog>>, interrupted \subseteq interrupted',
             NEW r \in RelaySet, r \notin interrupted',
             InProgress(r)' => InProgress(r) /\ newBuilders' = newBuilders,
             InProgress(r) /\ ~ InProgress(r)' => newBuilders \subseteq builders \cup errorLog
      PROVE  {p.builder : p \in Of(r, db')}
                \subseteq IF InProgress(r)' THEN Known' ELSE builders' \cup errorLog'
  BY <1>1 DEF BuildersInv, Known, Of
<1>2. CASE NextSlot \/ RelayStep \/ FetchHangs
  <2>1. /\ UNCHANGED <<db, builders, errorLog, interrupted, todo, newBuilders>>
        /\ pc' = pc \/ (pc = "fetch" /\ pc' = "hung")
    BY <1>2 DEF NextSlot, RelayStep, Deliver, FetchHangs, dbVars, runVars, bfVars, obsVars
  <2>2. QED
    BY <1>1, <2>1 DEF BuildersInv, InProgress, cur, Of
<1>3. CASE Begin \/ EndRun
  <2>1. /\ UNCHANGED <<db, builders, errorLog, interrupted>>
        /\ pc \in {"idle", "relay"} /\ pc' \in {"idle", "relay"}
    BY <1>3 DEF Begin, BeginRun, EndRun, Idle, dbVars, bfVars, obsVars
  <2>2. QED
    BY <1>1, <2>1 DEF BuildersInv, InProgress, Of
<1>4. CASE StartRelay
  <2>1. UNCHANGED <<db, builders, errorLog, interrupted, newBuilders>> /\ pc = "relay"
    BY <1>4 DEF StartRelay, dbVars, obsVars
  <2>2. QED
    BY <2>1 DEF BuildersInv, InProgress, Known, Of
<1>5. CASE FetchPage
  <2>1. PICK S \in SUBSET Visible(cur, cursorSlot) :
          /\ db' = db \cup S
          /\ newBuilders' = newBuilders \cup {p.builder : p \in S}
    BY <1>5 DEF FetchPage
  <2>2. /\ pc = "fetch" /\ pc' = "builders"
        /\ UNCHANGED <<builders, errorLog, interrupted, todo>>
    BY <1>5 DEF FetchPage, runVars, obsVars
  <2>3. ASSUME NEW r \in RelaySet, r \notin interrupted, r # cur
        PROVE  {p.builder : p \in Of(r, db')} \subseteq builders \cup errorLog
    BY <2>1, <2>2, <2>3 DEF BuildersInv, InProgress, Of, Visible
  <2>4. ASSUME NEW r \in RelaySet, r \notin interrupted, r = cur
        PROVE  {p.builder : p \in Of(r, db')} \subseteq Known'
    BY <2>1, <2>2, <2>4 DEF BuildersInv, InProgress, Of, Known
  <2>5. \A r : InProgress(r)' <=> r = cur
    BY <2>2 DEF InProgress, cur
  <2>6. QED
    BY <2>2, <2>3, <2>4, <2>5 DEF BuildersInv
<1>6. CASE FetchFails \/ Die
  <2>1. UNCHANGED <<db, builders, errorLog>> /\ pc' \in {"idle", "relay"}
    BY <1>6 DEF FetchFails, NextRelay, Die, Idle, dbVars
  <2>2. /\ interrupted \subseteq interrupted'
        /\ pc \in {"fetch", "hung", "builders"} => cur \in interrupted' \/ newBuilders = {}
    BY <1>6 DEF FetchFails, Die, Interrupt, LocalInv
  <2>3. QED
    BY <1>1, <2>1, <2>2 DEF BuildersInv, InProgress, Of
<1>7. CASE SaveBuilders \/ SaveBuilderFails
  <2>1. /\ pc = "builders"
        /\ UNCHANGED <<db, interrupted>>
        /\ builders \cup errorLog \cup newBuilders \subseteq builders' \cup errorLog'
    BY <1>7 DEF SaveBuilders, SaveBuilderFails, obsVars
  <2>2. ASSUME NEW r \in RelaySet, r \notin interrupted
        PROVE  {p.builder : p \in Of(r, db')} \subseteq builders' \cup errorLog'
    BY <2>1, <2>2 DEF BuildersInv, Known, Of
  <2>3. QED
    BY <2>1, <2>2 DEF BuildersInv, Known
<1>8. QED
  BY <1>2, <1>3, <1>4, <1>5, <1>6, <1>7 DEF Move, BackfillStep

\* Between runs the builder of every row is saved, or logged, or its relay's
\* backfill was broken off (backfillPayloadsDelivered).
THEOREM BuildersHold == RunnerSpec => []BuildersAreKnown
<1>1. RunnerInit => BuildersInv
  BY DEF RunnerInit, Init, BuildersInv, InProgress, Of
<1>2. RunnerInv /\ BuildersInv /\ [RunnerNext]_runnerVars => BuildersInv'
  <2> SUFFICES ASSUME RunnerInv, BuildersInv, [RunnerNext]_runnerVars PROVE BuildersInv'
    OBVIOUS
  <2>1. CASE Move
    BY <2>1, BuildersStep DEF RunnerInv, HoleInv
  <2>2. CASE UNCHANGED vars
    BY <2>2 DEF BuildersInv, InProgress, cur, Of, Known, vars, dbVars, runVars, bfVars, obsVars
  <2>3. QED
    BY <2>1, <2>2, RunnerMove DEF RunnerInv, RunnerTypeInv
<1>3. BuildersInv => BuildersAreKnown
  BY DEF BuildersInv, BuildersAreKnown
<1>4. QED
  BY <1>1, <1>2, <1>3, RunnerInvInit, RunnerInvStep, PTL DEF RunnerSpec
=============================================================================
