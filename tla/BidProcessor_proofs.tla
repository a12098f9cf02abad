------------------------ MODULE BidProcessor_proofs ------------------------
(***************************************************************************)
(* Proofs about BidProcessor, for every set of bids and every bound.       *)
(***************************************************************************)
EXTENDS BidProcessor, TLAPS

USE BidsAssumption, TimeAssumption, BoundAssumption

\* Head and tail of a non-empty sequence.
LEMMA HeadTail ==
    ASSUME NEW S, NEW s \in Seq(S), s # <<>>
    PROVE  Head(s) \in S /\ Tail(s) \in Seq(S)
  OBVIOUS

\* What was appended to a sequence can be told from it.
LEMMA AppendSame ==
    ASSUME NEW S, NEW s \in Seq(S), NEW x, NEW y
    PROVE  Append(s, x) # s /\ (Append(s, x) = Append(s, y) => x = y)
<1>1. Len(Append(s, x)) = Len(s) + 1 /\ Len(s) \in Nat
  OBVIOUS
<1>2. Append(s, x)[Len(s) + 1] = x /\ Append(s, y)[Len(s) + 1] = y
  OBVIOUS
<1>3. QED
  BY <1>1, <1>2

\* Writing an error to the log keeps the types of the log and of the counter.
LEMMA LogErrorType ==
    ASSUME TypeOK, LogError, UniqueKey(cur) \in Keys
    PROVE  errorLog' \in SUBSET Keys /\ nFaults' \in 0 .. MaxFaults
  BY DEF TypeOK, LogError

\* The state a run begins with, on any disk.
LEMMA RestartType ==
    ASSUME TypeOK, Restart,
           fAll' \in [Buckets -> Seq(Items)], fTop' \in [Buckets -> Seq(Items)]
    PROVE  TypeOK'
<1>1. DOMAIN topBidCache' = {}
  BY DEF Restart
<1>2. batch' \in Seq([bid : Bids, bucket : Buckets])
  BY DEF Restart
<1>3. run' \in 1 .. MaxRuns /\ now' \in StartSlot .. MaxSlot
  BY DEF Restart, TypeOK
<1>4. nBatches' \in 0 .. MaxBatches /\ nFaults' \in 0 .. MaxFaults
  BY DEF Restart, TypeOK
<1>5. bidCache' \in SUBSET Keys /\ outFiles' \in SUBSET Buckets
        /\ published' \in SUBSET Keys /\ errorLog' \in SUBSET Keys
  BY DEF Restart
<1>6. pc' = "idle" /\ isNewBid' \in BOOLEAN /\ isTopBid' \in BOOLEAN /\ hkMax' = NoSlot
  BY DEF Restart
<1>7. QED
  BY <1>1, <1>2, <1>3, <1>4, <1>5, <1>6 DEF TypeOK, PCs, Working

\* A batch built from bids and one bucket is a sequence of queue entries.
LEMMA BatchType ==
    ASSUME NEW bids \in Batches, NEW b \in Buckets
    PROVE  [i \in DOMAIN bids |-> [bid |-> bids[i], bucket |-> b]]
                \in Seq([bid : Bids, bucket : Buckets])
<1>1. PICK n \in 0 .. MaxBatchLen : bids \in [1 .. n -> Bids]
  BY DEF Batches
<1>2. n \in Nat /\ DOMAIN bids = 1 .. n
  BY <1>1
<1> DEFINE e == [i \in 1 .. n |-> [bid |-> bids[i], bucket |-> b]]
<1>3. e \in [1 .. n -> [bid : Bids, bucket : Buckets]]
  BY <1>1
<1>4. QED
  BY <1>2, <1>3

\* The current bid and its bucket, while the processor works on one.
LEMMA CurType ==
    ASSUME TypeOK, pc \in Working \/ batch # <<>>
    PROVE  /\ cur \in Bids
           /\ bucket \in Buckets
           /\ UniqueKey(cur) \in Keys
           /\ Tail(batch) \in Seq([bid : Bids, bucket : Buckets])
<1> DEFINE S == [bid : Bids, bucket : Buckets]
<1>0. batch \in Seq(S) /\ batch # <<>>
  BY DEF TypeOK
<1> HIDE DEF S
<1>1. Head(batch) \in S
  BY <1>0, HeadTail
<1>2. Tail(batch) \in Seq(S)
  BY <1>0, HeadTail
<1> USE DEF S
<1>3. QED
  BY <1>1, <1>2 DEF cur, bucket, Keys

\* What a bid written now is to a reader: its key, its run and its lateness,
\* whether it follows a fragment or not.
LEMMA LineFields ==
    ASSUME NEW f, NEW b
    PROVE  /\ IsBid(AsRead(f, Line(b))) /\ AsRead(f, Line(b)) # Header
           /\ AsRead(f, Line(b)).kind \in {"line", "glued"}
           /\ AsRead(f, Line(b)).key = UniqueKey(b) /\ AsRead(f, Line(b)).run = run
           /\ AsRead(f, Line(b)).late = (now > b.slot + CacheSlots)
           /\ IsGlued(AsRead(f, Line(b))) <=> EndsTorn(f)
<1>1. CASE EndsTorn(f)
  <2>1. AsRead(f, Line(b)) = [kind |-> "glued", key |-> UniqueKey(b), run |-> run,
                              late |-> now > b.slot + CacheSlots]
    BY <1>1 DEF AsRead, Line, BidLine
  <2>2. QED
    BY <1>1, <2>1 DEF IsBid, IsLine, IsGlued, Header
<1>2. CASE ~ EndsTorn(f)
  BY <1>2 DEF AsRead, Line, BidLine, IsBid, IsLine, IsGlued, Header
<1>3. QED
  BY <1>1, <1>2

\* It is an item of a file.
LEMMA LineType ==
    ASSUME TypeOK, NEW f, NEW b \in Bids
    PROVE  AsRead(f, Line(b)) \in Items
<1>1. UniqueKey(b) \in Keys
  BY DEF Keys
<1>2. run \in 1 .. MaxRuns
  BY DEF TypeOK
<1> DEFINE late == now > b.slot + CacheSlots
<1>3. late \in BOOLEAN
  OBVIOUS
<1>4. AsRead(f, Line(b)) \in {[kind |-> "line", key |-> UniqueKey(b), run |-> run, late |-> late],
                              [kind |-> "glued", key |-> UniqueKey(b), run |-> run, late |-> late]}
  BY DEF AsRead, Line, BidLine
<1> HIDE DEF late
<1>5. QED
  BY <1>1, <1>2, <1>3, <1>4 DEF Lines, Items

\* What getFiles and a failed write make of a file is a file.
LEMMA FileOps ==
    ASSUME TypeOK, NEW f \in Seq(Items), NEW b \in Bids
    PROVE  /\ WithHeader(f) \in Seq(Items)
           /\ Append(f, HeaderFragment) \in Seq(Items)
           /\ AfterWrite(f, b) \in Seq(Items)
           /\ AfterFailedWrite(f, b) \subseteq Seq(Items)
<1>1. UniqueKey(b) \in Keys /\ run \in 1 .. MaxRuns
  BY DEF Keys, TypeOK
<1>2. Fragment(UniqueKey(b), run) \in Items
  BY <1>1 DEF Fragment, Fragments, Items
<1>3. Header \in Items /\ HeaderFragment \in Items
  BY DEF Items
<1>4. AsRead(f, Line(b)) \in Items
  BY LineType
<1>5. QED
  BY <1>2, <1>3, <1>4 DEF WithHeader, AfterWrite, AfterFailedWrite

\* Every initial state is well typed.
LEMMA InitType == Init => TypeOK
<1> SUFFICES ASSUME Init PROVE TypeOK
  OBVIOUS
<1>1. DOMAIN topBidCache = {} /\ batch \in Seq([bid : Bids, bucket : Buckets])
  BY DEF Init
<1>2. fAll \in [Buckets -> Seq(Items)] /\ fTop \in [Buckets -> Seq(Items)]
  BY DEF Init
<1>3. run \in 1 .. MaxRuns /\ now \in StartSlot .. MaxSlot /\ nBatches \in 0 .. MaxBatches
        /\ nFaults \in 0 .. MaxFaults
  BY DEF Init
<1>4. QED
  BY <1>1, <1>2, <1>3 DEF Init, TypeOK, PCs, Working

\* Every step keeps the types, one action at a time.
LEMMA StepType == TypeOK /\ [Next]_vars => TypeOK'
<1> SUFFICES ASSUME TypeOK, [Next]_vars PROVE TypeOK'
  OBVIOUS
<1>1. CASE Receive
  <2>1. PICK bids \in Batches, t \in (now - MaxLag) .. now : StartBatch(bids, t)
    BY <1>1 DEF Receive
  <2>2. t \in 0 .. MaxSlot
    BY DEF TypeOK
  <2>3. BucketOf(t) \in Buckets
    BY <2>2 DEF Buckets
  <2>4. batch' \in Seq([bid : Bids, bucket : Buckets])
    BY <2>1, <2>3, BatchType DEF StartBatch
  <2>5. QED
    BY <2>1, <2>4 DEF StartBatch, TypeOK, PCs, Working, memVars, diskVars, obsVars
<1>2. CASE EndBatch
  BY <1>2 DEF EndBatch, TypeOK, PCs, Working, memVars, diskVars, obsVars, cntVars
<1>3. CASE CheckBid
  <2> USE <1>3 DEF CheckBid
  <2>1. cur \in Bids /\ UniqueKey(cur) \in Keys /\ cur.slot \in Slots
    BY CurType DEF Slots
  <2>2. DOMAIN topBidCache' \subseteq Slots
    BY <2>1 DEF TypeOK, SetTop
  <2>3. \A s \in DOMAIN topBidCache' : topBidCache'[s] \in Bids /\ topBidCache'[s].slot = s
    BY <2>1 DEF TypeOK, SetTop
  <2>4. bidCache' \in SUBSET Keys
    BY <2>1 DEF TypeOK
  <2>5. isTopBid' \in BOOLEAN /\ isNewBid' \in BOOLEAN
    BY DEF BeatsTop
  <2>6. QED
    BY <2>2, <2>3, <2>4, <2>5 DEF TypeOK, PCs, Working, diskVars, obsVars, cntVars
<1>4. CASE Publish
  BY <1>4, CurType DEF Publish, TypeOK, PCs, Working, memVars, diskVars, obsVars, cntVars
<1>5. CASE PublishFails
  <2> USE <1>5 DEF PublishFails
  <2>1. UniqueKey(cur) \in Keys
    BY CurType DEF Working
  <2>2. QED
    BY <2>1 DEF LogError, TypeOK, PCs, Working, memVars, diskVars
<1>6. CASE FilesOpen
  BY <1>6 DEF FilesOpen, TypeOK, PCs, Working, memVars, diskVars, obsVars, cntVars
<1>7. CASE OpenAll
  <2> USE <1>7 DEF OpenAll
  <2>1. bucket \in Buckets /\ cur \in Bids
    BY CurType DEF Working
  <2>2. fAll' \in [Buckets -> Seq(Items)]
    BY <2>1, FileOps DEF TypeOK
  <2>3. QED
    BY <2>2 DEF TypeOK, PCs, Working, memVars, obsVars, cntVars
<1>8. CASE OpenTop
  <2> USE <1>8 DEF OpenTop
  <2>1. bucket \in Buckets /\ cur \in Bids
    BY CurType DEF Working
  <2>2. fTop' \in [Buckets -> Seq(Items)]
    BY <2>1, FileOps DEF TypeOK
  <2>3. QED
    BY <2>1, <2>2 DEF TypeOK, PCs, Working, obsVars, cntVars
<1>9. CASE OpenFails
  <2> USE <1>9 DEF OpenFails
  <2>1. UniqueKey(cur) \in Keys /\ Tail(batch) \in Seq([bid : Bids, bucket : Buckets])
    BY CurType DEF Working
  <2>2. QED
    BY <2>1, LogErrorType DEF NextBid, TypeOK, PCs, Working, memVars, diskVars
<1>10. CASE WriteAll
  <2> USE <1>10 DEF WriteAll
  <2>1. bucket \in Buckets /\ cur \in Bids
    BY CurType DEF Working
  <2>2. fAll' \in [Buckets -> Seq(Items)]
    BY <2>1, FileOps DEF TypeOK
  <2>3. QED
    BY <2>2 DEF TypeOK, PCs, Working, memVars, obsVars, cntVars
<1>11. CASE WriteAllFails
  <2> USE <1>11 DEF WriteAllFails
  <2>1. bucket \in Buckets /\ cur \in Bids /\ UniqueKey(cur) \in Keys
           /\ Tail(batch) \in Seq([bid : Bids, bucket : Buckets])
    BY CurType DEF Working
  <2>2. fAll' \in [Buckets -> Seq(Items)]
    <3>1. PICK f \in AfterFailedWrite(fAll[bucket], cur) : fAll' = [fAll EXCEPT ![bucket] = f]
      OBVIOUS
    <3>2. f \in Seq(Items)
      BY <2>1, <3>1, FileOps DEF TypeOK
    <3>3. QED
      BY <3>1, <3>2 DEF TypeOK
  <2>3. QED
    BY <2>1, <2>2, LogErrorType DEF NextBid, TypeOK, PCs, Working, memVars
<1>12. CASE WriteTop
  <2> USE <1>12 DEF WriteTop
  <2>1. bucket \in Buckets /\ cur \in Bids
           /\ Tail(batch) \in Seq([bid : Bids, bucket : Buckets])
    BY CurType DEF Working
  <2>2. fTop' \in [Buckets -> Seq(Items)]
    BY <2>1, FileOps DEF TypeOK
  <2>3. QED
    BY <2>1, <2>2 DEF NextBid, TypeOK, PCs, Working, memVars, obsVars, cntVars
<1>13. CASE WriteTopFails
  <2> USE <1>13 DEF WriteTopFails
  <2>1. bucket \in Buckets /\ cur \in Bids /\ UniqueKey(cur) \in Keys
           /\ Tail(batch) \in Seq([bid : Bids, bucket : Buckets])
    BY CurType DEF Working
  <2>2. fTop' \in [Buckets -> Seq(Items)]
    <3>1. PICK f \in AfterFailedWrite(fTop[bucket], cur) : fTop' = [fTop EXCEPT ![bucket] = f]
      OBVIOUS
    <3>2. f \in Seq(Items)
      BY <2>1, <3>1, FileOps DEF TypeOK
    <3>3. QED
      BY <3>1, <3>2 DEF TypeOK
  <2>3. QED
    BY <2>1, <2>2, LogErrorType DEF NextBid, TypeOK, PCs, Working, memVars
<1>14. CASE HousekeepingWakes
  <2>1. hkMax' \in 0 .. now' - CacheSlots
    <3>1. now' = now /\ hkMax' = now - CacheSlots
      BY <1>14 DEF HousekeepingWakes
    <3>2. now \in Nat /\ CacheSlots <= now
      BY DEF TypeOK
    <3>3. QED
      BY <3>1, <3>2
  <2>2. QED
    BY <1>14, <2>1 DEF HousekeepingWakes, TypeOK, memVars, procVars, diskVars, obsVars,
       cntVars
<1>15. CASE Housekeeping
  BY <1>15 DEF Housekeeping, TypeOK, procVars, diskVars, obsVars, cntVars
<1>16. CASE Crash
  BY <1>16, RestartType DEF Crash, TypeOK, diskVars
<1>17. CASE HeaderFails
  <2> USE <1>17 DEF HeaderFails
  <2>1. bucket \in Buckets /\ cur \in Bids
    BY CurType DEF Working
  <2>2. fAll' \in [Buckets -> Seq(Items)] /\ fTop' \in [Buckets -> Seq(Items)]
    <3>1. CASE fAll' = [fAll EXCEPT ![bucket] = Append(@, HeaderFragment)] /\ UNCHANGED fTop
      BY <2>1, <3>1, FileOps DEF TypeOK
    <3>2. CASE fTop' = [fTop EXCEPT ![bucket] = Append(@, HeaderFragment)] /\ UNCHANGED fAll
      BY <2>1, <3>2, FileOps DEF TypeOK
    <3>3. QED
      BY <3>1, <3>2
  <2>3. QED
    BY <2>2, RestartType
<1>18. CASE Tick
  BY <1>18 DEF Tick, TypeOK, memVars, procVars, diskVars, obsVars, cntVars
<1>19. CASE UNCHANGED vars
  BY <1>19 DEF vars, TypeOK, memVars, procVars, diskVars, obsVars, cntVars
<1>20. QED
  BY <1>1, <1>2, <1>3, <1>4, <1>5, <1>6, <1>7, <1>8, <1>9, <1>10, <1>11, <1>12, <1>13,
     <1>14, <1>15, <1>16, <1>17, <1>18, <1>19 DEF Next, ProcStep

\* The type invariant of the bid processor holds in every behaviour.
THEOREM TypeCorrect == Spec => []TypeOK
<1>1. Init => TypeOK
  BY InitType
<1>2. TypeOK /\ [Next]_vars => TypeOK'
  BY StepType
<1>3. QED
  BY <1>1, <1>2, PTL DEF Spec

-----------------------------------------------------------------------------
(***************************************************************************)
(* What a step does to the two files.                                      *)
(***************************************************************************)

\* File variable f gains x in the bucket at hand.
Gains(f, g, x) == g = [f EXCEPT ![bucket] = Append(@, x)]

\* A fragment that a step of the processor can leave.
IsTorn(x) == x = HeaderFragment \/ x = Fragment(UniqueKey(cur), run)

\* A header or a fragment is not a bid's text, and a fragment is no header.
LEMMA NotLines ==
    /\ ~ IsBid(Header) /\ ~ IsBid(HeaderFragment) /\ Header # HeaderFragment
    /\ \A k, r : ~ IsBid(Fragment(k, r)) /\ Fragment(k, r) # Header
  BY DEF IsBid, IsLine, IsGlued, Header, HeaderFragment, Fragment

\* The bids of a file after x was appended.
LEMMA HasBidAppend ==
    ASSUME NEW f \in Seq(Items), NEW x, NEW k, NEW r
    PROVE  HasBid(Append(f, x), k, r)
             <=> HasBid(f, k, r) \/ (IsBid(x) /\ x.key = k /\ x.run = r)
<1> DEFINE g == Append(f, x)
<1>1. DOMAIN g = DOMAIN f \cup {Len(f) + 1} /\ g[Len(f) + 1] = x
  OBVIOUS
<1>2. \A j \in DOMAIN f : g[j] = f[j]
  OBVIOUS
<1> HIDE DEF g
<1>3. QED
  BY <1>1, <1>2 DEF HasBid, g

\* A bid that was appended is there.
LEMMA BidIsAdded ==
    ASSUME NEW f \in Seq(Items), NEW x, IsBid(x)
    PROVE  HasBid(Append(f, x), x.key, x.run)
  BY HasBidAppend

AllStep ==
    \/ UNCHANGED fAll
    \/ pc \in Working /\ Gains(fAll, fAll', Header) /\ fAll[bucket] = <<>>
    \/ pc \in Working /\ (\E x : IsTorn(x) /\ Gains(fAll, fAll', x))
    \/ WriteAll /\ isNewBid /\ Gains(fAll, fAll', AsRead(fAll[bucket], Line(cur)))

TopStep ==
    \/ UNCHANGED fTop
    \/ pc \in Working /\ Gains(fTop, fTop', Header) /\ fTop[bucket] = <<>>
    \/ pc \in Working /\ (\E x : IsTorn(x) /\ Gains(fTop, fTop', x))
    \/ WriteTop /\ isTopBid /\ Gains(fTop, fTop', AsRead(fTop[bucket], Line(cur)))

\* A step leaves the "all" files alone or appends one item to the bucket at hand.
LEMMA AllStepHolds ==
    ASSUME TypeOK, [Next]_vars
    PROVE  AllStep
<1>1. CASE OpenAll
  BY <1>1 DEF OpenAll, WithHeader, Working, AllStep, Gains, TypeOK
<1>2. CASE WriteAll
  BY <1>2 DEF WriteAll, AfterWrite, AllStep, Gains, TypeOK
<1>3. CASE WriteAllFails
  <2>1. PICK f \in AfterFailedWrite(fAll[bucket], cur) : fAll' = [fAll EXCEPT ![bucket] = f]
    BY <1>3 DEF WriteAllFails
  <2>2. CASE f = fAll[bucket]
    BY <2>1, <2>2 DEF TypeOK, AllStep
  <2>3. CASE f = Append(fAll[bucket], Fragment(UniqueKey(cur), run))
    BY <1>3, <2>1, <2>3 DEF WriteAllFails, Working, AllStep, Gains, IsTorn, TypeOK
  <2>4. QED
    BY <2>2, <2>3 DEF AfterFailedWrite
<1>4. CASE HeaderFails
  BY <1>4 DEF HeaderFails, Working, AllStep, Gains, IsTorn
<1>5. CASE Receive
  BY <1>5 DEF Receive, StartBatch, diskVars, AllStep
<1>6. CASE EndBatch \/ CheckBid \/ Publish \/ PublishFails \/ FilesOpen
  BY <1>6 DEF EndBatch, CheckBid, Publish, PublishFails, FilesOpen, diskVars, AllStep
<1>7. CASE OpenTop \/ OpenFails \/ WriteTop \/ WriteTopFails
  BY <1>7 DEF OpenTop, OpenFails, WriteTop, WriteTopFails, diskVars, AllStep
<1>8. CASE HousekeepingWakes \/ Housekeeping \/ Crash \/ Tick \/ UNCHANGED vars
  BY <1>8 DEF HousekeepingWakes, Housekeeping, Crash, Tick, vars, diskVars, AllStep
<1>9. QED
  BY <1>1, <1>2, <1>3, <1>4, <1>5, <1>6, <1>7, <1>8 DEF Next, ProcStep

\* The same of the "top" files.
LEMMA TopStepHolds ==
    ASSUME TypeOK, [Next]_vars
    PROVE  TopStep
<1>1. CASE OpenTop
  BY <1>1 DEF OpenTop, WithHeader, Working, TopStep, Gains, TypeOK
<1>2. CASE WriteTop
  BY <1>2 DEF WriteTop, AfterWrite, TopStep, Gains, TypeOK
<1>3. CASE WriteTopFails
  <2>1. PICK f \in AfterFailedWrite(fTop[bucket], cur) : fTop' = [fTop EXCEPT ![bucket] = f]
    BY <1>3 DEF WriteTopFails
  <2>2. CASE f = fTop[bucket]
    BY <2>1, <2>2 DEF TypeOK, TopStep
  <2>3. CASE f = Append(fTop[bucket], Fragment(UniqueKey(cur), run))
    BY <1>3, <2>1, <2>3 DEF WriteTopFails, Working, TopStep, Gains, IsTorn, TypeOK
  <2>4. QED
    BY <2>2, <2>3 DEF AfterFailedWrite
<1>4. CASE HeaderFails
  BY <1>4 DEF HeaderFails, Working, TopStep, Gains, IsTorn
<1>5. CASE Receive
  BY <1>5 DEF Receive, StartBatch, diskVars, TopStep
<1>6. CASE EndBatch \/ CheckBid \/ Publish \/ PublishFails \/ FilesOpen
  BY <1>6 DEF EndBatch, CheckBid, Publish, PublishFails, FilesOpen, diskVars, TopStep
<1>7. CASE OpenAll \/ OpenFails \/ WriteAll \/ WriteAllFails
  BY <1>7 DEF OpenAll, OpenFails, WriteAll, WriteAllFails, diskVars, TopStep
<1>8. CASE HousekeepingWakes \/ Housekeeping \/ Crash \/ Tick \/ UNCHANGED vars
  BY <1>8 DEF HousekeepingWakes, Housekeeping, Crash, Tick, vars, diskVars, TopStep
<1>9. QED
  BY <1>1, <1>2, <1>3, <1>4, <1>5, <1>6, <1>7, <1>8 DEF Next, ProcStep

\* The lines after a step are those before it and, after a write that
\* succeeded, the current bid's.
LEMMA AllLines ==
    ASSUME TypeOK, [Next]_vars, NEW b \in Buckets, NEW k, NEW r
    PROVE  /\ HasBid(fAll[b], k, r) => HasBid(fAll'[b], k, r)
           /\ HasBid(fAll'[b], k, r) =>
                \/ HasBid(fAll[b], k, r)
                \/ WriteAll /\ isNewBid /\ k = UniqueKey(cur) /\ r = run
<1>1. AllStep
  BY AllStepHolds
<1>2. CASE UNCHANGED fAll
  BY <1>2
<1>3. CASE b # bucket /\ ~ UNCHANGED fAll
  BY <1>1, <1>3 DEF AllStep, Gains, TypeOK
<1>4. CASE b = bucket /\ ~ UNCHANGED fAll
  <2>1. PICK x : /\ fAll'[b] = Append(fAll[b], x)
                 /\ \/ x = Header \/ IsTorn(x)
                    \/ WriteAll /\ isNewBid /\ x = AsRead(fAll[b], Line(cur))
    BY <1>1, <1>4 DEF AllStep, Gains, TypeOK
  <2>2. fAll[b] \in Seq(Items)
    BY DEF TypeOK
  <2>3. fAll[b] \in Seq(Items) => (HasBid(fAll'[b], k, r)
             <=> HasBid(fAll[b], k, r) \/ (IsBid(x) /\ x.key = k /\ x.run = r))
    BY <2>1, HasBidAppend
  <2>4. CASE x = Header \/ IsTorn(x)
    BY <2>2, <2>3, <2>4, NotLines DEF IsTorn
  <2>5. CASE WriteAll /\ isNewBid /\ x = AsRead(fAll[b], Line(cur))
    BY <2>2, <2>3, <2>5, LineFields
  <2>6. QED
    BY <2>1, <2>4, <2>5
<1>5. QED
  BY <1>2, <1>3, <1>4

\* The same of the "top" files.
LEMMA TopLines ==
    ASSUME TypeOK, [Next]_vars, NEW b \in Buckets, NEW k, NEW r
    PROVE  HasBid(fTop'[b], k, r) =>
                \/ HasBid(fTop[b], k, r)
                \/ WriteTop /\ isTopBid /\ k = UniqueKey(cur) /\ r = run
<1>1. TopStep
  BY TopStepHolds
<1>2. CASE UNCHANGED fTop
  BY <1>2
<1>3. CASE b # bucket /\ ~ UNCHANGED fTop
  BY <1>1, <1>3 DEF TopStep, Gains, TypeOK
<1>4. CASE b = bucket /\ ~ UNCHANGED fTop
  <2>1. PICK x : /\ fTop'[b] = Append(fTop[b], x)
                 /\ \/ x = Header \/ IsTorn(x)
                    \/ WriteTop /\ isTopBid /\ x = AsRead(fTop[b], Line(cur))
    BY <1>1, <1>4 DEF TopStep, Gains, TypeOK
  <2>2. fTop[b] \in Seq(Items)
    BY DEF TypeOK
  <2>3. fTop[b] \in Seq(Items) => (HasBid(fTop'[b], k, r)
             <=> HasBid(fTop[b], k, r) \/ (IsBid(x) /\ x.key = k /\ x.run = r))
    BY <2>1, HasBidAppend
  <2>4. CASE x = Header \/ IsTorn(x)
    BY <2>2, <2>3, <2>4, NotLines DEF IsTorn
  <2>5. CASE WriteTop /\ isTopBid /\ x = AsRead(fTop[b], Line(cur))
    BY <2>2, <2>3, <2>5, LineFields
  <2>6. QED
    BY <2>1, <2>4, <2>5
<1>5. QED
  BY <1>2, <1>3, <1>4

-----------------------------------------------------------------------------
(***************************************************************************)
(* The open handles.                                                       *)
(***************************************************************************)

\* The files of open handles have begun, and so has the "all" file while the
\* "top" file is opened.
FilesBegun ==
    /\ \A b \in outFiles : fAll[b] # <<>> /\ fTop[b] # <<>>
    /\ pc = "openTop" => fAll[bucket] # <<>>

HandleInv == TypeOK /\ FilesBegun /\ WritesToOpenFiles

\* A file that has begun does not become empty.
LEMMA StaysBegun ==
    ASSUME TypeOK, [Next]_vars, NEW b \in Buckets
    PROVE  /\ fAll[b] # <<>> => fAll'[b] # <<>>
           /\ fTop[b] # <<>> => fTop'[b] # <<>>
<1>1. AllStep /\ TopStep
  BY AllStepHolds, TopStepHolds
<1>2. \A f \in Seq(Items) : \A x : Append(f, x) # <<>>
  OBVIOUS
<1>3. fAll[b] \in Seq(Items) /\ fTop[b] \in Seq(Items)
  BY DEF TypeOK
<1>4. fAll[b] # <<>> => fAll'[b] # <<>>
  BY <1>1, <1>2, <1>3 DEF AllStep, Gains, TypeOK
<1>5. fTop[b] # <<>> => fTop'[b] # <<>>
  BY <1>1, <1>2, <1>3 DEF TopStep, Gains, TypeOK
<1>6. QED
  BY <1>4, <1>5

\* A file that was given its header, or had one, has begun.
LEMMA HeaderBegins ==
    ASSUME NEW f \in Seq(Items)
    PROVE  WithHeader(f) # <<>>
  BY DEF WithHeader

\* Closing handles in housekeeping and opening them in getFiles keep HandleInv.
LEMMA HandleStep == HandleInv /\ [Next]_vars => HandleInv'
<1> SUFFICES ASSUME HandleInv, [Next]_vars PROVE HandleInv'
  OBVIOUS
<1> USE DEF HandleInv
<1>0. TypeOK' /\ outFiles \subseteq Buckets
  BY StepType DEF TypeOK
<1>1. \A b \in outFiles : fAll'[b] # <<>> /\ fTop'[b] # <<>>
  BY <1>0, StaysBegun DEF FilesBegun
<1>2. CASE OpenAll
  <2>1. bucket \in Buckets /\ fAll[bucket] \in Seq(Items)
    BY <1>2, CurType DEF OpenAll, Working, TypeOK
  <2>2. fAll'[bucket] # <<>>
    BY <1>2, <2>1, HeaderBegins DEF OpenAll, TypeOK
  <2>3. QED
    BY <1>0, <1>1, <1>2, <2>2 DEF OpenAll, FilesBegun, WritesToOpenFiles, memVars, bucket
<1>3. CASE OpenTop
  <2>1. bucket \in Buckets /\ fTop[bucket] \in Seq(Items)
    BY <1>3, CurType DEF OpenTop, Working, TypeOK
  <2>2. fTop'[bucket] # <<>>
    BY <1>3, <2>1, HeaderBegins DEF OpenTop, TypeOK
  <2>3. fAll'[bucket] # <<>>
    BY <1>3, <2>1, StaysBegun DEF OpenTop, FilesBegun
  <2>4. QED
    BY <1>0, <1>1, <1>3, <2>2, <2>3 DEF OpenTop, FilesBegun, WritesToOpenFiles, bucket
<1>4. CASE FilesOpen \/ WriteAll
  BY <1>0, <1>1, <1>4 DEF FilesOpen, WriteAll, FilesBegun, WritesToOpenFiles, memVars, bucket
<1>5. CASE Tick \/ HousekeepingWakes \/ UNCHANGED vars
  <2>1. UNCHANGED <<memVars, procVars, diskVars>>
    BY <1>5 DEF Tick, HousekeepingWakes, vars
  <2>2. QED
    BY <1>0, <2>1 DEF FilesBegun, WritesToOpenFiles, memVars, procVars, diskVars, bucket
<1>6. CASE Housekeeping
  BY <1>0, <1>1, <1>6 DEF Housekeeping, FilesBegun, WritesToOpenFiles, procVars
<1>7. CASE Crash \/ HeaderFails
  BY <1>0, <1>7 DEF Crash, HeaderFails, Restart, FilesBegun, WritesToOpenFiles
<1>8. CASE \/ Receive \/ EndBatch \/ CheckBid \/ Publish \/ PublishFails
           \/ OpenFails \/ WriteAllFails \/ WriteTop \/ WriteTopFails
  <2>1. outFiles' = outFiles /\ pc' \in {"idle", "bid", "publish", "files"}
    BY <1>8 DEF Receive, StartBatch, EndBatch, CheckBid, Publish, PublishFails, OpenFails,
       WriteAllFails, WriteTop, WriteTopFails, NextBid, memVars
  <2>2. QED
    BY <1>0, <1>1, <2>1 DEF FilesBegun, WritesToOpenFiles
<1>9. QED
  BY <1>2, <1>3, <1>4, <1>5, <1>6, <1>7, <1>8 DEF Next, ProcStep

\* HandleInv holds initially.
LEMMA HandleInit == Init => HandleInv
  BY InitType DEF Init, HandleInv, FilesBegun, WritesToOpenFiles

\* Lines are written through handles that housekeeping did not close.
THEOREM WritesGoToOpenFiles == Spec => []WritesToOpenFiles
<1>1. HandleInv => WritesToOpenFiles
  BY DEF HandleInv
<1>2. QED
  BY <1>1, HandleInit, HandleStep, PTL DEF Spec

-----------------------------------------------------------------------------
(***************************************************************************)
(* The caches and the lines of this run.                                   *)
(***************************************************************************)

\* The value is part of the key, and topBidCache outlives the eviction of
\* bidCache: no cached key beats its slot's top bid.
CacheBelowTop ==
    \A k \in bidCache :
        k.slot \in DOMAIN topBidCache /\ k.value <= topBidCache[k.slot].value

TopIsNew == (pc \in Working /\ isTopBid) => isNewBid

TopHasAllLine == (pc = "top" /\ isTopBid) => HasBid(fAll[bucket], UniqueKey(cur), run)

CurIsCached == pc \in Working => UniqueKey(cur) \in bidCache

CacheInv == TypeOK /\ CacheBelowTop /\ TopIsNew /\ TopHasAllLine /\ CurIsCached

\* Inserting, publishing, writing, evicting and restarting keep CacheInv.
LEMMA CacheStep == CacheInv /\ [Next]_vars => CacheInv'
<1> SUFFICES ASSUME CacheInv, [Next]_vars PROVE CacheInv'
  OBVIOUS
<1> USE DEF CacheInv
<1>1. TypeOK'
  BY StepType
<1>2. CASE CheckBid
  <2> USE <1>2 DEF CheckBid
  <2>2. /\ cur \in Bids /\ cur.slot \in Nat /\ cur.value \in Nat
        /\ UniqueKey(cur).slot = cur.slot /\ UniqueKey(cur).value = cur.value
    BY CurType DEF UniqueKey
  <2>3. \A k \in bidCache : k.value \in Nat
    BY DEF TypeOK, Keys, UniqueKey
  <2>4. \A s \in DOMAIN topBidCache : topBidCache[s].value \in Nat
    BY DEF TypeOK
  <2>5. BeatsTop(cur) => UniqueKey(cur) \notin bidCache
    BY <2>2, <2>3, <2>4 DEF BeatsTop, CacheBelowTop
  <2>6. CacheBelowTop'
    <3> SUFFICES ASSUME NEW k \in bidCache'
                 PROVE  k.slot \in DOMAIN topBidCache' /\ k.value <= topBidCache'[k.slot].value
      BY DEF CacheBelowTop
    <3>1. CASE BeatsTop(cur)
      <4>1. topBidCache' = SetTop(cur)
        BY <3>1
      <4>2. /\ DOMAIN topBidCache' = DOMAIN topBidCache \cup {cur.slot}
            /\ topBidCache'[cur.slot] = cur
            /\ \A s \in DOMAIN topBidCache : s # cur.slot => topBidCache'[s] = topBidCache[s]
        BY <4>1 DEF SetTop
      <4>3. CASE k = UniqueKey(cur)
        BY <2>2, <4>2, <4>3
      <4>4. CASE k \in bidCache /\ k.slot = cur.slot
        BY <2>2, <2>3, <2>4, <3>1, <4>2, <4>4 DEF CacheBelowTop, BeatsTop
      <4>5. CASE k \in bidCache /\ k.slot # cur.slot
        BY <4>2, <4>5 DEF CacheBelowTop
      <4>6. QED
        BY <4>3, <4>4, <4>5
    <3>2. CASE ~ BeatsTop(cur)
      <4>1. topBidCache' = topBidCache
        BY <3>2
      <4>2. cur.slot \in DOMAIN topBidCache /\ cur.value <= topBidCache[cur.slot].value
        BY <2>2, <2>4, <3>2 DEF BeatsTop
      <4>3. QED
        BY <2>2, <4>1, <4>2 DEF CacheBelowTop
    <3>3. QED
      BY <3>1, <3>2
  <2>7. TopIsNew' /\ CurIsCached'
    BY <2>5 DEF TopIsNew, CurIsCached, cur, UniqueKey
  <2>8. QED
    BY <1>1, <2>6, <2>7 DEF TopHasAllLine
<1>3. CASE Publish \/ PublishFails \/ FilesOpen \/ OpenAll \/ OpenTop
  <2>1. /\ UNCHANGED <<bidCache, topBidCache, batch, isNewBid, isTopBid>>
        /\ pc \in Working
        /\ pc' # "top"
    BY <1>3 DEF Publish, PublishFails, FilesOpen, OpenAll, OpenTop, Working, memVars
  <2>2. QED
    BY <1>1, <2>1 DEF CacheBelowTop, TopIsNew, TopHasAllLine, CurIsCached, cur, UniqueKey
<1>4. CASE WriteAll
  <2> USE <1>4 DEF WriteAll
  <2>1. cur \in Bids /\ bucket \in Buckets
    BY CurType DEF Working
  <2>2. TopHasAllLine'
    <3>1. SUFFICES ASSUME isTopBid PROVE HasBid(fAll'[bucket], UniqueKey(cur), run)
      BY DEF TopHasAllLine, bucket, cur, UniqueKey, cntVars
    <3>2. isNewBid
      BY <3>1 DEF TopIsNew, Working
    <3>3. /\ fAll'[bucket] = Append(fAll[bucket], AsRead(fAll[bucket], Line(cur)))
          /\ fAll[bucket] \in Seq(Items)
      BY <2>1, <3>2 DEF TypeOK, AfterWrite
    <3> DEFINE x == AsRead(fAll[bucket], Line(cur))
    <3>4. IsBid(x) /\ x.key = UniqueKey(cur) /\ x.run = run
      BY LineFields
    <3>5. fAll'[bucket] = Append(fAll[bucket], x)
      BY <3>3
    <3> HIDE DEF x
    <3>6. HasBid(fAll'[bucket], x.key, x.run)
      BY <3>3, <3>4, <3>5, BidIsAdded
    <3>7. QED
      BY <3>4, <3>6
  <2>3. QED
    BY <1>1, <2>2 DEF CacheBelowTop, TopIsNew, CurIsCached, cur, UniqueKey, Working, memVars
<1>5. CASE \/ Receive \/ EndBatch \/ OpenFails \/ WriteAllFails \/ WriteTop \/ WriteTopFails
  <2>1. UNCHANGED <<bidCache, topBidCache>> /\ pc' \in {"idle", "bid"}
    BY <1>5 DEF Receive, StartBatch, EndBatch, OpenFails, WriteAllFails, WriteTop,
       WriteTopFails, NextBid, memVars
  <2>2. QED
    BY <1>1, <2>1 DEF CacheBelowTop, TopIsNew, TopHasAllLine, CurIsCached, Working
<1>6. CASE Housekeeping
  BY <1>1, <1>6 DEF Housekeeping, CacheBelowTop, TopIsNew, TopHasAllLine, CurIsCached,
     Working, procVars
<1>7. CASE Crash \/ HeaderFails
  BY <1>1, <1>7 DEF Crash, HeaderFails, Restart, CacheBelowTop, TopIsNew, TopHasAllLine,
     CurIsCached, Working
<1>8. CASE HousekeepingWakes \/ Tick \/ UNCHANGED vars
  <2>1. UNCHANGED <<memVars, procVars, diskVars, run>>
    BY <1>8 DEF HousekeepingWakes, Tick, vars, cntVars
  <2>2. QED
    BY <1>1, <2>1 DEF CacheBelowTop, TopIsNew, TopHasAllLine, CurIsCached, memVars,
       procVars, diskVars, bucket, cur, UniqueKey
<1>9. QED
  BY <1>2, <1>3, <1>4, <1>5, <1>6, <1>7, <1>8 DEF Next, ProcStep

\* CacheInv holds initially.
LEMMA CacheInit == Init => CacheInv
  BY InitType DEF Init, CacheInv, CacheBelowTop, TopIsNew, TopHasAllLine, CurIsCached, Working

\* No line is of a run to come.
RunsSoFar ==
    \A b \in Buckets : \A k, r :
        (HasBid(fAll[b], k, r) \/ HasBid(fTop[b], k, r)) => r \in 1 .. run

\* A key this run wrote is cached, or its slot has been evicted.
LinesAreCached ==
    \A b \in Buckets : \A k \in Keys :
        HasBid(fAll[b], k, run) => k \in bidCache \/ k.slot + CacheSlots < now

\* If this run wrote the bid at hand before and takes it for new, it is late.
NewBidIsLate ==
    (pc \in Working \ {"top"} /\ isNewBid) =>
        \A b \in Buckets : HasBid(fAll[b], UniqueKey(cur), run) => cur.slot + CacheSlots < now

\* No line beats its slot's top bid.
LinesBelowTop ==
    \A b \in Buckets : \A k \in Keys :
        HasBid(fTop[b], k, run) =>
            k.slot \in DOMAIN topBidCache /\ k.value <= topBidCache[k.slot].value

\* A bid on its way to a "top" file beats that file's lines.
CurIsTop ==
    (pc \in Working /\ isTopBid) =>
        /\ cur.slot \in DOMAIN topBidCache
        /\ topBidCache[cur.slot] = cur
        /\ \A b \in Buckets : \A k \in Keys :
              (HasBid(fTop[b], k, run) /\ k.slot = cur.slot) => k.value < cur.value

LineInv == CacheInv /\ RunsSoFar /\ LinesAreCached /\ NewBidIsLate /\ LinesBelowTop /\ CurIsTop

\* The key of a bid, and its fields.
LEMMA KeyFields ==
    ASSUME NEW b \in Bids
    PROVE  /\ UniqueKey(b) \in Keys
           /\ UniqueKey(b).slot = b.slot /\ UniqueKey(b).value = b.value
           /\ b.slot \in Nat /\ b.value \in Nat
  BY DEF Keys, UniqueKey

\* Keys are records with numbers.
LEMMA KeyTypes == \A k \in Keys : k.slot \in Nat /\ k.value \in Nat
  BY DEF Keys, UniqueKey

\* The numbers in the state.
LEMMA Numbers ==
    ASSUME TypeOK
    PROVE  /\ now \in Nat /\ run \in Nat
           /\ \A s \in DOMAIN topBidCache : topBidCache[s].value \in Nat
  BY DEF TypeOK

\* No step writes a line of a run that has not begun.
LEMMA RunsStep == LineInv /\ [Next]_vars => RunsSoFar'
<1> SUFFICES ASSUME LineInv, [Next]_vars PROVE RunsSoFar'
  OBVIOUS
<1>1. TypeOK
  BY DEF LineInv, CacheInv
<1>2. run' \in {run, run + 1} /\ run \in Nat \ {0}
  <2>1. run \in Nat \ {0}
    BY <1>1 DEF TypeOK
  <2>2. CASE Crash \/ HeaderFails
    BY <2>1, <2>2 DEF Crash, HeaderFails, Restart
  <2>3. CASE \/ Receive \/ EndBatch \/ CheckBid \/ Publish \/ PublishFails \/ FilesOpen
             \/ OpenAll \/ OpenTop \/ OpenFails
    BY <2>1, <2>3 DEF Receive, StartBatch, EndBatch, CheckBid, Publish, PublishFails,
       FilesOpen, OpenAll, OpenTop, OpenFails, cntVars
  <2>4. CASE \/ WriteAll \/ WriteAllFails \/ WriteTop \/ WriteTopFails
             \/ HousekeepingWakes \/ Housekeeping \/ Tick \/ UNCHANGED vars
    BY <2>1, <2>4 DEF WriteAll, WriteAllFails, WriteTop, WriteTopFails, HousekeepingWakes,
       Housekeeping, Tick, vars, cntVars
  <2>5. QED
    BY <2>2, <2>3, <2>4 DEF Next, ProcStep
<1>3. ASSUME NEW b \in Buckets, NEW k, NEW r, HasBid(fAll'[b], k, r) \/ HasBid(fTop'[b], k, r)
      PROVE  r \in 1 .. run'
  <2>1. \/ HasBid(fAll[b], k, r) \/ HasBid(fTop[b], k, r) \/ r = run
    <3>1. CASE HasBid(fAll'[b], k, r)
      BY <1>1, <3>1, AllLines
    <3>2. CASE HasBid(fTop'[b], k, r)
      BY <1>1, <3>2, TopLines
    <3>3. QED
      BY <1>3, <3>1, <3>2
  <2>2. r \in 1 .. run
    <3>1. CASE HasBid(fAll[b], k, r) \/ HasBid(fTop[b], k, r)
      BY <3>1 DEF LineInv, RunsSoFar
    <3>2. CASE r = run
      BY <1>2, <3>2
    <3>3. QED
      BY <2>1, <3>1, <3>2
  <2>3. QED
    BY <1>2, <2>2
<1>4. QED
  BY <1>3 DEF RunsSoFar

\* The state after a restart: no line is of the new run.
LEMMA RestartLines ==
    ASSUME LineInv, [Next]_vars, Restart
    PROVE  \A b \in Buckets : \A k : ~ HasBid(fAll'[b], k, run') /\ ~ HasBid(fTop'[b], k, run')
<1>1. TypeOK /\ pc' = "idle" /\ run' = run + 1 /\ run \in Nat
  BY DEF LineInv, CacheInv, Restart, TypeOK
<1>2. run' \notin 1 .. run
  BY <1>1
<1>3. ~ WriteAll /\ ~ WriteTop
  BY <1>1 DEF WriteAll, WriteTop, NextBid
<1>4. QED
  BY <1>1, <1>2, <1>3, AllLines, TopLines DEF LineInv, RunsSoFar

\* The lines of this run stay cached or late, and the bid at hand stays new.
LEMMA CachedStep == LineInv /\ [Next]_vars => LinesAreCached' /\ NewBidIsLate'
<1> SUFFICES ASSUME LineInv, [Next]_vars PROVE LinesAreCached' /\ NewBidIsLate'
  OBVIOUS
<1> USE DEF LineInv, CacheInv
<1>0. /\ \A b \in Buckets : \A k : HasBid(fAll'[b], k, run) =>
            HasBid(fAll[b], k, run) \/ (WriteAll /\ k = UniqueKey(cur))
      /\ now \in Nat /\ \A k \in Keys : k.slot \in Nat
  BY AllLines, Numbers, KeyTypes
<1>1. CASE WriteAll
  <2>1. UniqueKey(cur) \in bidCache
    BY <1>1 DEF WriteAll, CurIsCached, Working
  <2>2. LinesAreCached'
    BY <1>0, <1>1, <2>1 DEF WriteAll, LinesAreCached, memVars, cntVars
  <2>3. QED
    BY <1>1, <2>2 DEF WriteAll, NewBidIsLate
<1>2. CASE CheckBid
  <2>1. cur \in Bids
    BY <1>2, CurType DEF CheckBid
  <2>2. ~ WriteAll
    BY <1>2 DEF CheckBid, WriteAll
  <2>3. LinesAreCached'
    BY <1>0, <1>2, <2>2 DEF CheckBid, LinesAreCached, cntVars
  <2>4. NewBidIsLate'
    BY <1>0, <1>2, <2>1, <2>2, KeyFields DEF CheckBid, LinesAreCached, NewBidIsLate, cntVars,
       cur, UniqueKey
  <2>5. QED
    BY <2>3, <2>4
<1>3. CASE Publish \/ PublishFails \/ FilesOpen \/ OpenAll \/ OpenTop
  <2>1. /\ UNCHANGED <<now, bidCache, batch, isNewBid, run>>
        /\ pc \in Working \ {"top"}
        /\ ~ WriteAll
    BY <1>3 DEF Publish, PublishFails, FilesOpen, OpenAll, OpenTop, Working, memVars, WriteAll,
       cntVars
  <2>2. QED
    BY <1>0, <2>1 DEF LinesAreCached, NewBidIsLate, cur, UniqueKey
<1>4. CASE \/ Receive \/ EndBatch \/ OpenFails \/ WriteAllFails \/ WriteTop \/ WriteTopFails
  <2>1. UNCHANGED <<now, bidCache, run>> /\ pc' \in {"idle", "bid"} /\ ~ WriteAll
    BY <1>4 DEF Receive, StartBatch, EndBatch, OpenFails, WriteAllFails, WriteTop,
       WriteTopFails, NextBid, memVars, WriteAll, cntVars
  <2>2. QED
    BY <1>0, <2>1 DEF LinesAreCached, NewBidIsLate, Working
<1>5. CASE Housekeeping
  <2>1. /\ hkMax \in 0 .. now - CacheSlots
        /\ bidCache' = {k \in bidCache : ~ (k.slot < hkMax)}
        /\ UNCHANGED <<now, run, fAll, pc>> /\ pc = "idle"
    BY <1>5 DEF Housekeeping, TypeOK, Evicted, procVars, diskVars, cntVars, NoSlot
  <2>2. ASSUME NEW k \in Keys, k.slot < hkMax PROVE k.slot + CacheSlots < now
    BY <1>0, <2>1, <2>2
  <2>3. QED
    BY <2>1, <2>2 DEF LinesAreCached, NewBidIsLate, Working
<1>6. CASE Crash \/ HeaderFails
  <2>1. Restart
    BY <1>6 DEF Crash, HeaderFails
  <2>2. QED
    BY <2>1, RestartLines DEF Restart, LinesAreCached, NewBidIsLate, Working
<1>7. CASE HousekeepingWakes \/ Tick \/ UNCHANGED vars
  <2>1. UNCHANGED <<memVars, procVars, diskVars, run>> /\ now' \in {now, now + 1}
    BY <1>7 DEF HousekeepingWakes, Tick, vars, cntVars
  <2>2. LinesAreCached'
    BY <1>0, <2>1 DEF LinesAreCached, memVars, diskVars
  <2>3. NewBidIsLate'
    <3>1. pc \in Working => cur.slot \in Nat
      BY CurType DEF Working
    <3>2. QED
      BY <1>0, <2>1, <3>1 DEF NewBidIsLate, procVars, diskVars, cur, UniqueKey
  <2>4. QED
    BY <2>2, <2>3
<1>8. QED
  BY <1>1, <1>2, <1>3, <1>4, <1>5, <1>6, <1>7 DEF Next, ProcStep

\* Top lines stay at or below the cached top bid of their slot.
LEMMA TopLineStep == LineInv /\ [Next]_vars => LinesBelowTop' /\ CurIsTop'
<1> SUFFICES ASSUME LineInv, [Next]_vars PROVE LinesBelowTop' /\ CurIsTop'
  OBVIOUS
<1> USE DEF LineInv, CacheInv
<1>0. /\ \A b \in Buckets : \A k : HasBid(fTop'[b], k, run) =>
            HasBid(fTop[b], k, run) \/ (WriteTop /\ isTopBid /\ k = UniqueKey(cur))
      /\ \A k \in Keys : k.value \in Nat
      /\ \A s \in DOMAIN topBidCache : topBidCache[s].value \in Nat
  BY TopLines, Numbers, KeyTypes
<1>1. CASE CheckBid
  <2> USE <1>1 DEF CheckBid
  <2>1. /\ cur' = cur /\ cur \in Bids /\ cur.slot \in Nat /\ cur.value \in Nat
        /\ run' = run /\ ~ WriteTop
    BY CurType DEF cur, cntVars, WriteTop
  <2>2. CASE BeatsTop(cur)
    <3>1. /\ DOMAIN topBidCache' = DOMAIN topBidCache \cup {cur.slot}
          /\ topBidCache'[cur.slot] = cur
          /\ \A s \in DOMAIN topBidCache : s # cur.slot => topBidCache'[s] = topBidCache[s]
      BY <2>2 DEF SetTop
    <3>2. \A b \in Buckets : \A k \in Keys :
             (HasBid(fTop[b], k, run) /\ k.slot = cur.slot) => k.value < cur.value
      BY <1>0, <2>1, <2>2 DEF LinesBelowTop, BeatsTop
    <3>3. CurIsTop'
      <4>1. ASSUME NEW b \in Buckets, NEW k \in Keys, HasBid(fTop'[b], k, run'), k.slot = cur.slot
            PROVE  k.value < cur.value
        BY <1>0, <2>1, <3>2, <4>1
      <4>2. QED
        BY <2>1, <3>1, <4>1 DEF CurIsTop
    <3>4. LinesBelowTop'
      <4>1. ASSUME NEW b \in Buckets, NEW k \in Keys, HasBid(fTop'[b], k, run')
            PROVE  k.slot \in DOMAIN topBidCache' /\ k.value <= topBidCache'[k.slot].value
        <5>1. HasBid(fTop[b], k, run) /\ k.value \in Nat
          BY <1>0, <2>1, <4>1
        <5>2. CASE k.slot = cur.slot
          BY <2>1, <3>1, <3>2, <5>1, <5>2
        <5>3. CASE k.slot # cur.slot
          BY <3>1, <5>1, <5>3 DEF LinesBelowTop
        <5>4. QED
          BY <5>2, <5>3
      <4>2. QED
        BY <4>1 DEF LinesBelowTop
    <3>5. QED
      BY <3>3, <3>4
  <2>3. CASE ~ BeatsTop(cur)
    BY <1>0, <2>1, <2>3 DEF LinesBelowTop, CurIsTop
  <2>4. QED
    BY <2>2, <2>3
<1>2. CASE WriteTop
  <2>1. UNCHANGED <<topBidCache, run>> /\ pc' = "bid" /\ pc = "top"
    BY <1>2 DEF WriteTop, NextBid, memVars, cntVars
  <2>2. isTopBid => topBidCache[cur.slot] = cur /\ cur.slot \in DOMAIN topBidCache
    BY <2>1 DEF CurIsTop, Working
  <2>3. cur \in Bids
    BY <2>1, CurType DEF Working
  <2>4. LinesBelowTop'
    BY <1>0, <2>1, <2>2, <2>3, KeyFields DEF LinesBelowTop
  <2>5. QED
    BY <2>1, <2>4 DEF CurIsTop, Working
<1>3. CASE Publish \/ PublishFails \/ FilesOpen \/ OpenAll \/ OpenTop \/ WriteAll
  <2>1. /\ UNCHANGED <<topBidCache, batch, isTopBid, run>>
        /\ pc \in Working
        /\ ~ WriteTop
    BY <1>3 DEF Publish, PublishFails, FilesOpen, OpenAll, OpenTop, WriteAll, Working, memVars,
       WriteTop, cntVars
  <2>2. QED
    BY <1>0, <2>1 DEF LinesBelowTop, CurIsTop, cur
<1>4. CASE \/ Receive \/ EndBatch \/ OpenFails \/ WriteAllFails \/ WriteTopFails \/ Housekeeping
  <2>1. UNCHANGED <<topBidCache, run>> /\ pc' \in {"idle", "bid"}
    BY <1>4 DEF Receive, StartBatch, EndBatch, OpenFails, WriteAllFails,
       WriteTopFails, NextBid, memVars, Housekeeping, procVars, cntVars
  <2>2. CASE WriteTop
    BY <1>2, <2>2
  <2>3. CASE ~ WriteTop
    BY <1>0, <2>1, <2>3 DEF LinesBelowTop, CurIsTop, Working
  <2>4. QED
    BY <2>2, <2>3
<1>5. CASE Crash \/ HeaderFails
  <2>1. Restart
    BY <1>5 DEF Crash, HeaderFails
  <2>2. QED
    BY <2>1, RestartLines DEF Restart, LinesBelowTop, CurIsTop, Working
<1>6. CASE HousekeepingWakes \/ Tick \/ UNCHANGED vars
  <2>1. UNCHANGED <<memVars, procVars, diskVars, run>>
    BY <1>6 DEF HousekeepingWakes, Tick, vars, cntVars
  <2>2. QED
    BY <2>1 DEF LinesBelowTop, CurIsTop, memVars, procVars, diskVars, cur
<1>7. QED
  BY <1>1, <1>2, <1>3, <1>4, <1>5, <1>6 DEF Next, ProcStep

\* Every step keeps LineInv.
LEMMA LineStep == LineInv /\ [Next]_vars => LineInv'
  BY CacheStep, RunsStep, CachedStep, TopLineStep DEF LineInv

\* LineInv holds initially.
LEMMA LineInit == Init => LineInv
<1> SUFFICES ASSUME Init PROVE LineInv
  OBVIOUS
<1>1. \A b \in Buckets : \A k, r : ~ HasBid(fAll[b], k, r) /\ ~ HasBid(fTop[b], k, r)
  BY DEF Init, HasBid
<1>2. QED
  BY <1>1, CacheInit DEF Init, LineInv, RunsSoFar, LinesAreCached, NewBidIsLate,
     LinesBelowTop, CurIsTop, Working

-----------------------------------------------------------------------------
(***************************************************************************)
(* Fragments, and the bids that run into them.                             *)
(***************************************************************************)

\* What is glued follows a fragment.
WellGlued(f) ==
    \A j \in DOMAIN f : IsGlued(f[j]) => j - 1 \in DOMAIN f /\ IsFragment(f[j - 1])

\* A fragment is of a run that has begun, and its error was logged.
TornLogged(f) ==
    \A j \in DOMAIN f : f[j].kind = "fragment" => f[j].run \in 1 .. run /\ TornIsLogged(f[j])

GlueInv == TypeOK /\ \A b \in Buckets : WellGlued(fAll[b]) /\ TornLogged(fAll[b])

\* The text of a bid is a line, or it follows a fragment.
LEMMA LineOrGlued ==
    ASSUME NEW f, NEW k, NEW r, WellGlued(f), HasBid(f, k, r)
    PROVE  HasLine(f, k, r) \/ HasGlued(f, k, r)
  BY DEF WellGlued, HasBid, IsBid, HasLine, HasGlued

\* Appending keeps a file well glued: AsRead looks at the item before.
LEMMA GlueAppend ==
    ASSUME NEW f \in Seq(Items), WellGlued(f), NEW x, IsGlued(x) => EndsTorn(f)
    PROVE  WellGlued(Append(f, x))
<1> DEFINE g == Append(f, x)
<1>1. DOMAIN g = 1 .. Len(f) + 1 /\ g[Len(f) + 1] = x /\ DOMAIN f = 1 .. Len(f) /\ Len(f) \in Nat
  OBVIOUS
<1>2. \A j \in 1 .. Len(f) : g[j] = f[j]
  OBVIOUS
<1>3. EndsTorn(f) => Len(f) \in 1 .. Len(f) /\ IsFragment(f[Len(f)])
  BY <1>1 DEF EndsTorn
<1> HIDE DEF g
<1>4. SUFFICES ASSUME NEW j \in 1 .. Len(f) + 1, IsGlued(g[j])
               PROVE  j - 1 \in 1 .. Len(f) + 1 /\ IsFragment(g[j - 1])
  BY <1>1 DEF WellGlued, g
<1>5. CASE j \in 1 .. Len(f)
  <2>1. j - 1 \in 1 .. Len(f) /\ IsFragment(f[j - 1])
    BY <1>1, <1>2, <1>4, <1>5 DEF WellGlued
  <2>2. QED
    BY <1>1, <1>2, <2>1
<1>6. CASE j = Len(f) + 1
  <2>1. Len(f) \in 1 .. Len(f) /\ IsFragment(f[Len(f)])
    BY <1>1, <1>3, <1>4, <1>6
  <2>2. g[Len(f)] = f[Len(f)]
    BY <1>2, <2>1
  <2>3. j - 1 = Len(f)
    BY <1>1, <1>6
  <2>4. QED
    BY <1>1, <2>1, <2>2, <2>3
<1>7. QED
  BY <1>4, <1>5, <1>6

\* The error log only grows within a run, and a run number is never used again.
LEMMA LogStep ==
    ASSUME TypeOK, [Next]_vars
    PROVE  \/ run' = run /\ errorLog \subseteq errorLog'
           \/ run' = run + 1
<1>1. CASE Crash \/ HeaderFails
  BY <1>1 DEF Crash, HeaderFails, Restart
<1>2. CASE \/ Receive \/ EndBatch \/ CheckBid \/ Publish \/ PublishFails \/ FilesOpen
           \/ OpenAll \/ OpenTop \/ OpenFails
  BY <1>2 DEF Receive, StartBatch, EndBatch, CheckBid, Publish, PublishFails,
     FilesOpen, OpenAll, OpenTop, OpenFails, LogError, cntVars, obsVars
<1>3. CASE \/ WriteAll \/ WriteAllFails \/ WriteTop \/ WriteTopFails
           \/ HousekeepingWakes \/ Housekeeping \/ Tick \/ UNCHANGED vars
  BY <1>3 DEF WriteAll, WriteAllFails, WriteTop, WriteTopFails, HousekeepingWakes,
     Housekeeping, Tick, vars, LogError, cntVars, obsVars
<1>4. QED
  BY <1>1, <1>2, <1>3 DEF Next, ProcStep

\* A fragment whose error was logged stays one, in this run and the next.
LEMMA TornStays ==
    ASSUME TypeOK, [Next]_vars
    PROVE  \A x : x.run \in 1 .. run /\ TornIsLogged(x) /\ x.kind = "fragment"
                    => x.run \in 1 .. run' /\ (x.run = run' => x.key \in errorLog')
<1>1. run \in Nat \ {0}
  BY DEF TypeOK
<1>2. QED
  BY <1>1, LogStep DEF TornIsLogged

\* A fragment that appears in an "all" file comes with its log entry.
LEMMA TornAppears ==
    ASSUME TypeOK, [Next]_vars, NEW x, IsTorn(x), x.kind = "fragment", pc \in Working,
           Gains(fAll, fAll', x)
    PROVE  x.run \in 1 .. run' /\ (x.run = run' => x.key \in errorLog')
<1>0. x = Fragment(UniqueKey(cur), run) /\ run \in Nat \ {0} /\ bucket \in Buckets
  <2>0. HeaderFragment.kind # "fragment"
    BY DEF HeaderFragment
  <2>1. x # HeaderFragment
    BY <2>0
  <2>2. run \in Nat \ {0}
    BY DEF TypeOK
  <2>3. bucket \in Buckets
    BY CurType
  <2>4. QED
    BY <2>1, <2>2, <2>3 DEF IsTorn
<1>1. fAll' # fAll /\ fAll[bucket] \in Seq(Items) /\ fAll'[bucket] = Append(fAll[bucket], x)
  BY <1>0 DEF Gains, TypeOK
<1>2. CASE WriteAllFails
  BY <1>0, <1>2 DEF WriteAllFails, LogError, Fragment
<1>3. CASE HeaderFails
  <2>1. run' = run + 1
    BY <1>3 DEF HeaderFails, Restart
  <2>2. QED
    BY <1>0, <2>1 DEF Fragment
<1>4. CASE OpenAll
  <2>1. fAll'[bucket] = WithHeader(fAll[bucket])
    BY <1>0, <1>4 DEF OpenAll, TypeOK
  <2>2. fAll'[bucket] = fAll[bucket] \/ fAll'[bucket] = Append(fAll[bucket], Header)
    BY <2>1 DEF WithHeader
  <2>3. Append(fAll[bucket], x) = fAll[bucket] \/ Append(fAll[bucket], x) = Append(fAll[bucket], Header)
    BY <1>1, <2>2
  <2>4. x = Header
    BY <1>1, <2>3, AppendSame
  <2>5. QED
    BY <1>0, <2>4, NotLines
<1>5. CASE WriteAll
  <2>1. \/ fAll'[bucket] = fAll[bucket]
        \/ fAll'[bucket] = Append(fAll[bucket], AsRead(fAll[bucket], Line(cur)))
    BY <1>0, <1>5 DEF WriteAll, AfterWrite, TypeOK
  <2>2. x = AsRead(fAll[bucket], Line(cur))
    BY <1>1, <2>1, AppendSame
  <2>3. QED
    BY <1>0, <2>2, LineFields, NotLines
<1>6. CASE Receive \/ EndBatch \/ CheckBid \/ Publish \/ PublishFails \/ FilesOpen
  BY <1>1, <1>6 DEF Receive, StartBatch, EndBatch, CheckBid, Publish, PublishFails, FilesOpen, diskVars
<1>7. CASE OpenTop \/ OpenFails \/ WriteTop \/ WriteTopFails
  BY <1>1, <1>7 DEF OpenTop, OpenFails, WriteTop, WriteTopFails, diskVars
<1>8. CASE HousekeepingWakes \/ Housekeeping \/ Crash \/ Tick \/ UNCHANGED vars
  BY <1>1, <1>8 DEF HousekeepingWakes, Housekeeping, Crash, Tick, vars, diskVars
<1>9. QED
  BY <1>2, <1>3, <1>4, <1>5, <1>6, <1>7, <1>8 DEF Next, ProcStep

\* No step glues a bid to anything but a fragment, or leaves a fragment in an
\* "all" file without an entry in the log.
LEMMA GlueStep == GlueInv /\ [Next]_vars => GlueInv'
<1> SUFFICES ASSUME GlueInv, [Next]_vars PROVE GlueInv'
  OBVIOUS
<1> USE DEF GlueInv
<1>0. TypeOK' /\ AllStep
  BY StepType, AllStepHolds
<1>1. SUFFICES ASSUME NEW b \in Buckets PROVE WellGlued(fAll'[b]) /\ TornLogged(fAll[b])'
  BY <1>0
<1>2. CASE fAll'[b] = fAll[b]
  <2>1. TornLogged(fAll[b])'
    BY <1>2, TornStays DEF TornLogged, TornIsLogged
  <2>2. QED
    BY <1>2, <2>1
<1>3. CASE fAll'[b] # fAll[b]
  <2>1. PICK x : /\ fAll'[b] = Append(fAll[b], x)
                 /\ b = bucket /\ Gains(fAll, fAll', x)
                 /\ \/ x = Header
                    \/ pc \in Working /\ IsTorn(x)
                    \/ x = AsRead(fAll[b], Line(cur))
    <3>1. b = bucket
      BY <1>0, <1>3 DEF AllStep, Gains, TypeOK
    <3>2. \A x : Gains(fAll, fAll', x) => fAll'[b] = Append(fAll[b], x)
      BY <3>1 DEF Gains, TypeOK
    <3>3. ~ UNCHANGED fAll
      BY <1>3
    <3>4. CASE Gains(fAll, fAll', Header)
      BY <3>1, <3>2, <3>4
    <3>5. CASE pc \in Working /\ \E x : IsTorn(x) /\ Gains(fAll, fAll', x)
      BY <3>1, <3>2, <3>5
    <3>6. CASE Gains(fAll, fAll', AsRead(fAll[bucket], Line(cur)))
      BY <3>1, <3>2, <3>6
    <3>7. QED
      BY <1>0, <3>3, <3>4, <3>5, <3>6 DEF AllStep
  <2>2. fAll[b] \in Seq(Items)
    BY DEF TypeOK
  <2>3. IsGlued(x) => EndsTorn(fAll[b])
    BY <2>1, NotLines, LineFields DEF IsBid, IsTorn
  <2>4. WellGlued(fAll'[b])
    BY <2>1, <2>2, <2>3, GlueAppend
  <2>5. x.kind = "fragment" => x.run \in 1 .. run' /\ (x.run = run' => x.key \in errorLog')
    <3>1. x.kind = "fragment" => pc \in Working /\ IsTorn(x)
      BY <2>1, LineFields DEF Header
    <3>2. QED
      BY <2>1, <3>1, TornAppears
  <2>6. TornLogged(fAll[b])'
    <3>1. SUFFICES ASSUME NEW j \in DOMAIN fAll'[b], fAll'[b][j].kind = "fragment"
                   PROVE  /\ fAll'[b][j].run \in 1 .. run'
                          /\ fAll'[b][j].run = run' => fAll'[b][j].key \in errorLog'
      BY DEF TornLogged, TornIsLogged
    <3>2. \/ j \in DOMAIN fAll[b] /\ fAll'[b][j] = fAll[b][j]
          \/ fAll'[b][j] = x
      BY <2>1, <2>2
    <3>3. CASE j \in DOMAIN fAll[b] /\ fAll'[b][j] = fAll[b][j]
      <4>1. fAll[b][j].run \in 1 .. run /\ TornIsLogged(fAll[b][j])
        BY <3>1, <3>3 DEF TornLogged
      <4>2. QED
        BY <3>1, <3>3, <4>1, TornStays
    <3>4. CASE fAll'[b][j] = x
      BY <2>5, <3>1, <3>4
    <3>5. QED
      BY <3>2, <3>3, <3>4
  <2>7. QED
    BY <2>4, <2>6
<1>4. QED
  BY <1>2, <1>3

\* GlueInv holds initially.
LEMMA GlueInit == Init => GlueInv
<1> SUFFICES ASSUME Init PROVE GlueInv
  OBVIOUS
<1>1. \A b \in Buckets : DOMAIN fAll[b] = {}
  BY DEF Init
<1>2. QED
  BY <1>1, InitType DEF GlueInv, WellGlued, TornLogged

-----------------------------------------------------------------------------
(***************************************************************************)
(* The refinement: each step appends at most one item to one file, as      *)
(* BidArchive allows, or begins a new run.                                 *)
(***************************************************************************)

Inv == HandleInv /\ LineInv /\ GlueInv

\* Inv holds initially.
LEMMA InvInit == Init => Inv
  BY HandleInit, LineInit, GlueInit DEF Inv

\* Every step keeps Inv, the inductive invariant.
LEMMA InvStep == Inv /\ [Next]_vars => Inv'
  BY HandleStep, LineStep, GlueStep DEF Inv

\* The archive's vocabulary is the processor's.
LEMMA SameLines ==
    /\ \A f, k, r : /\ Archive!HasBid(f, k, r) <=> HasBid(f, k, r)
                    /\ Archive!HasLine(f, k, r) <=> HasLine(f, k, r)
                    /\ Archive!HasGlued(f, k, r) <=> HasGlued(f, k, r)
    /\ \A x : /\ Archive!IsBid(x) <=> IsBid(x)
              /\ Archive!IsLine(x) <=> IsLine(x)
    /\ \A f, k, r, l : Archive!AsRead(f, Archive!BidLine(k, r, l)) = AsRead(f, BidLine(k, r, l))
    /\ \A k, r : Archive!Fragment(k, r) = Fragment(k, r)
    /\ Archive!Header = Header /\ Archive!HeaderFragment = HeaderFragment
<1> USE DEF Archive!IsBid, IsBid, Archive!IsLine, IsLine, Archive!IsGlued, IsGlued,
            Archive!IsFragment, IsFragment
<1>1. \A f, k, r : Archive!HasBid(f, k, r) <=> HasBid(f, k, r)
  BY DEF Archive!HasBid, HasBid
<1>2. \A f, k, r : Archive!HasLine(f, k, r) <=> HasLine(f, k, r)
  BY DEF Archive!HasLine, HasLine
<1>3. \A f, k, r : Archive!HasGlued(f, k, r) <=> HasGlued(f, k, r)
  BY DEF Archive!HasGlued, HasGlued
<1>4. \A f, k, r, l : Archive!AsRead(f, Archive!BidLine(k, r, l)) = AsRead(f, BidLine(k, r, l))
  BY DEF Archive!AsRead, AsRead, Archive!EndsTorn, EndsTorn, Archive!BidLine, BidLine
<1>5. QED
  BY <1>1, <1>2, <1>3, <1>4 DEF Archive!Fragment, Fragment, Archive!Header, Header,
     Archive!HeaderFragment, HeaderFragment

\* writeBidToFile's first half adds a bid to the "all" file as the archive allows.
LEMMA WriteAllRefines ==
    ASSUME Inv, WriteAll, isNewBid
    PROVE  \E b \in Buckets, k \in Keys, late \in BOOLEAN : Archive!AddBid(b, k, late)
<1> USE DEF Inv, HandleInv, LineInv, CacheInv, WriteAll
<1>1. bucket \in Buckets /\ cur \in Bids /\ UniqueKey(cur) \in Keys
  BY CurType DEF Working
<1> DEFINE late == now > cur.slot + CacheSlots
<1>2. late \in BOOLEAN
  OBVIOUS
<1>3. fAll[bucket] # <<>>
  BY DEF WritesToOpenFiles, FilesBegun
<1>4. Archive!InRun(UniqueKey(cur)) => late
  <2>1. SUFFICES ASSUME NEW b \in Buckets, HasBid(fAll[b], UniqueKey(cur), run)
                 PROVE  late
    BY SameLines DEF Archive!InRun
  <2>2. cur.slot + CacheSlots < now
    BY <2>1 DEF NewBidIsLate, Working
  <2>3. now \in Nat /\ cur.slot \in Nat
    BY <1>1, Numbers
  <2>4. QED
    BY <2>2, <2>3
<1>5. /\ fAll' = Archive!Grow(fAll, bucket, Archive!AsRead(fAll[bucket], Archive!BidLine(UniqueKey(cur), run, late)))
      /\ UNCHANGED <<fTop, run>>
  <2>1. Archive!AsRead(fAll[bucket], Archive!BidLine(UniqueKey(cur), run, late)) = AsRead(fAll[bucket], Line(cur))
    BY SameLines DEF Line
  <2>2. fAll' = [fAll EXCEPT ![bucket] = Append(fAll[bucket], AsRead(fAll[bucket], Line(cur)))]
    BY <1>1 DEF AfterWrite, TypeOK
  <2>3. QED
    BY <1>1, <2>1, <2>2 DEF Archive!Grow, cntVars, TypeOK
<1>6. Archive!AddBid(bucket, UniqueKey(cur), late)
  BY <1>3, <1>4, <1>5 DEF Archive!AddBid
<1> HIDE DEF late
<1>7. QED
  BY <1>1, <1>2, <1>6

\* And its second half a top bid.
LEMMA WriteTopRefines ==
    ASSUME Inv, WriteTop, isTopBid
    PROVE  \E b \in Buckets, k \in Keys, late \in BOOLEAN : Archive!AddTopBid(b, k, late)
<1> USE DEF Inv, HandleInv, LineInv, CacheInv, WriteTop
<1>1. bucket \in Buckets /\ cur \in Bids /\ UniqueKey(cur) \in Keys
  BY CurType DEF Working
<1> DEFINE late == now > cur.slot + CacheSlots
<1>2. late \in BOOLEAN
  OBVIOUS
<1>3. fTop[bucket] # <<>>
  BY DEF WritesToOpenFiles, FilesBegun
<1>4. \/ Archive!HasLine(fAll[bucket], UniqueKey(cur), run)
      \/ Archive!HasGlued(fAll[bucket], UniqueKey(cur), run)
  <2>1. HasBid(fAll[bucket], UniqueKey(cur), run) /\ WellGlued(fAll[bucket])
    BY <1>1 DEF TopHasAllLine, GlueInv
  <2>2. QED
    BY <2>1, LineOrGlued, SameLines
<1>5. Archive!Beats(UniqueKey(cur))
  <2>1. SUFFICES ASSUME NEW b \in Buckets, NEW j \in DOMAIN fTop[b], IsBid(fTop[b][j]),
                        fTop[b][j].run = run, fTop[b][j].key.slot = cur.slot
                 PROVE  fTop[b][j].key.value < cur.value
    BY <1>1, SameLines, KeyFields DEF Archive!Beats
  <2>2. HasBid(fTop[b], fTop[b][j].key, run)
    BY <2>1 DEF HasBid
  <2>3. fTop[b][j].key \in Keys
    <3>1. fTop[b][j] \in Items
      BY DEF TypeOK
    <3>2. QED
      BY <2>1, <3>1, NotLines DEF Items, Lines, Fragments
  <2>4. QED
    BY <2>1, <2>2, <2>3 DEF CurIsTop, Working
<1>6. /\ fTop' = Archive!Grow(fTop, bucket, Archive!AsRead(fTop[bucket], Archive!BidLine(UniqueKey(cur), run, late)))
      /\ UNCHANGED <<fAll, run>>
  <2>1. Archive!AsRead(fTop[bucket], Archive!BidLine(UniqueKey(cur), run, late)) = AsRead(fTop[bucket], Line(cur))
    BY SameLines DEF Line
  <2>2. fTop' = [fTop EXCEPT ![bucket] = Append(fTop[bucket], AsRead(fTop[bucket], Line(cur)))]
    BY <1>1 DEF AfterWrite, TypeOK
  <2>3. QED
    BY <1>1, <2>1, <2>2 DEF Archive!Grow, cntVars, TypeOK
<1>7. Archive!AddTopBid(bucket, UniqueKey(cur), late)
  BY <1>3, <1>4, <1>5, <1>6 DEF Archive!AddTopBid
<1> HIDE DEF late
<1>8. QED
  BY <1>1, <1>2, <1>7

\* Every step of the program is a step of the archive, or one its readers do not see.
LEMMA StepRefines == Inv /\ [Next]_vars => [Archive!Next]_(Archive!vars)
<1> SUFFICES ASSUME Inv, [Next]_vars PROVE Archive!Next \/ UNCHANGED <<fAll, fTop, run>>
  BY DEF Archive!vars
<1>0. TypeOK
  BY DEF Inv, HandleInv
<1>1. CASE OpenAll
  <2>1. bucket \in Buckets /\ UNCHANGED <<fTop, run>>
    BY <1>0, <1>1, CurType DEF OpenAll, Working, cntVars
  <2>2. CASE fAll[bucket] = <<>>
    BY <1>1, <2>1, <2>2, SameLines DEF OpenAll, WithHeader, Archive!Next, Archive!AddHeader,
       Archive!Grow
  <2>3. CASE fAll[bucket] # <<>>
    BY <1>0, <1>1, <2>1, <2>3 DEF OpenAll, WithHeader, TypeOK
  <2>4. QED
    BY <2>2, <2>3
<1>2. CASE OpenTop
  <2>1. bucket \in Buckets /\ UNCHANGED <<fAll, run>>
    BY <1>0, <1>2, CurType DEF OpenTop, Working, cntVars
  <2>2. CASE fTop[bucket] = <<>>
    BY <1>2, <2>1, <2>2, SameLines DEF OpenTop, WithHeader, Archive!Next, Archive!AddHeader,
       Archive!Grow
  <2>3. CASE fTop[bucket] # <<>>
    BY <1>0, <1>2, <2>1, <2>3 DEF OpenTop, WithHeader, TypeOK
  <2>4. QED
    BY <2>2, <2>3
<1>3. CASE WriteAll
  <2>1. CASE isNewBid
    BY <1>3, <2>1, WriteAllRefines DEF Archive!Next
  <2>2. CASE ~ isNewBid
    BY <1>3, <2>2 DEF WriteAll, cntVars
  <2>3. QED
    BY <2>1, <2>2
<1>4. CASE WriteTop
  <2>1. CASE isTopBid
    BY <1>4, <2>1, WriteTopRefines DEF Archive!Next
  <2>2. CASE ~ isTopBid
    BY <1>4, <2>2 DEF WriteTop, cntVars
  <2>3. QED
    BY <2>1, <2>2
<1>5. CASE WriteAllFails
  <2>1. /\ bucket \in Buckets /\ UniqueKey(cur) \in Keys
        /\ UNCHANGED <<fTop, run>>
    BY <1>0, <1>5, CurType DEF WriteAllFails, Working
  <2>2. \/ UNCHANGED fAll
        \/ fAll' = [fAll EXCEPT ![bucket] = Append(@, Fragment(UniqueKey(cur), run))]
    BY <1>0, <1>5, <2>1 DEF WriteAllFails, AfterFailedWrite, TypeOK
  <2>3. fAll[bucket] # <<>>
    BY <1>5, <2>1 DEF WriteAllFails, Inv, HandleInv, WritesToOpenFiles, FilesBegun
  <2>4. CASE fAll' = [fAll EXCEPT ![bucket] = Append(@, Fragment(UniqueKey(cur), run))]
    <3>1. Archive!AddFragment(bucket, UniqueKey(cur))
      BY <2>1, <2>3, <2>4, SameLines DEF Archive!AddFragment, Archive!Grow
    <3>2. QED
      BY <2>1, <3>1 DEF Archive!Next
  <2>5. QED
    BY <2>1, <2>2, <2>4
<1>6. CASE WriteTopFails
  <2>1. /\ bucket \in Buckets /\ UniqueKey(cur) \in Keys
        /\ UNCHANGED <<fAll, run>>
    BY <1>0, <1>6, CurType DEF WriteTopFails, Working
  <2>2. \/ UNCHANGED fTop
        \/ fTop' = [fTop EXCEPT ![bucket] = Append(@, Fragment(UniqueKey(cur), run))]
    BY <1>0, <1>6, <2>1 DEF WriteTopFails, AfterFailedWrite, TypeOK
  <2>3. fTop[bucket] # <<>>
    BY <1>6, <2>1 DEF WriteTopFails, Inv, HandleInv, WritesToOpenFiles, FilesBegun
  <2>4. CASE fTop' = [fTop EXCEPT ![bucket] = Append(@, Fragment(UniqueKey(cur), run))]
    <3>1. Archive!AddFragment(bucket, UniqueKey(cur))
      BY <2>1, <2>3, <2>4, SameLines DEF Archive!AddFragment, Archive!Grow
    <3>2. QED
      BY <2>1, <3>1 DEF Archive!Next
  <2>5. QED
    BY <2>1, <2>2, <2>4
<1>7. CASE Crash
  BY <1>7 DEF Crash, Restart, diskVars, Archive!Next, Archive!NewRun
<1>8. CASE HeaderFails
  <2>1. bucket \in Buckets /\ run' = run + 1
    BY <1>0, <1>8, CurType DEF HeaderFails, Restart, Working
  <2>2. \E b \in Buckets : Archive!AddHeaderFragment(b)
    BY <1>8, <2>1, SameLines DEF HeaderFails, Archive!AddHeaderFragment, Archive!Grow
  <2>3. QED
    BY <2>1, <2>2 DEF Archive!Next, Archive!NewRun
<1>9. CASE Receive \/ EndBatch \/ CheckBid \/ Publish \/ PublishFails \/ FilesOpen
  BY <1>9 DEF Receive, StartBatch, EndBatch, CheckBid, Publish, PublishFails, FilesOpen,
     diskVars, cntVars
<1>10. CASE OpenFails \/ HousekeepingWakes \/ Housekeeping \/ Tick \/ UNCHANGED vars
  BY <1>10 DEF OpenFails, HousekeepingWakes, Housekeeping, Tick, vars, diskVars, cntVars
<1>11. QED
  BY <1>1, <1>2, <1>3, <1>4, <1>5, <1>6, <1>7, <1>8, <1>9, <1>10 DEF Next, ProcStep

\* The processor keeps the archive's promise, for every set of bids, schedule,
\* crash and I/O error.
THEOREM Implementation == Spec => ImplementsArchive
<1>1. Init => Archive!Init
  BY DEF Init, Archive!Init
<1>2. QED
  BY <1>1, InvInit, InvStep, StepRefines, PTL DEF Spec, ImplementsArchive, Archive!Spec

-----------------------------------------------------------------------------
(***************************************************************************)
(* What follows for a reader from the promise alone.  Each invariant is    *)
(* inductive for the archive's steps.                                      *)
(***************************************************************************)

Gets(f, g, b, x) == g = [f EXCEPT ![b] = Append(@, x)]

ArchiveFiles ==
    fAll \in [Buckets -> Seq(Items)] /\ fTop \in [Buckets -> Seq(Items)]

ArchiveAll ==
    \/ UNCHANGED fAll
    \/ \E b \in Buckets, k \in Keys : Gets(fAll, fAll', b, Fragment(k, run)) /\ fAll[b] # <<>>
    \/ \E b \in Buckets, x \in {Header, HeaderFragment} : Gets(fAll, fAll', b, x) /\ fAll[b] = <<>>
    \/ \E b \in Buckets, k \in Keys, late \in BOOLEAN :
          /\ Gets(fAll, fAll', b, AsRead(fAll[b], BidLine(k, run, late)))
          /\ fAll[b] # <<>>
          /\ Archive!InRun(k) => late

ArchiveTop ==
    \/ UNCHANGED fTop
    \/ \E b \in Buckets, k \in Keys : Gets(fTop, fTop', b, Fragment(k, run)) /\ fTop[b] # <<>>
    \/ \E b \in Buckets, x \in {Header, HeaderFragment} : Gets(fTop, fTop', b, x) /\ fTop[b] = <<>>
    \/ \E b \in Buckets, k \in Keys, late \in BOOLEAN :
          /\ Gets(fTop, fTop', b, AsRead(fTop[b], BidLine(k, run, late)))
          /\ fTop[b] # <<>>
          /\ HasBid(fAll[b], k, run)
          /\ Archive!Beats(k)

\* A bid's text, as a line or glued, keeps its fields.
LEMMA AsReadFields ==
    ASSUME NEW f, NEW k, NEW r, NEW late
    PROVE  /\ AsRead(f, BidLine(k, r, late)).key = k
           /\ AsRead(f, BidLine(k, r, late)).run = r
           /\ AsRead(f, BidLine(k, r, late)).late = late
           /\ AsRead(f, BidLine(k, r, late)) # Header
  BY DEF AsRead, BidLine, Header

\* A bid that is a line, or runs into a fragment, was written.
LEMMA LineIsBid ==
    ASSUME NEW f, NEW k, NEW r, HasLine(f, k, r) \/ HasGlued(f, k, r)
    PROVE  HasBid(f, k, r)
  BY DEF HasLine, HasGlued, HasBid, IsBid

\* The effects of an archive step, file by file.
LEMMA ArchiveEffects ==
    ASSUME [Archive!Next]_(Archive!vars)
    PROVE  ArchiveAll /\ ArchiveTop
<1>1. ASSUME NEW b \in Buckets, Archive!AddHeader(b) PROVE ArchiveAll /\ ArchiveTop
  BY <1>1, SameLines DEF Archive!AddHeader, Archive!Grow, ArchiveAll, ArchiveTop, Gets
<1>2. ASSUME NEW b \in Buckets, NEW k \in Keys, NEW late \in BOOLEAN, Archive!AddBid(b, k, late)
      PROVE  ArchiveAll /\ ArchiveTop
  <2>1. Archive!AsRead(fAll[b], Archive!BidLine(k, run, late)) = AsRead(fAll[b], BidLine(k, run, late))
    BY SameLines
  <2>2. /\ Gets(fAll, fAll', b, AsRead(fAll[b], BidLine(k, run, late)))
        /\ fAll[b] # <<>> /\ (Archive!InRun(k) => late) /\ UNCHANGED fTop
    BY <1>2, <2>1 DEF Archive!AddBid, Archive!Grow, Gets
  <2>3. QED
    BY <2>2 DEF ArchiveAll, ArchiveTop
<1>3. ASSUME NEW b \in Buckets, NEW k \in Keys, NEW late \in BOOLEAN, Archive!AddTopBid(b, k, late)
      PROVE  ArchiveAll /\ ArchiveTop
  <2>1. HasBid(fAll[b], k, run)
    BY <1>3, SameLines, LineIsBid DEF Archive!AddTopBid
  <2>2. Archive!AsRead(fTop[b], Archive!BidLine(k, run, late)) = AsRead(fTop[b], BidLine(k, run, late))
    BY SameLines
  <2>3. /\ Gets(fTop, fTop', b, AsRead(fTop[b], BidLine(k, run, late)))
        /\ fTop[b] # <<>> /\ Archive!Beats(k) /\ UNCHANGED fAll
    BY <1>3, <2>2 DEF Archive!AddTopBid, Archive!Grow, Gets
  <2>4. QED
    BY <2>1, <2>3 DEF ArchiveAll, ArchiveTop
<1>4. ASSUME NEW b \in Buckets, Archive!AddHeaderFragment(b) PROVE ArchiveAll /\ ArchiveTop
  BY <1>4, SameLines DEF Archive!AddHeaderFragment, Archive!Grow, ArchiveAll, ArchiveTop, Gets
<1>5. ASSUME NEW b \in Buckets, NEW k \in Keys, Archive!AddFragment(b, k)
      PROVE  ArchiveAll /\ ArchiveTop
  BY <1>5, SameLines DEF Archive!AddFragment, Archive!Grow, ArchiveAll, ArchiveTop, Gets
<1>6. CASE UNCHANGED <<fAll, fTop>>
  BY <1>6 DEF ArchiveAll, ArchiveTop
<1>7. QED
  BY <1>1, <1>2, <1>3, <1>4, <1>5, <1>6 DEF Archive!Next, Archive!NewRun, Archive!vars

\* Bucket b's file is one item longer in g than in f.
Longer(f, g, b, x) ==
    /\ \A c \in Buckets : c # b => g[c] = f[c]
    /\ DOMAIN g[b] = DOMAIN f[b] \cup {Len(f[b]) + 1}
    /\ g[b][Len(f[b]) + 1] = x
    /\ \A i \in DOMAIN f[b] : g[b][i] = f[b][i] /\ i < Len(f[b]) + 1
    /\ \A c \in Buckets : \A i \in DOMAIN f[c] : i \in 1 .. Len(f[c])
    /\ Len(f[b]) \in Nat

\* A file keeps all its lines when it grows.
LEMMA GetsLonger ==
    ASSUME NEW f \in [Buckets -> Seq(Items)], NEW g, NEW b \in Buckets, NEW x, Gets(f, g, b, x)
    PROVE  Longer(f, g, b, x)
<1>1. g[b] = Append(f[b], x) /\ f[b] \in Seq(Items)
  BY DEF Gets
<1>2. \A c \in Buckets : c # b => g[c] = f[c]
  BY DEF Gets
<1>3. QED
  BY <1>1, <1>2 DEF Longer

BeginsWell(f) == \A i \in DOMAIN f : IF i = 1 THEN f[i] \in {Header, HeaderFragment} ELSE f[i] # Header

\* A file that grows keeps its first item.
LEMMA KeepsBeginning ==
    ASSUME NEW f \in [Buckets -> Seq(Items)], NEW g, NEW b \in Buckets, NEW x, Gets(f, g, b, x),
           \A c \in Buckets : BeginsWell(f[c]),
           \/ x # Header /\ f[b] # <<>>
           \/ x \in {Header, HeaderFragment} /\ f[b] = <<>>
    PROVE  \A c \in Buckets : BeginsWell(g[c])
<1>1. Longer(f, g, b, x)
  BY GetsLonger
<1>2. f[b] = <<>> <=> Len(f[b]) = 0
  <2>1. f[b] \in Seq(Items)
    OBVIOUS
  <2>2. QED
    BY <2>1
<1>3. BeginsWell(f[b])
  OBVIOUS
<1>4. BeginsWell(g[b])
  <2> SUFFICES ASSUME NEW i \in DOMAIN g[b]
               PROVE  IF i = 1 THEN g[b][i] \in {Header, HeaderFragment} ELSE g[b][i] # Header
    BY DEF BeginsWell
  <2>1. CASE i \in DOMAIN f[b]
    BY <1>1, <1>3, <2>1 DEF Longer, BeginsWell
  <2>2. CASE i = Len(f[b]) + 1
    <3>1. g[b][i] = x /\ Len(f[b]) \in Nat
      BY <1>1, <2>2 DEF Longer
    <3>2. QED
      BY <1>2, <2>2, <3>1
  <2>3. QED
    BY <1>1, <2>1, <2>2 DEF Longer
<1>5. QED
  BY <1>1, <1>4 DEF Longer

\* Archive steps keep headers first.
LEMMA HeaderIsFirstStep ==
    ASSUME ArchiveFiles, HeaderIsFirst, ArchiveAll, ArchiveTop
    PROVE  HeaderIsFirst'
<1>1. HeaderIsFirst <=> \A b \in Buckets : BeginsWell(fAll[b]) /\ BeginsWell(fTop[b])
  BY SameLines DEF HeaderIsFirst, Archive!HeaderIsFirst, BeginsWell
<1>2. HeaderIsFirst' <=> \A b \in Buckets : BeginsWell(fAll'[b]) /\ BeginsWell(fTop'[b])
  BY SameLines DEF HeaderIsFirst, Archive!HeaderIsFirst, BeginsWell
<1>3. /\ \A f, k, late : AsRead(f, BidLine(k, run, late)) # Header
      /\ \A k : Fragment(k, run) # Header
  BY AsReadFields, NotLines
<1>4. \A b \in Buckets : BeginsWell(fAll'[b])
  <2>1. CASE UNCHANGED fAll
    BY <1>1, <2>1
  <2>2. CASE ~ UNCHANGED fAll
    <3>1. PICK b, x : /\ b \in Buckets
                      /\ Gets(fAll, fAll', b, x)
                      /\ \/ x # Header /\ fAll[b] # <<>>
                         \/ x \in {Header, HeaderFragment} /\ fAll[b] = <<>>
      BY <1>3, <2>2 DEF ArchiveAll
    <3>2. fAll \in [Buckets -> Seq(Items)] /\ \A c \in Buckets : BeginsWell(fAll[c])
      BY <1>1 DEF ArchiveFiles
    <3>3. QED
      BY <3>1, <3>2, KeepsBeginning
  <2>3. QED
    BY <2>1, <2>2
<1>5. \A b \in Buckets : BeginsWell(fTop'[b])
  <2>1. CASE UNCHANGED fTop
    BY <1>1, <2>1
  <2>2. CASE ~ UNCHANGED fTop
    <3>1. PICK b, x : /\ b \in Buckets
                      /\ Gets(fTop, fTop', b, x)
                      /\ \/ x # Header /\ fTop[b] # <<>>
                         \/ x \in {Header, HeaderFragment} /\ fTop[b] = <<>>
      BY <1>3, <2>2 DEF ArchiveTop
    <3>2. fTop \in [Buckets -> Seq(Items)] /\ \A c \in Buckets : BeginsWell(fTop[c])
      BY <1>1 DEF ArchiveFiles
    <3>3. QED
      BY <3>1, <3>2, KeepsBeginning
  <2>3. QED
    BY <2>1, <2>2
<1>6. QED
  BY <1>2, <1>4, <1>5

\* A bid that a "top" file was given, the "all" file was given before.
TopBidsAreInAll ==
    \A b \in Buckets : \A i \in DOMAIN fTop[b] :
        IsBid(fTop[b][i]) => HasBid(fAll[b], fTop[b][i].key, fTop[b][i].run)

\* Archive steps keep the top bids in the full archive.
LEMMA TopInAllStep ==
    ASSUME ArchiveFiles, TopBidsAreInAll, ArchiveAll, ArchiveTop
    PROVE  TopBidsAreInAll'
<1> SUFFICES ASSUME NEW c \in Buckets, NEW i \in DOMAIN fTop'[c], IsBid(fTop'[c][i])
             PROVE  HasBid(fAll'[c], fTop'[c][i].key, fTop'[c][i].run)
  BY DEF TopBidsAreInAll
<1>1. \A k, r : HasBid(fAll[c], k, r) => HasBid(fAll'[c], k, r)
  <2>1. CASE UNCHANGED fAll
    BY <2>1
  <2>2. CASE \E b \in Buckets : \E x : Gets(fAll, fAll', b, x)
    <3>1. PICK b, x : b \in Buckets /\ Gets(fAll, fAll', b, x)
      BY <2>2
    <3>2. Longer(fAll, fAll', b, x)
      BY <3>1, GetsLonger DEF ArchiveFiles
    <3>3. QED
      BY <3>2 DEF HasBid, Longer
  <2>3. QED
    BY <2>1, <2>2 DEF ArchiveAll
<1>2. CASE i \in DOMAIN fTop[c] /\ fTop'[c][i] = fTop[c][i]
  BY <1>1, <1>2 DEF TopBidsAreInAll
<1>3. CASE ~ (i \in DOMAIN fTop[c] /\ fTop'[c][i] = fTop[c][i])
  <2>1. PICK b, x :
           /\ b \in Buckets
           /\ Gets(fTop, fTop', b, x)
           /\ IsBid(x) => HasBid(fAll[b], x.key, x.run)
    <3>1. ~ UNCHANGED fTop
      BY <1>3
    <3>3. CASE \E b \in Buckets, k \in Keys, late \in BOOLEAN :
                 /\ Gets(fTop, fTop', b, AsRead(fTop[b], BidLine(k, run, late)))
                 /\ HasBid(fAll[b], k, run)
      BY <3>3, AsReadFields
    <3>4. CASE \/ \E b \in Buckets, k \in Keys : Gets(fTop, fTop', b, Fragment(k, run))
               \/ \E b \in Buckets, x \in {Header, HeaderFragment} : Gets(fTop, fTop', b, x)
      BY <3>4, NotLines
    <3>5. QED
      BY <3>1, <3>3, <3>4 DEF ArchiveTop
  <2>2. Longer(fTop, fTop', b, x)
    BY <2>1, GetsLonger DEF ArchiveFiles
  <2>3. c = b /\ fTop'[c][i] = x
    BY <1>3, <2>2 DEF Longer
  <2>4. QED
    BY <1>1, <2>1, <2>3
<1>4. QED
  BY <1>2, <1>3

\* The lines of files are of keys.
LEMMA LineKeys ==
    ASSUME NEW f \in [Buckets -> Seq(Items)], NEW b \in Buckets, NEW i \in DOMAIN f[b], IsBid(f[b][i])
    PROVE  f[b][i].key \in Keys
<1>1. f[b][i] \in Items
  OBVIOUS
<1>2. QED
  BY <1>1, NotLines DEF Items, Lines, Fragments

\* A line of the same run and slot as a top bid that is added has a smaller value.
LEMMA IncreaseStep ==
    ASSUME ArchiveFiles, TopLinesIncrease, ArchiveTop
    PROVE  TopLinesIncrease'
<1>1. SUFFICES ASSUME NEW c \in Buckets, NEW d \in Buckets,
                      NEW i \in DOMAIN fTop'[c], NEW j \in DOMAIN fTop'[d],
                      <<c, i>> # <<d, j>>,
                      IsBid(fTop'[c][i]), IsBid(fTop'[d][j]),
                      fTop'[c][i].run = fTop'[d][j].run,
                      fTop'[c][i].key.slot = fTop'[d][j].key.slot
               PROVE  /\ fTop'[c][i].key.value # fTop'[d][j].key.value
                      /\ c = d /\ i < j => fTop'[c][i].key.value < fTop'[d][j].key.value
  BY SameLines DEF TopLinesIncrease, Archive!TopLinesIncrease
<1>2. CASE i \in DOMAIN fTop[c] /\ fTop'[c][i] = fTop[c][i] /\ j \in DOMAIN fTop[d] /\ fTop'[d][j] = fTop[d][j]
  BY <1>1, <1>2, SameLines DEF TopLinesIncrease, Archive!TopLinesIncrease
<1>3. CASE ~ (i \in DOMAIN fTop[c] /\ fTop'[c][i] = fTop[c][i] /\ j \in DOMAIN fTop[d] /\ fTop'[d][j] = fTop[d][j])
  <2>1. ~ UNCHANGED fTop
    BY <1>3
  <2>2. PICK b, x :
           /\ b \in Buckets
           /\ Gets(fTop, fTop', b, x)
           /\ IsBid(x) => /\ x.run = run
                           /\ x.key \in Keys
                           /\ Archive!Beats(x.key)
    <3>1. CASE \E b \in Buckets, k \in Keys, late \in BOOLEAN :
                 /\ Gets(fTop, fTop', b, AsRead(fTop[b], BidLine(k, run, late)))
                 /\ Archive!Beats(k)
      BY <3>1, AsReadFields
    <3>2. CASE \/ \E b \in Buckets, k \in Keys : Gets(fTop, fTop', b, Fragment(k, run))
               \/ \E b \in Buckets, x \in {Header, HeaderFragment} : Gets(fTop, fTop', b, x)
      BY <3>2, NotLines
    <3>3. QED
      BY <2>1, <3>1, <3>2 DEF ArchiveTop
  <2>3. fTop \in [Buckets -> Seq(Items)]
    BY DEF ArchiveFiles
  <2>4. Longer(fTop, fTop', b, x)
    BY <2>2, <2>3, GetsLonger
  <2> DEFINE n == Len(fTop[b]) + 1
  <2>5. \/ i \in DOMAIN fTop[c] /\ fTop'[c][i] = fTop[c][i]
        \/ c = b /\ i = n /\ fTop'[c][i] = x
    BY <1>1, <2>4 DEF Longer
  <2>6. \/ j \in DOMAIN fTop[d] /\ fTop'[d][j] = fTop[d][j]
        \/ d = b /\ j = n /\ fTop'[d][j] = x
    BY <1>1, <2>4 DEF Longer
  <2>7. ASSUME NEW e \in Buckets, NEW m \in DOMAIN fTop[e], IsBid(fTop[e][m]), IsBid(x),
               fTop[e][m].run = x.run, fTop[e][m].key.slot = x.key.slot
        PROVE  /\ fTop[e][m].key.value < x.key.value
               /\ fTop[e][m].key.value # x.key.value
    <3>1. fTop[e][m].key.value < x.key.value
      BY <2>2, <2>7, SameLines DEF Archive!Beats
    <3>2. fTop[e][m].key.value \in Nat /\ x.key.value \in Nat
      BY <2>2, <2>3, <2>7, LineKeys, KeyTypes
    <3>3. QED
      BY <3>1, <3>2
  <2>8. CASE c = b /\ i = n /\ fTop'[c][i] = x
    <3>1. j \in DOMAIN fTop[d] /\ fTop'[d][j] = fTop[d][j]
      BY <1>1, <2>6, <2>8
    <3>2. ~ (c = d /\ i < j)
      BY <2>4, <2>8, <3>1 DEF Longer
    <3>3. QED
      BY <1>1, <2>7, <2>8, <3>1, <3>2
  <2>9. CASE d = b /\ j = n /\ fTop'[d][j] = x
    <3>1. i \in DOMAIN fTop[c] /\ fTop'[c][i] = fTop[c][i]
      BY <1>1, <2>5, <2>9
    <3>2. QED
      BY <1>1, <2>7, <2>9, <3>1
  <2>10. QED
    BY <1>3, <2>5, <2>6, <2>8, <2>9
<1>4. QED
  BY <1>2, <1>3

\* A line that repeats a key of its run is late.
LEMMA DuplicateStep ==
    ASSUME ArchiveFiles, DuplicatesAreLate, ArchiveAll
    PROVE  DuplicatesAreLate'
<1>1. SUFFICES ASSUME NEW c \in Buckets, NEW d \in Buckets,
                      NEW i \in DOMAIN fAll'[c], NEW j \in DOMAIN fAll'[d],
                      <<c, i>> # <<d, j>>,
                      IsBid(fAll'[c][i]), IsBid(fAll'[d][j]),
                      fAll'[c][i].run = fAll'[d][j].run,
                      fAll'[c][i].key = fAll'[d][j].key
               PROVE  fAll'[c][i].late \/ fAll'[d][j].late
  BY SameLines DEF DuplicatesAreLate, Archive!DuplicatesAreLate
<1>2. CASE i \in DOMAIN fAll[c] /\ fAll'[c][i] = fAll[c][i] /\ j \in DOMAIN fAll[d] /\ fAll'[d][j] = fAll[d][j]
  BY <1>1, <1>2, SameLines DEF DuplicatesAreLate, Archive!DuplicatesAreLate
<1>3. CASE ~ (i \in DOMAIN fAll[c] /\ fAll'[c][i] = fAll[c][i] /\ j \in DOMAIN fAll[d] /\ fAll'[d][j] = fAll[d][j])
  <2>1. ~ UNCHANGED fAll
    BY <1>3
  <2>2. PICK b, x :
           /\ b \in Buckets
           /\ Gets(fAll, fAll', b, x)
           /\ IsBid(x) => x.run = run /\ (Archive!InRun(x.key) => x.late)
    <3>1. CASE \E b \in Buckets, k \in Keys, late \in BOOLEAN :
                 /\ Gets(fAll, fAll', b, AsRead(fAll[b], BidLine(k, run, late)))
                 /\ Archive!InRun(k) => late
      BY <3>1, AsReadFields
    <3>2. CASE \/ \E b \in Buckets, k \in Keys : Gets(fAll, fAll', b, Fragment(k, run))
               \/ \E b \in Buckets, x \in {Header, HeaderFragment} : Gets(fAll, fAll', b, x)
      BY <3>2, NotLines
    <3>3. QED
      BY <2>1, <3>1, <3>2 DEF ArchiveAll
  <2>3. Longer(fAll, fAll', b, x)
    BY <2>2, GetsLonger DEF ArchiveFiles
  <2> DEFINE n == Len(fAll[b]) + 1
  <2>4. \/ i \in DOMAIN fAll[c] /\ fAll'[c][i] = fAll[c][i]
        \/ c = b /\ i = n /\ fAll'[c][i] = x
    BY <1>1, <2>3 DEF Longer
  <2>5. \/ j \in DOMAIN fAll[d] /\ fAll'[d][j] = fAll[d][j]
        \/ d = b /\ j = n /\ fAll'[d][j] = x
    BY <1>1, <2>3 DEF Longer
  <2>6. ASSUME NEW e \in Buckets, NEW m \in DOMAIN fAll[e], IsBid(fAll[e][m]), IsBid(x),
               fAll[e][m].run = x.run, fAll[e][m].key = x.key
        PROVE  x.late
    <3>1. HasBid(fAll[e], x.key, run)
      BY <2>2, <2>6 DEF HasBid
    <3>2. QED
      BY <2>2, <2>6, <3>1, SameLines DEF Archive!InRun
  <2>7. CASE c = b /\ i = n /\ fAll'[c][i] = x
    BY <1>1, <2>5, <2>6, <2>7
  <2>8. CASE d = b /\ j = n /\ fAll'[d][j] = x
    BY <1>1, <2>4, <2>6, <2>8
  <2>9. QED
    BY <1>3, <2>4, <2>5, <2>7, <2>8
<1>4. QED
  BY <1>2, <1>3

ArchiveInv ==
    Inv /\ TopBidsAreInAll /\ TopLinesIncrease /\ DuplicatesAreLate /\ HeaderIsFirst

\* ArchiveInv holds initially.
LEMMA ArchiveInvInit == Init => ArchiveInv
<1> SUFFICES ASSUME Init PROVE ArchiveInv
  OBVIOUS
<1>1. \A b \in Buckets : fAll[b] = <<>> /\ fTop[b] = <<>>
  BY DEF Init
<1>2. DOMAIN <<>> = {}
  OBVIOUS
<1>3. HeaderIsFirst
  BY <1>1, <1>2 DEF HeaderIsFirst, Archive!HeaderIsFirst
<1>4. TopBidsAreInAll /\ TopLinesIncrease /\ DuplicatesAreLate
  BY <1>1, <1>2 DEF TopBidsAreInAll, TopLinesIncrease,
     Archive!TopLinesIncrease, DuplicatesAreLate, Archive!DuplicatesAreLate
<1>5. QED
  BY <1>3, <1>4, InvInit DEF ArchiveInv

\* Archive steps keep ArchiveInv.
LEMMA ArchiveInvStep == ArchiveInv /\ [Next]_vars => ArchiveInv'
<1> SUFFICES ASSUME ArchiveInv, [Next]_vars PROVE ArchiveInv'
  OBVIOUS
<1>1. ArchiveFiles
  BY DEF ArchiveInv, Inv, HandleInv, TypeOK, ArchiveFiles
<1>2. ArchiveAll /\ ArchiveTop
  BY StepRefines, ArchiveEffects DEF ArchiveInv
<1>3. QED
  BY <1>1, <1>2, InvStep, TopInAllStep, IncreaseStep, DuplicateStep, HeaderIsFirstStep
     DEF ArchiveInv

\* For every set of bids, schedule, crash and I/O error: a line of a "top" file
\* is a line of the "all" file of the same hour and run, or its text there runs
\* into the fragment of a failed write (writeBidToFile, processBids).
THEOREM TopInAll == Spec => []TopLinesAreInAll
<1>1. ArchiveInv => TopLinesAreInAll
  <2> SUFFICES ASSUME ArchiveInv, NEW b \in Buckets, NEW i \in DOMAIN fTop[b], IsLine(fTop[b][i])
               PROVE  \/ HasLine(fAll[b], fTop[b][i].key, fTop[b][i].run)
                      \/ HasGlued(fAll[b], fTop[b][i].key, fTop[b][i].run)
    BY SameLines DEF TopLinesAreInAll, Archive!TopLinesAreInAll
  <2>1. HasBid(fAll[b], fTop[b][i].key, fTop[b][i].run)
    BY DEF ArchiveInv, TopBidsAreInAll, IsBid
  <2>2. WellGlued(fAll[b])
    BY DEF ArchiveInv, Inv, GlueInv
  <2>3. QED
    BY <2>1, <2>2, LineOrGlued
<1>2. QED
  BY <1>1, ArchiveInvInit, ArchiveInvStep, PTL DEF Spec

\* The top bids of a slot rise, within a file and across files (topBidCache).
THEOREM TopRises == Spec => []TopLinesIncrease
  BY ArchiveInvInit, ArchiveInvStep, PTL DEF Spec, ArchiveInv

\* Only a late bid is stored twice by one run, whatever housekeeping evicts
\* while the lock is held (processBids, housekeeping).
THEOREM DuplicatesLate == Spec => []DuplicatesAreLate
  BY ArchiveInvInit, ArchiveInvStep, PTL DEF Spec, ArchiveInv

\* Headers are at the top of a file only, after any restart (getFiles).
THEOREM HeadersFirst == Spec => []HeaderIsFirst
  BY ArchiveInvInit, ArchiveInvStep, PTL DEF Spec, ArchiveInv

-----------------------------------------------------------------------------
(***************************************************************************)
(* No bid is lost without an error.  A key enters bidCache before its bid is     *)
(* published and written; between the two it is the bid at hand.           *)
(***************************************************************************)

Accounted(k) ==
    \/ k \in errorLog
    \/ /\ k \in published
       /\ \E b \in Buckets : HasLine(fAll[b], k, run) \/ LostToFragment(fAll[b], k)

\* A bid that is not written because it is not new was taken care of before.
OldIsAccounted == (pc \in Working /\ ~ isNewBid) => Accounted(UniqueKey(cur))

PublishedFirst ==
    pc \in {"files", "openTop", "all"} => UniqueKey(cur) \in published \cup errorLog

LossInv == GlueInv /\ LossesAreLogged /\ OldIsAccounted /\ PublishedFirst

\* After a step, a bid's text in a file is a line or explained.
LEMMA WrittenIsAccounted ==
    ASSUME GlueInv', NEW k, NEW b \in Buckets, HasBid(fAll'[b], k, run')
    PROVE  HasLine(fAll'[b], k, run') \/ LostToFragment(fAll[b], k)'
<1>1. WellGlued(fAll'[b]) /\ TornLogged(fAll[b])'
  BY DEF GlueInv
<1>2. HasLine(fAll'[b], k, run') \/ HasGlued(fAll'[b], k, run')
  BY <1>1, LineOrGlued
<1>3. ASSUME NEW j \in DOMAIN fAll'[b], IsFragment(fAll'[b][j])
      PROVE  fAll'[b][j].kind = "fragment" /\ fAll'[b][j].run = run' => fAll'[b][j].key \in errorLog'
  BY <1>1, <1>3 DEF TornLogged, TornIsLogged
<1>4. QED
  BY <1>2, <1>3 DEF HasGlued, LostToFragment, TornIsLogged

\* What accounts for a bid goes on doing so while the run lasts.
LEMMA AccountedStays ==
    ASSUME GlueInv, GlueInv', [Next]_vars, NEW k, NEW b \in Buckets, run' = run,
           HasLine(fAll[b], k, run) \/ LostToFragment(fAll[b], k)
    PROVE  HasLine(fAll'[b], k, run') \/ LostToFragment(fAll[b], k)'
<1>1. HasBid(fAll[b], k, run)
  BY DEF HasLine, LostToFragment, HasBid, IsBid
<1>2. HasBid(fAll'[b], k, run')
  BY <1>1, AllLines DEF GlueInv
<1>3. QED
  BY <1>2, WrittenIsAccounted

\* Every step keeps LossInv.
LEMMA LossStep == LossInv /\ [Next]_vars => LossInv'
<1> SUFFICES ASSUME LossInv, [Next]_vars PROVE LossInv'
  OBVIOUS
<1> USE DEF LossInv
<1>0. TypeOK /\ TypeOK' /\ GlueInv'
  BY GlueStep DEF GlueInv
<1>1. \A b \in Buckets : \A k :
        run' = run /\ (HasLine(fAll[b], k, run) \/ LostToFragment(fAll[b], k))
            => HasLine(fAll'[b], k, run') \/ LostToFragment(fAll[b], k)'
  BY <1>0, AccountedStays
<1>2. \A k : Accounted(k) /\ run' = run /\ published \subseteq published' /\ errorLog \subseteq errorLog'
             => Accounted(k)'
  BY <1>1 DEF Accounted
<1>3. \A k \in bidCache : Accounted(k) \/ (pc \in Working \ {"top"} /\ k = UniqueKey(cur))
  BY DEF LossesAreLogged, Accounted
<1>4. (\A k \in bidCache' : Accounted(k)') => LossesAreLogged'
  BY DEF LossesAreLogged, Accounted
<1>5. CASE CheckBid
  <2>1. /\ UNCHANGED <<run, published, errorLog, batch>> /\ pc = "bid" /\ pc' = "publish"
        /\ bidCache' = bidCache \cup {UniqueKey(cur)}
        /\ isNewBid' = (UniqueKey(cur) \notin bidCache)
    BY <1>5 DEF CheckBid, obsVars, cntVars
  <2>2. \A k \in bidCache : Accounted(k)'
    BY <1>2, <1>3, <2>1 DEF Working
  <2>3. UniqueKey(cur)' = UniqueKey(cur)
    BY <2>1 DEF cur, UniqueKey
  <2>4. LossesAreLogged'
    BY <2>1, <2>2, <2>3 DEF LossesAreLogged, Accounted, Working
  <2>5. QED
    BY <1>0, <2>1, <2>2, <2>3, <2>4 DEF OldIsAccounted, PublishedFirst, Working
<1>6. CASE Publish \/ PublishFails \/ FilesOpen \/ OpenAll \/ OpenTop
  <2>1. /\ UNCHANGED <<run, bidCache, batch, isNewBid>>
        /\ published \subseteq published' /\ errorLog \subseteq errorLog'
        /\ pc \in Working \ {"top"} /\ pc' \in {"files", "openTop", "all"}
        /\ pc = "publish" => UniqueKey(cur) \in published' \cup errorLog'
    BY <1>6 DEF Publish, PublishFails, LogError, FilesOpen, OpenAll, OpenTop, Working, memVars,
       obsVars, cntVars
  <2>2. UniqueKey(cur)' = UniqueKey(cur)
    BY <2>1 DEF cur, UniqueKey
  <2>3. LossesAreLogged'
    BY <1>2, <1>3, <2>1, <2>2 DEF LossesAreLogged, Accounted, Working
  <2>4. PublishedFirst'
    BY <2>1, <2>2 DEF PublishedFirst, Working
  <2>5. QED
    BY <1>0, <1>2, <2>1, <2>2, <2>3, <2>4 DEF OldIsAccounted, Working
<1>7. CASE WriteAll
  <2>1. /\ UNCHANGED <<run, bidCache, batch, isNewBid, published, errorLog>>
        /\ pc = "all" /\ pc' = "top"
    BY <1>7 DEF WriteAll, memVars, obsVars, cntVars
  <2>2. UniqueKey(cur)' = UniqueKey(cur)
    BY <2>1 DEF cur, UniqueKey
  <2>3. ASSUME NEW k, k = UniqueKey(cur) PROVE Accounted(k)'
    <3>1. CASE ~ isNewBid
      <4>1. Accounted(k)
        BY <2>1, <2>3, <3>1 DEF OldIsAccounted, Working
      <4>2. QED
        BY <1>2, <2>1, <4>1
    <3>2. CASE isNewBid
      <4>1. bucket \in Buckets /\ fAll[bucket] \in Seq(Items) /\ cur \in Bids
        BY <1>0, <2>1, CurType DEF Working, TypeOK
      <4>2. fAll'[bucket] = Append(fAll[bucket], AsRead(fAll[bucket], Line(cur)))
        BY <1>0, <1>7, <3>2, <4>1 DEF WriteAll, AfterWrite, TypeOK
      <4>3. PICK b \in Buckets : HasBid(fAll'[b], k, run')
        <5>1. HasBid(fAll'[bucket], k, run)
          BY <2>3, <4>1, <4>2, BidIsAdded, LineFields
        <5>2. QED
          BY <2>1, <4>1, <5>1
      <4>4. HasLine(fAll'[b], k, run') \/ LostToFragment(fAll[b], k)'
        BY <1>0, <4>3, WrittenIsAccounted
      <4>5. UniqueKey(cur) \in published \cup errorLog
        BY <2>1 DEF PublishedFirst
      <4>6. QED
        BY <2>1, <2>3, <4>4, <4>5 DEF Accounted
    <3>3. QED
      BY <3>1, <3>2
  <2>4. \A k \in bidCache' : Accounted(k)'
    BY <1>2, <1>3, <2>1, <2>3
  <2>5. OldIsAccounted'
    BY <2>2, <2>3 DEF OldIsAccounted, Accounted
  <2>6. QED
    BY <1>0, <1>4, <2>1, <2>4, <2>5 DEF PublishedFirst
<1>8. CASE OpenFails \/ WriteAllFails
  <2>1. /\ UNCHANGED <<run, bidCache, published>> /\ pc' = "bid"
        /\ errorLog' = errorLog \cup {UniqueKey(cur)}
    BY <1>8 DEF OpenFails, WriteAllFails, LogError, NextBid, memVars
  <2>2. ASSUME NEW k \in bidCache', k = UniqueKey(cur) PROVE Accounted(k)'
    <3>1. k \in errorLog'
      BY <2>1, <2>2
    <3>2. QED
      BY <3>1 DEF Accounted
  <2>3. \A k \in bidCache' : Accounted(k)'
    BY <1>2, <1>3, <2>1, <2>2
  <2>4. QED
    BY <1>0, <1>4, <2>1, <2>3 DEF OldIsAccounted, PublishedFirst, Working
<1>9. CASE \/ Receive \/ EndBatch \/ WriteTop \/ WriteTopFails \/ Housekeeping
  <2>1. /\ UNCHANGED <<run, published>> /\ errorLog \subseteq errorLog' /\ bidCache' \subseteq bidCache
        /\ pc \notin Working \ {"top"} /\ pc' \in {"idle", "bid"}
    BY <1>9 DEF Receive, StartBatch, EndBatch, WriteTop, WriteTopFails, LogError, NextBid,
       Housekeeping, Working, memVars, procVars, obsVars, cntVars
  <2>2. \A k \in bidCache' : Accounted(k)'
    BY <1>2, <1>3, <2>1
  <2>3. QED
    BY <1>0, <1>4, <2>1, <2>2 DEF OldIsAccounted, PublishedFirst, Working
<1>10. CASE Crash \/ HeaderFails
  BY <1>0, <1>10 DEF Crash, HeaderFails, Restart, LossesAreLogged, OldIsAccounted, PublishedFirst,
     Working
<1>11. CASE HousekeepingWakes \/ Tick \/ UNCHANGED vars
  <2>1. UNCHANGED <<memVars, procVars, diskVars, obsVars, run>>
    BY <1>11 DEF HousekeepingWakes, Tick, vars, cntVars
  <2>2. QED
    BY <1>0, <2>1 DEF LossesAreLogged, OldIsAccounted, PublishedFirst, Accounted, memVars,
       procVars, diskVars, obsVars, cur, UniqueKey, LostToFragment, TornIsLogged
<1>12. QED
  BY <1>5, <1>6, <1>7, <1>8, <1>9, <1>10, <1>11 DEF Next, ProcStep

\* Every key the cache holds was published and is a line of this run, or an
\* error was logged for it, or it is the bid at hand, or its line runs into the
\* fragment of a write whose error was logged (processBids, writeBidToFile).
THEOREM AllLossesLogged == Spec => []LossesAreLogged
<1>1. Init => LossInv
  BY GlueInit DEF Init, LossInv, LossesAreLogged, OldIsAccounted, PublishedFirst, Working
<1>2. LossInv => LossesAreLogged
  BY DEF LossInv
<1>3. QED
  BY <1>1, <1>2, LossStep, PTL DEF Spec
=============================================================================
