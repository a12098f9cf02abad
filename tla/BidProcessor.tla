---------------------------- MODULE BidProcessor ----------------------------
(***************************************************************************)
(* The bid processor of the bid collector (bid-processor.go): it           *)
(* deduplicates the bids the pollers deliver, tracks the top bid of every  *)
(* slot, publishes to Redis and appends to two CSV files per hour bucket   *)
(* ("all" and "top").  Two goroutines share it: the collector's select     *)
(* loop, which runs processBids, and the housekeeping loop.  The process   *)
(* may be killed at any step; the files survive, the caches do not.        *)
(*                                                                         *)
(* Time is counted in slots.  A bucket is SlotsPerBucket slots long (an    *)
(* hour is 300 slots in the code).                                         *)
(***************************************************************************)
EXTENDS BidLines

CONSTANTS
    Bids,            \* bids the relays can deliver: [slot, block, value]
    CacheSlots,      \* slots kept in bidCache behind the current one (3)
    SlotsPerBucket,  \* length of a file's bucket, in slots
    StartSlot,       \* the clock's first value
    MaxSlot,         \* bound: the clock's last value
    MaxLag,          \* bound: slots a message waits in its channel
    MaxBatches,      \* bound: messages received
    MaxBatchLen,     \* bound: bids in a data-API message
    MaxRuns,         \* bound: incarnations of the process
    MaxFaults        \* bound: I/O errors

ASSUME BidsAssumption == Bids \subseteq [slot : Nat, block : STRING, value : Nat]
ASSUME TimeAssumption ==
    /\ CacheSlots \in Nat
    /\ SlotsPerBucket \in Nat \ {0}
    /\ StartSlot \in Nat
    /\ MaxSlot \in Nat
    /\ StartSlot <= MaxSlot
    /\ MaxLag \in Nat
    /\ CacheSlots <= StartSlot   \* currentSlot-3 does not wrap
    /\ MaxLag <= StartSlot
ASSUME BoundAssumption ==
    /\ MaxBatches \in Nat
    /\ MaxBatchLen \in Nat
    /\ MaxRuns \in Nat \ {0}
    /\ MaxFaults \in Nat

VARIABLES
    now,          \* the wall clock
    bidCache,     \* unique keys of the cached bids, all slots together
    topBidCache,  \* slot -> best bid seen
    outFiles,     \* buckets whose two files are open
    pc,           \* where processBids is; it holds bidCacheLock unless "idle"
    batch,        \* bids still to process with their buckets, the current first
    isNewBid,
    isTopBid,
    hkMax,        \* maxSlotInCache, read before the lock; NoSlot when asleep
    fAll,         \* bucket -> contents of the "all" file
    fTop,         \* bucket -> contents of the "top" file
    published,    \* keys published to Redis in this run
    errorLog,     \* keys an error was logged for in this run
    run,          \* number of the incarnation
    nBatches,     \* messages received so far
    nFaults       \* I/O errors so far

memVars  == <<bidCache, topBidCache, outFiles>>
procVars == <<pc, batch, isNewBid, isTopBid>>
diskVars == <<fAll, fTop>>
obsVars  == <<published, errorLog>>
cntVars  == <<run, nBatches, nFaults>>
vars == <<now, memVars, procVars, hkMax, diskVars, obsVars, cntVars>>

-----------------------------------------------------------------------------
NoSlot == -1

BucketOf(t) == t \div SlotsPerBucket
BucketStart(b) == b * SlotsPerBucket
Buckets == {BucketOf(t) : t \in 0 .. MaxSlot}

\* block stands for block hash, parent hash and builder public key.
UniqueKey(b) == [slot |-> b.slot, block |-> b.block, value |-> b.value]
Keys == {UniqueKey(b) : b \in Bids}
Slots == {b.slot : b \in Bids}

\* A line written now; it is late more than CacheSlots after the bid's slot.
Line(b) == BidLine(UniqueKey(b), run, now > b.slot + CacheSlots)
Lines == [kind : {"line", "glued"}, key : Keys, run : 1 .. MaxRuns, late : BOOLEAN]
Fragments == [kind : {"fragment"}, key : Keys, run : 1 .. MaxRuns]
Items == {Header, HeaderFragment} \cup Lines \cup Fragments

\* Contents of a file after the line of b was written, by fmt.Fprint to a file
\* opened with O_APPEND: it runs into the fragment the file may end with.
AfterWrite(f, b) == Append(f, AsRead(f, Line(b)))

\* Contents of a file after the write of b's line failed: nothing or a part of
\* it was written, and no newline.
AfterFailedWrite(f, b) == {f, Append(f, Fragment(UniqueKey(b), run))}

\* The bid at hand, and the bucket of its ReceivedAtMs.
cur == Head(batch).bid
bucket == Head(batch).bucket

-----------------------------------------------------------------------------
(* processBids: one message of one of the three channels, a bid at a time, *)
(* under bidCacheLock.                                                      *)

Batches == UNION {[1 .. n -> Bids] : n \in 0 .. MaxBatchLen}

\* The select loop takes a message received at time t and locks.
StartBatch(bids, t) ==
    /\ pc = "idle"
    /\ nBatches < MaxBatches
    /\ nBatches' = nBatches + 1
    /\ batch' = [i \in DOMAIN bids |-> [bid |-> bids[i], bucket |-> BucketOf(t)]]
    /\ pc' = "bid"
    /\ UNCHANGED <<now, memVars, isNewBid, isTopBid, hkMax, diskVars, obsVars, run, nFaults>>

EndBatch ==
    /\ pc = "bid"
    /\ batch = <<>>
    /\ pc' = "idle"
    /\ UNCHANGED <<now, memVars, batch, isNewBid, isTopBid, hkMax, diskVars,
                   obsVars, cntVars>>

\* On to the next bid of the message; the flags are reset for each.
NextBid ==
    /\ pc' = "bid"
    /\ batch' = Tail(batch)
    /\ isNewBid' = FALSE
    /\ isTopBid' = FALSE

BeatsTopNotStrict(b) ==
    b.slot \in DOMAIN topBidCache => b.value >= topBidCache[b.slot].value

BeatsTop(b) ==
    b.slot \in DOMAIN topBidCache => b.value > topBidCache[b.slot].value

SetTop(b) ==
    [s \in DOMAIN topBidCache \cup {b.slot} |-> IF s = b.slot THEN b ELSE topBidCache[s]]

CheckBid ==
    /\ pc = "bid"
    /\ batch # <<>>
    /\ isTopBid' = BeatsTop(cur)
    /\ topBidCache' = IF BeatsTop(cur) THEN SetTop(cur) ELSE topBidCache
    /\ isNewBid' = (UniqueKey(cur) \notin bidCache)
    /\ bidCache' = bidCache \cup {UniqueKey(cur)}
    /\ pc' = "publish"
    /\ UNCHANGED <<now, outFiles, batch, hkMax, diskVars, obsVars, cntVars>>

Publish ==
    /\ pc = "publish"
    /\ pc' = "files"
    /\ published' = published \cup {UniqueKey(cur)}
    /\ UNCHANGED <<now, memVars, batch, isNewBid, isTopBid, hkMax, diskVars,
                   errorLog, cntVars>>

LogErrorForgotten ==
    /\ nFaults < MaxFaults
    /\ nFaults' = nFaults + 1
    /\ UNCHANGED errorLog

\* An I/O error that is logged and not fatal.
LogError ==
    /\ nFaults < MaxFaults
    /\ nFaults' = nFaults + 1
    /\ errorLog' = errorLog \cup {UniqueKey(cur)}

PublishFails ==
    /\ pc = "publish"
    /\ pc' = "files"
    /\ LogError
    /\ UNCHANGED <<now, memVars, batch, isNewBid, isTopBid, hkMax, diskVars,
                   published, run, nBatches>>

-----------------------------------------------------------------------------
(* getFiles: reuse the bucket's handles, or open both files in append mode *)
(* and give an empty one its header.                                       *)

FilesOpen ==
    /\ pc = "files"
    /\ bucket \in outFiles
    /\ pc' = "all"
    /\ UNCHANGED <<now, memVars, batch, isNewBid, isTopBid, hkMax, diskVars,
                   obsVars, cntVars>>

WithHeaderAlways(f) == Append(f, Header)

\* The header is written iff the file's size is 0.
WithHeader(f) == IF f = <<>> THEN Append(f, Header) ELSE f

OpenAll ==
    /\ pc = "files"
    /\ bucket \notin outFiles
    /\ fAll' = [fAll EXCEPT ![bucket] = WithHeader(@)]
    /\ pc' = "openTop"
    /\ UNCHANGED <<now, memVars, batch, isNewBid, isTopBid, hkMax, fTop,
                   obsVars, cntVars>>

OpenTop ==
    /\ pc = "openTop"
    /\ fTop' = [fTop EXCEPT ![bucket] = WithHeader(@)]
    /\ outFiles' = outFiles \cup {bucket}
    /\ pc' = "all"
    /\ UNCHANGED <<now, bidCache, topBidCache, batch, isNewBid, isTopBid, hkMax,
                   fAll, obsVars, cntVars>>

\* mkdir or an open fails: the bid is dropped, its key stays in bidCache.
OpenFails ==
    /\ \/ pc = "files" /\ bucket \notin outFiles
       \/ pc = "openTop"
    /\ LogError
    /\ NextBid
    /\ UNCHANGED <<now, memVars, hkMax, diskVars, published,
                   run, nBatches>>

-----------------------------------------------------------------------------
(* writeBidToFile: the "all" line first, then the "top" line.  After a       *)
(* failed write the handle stays open and the next write follows what was  *)
(* written of the failed one.                                              *)

WriteAll ==
    /\ pc = "all"
    /\ fAll' = IF isNewBid THEN [fAll EXCEPT ![bucket] = AfterWrite(@, cur)] ELSE fAll
    /\ pc' = "top"
    /\ UNCHANGED <<now, memVars, batch, isNewBid, isTopBid, hkMax, fTop, obsVars,
                   cntVars>>

\* The error is logged and the function returns: no "top" line.
WriteAllFailsGoesOn ==
    /\ pc = "all"
    /\ isNewBid
    /\ LogError
    /\ \E f \in AfterFailedWrite(fAll[bucket], cur) : fAll' = [fAll EXCEPT ![bucket] = f]
    /\ pc' = "top"
    /\ UNCHANGED <<now, memVars, batch, isNewBid, isTopBid, hkMax, fTop,
                   published, run, nBatches>>

WriteAllFails ==
    /\ pc = "all"
    /\ isNewBid
    /\ LogError
    /\ \E f \in AfterFailedWrite(fAll[bucket], cur) : fAll' = [fAll EXCEPT ![bucket] = f]
    /\ NextBid
    /\ UNCHANGED <<now, memVars, hkMax, fTop, published, run,
                   nBatches>>

WriteTop ==
    /\ pc = "top"
    /\ fTop' = IF isTopBid THEN [fTop EXCEPT ![bucket] = AfterWrite(@, cur)] ELSE fTop
    /\ NextBid
    /\ UNCHANGED <<now, memVars, hkMax, fAll, obsVars, cntVars>>

WriteTopFails ==
    /\ pc = "top"
    /\ isTopBid
    /\ LogError
    /\ \E f \in AfterFailedWrite(fTop[bucket], cur) : fTop' = [fTop EXCEPT ![bucket] = f]
    /\ NextBid
    /\ UNCHANGED <<now, memVars, hkMax, fAll, published, run,
                   nBatches>>

-----------------------------------------------------------------------------
(* housekeeping: every 30 seconds; the slot limit is computed from the     *)
(* clock before bidCacheLock is requested, the files' age after.           *)

HousekeepingWakesAhead ==
    /\ hkMax = NoSlot
    /\ hkMax' = now + CacheSlots
    /\ UNCHANGED <<now, memVars, procVars, diskVars, obsVars, cntVars>>

HousekeepingWakes ==
    /\ hkMax = NoSlot
    /\ hkMax' = now - CacheSlots
    /\ UNCHANGED <<now, memVars, procVars, diskVars, obsVars, cntVars>>

EvictedTooEarly(k) == k.slot <= hkMax
EvictedTooLate(k) == k.slot < hkMax - CacheSlots
Evicted(k) == k.slot < hkMax

TooOld(b) == now - BucketStart(b) > 2 * SlotsPerBucket

HousekeepingUnlocked ==
    /\ hkMax # NoSlot
    /\ bidCache' = {k \in bidCache : ~ Evicted(k)}
    /\ outFiles' = {b \in outFiles : ~ TooOld(b)}
    /\ hkMax' = NoSlot
    /\ UNCHANGED <<now, topBidCache, procVars, diskVars, obsVars, cntVars>>

Housekeeping ==
    /\ hkMax # NoSlot
    /\ pc = "idle"                       \* bidCacheLock is free
    /\ bidCache' = {k \in bidCache : ~ Evicted(k)}
    /\ outFiles' = {b \in outFiles : ~ TooOld(b)}
    /\ hkMax' = NoSlot
    /\ UNCHANGED <<now, topBidCache, procVars, diskVars, obsVars, cntVars>>

-----------------------------------------------------------------------------
(* The process dies and is started again (NewBidProcessor).                *)

Restart ==
    /\ run < MaxRuns
    /\ run' = run + 1
    /\ bidCache' = {}
    /\ topBidCache' = <<>>
    /\ outFiles' = {}
    /\ pc' = "idle"
    /\ batch' = <<>>
    /\ isNewBid' = FALSE
    /\ isTopBid' = FALSE
    /\ hkMax' = NoSlot
    /\ published' = {}
    /\ errorLog' = {}
    /\ UNCHANGED <<now, nBatches, nFaults>>

Crash == Restart /\ UNCHANGED diskVars

\* log.Fatal when a header cannot be written.  The next run finds a file that is
\* not empty, writes no header, and its first bid continues the fragment.
HeaderFails ==
    /\ \/ /\ pc = "files"
          /\ bucket \notin outFiles
          /\ fAll[bucket] = <<>>
          /\ fAll' = [fAll EXCEPT ![bucket] = Append(@, HeaderFragment)]
          /\ UNCHANGED fTop
       \/ /\ pc = "openTop"
          /\ fTop[bucket] = <<>>
          /\ fTop' = [fTop EXCEPT ![bucket] = Append(@, HeaderFragment)]
          /\ UNCHANGED fAll
    /\ Restart

Tick ==
    /\ now < MaxSlot
    /\ now' = now + 1
    /\ UNCHANGED <<memVars, procVars, hkMax, diskVars, obsVars, cntVars>>

-----------------------------------------------------------------------------
Init ==
    /\ now = StartSlot
    /\ bidCache = {}
    /\ topBidCache = <<>>
    /\ outFiles = {}
    /\ pc = "idle"
    /\ batch = <<>>
    /\ isNewBid = FALSE
    /\ isTopBid = FALSE
    /\ hkMax = NoSlot
    /\ fAll = [b \in Buckets |-> <<>>]
    /\ fTop = [b \in Buckets |-> <<>>]
    /\ published = {}
    /\ errorLog = {}
    /\ run = 1
    /\ nBatches = 0
    /\ nFaults = 0

Receive == \E bids \in Batches, t \in (now - MaxLag) .. now : StartBatch(bids, t)

ProcStep ==
    \/ EndBatch \/ CheckBid \/ Publish \/ PublishFails
    \/ FilesOpen \/ OpenAll \/ OpenTop \/ OpenFails
    \/ WriteAll \/ WriteAllFails \/ WriteTop \/ WriteTopFails

Next ==
    \/ Receive
    \/ ProcStep
    \/ HousekeepingWakes
    \/ Housekeeping
    \/ Crash
    \/ HeaderFails
    \/ Tick

\* The processor's goroutine runs; a sleeper wakes; Go's mutex hands a waiter
\* the lock after at most a millisecond of starvation.
Fairness ==
    /\ WF_vars(ProcStep)
    /\ WF_vars(HousekeepingWakes)
    /\ SF_vars(Housekeeping)

Spec == Init /\ [][Next]_vars /\ Fairness

-----------------------------------------------------------------------------
PCs == {"idle", "bid", "publish", "files", "openTop", "all", "top"}
Working == {"publish", "files", "openTop", "all", "top"}

\* Every variable has its type, and the processor is at work on a bid exactly
\* when a bid is left in the batch.
TypeOK ==
    /\ now \in StartSlot .. MaxSlot
    /\ bidCache \in SUBSET Keys
    /\ DOMAIN topBidCache \subseteq Slots
    /\ \A s \in DOMAIN topBidCache : topBidCache[s] \in Bids /\ topBidCache[s].slot = s
    /\ outFiles \in SUBSET Buckets
    /\ pc \in PCs
    /\ batch \in Seq([bid : Bids, bucket : Buckets])
    /\ pc \in Working => batch # <<>>
    /\ isNewBid \in BOOLEAN
    /\ isTopBid \in BOOLEAN
    /\ hkMax = NoSlot \/ hkMax \in 0 .. now - CacheSlots
    /\ fAll \in [Buckets -> Seq(Items)]
    /\ fTop \in [Buckets -> Seq(Items)]
    /\ published \in SUBSET Keys
    /\ errorLog \in SUBSET Keys
    /\ run \in 1 .. MaxRuns
    /\ nBatches \in 0 .. MaxBatches
    /\ nFaults \in 0 .. MaxFaults

\* The promise to the archive's readers, kept by every step of both goroutines,
\* every eviction, I/O error and crash: the program's steps are steps of
\* BidArchive, where a write after a fragment is no line either, or change nothing
\* a reader sees.
Archive == INSTANCE BidArchive WITH fAll <- fAll, fTop <- fTop, run <- run
ImplementsArchive == Archive!Spec

\* A line of a "top" file is in the "all" file of its hour, or its bid's text is
\* there and runs into a fragment: writeBidToFile writes the two one after the
\* other and may fail, be killed or follow a torn line in between.
TopLinesAreInAll == Archive!TopLinesAreInAll

\* The top lines of a slot rise strictly, in whatever order the three channels
\* deliver its bids and although its keys are evicted.
TopLinesIncrease == Archive!TopLinesIncrease

\* A key is written again only long after its slot: the slot number that
\* housekeeping reads before it waits for the lock evicts no key too early.
DuplicatesAreLate == Archive!DuplicatesAreLate

\* No header among the data, whenever getFiles fails, handles are closed and
\* reopened, or the process restarts.
HeaderIsFirst == Archive!HeaderIsFirst

\* While a line is being written, its bucket's handles are open: housekeeping
\* closes handles under the bidCacheLock that processBids holds.
WritesToOpenFiles == pc \in {"all", "top"} => bucket \in outFiles

\* The error of the torn write that item x is a fragment of was logged: in this
\* run, or in the run that ended with it or came before.
TornIsLogged(x) == x.kind = "fragment" /\ x.run = run => x.key \in errorLog

\* Key k's text runs into a fragment in file f.
LostToFragment(f, k) ==
    \E j \in DOMAIN f :
        /\ IsGlued(f[j]) /\ f[j].key = k /\ f[j].run = run
        /\ j - 1 \in DOMAIN f /\ IsFragment(f[j - 1]) /\ TornIsLogged(f[j - 1])

\* A key that is in bidCache, so that its bid will not be written again, has
\* been published and is a line of a file in this run, or an error was logged
\* for it, or it is the bid at hand, or else its line runs into the fragment of
\* a failed write: the one case in which the error that explains the loss was
\* logged for another bid, and possibly by another run.
LossesAreLogged ==
    \A k \in bidCache :
        \/ k \in errorLog
        \/ pc \in Working \ {"top"} /\ k = UniqueKey(cur)
        \/ /\ k \in published
           /\ \E b \in Buckets : HasLine(fAll[b], k, run) \/ LostToFragment(fAll[b], k)

\* Bids of old slots leave the cache: a key more than CacheSlots behind the
\* clock is eventually evicted, however many messages come in.
StaleKeysLeave ==
    \A k \in Keys : (k \in bidCache /\ k.slot < now - CacheSlots) ~> k \notin bidCache

\* docs/2024-06_bidcollect.md:76, "only the first bid for a given key is
\* stored": within one run of the collector, each key has one line at most.
StoredOnce ==
    \A b, c \in Buckets : \A i \in DOMAIN fAll[b], j \in DOMAIN fAll[c] :
        (/\ IsLine(fAll[b][i])
         /\ IsLine(fAll[c][j])
         /\ fAll[b][i].run = fAll[c][j].run
         /\ fAll[b][i].key = fAll[c][j].key)
        => <<b, i>> = <<c, j>>
=============================================================================
