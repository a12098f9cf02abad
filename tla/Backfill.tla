------------------------------ MODULE Backfill ------------------------------
(***************************************************************************)
(* data-api-backfill: for each relay in turn, page backwards through the   *)
(* payloads the relay says it delivered and insert them into the database, *)
(* until the newest row of an earlier run, the minimum slot or the end of  *)
(* the relay's data is reached (data-api-backfill.go).  The relays keep    *)
(* listing payloads meanwhile, also of earlier slots; a request may fail   *)
(* or never be answered, and the process may be killed.                    *)
(***************************************************************************)
EXTENDS Integers, FiniteSets, Sequences

CONSTANTS
    Relays,       \* sequence of relays, in the order they are backfilled
    Payloads,     \* payloads the relays can deliver: [relay, slot, hash, builder]
    Delayed,      \* bound: those of them that may be listed after their slot
    PageLimit,    \* payloads per response (100)
    InitCursors,  \* --cursor of a run (0: unset)
    MinSlots,     \* --min-slot of a run
    StartHead,    \* first slot of the model
    MaxHead,      \* bound: last slot
    MaxRuns,      \* bound: processes started
    MaxFaults     \* bound: failed requests, failed builder inserts and kills

RelaySet == {Relays[i] : i \in DOMAIN Relays}

ASSUME RelaysAssumption == Relays \in Seq(RelaySet)
ASSUME PayloadsAssumption ==
    /\ IsFiniteSet(Payloads)
    /\ Payloads \subseteq
         [relay : RelaySet, slot : Nat \ {0}, hash : STRING, builder : STRING]
ASSUME LimitAssumption ==
    /\ PageLimit \in Nat
    /\ InitCursors \subseteq Nat
    /\ MinSlots \subseteq Int
    /\ StartHead \in Nat
    /\ MaxHead \in Nat
    /\ StartHead <= MaxHead
    /\ MaxRuns \in Nat
    /\ MaxFaults \in Nat
\* A slot's payloads never fill a page.
ASSUME PageAssumption ==
    /\ PageLimit > 0
    /\ \A q \in Payloads :
         Cardinality({p \in Payloads : p.relay = q.relay /\ p.slot = q.slot}) < PageLimit
\* The chain is longer than any offset asked for: latest + offset is no
\* negative number when it is converted to uint64.
ASSUME OffsetAssumption == \A m \in MinSlots : StartHead + m >= 0

VARIABLES
    headSlot,       \* latest slot of the chain
    delivered,      \* payloads the relays' data APIs serve
    db,             \* rows of the payload table
    builders,       \* rows of the builder table
    pc,             \* "idle", "relay", "fetch", "hung" (in a request) or "builders"
    todo,           \* relays still to backfill, the current one first
    minSlot,
    initCursor,
    latestSlotInDB,
    cursorSlot,
    slotsReceived,
    newBuilders,    \* builders seen in this relay's pages
    payloadsNew,    \* the last page had a slot not received before
    floor,          \* observer: highest minimum slot asked for so far
    interrupted,    \* observer: relays whose backfill ended after a page, unfinished
    errorLog,       \* observer: builders whose insert failed
    late,           \* observer: payloads listed after a newer one was in the table
    clean,          \* observer: no request of the latest run failed, and it was not killed
    nRuns,
    nFaults

dbVars  == <<db, builders>>
runVars == <<todo, minSlot, initCursor>>
bfVars  == <<latestSlotInDB, cursorSlot, slotsReceived, newBuilders, payloadsNew>>
obsVars == <<floor, interrupted, errorLog, late, clean>>
vars == <<headSlot, delivered, dbVars, pc, runVars, bfVars, obsVars, nRuns, nFaults>>

-----------------------------------------------------------------------------
cur == Head(todo)

\* The payloads of relay r in P.
Of(r, P) == {p \in P : p.relay = r}

\* Smallest and largest slot of a set of payloads, 0 if there are none.
MinSlotOf(P) == IF P = {} THEN 0 ELSE CHOOSE s \in {p.slot : p \in P} : \A p \in P : s <= p.slot
MaxSlotOf(P) == IF P = {} THEN 0 ELSE CHOOSE s \in {p.slot : p \in P} : \A p \in P : s >= p.slot

(* The relay's data API: the PageLimit newest payloads, or, given a cursor,  *)
(* the newest ones at or below it; a slot's payloads come in any order.      *)

Visible(r, c) == {p \in Of(r, delivered) : c > 0 => p.slot <= c}

IsPage(S, P) ==
    /\ S \subseteq P
    /\ Cardinality(S) <= PageLimit
    /\ S = P \/ Cardinality(S) = PageLimit
    /\ \A p \in S, q \in P \ S : p.slot >= q.slot

\* A new slot on the chain.
NextSlot ==
    /\ headSlot < MaxHead
    /\ headSlot' = headSlot + 1
    /\ UNCHANGED <<delivered, dbVars, pc, runVars, bfVars, obsVars, nRuns, nFaults>>

IsNewest(p, r) == \A q \in Of(r, db) : q.slot <= p.slot

\* A relay lists a payload, of the current slot or an earlier one.
Deliver(p) ==
    /\ p \notin delivered
    /\ p.slot = headSlot \/ (p \in Delayed /\ p.slot < headSlot)
    /\ delivered' = delivered \cup {p}
    /\ late' = IF IsNewest(p, p.relay) THEN late ELSE late \cup {p}
    /\ UNCHANGED <<headSlot, dbVars, pc, runVars, bfVars, floor, interrupted, errorLog, clean,
                   nRuns, nFaults>>

-----------------------------------------------------------------------------
RawMinSlot(m) == m

\* A negative minimum is an offset from the chain's latest slot.
EffectiveMinSlot(m) == IF m < 0 THEN headSlot + m ELSE m

\* RunBackfill is called with an initial cursor and a minimum slot.
BeginRun(c, m) ==
    /\ pc' = "relay"
    /\ todo' = Relays
    /\ initCursor' = c
    /\ minSlot' = EffectiveMinSlot(m)
    /\ floor' = IF EffectiveMinSlot(m) > floor THEN EffectiveMinSlot(m) ELSE floor
    /\ clean' = TRUE
    /\ UNCHANGED <<headSlot, delivered, dbVars, bfVars, interrupted, errorLog, late, nFaults>>

NewProcess ==
    /\ nRuns < MaxRuns
    /\ nRuns' = nRuns + 1

\* The command is started.
StartRun(c, m) ==
    /\ pc = "idle"
    /\ NewProcess
    /\ BeginRun(c, m)

\* backfillPayloadsDelivered begins: the newest row of the relay is looked up.
StartRelay ==
    /\ pc = "relay"
    /\ todo # <<>>
    /\ latestSlotInDB' = MaxSlotOf(Of(cur, db))
    /\ cursorSlot' = initCursor
    /\ pc' = "fetch"
    /\ UNCHANGED <<headSlot, delivered, dbVars, runVars, slotsReceived, newBuilders, payloadsNew,
                   obsVars, nRuns, nFaults>>

\* RunBackfill's variables are gone.
Idle ==
    /\ pc' = "idle"
    /\ todo' = <<>>
    /\ minSlot' = 0
    /\ initCursor' = 0

EndRun ==
    /\ pc = "relay"
    /\ todo = <<>>
    /\ Idle
    /\ UNCHANGED <<headSlot, delivered, dbVars, bfVars, obsVars, nRuns, nFaults>>

\* So are those of backfillPayloadsDelivered.
EndRelay ==
    /\ latestSlotInDB' = 0
    /\ cursorSlot' = 0
    /\ slotsReceived' = {}
    /\ newBuilders' = {}
    /\ payloadsNew' = FALSE

NextRelay ==
    /\ EndRelay
    /\ pc' = "relay"
    /\ todo' = Tail(todo)

Fault ==
    /\ nFaults < MaxFaults
    /\ nFaults' = nFaults + 1

\* The current relay's backfill ends before its last page.
Interrupt ==
    /\ clean' = FALSE
    /\ interrupted' = IF slotsReceived = {} THEN interrupted ELSE interrupted \cup {cur}

CursorBelow(c, S) ==
    IF S # {} /\ (c = 0 \/ c > MinSlotOf(S)) THEN MinSlotOf(S) - 1 ELSE c

\* The cursor becomes the smallest slot seen so far.
CursorAfter(c, S) ==
    IF S # {} /\ (c = 0 \/ c > MinSlotOf(S)) THEN MinSlotOf(S) ELSE c

\* One page: requested, read, inserted (rows that exist stay as they are).
FetchPage ==
    /\ pc = "fetch"
    /\ \E S \in SUBSET Visible(cur, cursorSlot) :
        /\ IsPage(S, Visible(cur, cursorSlot))
        /\ db' = db \cup S
        /\ payloadsNew' = (\E p \in S : p.slot \notin slotsReceived)
        /\ slotsReceived' = slotsReceived \cup {p.slot : p \in S}
        /\ cursorSlot' = CursorAfter(cursorSlot, S)
        /\ newBuilders' = newBuilders \cup {p.builder : p \in S}
    /\ pc' = "builders"
    /\ UNCHANGED <<headSlot, delivered, builders, runVars, latestSlotInDB, obsVars, nRuns,
                   nFaults>>

\* An error of the request ends this relay; the next one is tried.
FetchFails ==
    /\ pc = "fetch"
    /\ Fault
    /\ Interrupt
    /\ NextRelay
    /\ UNCHANGED <<headSlot, delivered, dbVars, minSlot, initCursor, floor, errorLog, late,
                   nRuns>>

\* The relay takes the request and never answers: neither the client nor the
\* context has a timeout.
FetchHangs ==
    /\ pc = "fetch"
    /\ pc' = "hung"
    /\ UNCHANGED <<headSlot, delivered, dbVars, runVars, bfVars, obsVars, nRuns, nFaults>>

DoneAtLatest ==
    \/ ~ payloadsNew
    \/ cursorSlot <= latestSlotInDB
    \/ cursorSlot < minSlot

DoneIgnoresEmpty ==
    \/ cursorSlot < latestSlotInDB
    \/ cursorSlot < minSlot

\* No new payloads; or the page reached below the newest row of an earlier
\* run; or below the minimum slot.
Done ==
    \/ ~ payloadsNew
    \/ cursorSlot < latestSlotInDB
    \/ cursorSlot < minSlot

Continue ==
    IF Done THEN NextRelay ELSE pc' = "fetch" /\ UNCHANGED <<todo, bfVars>>

SaveBuildersBeforeNextPage ==
    /\ pc = "builders"
    /\ builders' = IF Done THEN builders ELSE builders \cup newBuilders
    /\ Continue
    /\ UNCHANGED <<headSlot, delivered, db, minSlot, initCursor, obsVars, nRuns, nFaults>>

SaveBuilders ==
    /\ pc = "builders"
    /\ builders' = builders \cup newBuilders
    /\ Continue
    /\ UNCHANGED <<headSlot, delivered, db, minSlot, initCursor, obsVars, nRuns, nFaults>>

\* A failed insert is logged; the builder is tried again with the next page.
SaveBuilderFails ==
    /\ pc = "builders"
    /\ Fault
    /\ \E b \in newBuilders :
        /\ builders' = builders \cup (newBuilders \ {b})
        /\ errorLog' = errorLog \cup {b}
    /\ Continue
    /\ UNCHANGED <<headSlot, delivered, db, minSlot, initCursor, floor, interrupted, late,
                   clean, nRuns>>

\* The process ends where it stands.
Die ==
    /\ IF pc \in {"fetch", "hung", "builders"}
       THEN Interrupt
       ELSE clean' = FALSE /\ UNCHANGED interrupted
    /\ Idle
    /\ EndRelay
    /\ UNCHANGED <<headSlot, delivered, dbVars, floor, errorLog, late, nRuns>>

\* The process is killed, or a database error is fatal.
Kill ==
    /\ pc # "idle"
    /\ Fault
    /\ Die

-----------------------------------------------------------------------------
Init ==
    /\ headSlot = StartHead
    /\ delivered = {}
    /\ db = {}
    /\ builders = {}
    /\ pc = "idle"
    /\ todo = <<>>
    /\ minSlot = 0
    /\ initCursor = 0
    /\ latestSlotInDB = 0
    /\ cursorSlot = 0
    /\ slotsReceived = {}
    /\ newBuilders = {}
    /\ payloadsNew = FALSE
    /\ floor = 0
    /\ interrupted = {}
    /\ errorLog = {}
    /\ late = {}
    /\ clean = TRUE
    /\ nRuns = 0
    /\ nFaults = 0

RelayStep == \E p \in Payloads : Deliver(p)

Call == \E c \in InitCursors, m \in MinSlots : StartRun(c, m)

BackfillStep ==
    \/ StartRelay \/ EndRun \/ FetchPage \/ FetchFails \/ FetchHangs
    \/ SaveBuilders \/ SaveBuilderFails

Next == NextSlot \/ RelayStep \/ Call \/ BackfillStep \/ Kill

\* A run that has begun goes on, until it hangs in a request; nothing makes a
\* user start one, a relay deliver or answer.
Fairness == WF_vars(BackfillStep)

Spec == Init /\ [][Next]_vars /\ Fairness

-----------------------------------------------------------------------------
\* Every variable has its type; rows are payloads a relay delivered, and a relay
\* is at hand while pages are fetched.
TypeOK ==
    /\ headSlot \in StartHead .. MaxHead
    /\ delivered \in SUBSET Payloads
    /\ db \in SUBSET delivered
    /\ builders \in SUBSET {p.builder : p \in Payloads}
    /\ pc \in {"idle", "relay", "fetch", "hung", "builders"}
    /\ todo \in Seq(RelaySet)
    /\ pc \in {"fetch", "hung", "builders"} => todo # <<>>
    /\ minSlot \in Nat
    /\ initCursor \in Nat
    /\ latestSlotInDB \in Nat
    /\ cursorSlot \in Nat
    /\ slotsReceived \in SUBSET Nat
    /\ newBuilders \in SUBSET {p.builder : p \in Payloads}
    /\ payloadsNew \in BOOLEAN
    /\ floor \in Nat
    /\ interrupted \in SUBSET RelaySet
    /\ errorLog \in SUBSET {p.builder : p \in Payloads}
    /\ late \in SUBSET delivered
    /\ clean \in BOOLEAN
    /\ nRuns \in 0 .. MaxRuns
    /\ nFaults \in 0 .. MaxFaults

InProgress(r) == pc \in {"fetch", "hung", "builders"} /\ cur = r

\* Payloads at or above slot m that the relay has, the table lacks, and that
\* are older than the table's newest row: no later run will ask for them.
\* (One that the relay only listed once they were older is none of the backfill's.)
Holes(r, m) ==
    {p \in Of(r, delivered) \ (db \cup late) : m <= p.slot /\ p.slot < MaxSlotOf(Of(r, db))}

\* Between runs a relay's rows have no hole above the minimum slots asked for,
\* unless a backfill of that relay was broken off after its first page.  The
\* relay lists payloads, of any slot, while pages are fetched, pages cut through
\* a slot's payloads, and another relay's failure does not matter.
HolesOnlyAfterInterruption ==
    \A r \in RelaySet :
        (r \notin interrupted /\ ~ InProgress(r)) => Holes(r, floor) = {}

\* While a relay is being backfilled, every payload it has above the cursor and
\* older than the newest row is in the table: pages leave nothing out between them.
PagesAreContiguous ==
    \A r \in RelaySet :
        (r \notin interrupted /\ InProgress(r) /\ slotsReceived # {}) =>
            {p \in Holes(r, floor) : p.slot > cursorSlot} = {}

\* Between runs the builder of every row is in the builder table, unless its
\* insert failed or the relay's backfill was broken off.
BuildersAreKnown ==
    \A r \in RelaySet : (r \notin interrupted /\ ~ InProgress(r)) =>
        {p.builder : p \in Of(r, db)} \subseteq builders \cup errorLog

\* src/cmd/core/data-api-backfill.go:29, "if unset, backfill until the merge",
\* and README.md:78, "for all slots since the merge": after a run without an
\* error, and no run having been given a minimum slot, the rows reach from the
\* newest down to the relay's first payload.
BackfilledSinceTheMerge ==
    (pc = "idle" /\ clean /\ floor = 0) => \A r \in RelaySet : Holes(r, 0) = {}
=============================================================================
