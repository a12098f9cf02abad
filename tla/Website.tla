------------------------------ MODULE Website ------------------------------
(***************************************************************************)
(* The website: one loop per time span reads its statistics with several   *)
(* queries, renders two pages and puts them in place; another loop keeps   *)
(* the latest slot; the page of a day, the builders of the last week and   *)
(* the payloads of an extra data are read on request.  Meanwhile the       *)
(* backfill stores payloads and the payload check gives them a verdict and *)
(* the extra data they are counted under, or takes the verdict back.  No   *)
(* two queries share a transaction.                                        *)
(***************************************************************************)
EXTENDS Integers, FiniteSets, FiniteSetsExt, SequencesExt

CONSTANTS
    Rows,       \* payloads that may be stored, of a relay also several per slot
    Stored,     \* those that are stored at the start, without a verdict
    Extras,     \* extra data of blocks
    Groups,     \* extra data -> the builder groups that match it
    Unchecked,  \* value_check_ok is NULL
    Spans,      \* time span -> its length in seconds
    SlotLen,    \* seconds of a slot
    DayLen,     \* seconds of a day
    WeekLen,    \* days of a week
    Weekday0,   \* weekday of day 0
    Wednesday,  \* the weekday on which the weeks of the statistics begin
    Genesis,    \* start of slot 0
    MaxSlotsSinceLastUpdate,
    Limit,      \* payloads of an extra data that are asked for
    UintMod,    \* unsigned integers are taken modulo this
    Start,      \* first value of the clock
    MaxNow,     \* bound: last value of the clock
    MaxAtWork,  \* bound: loops and requests at work at a time
    MaxChecks,  \* bound: verdicts given
    MaxResets   \* bound: verdicts taken back

ASSUME TimeAssumption ==
    /\ SlotLen \in Nat \ {0}
    /\ DayLen \in Nat \ {0} /\ DayLen % SlotLen = 0
    /\ MaxNow \in Nat /\ Start \in 0 .. MaxNow
    /\ Genesis \in 0 .. Start
    /\ (Start - Genesis) \div SlotLen > MaxSlotsSinceLastUpdate    \* years have passed
    /\ \A t \in DOMAIN Spans : Spans[t] \in 0 .. Start - Genesis
    /\ WeekLen \in Nat \ {0} /\ Weekday0 \in 0 .. WeekLen - 1 /\ Wednesday \in 0 .. WeekLen - 1
    /\ MaxSlotsSinceLastUpdate \in Nat /\ Limit \in Nat
    /\ UintMod \in Nat /\ UintMod > 2 * MaxNow
ASSUME RowsAssumption ==
    /\ IsFiniteSet(Rows) /\ Rows \subseteq [slot : Nat \ {0}, relay : STRING, block : STRING]
    /\ Stored \subseteq {r \in Rows : r.slot <= (Start - Genesis) \div SlotLen}
    /\ Unchecked \notin Extras
    /\ Groups \in [Extras -> SUBSET (STRING \ {Unchecked})]

VARIABLES
    now,        \* the clock
    table,      \* stored payloads
    extra,      \* their extra data, once they have a verdict
    slotRead,   \* what latestSlotUpdateLoop has read and not yet stored
    latestSlot,
    job,        \* the updates of the spans, the requests for a day and a week
    page,       \* spans that srv.stats and srv.html have an entry of
    nChecks,
    nResets

vars == <<now, table, extra, slotRead, latestSlot, job, page, nChecks, nResets>>
dbVars == <<now, table, extra, nChecks, nResets>>

Daily == "day"
Weekly == "week"
Readers == DOMAIN Spans \cup {Daily, Weekly}
ASSUME ReadersAssumption == {Daily, Weekly} \cap DOMAIN Spans = {}
Nothing == {}

-----------------------------------------------------------------------------
(* Slots, times and queries.                                                *)

TimeToSlot(t) == (t - Genesis) \div SlotLen
SlotToTime(s) == s * SlotLen + Genesis
DayOf(t) == t \div DayLen
BeginningOfDay(d) == d * DayLen
Weekday(d) == (d + Weekday0) % WeekLen

\* This week's Wednesday if it has begun, else that of the week before.
LastWednesday ==
    LET d == DayOf(now) - (Weekday(DayOf(now)) - Wednesday)
    IN  BeginningOfDay(IF BeginningOfDay(d) > now THEN d - WeekLen ELSE d)

\* WHERE value_check_ok IS NOT NULL AND slot >= $1 AND slot <= $2
HasVerdict == {r \in table : extra[r] # Unchecked}
InRangeExclusive(since, until) ==
    {r \in HasVerdict : TimeToSlot(since) <= r.slot /\ r.slot < TimeToSlot(until)}
InRange(since, until) ==
    {r \in HasVerdict : TimeToSlot(since) <= r.slot /\ r.slot <= TimeToSlot(until)}

SlotsOf(rows) == {r.slot : r \in rows}

\* Payloads per relay: rows are counted, not slots.
GetTopRelays(since, until) ==
    LET rows == InRange(since, until)
    IN  [a \in {r.relay : r \in rows} |-> Cardinality({r \in rows : r.relay = a})]

\* Blocks per extra data, each slot counted once.
BlocksOf(rows) ==
    [x \in {extra[r] : r \in rows} |-> Cardinality(SlotsOf({r \in rows : extra[r] = x}))]

GetTopBuilders(since, until) == BlocksOf(InRange(since, until))

GetTopBuildersOfRelayLate(since, until, a) ==
    BlocksOf({r \in InRange(since + SlotLen, until) : r.relay = a})

GetTopBuildersOfRelay(since, until, a) ==
    BlocksOf({r \in InRange(since, until) : r.relay = a})

GetBuilderProfits(since, until) == BlocksOf(InRange(since, until))

GetLatestDeliveredPayload == Max(SlotsOf(HasVerdict))

SlotsOfExtra(x) == SlotsOf({r \in table : extra[r] = x})

\* The n highest numbers of a set, from the highest on.
Descending(S, n) ==
    CHOOSE q \in [1 .. n -> S] : \A i \in 1 .. n : q[i] = Max(S \ {q[j] : j \in 1 .. i - 1})

\* The newest slots of an extra data, at most n of them.
GetRecentPayloadsForExtraData(x, n) ==
    LET all == Cardinality(SlotsOfExtra(x))
    IN  Descending(SlotsOfExtra(x), IF n < all THEN n ELSE all)

-----------------------------------------------------------------------------
(* Consolidation of builders into groups.                                   *)

Empty == [x \in {} |-> 0]
Put(m, k, n) == [x \in DOMAIN m \cup {k} |-> IF x = k THEN n ELSE m[x]]

PutAdding(m, k, n) == Put(m, k, IF k \in DOMAIN m THEN m[k] + n ELSE n)

Sum(m) == SumFunction(m)

\* The group found first, if any; BuilderGroups is walked in random order.
GroupChoices(entries) ==
    {g \in [DOMAIN entries -> {Unchecked} \cup UNION {Groups[x] : x \in DOMAIN entries}] :
        \A x \in DOMAIN entries :
            IF Groups[x] = {} THEN g[x] = Unchecked ELSE g[x] \in Groups[x]}

\* Rows come in the order of their blocks; the order of equals is open.
Orders(entries) ==
    {o \in SetToSeqs(DOMAIN entries) :
        \A i, j \in DOMAIN o : i < j => entries[o[i]] >= entries[o[j]]}

\* A member is added to its group; a builder without a group is put under its
\* extra data, in place of what is there.
ConsolidateEntry(m, x, n, g) == IF g = Unchecked THEN Put(m, x, n) ELSE PutAdding(m, g, n)

Consolidated(entries, g, o) ==
    FoldLeft(LAMBDA m, x : ConsolidateEntry(m, x, entries[x], g[x]), Empty, o)

ConsolidateBuilderEntries(entries) ==
    {Consolidated(entries, g, o) : o \in Orders(entries), g \in GroupChoices(entries)}

\* Sorted by profit: any order of the builders.
ConsolidateBuilderProfitEntries(entries) ==
    {Consolidated(entries, g, o) :
        o \in SetToSeqs(DOMAIN entries), g \in GroupChoices(entries)}

-----------------------------------------------------------------------------
(* The database's writers, and time.                                        *)

Tick ==
    /\ now < MaxNow
    /\ now' = now + 1
    /\ UNCHANGED <<table, extra, slotRead, latestSlot, job, page, nChecks, nResets>>

InsertPayload(r) ==
    /\ r \notin table
    /\ r.slot <= TimeToSlot(now)
    /\ table' = table \cup {r}
    /\ UNCHANGED <<now, extra, slotRead, latestSlot, job, page, nChecks, nResets>>

RowsOfSlot(s) == {r \in table : r.slot = s}
Written(s, x) == [r \in Rows |-> IF r \in RowsOfSlot(s) THEN x ELSE extra[r]]

\* saveEntry of the payload check: all rows of the slot.
CheckPayload(s, x) ==
    /\ nChecks < MaxChecks
    /\ RowsOfSlot(s) # {}
    /\ nChecks' = nChecks + 1
    /\ extra' = Written(s, x)
    /\ extra' # extra
    /\ UNCHANGED <<now, table, slotRead, latestSlot, job, page, nResets>>

\* A check that ends early writes NULL. Updates at work are marked.
ResetVerdict(s) ==
    /\ nResets < MaxResets
    /\ RowsOfSlot(s) \cap HasVerdict # {}
    /\ nResets' = nResets + 1
    /\ extra' = Written(s, Unchecked)
    /\ job' = [r \in Readers |-> [job[r] EXCEPT !.clean = job[r].pc = "idle"]]
    /\ UNCHANGED <<now, table, slotRead, latestSlot, page, nChecks>>

-----------------------------------------------------------------------------
(* latestSlotUpdateLoop.                                                    *)

\* Loops and requests do not change what others of them read; MaxAtWork bounds
\* their product.
AtWork ==
    Cardinality({q \in Readers : job[q].pc # "idle"}) + Cardinality(slotRead)
MayBegin == AtWork < MaxAtWork

\* No row or an error: the loop waits and tries again, which changes nothing.
ReadLatestSlot ==
    /\ slotRead = Nothing
    /\ MayBegin
    /\ HasVerdict # {}
    /\ slotRead' = {GetLatestDeliveredPayload}
    /\ UNCHANGED <<dbVars, latestSlot, job, page>>

StoreLatestSlot ==
    /\ slotRead # Nothing
    /\ latestSlot' = Max(slotRead)
    /\ slotRead' = Nothing
    /\ UNCHANGED <<dbVars, job, page>>

-----------------------------------------------------------------------------
(* rootDataUpdateLoop and the request for a day.                            *)

\* Slots with a verdict that start in a range of time.
SlotsStarting(since, until) ==
    {s \in SlotsOf(HasVerdict) : since <= SlotToTime(s) /\ SlotToTime(s) <= until}

Idle == [pc |-> "idle", since |-> 0, until |-> 0, relays |-> Empty, builders |-> Empty,
         total |-> 0, profits |-> Empty, profitTotal |-> 0, byRelay |-> Empty, slot |-> 0,
         clean |-> TRUE, seen |-> 0]

Begin(r, first, since, until) ==
    /\ job[r].pc = "idle"
    /\ MayBegin
    /\ job' = [job EXCEPT ![r] =
            [Idle EXCEPT !.pc = first, !.since = since, !.until = until,
                         !.seen = Cardinality(SlotsStarting(since, until))]]

StartUpdate(t) ==
    /\ Begin(t, "relays", now - Spans[t], now)
    /\ UNCHANGED <<dbVars, slotRead, latestSlot, page>>

\* _getDailyStats refuses days after yesterday.
DayIsOver(d) == d <= DayOf(now) - 1

\* handleDailyStats and its JSON form; until is 23:59:59.
DailyStats(d) ==
    /\ DayIsOver(d)
    /\ Begin(Daily, "relays", BeginningOfDay(d), BeginningOfDay(d + 1) - 1)
    /\ UNCHANGED <<dbVars, slotRead, latestSlot, page>>

\* handleCowstatsJSON: the builders from one Wednesday to the next.
Cowstats ==
    /\ Begin(Weekly, "builders", LastWednesday - BeginningOfDay(WeekLen), LastWednesday)
    /\ UNCHANGED <<dbVars, slotRead, latestSlot, page>>

QueryRelays(r) ==
    /\ job[r].pc = "relays"
    /\ job' = [job EXCEPT ![r].pc = "builders",
                          ![r].relays = GetTopRelays(job[r].since, job[r].until)]
    /\ UNCHANGED <<dbVars, slotRead, latestSlot, page>>

AfterBuilders(r) == IF r = Weekly THEN "respond" ELSE "profits"

QueryBuilders(r) ==
    /\ job[r].pc = "builders"
    /\ LET entries == GetTopBuilders(job[r].since, job[r].until)
       IN  \E shown \in ConsolidateBuilderEntries(entries) :
             job' = [job EXCEPT ![r].pc = AfterBuilders(r), ![r].builders = shown,
                                  ![r].total = Sum(entries)]
    /\ UNCHANGED <<dbVars, slotRead, latestSlot, page>>

AfterProfitsSame(r) == "byRelay"
AfterProfits(r) == IF r = Daily THEN "respond" ELSE "byRelay"

QueryProfits(r) ==
    /\ job[r].pc = "profits"
    /\ LET entries == GetBuilderProfits(job[r].since, job[r].until)
       IN  \E shown \in ConsolidateBuilderProfitEntries(entries) :
             job' = [job EXCEPT ![r].pc = AfterProfits(r), ![r].profits = shown,
                                  ![r].profitTotal = Sum(entries)]
    /\ UNCHANGED <<dbVars, slotRead, latestSlot, page>>

\* The builders of each relay that the first query returned, consolidated as
\* all builders are.
QueryByRelay(t, a) ==
    /\ job[t].pc = "byRelay"
    /\ a \in DOMAIN job[t].relays \ DOMAIN job[t].byRelay
    /\ LET entries == GetTopBuildersOfRelay(job[t].since, job[t].until, a)
       IN  \E shown \in ConsolidateBuilderEntries(entries) :
             job' = [job EXCEPT ![t].byRelay = Put(@, a, shown)]
    /\ UNCHANGED <<dbVars, slotRead, latestSlot, page>>

\* Both pages, with the latest slot that the other loop stored.
Render(t) ==
    /\ job[t].pc = "byRelay"
    /\ DOMAIN job[t].byRelay = DOMAIN job[t].relays
    /\ job' = [job EXCEPT ![t].pc = "save", ![t].slot = latestSlot]
    /\ UNCHANGED <<dbVars, slotRead, latestSlot, page>>

\* Statistics and pages are put in place under one lock.  What they hold is
\* the job's record at this step; that is where the properties look at it.
SavePage(t) ==
    /\ job[t].pc = "save"
    /\ page' = page \cup {t}
    /\ job' = [job EXCEPT ![t] = Idle]
    /\ UNCHANGED <<dbVars, slotRead, latestSlot>>

\* A query or the rendering fails: a loop starts again, a request is refused.
UpdateFails(r) ==
    /\ job[r].pc \notin {"idle", "save", "respond"}
    /\ job' = [job EXCEPT ![r] = Idle]
    /\ UNCHANGED <<dbVars, slotRead, latestSlot, page>>

Respond(r) ==
    /\ job[r].pc = "respond"
    /\ job' = [job EXCEPT ![r] = Idle]
    /\ UNCHANGED <<dbVars, slotRead, latestSlot, page>>

-----------------------------------------------------------------------------
(* Handlers of one read of the memory or the table: their answers in the    *)
(* present state.                                                           *)

SlotsSinceUpdate == (TimeToSlot(now) - latestSlot) % UintMod

HealthAnswersOkFirst ==
    LET healthy == SlotsSinceUpdate <= MaxSlotsSinceLastUpdate
        OK      == <<[status |-> 200, healthy |-> healthy]>>
    IN  IF healthy THEN OK ELSE OK \o <<[status |-> 500, healthy |-> FALSE]>>

\* handleHealthCheck: the OK answer follows the error answer, for want of a
\* return.
HealthAnswers ==
    LET healthy == SlotsSinceUpdate <= MaxSlotsSinceLastUpdate
        OK      == <<[status |-> 200, healthy |-> healthy]>>
    IN  IF healthy THEN OK ELSE <<[status |-> 500, healthy |-> FALSE]>> \o OK

\* The client sees the first status written, and all bodies.
HealthStatus == Head(HealthAnswers).status

\* handleExtraDataPayloads: one payload more than asked for is read and the
\* last one trimmed, also when there are fewer.  With none at all the slice
\* panics; the HTTP server recovers and there is no answer.
ExtraDataPayloads(x) ==
    LET slots   == GetRecentPayloadsForExtraData(x, Limit + 1)
        entries == [i \in DOMAIN slots |->
                      [slot |-> slots[i], prevSlot |-> IF i < Len(slots) THEN slots[i + 1] ELSE 0]]
    IN  IF slots = <<>> THEN {} ELSE {Front(entries)}

-----------------------------------------------------------------------------
Init ==
    /\ now = Start
    /\ table = Stored
    /\ extra = [r \in Rows |-> Unchecked]
    /\ slotRead = Nothing
    /\ latestSlot = 0
    /\ job = [r \in Readers |-> Idle]
    /\ page = {}
    /\ nChecks = 0
    /\ nResets = 0

Next ==
    \/ Tick
    \/ \E r \in Rows : InsertPayload(r)
    \/ \E s \in SlotsOf(Rows), x \in Extras : CheckPayload(s, x)
    \/ \E s \in SlotsOf(Rows) : ResetVerdict(s)
    \/ ReadLatestSlot
    \/ StoreLatestSlot
    \/ \E t \in DOMAIN Spans :
         \/ StartUpdate(t) \/ Render(t) \/ SavePage(t)
         \/ \E a \in {r.relay : r \in Rows} : QueryByRelay(t, a)
    \/ \E d \in DayOf(Start) - 1 .. DayOf(MaxNow) : DailyStats(d)
    \/ Cowstats
    \/ \E r \in Readers : QueryRelays(r) \/ QueryBuilders(r) \/ QueryProfits(r) \/ UpdateFails(r)
    \/ \E r \in {Daily, Weekly} : Respond(r)

Spec == Init /\ [][Next]_vars

-----------------------------------------------------------------------------
Names == Extras \cup UNION {Groups[x] : x \in Extras}
RelayNames == {r.relay : r \in Rows}

\* Types; a request for a day ends where an update goes on to the relays, one
\* for a week asks for its builders only.
TypeOK ==
    /\ now \in Start .. MaxNow
    /\ table \subseteq Rows
    /\ extra \in [Rows -> Extras \cup {Unchecked}]
    /\ slotRead \in {Nothing} \cup {{s} : s \in SlotsOf(Rows)}
    /\ latestSlot \in {0} \cup SlotsOf(Rows)
    /\ page \subseteq DOMAIN Spans
    /\ DOMAIN job = Readers
    /\ \A r \in Readers :
        /\ DOMAIN job[r] = DOMAIN Idle
        /\ job[r].pc \in {"idle", "builders"}
                \cup (IF r = Weekly THEN {} ELSE {"relays", "profits"})
                \cup (IF r \in DOMAIN Spans THEN {"byRelay", "save"} ELSE {"respond"})
        /\ DOMAIN job[r].relays \subseteq RelayNames
        /\ DOMAIN job[r].builders \cup DOMAIN job[r].profits \subseteq Names
        /\ DOMAIN job[r].byRelay \subseteq DOMAIN job[r].relays
        /\ \A a \in DOMAIN job[r].byRelay : DOMAIN job[r].byRelay[a] \subseteq Names

Done(r) == job[r].pc \in {"save", "respond"}

\* A builder without a group whose extra data is the name of a group that other
\* builders are in: which of the two is shown depends on their order.
Collides(k) == k \in Extras /\ Groups[k] = {} /\ \E x \in Extras : k \in Groups[x]
Free(m) == \A k \in DOMAIN m : ~ Collides(k)

\* Consolidation into groups keeps every block, in whatever order groups are
\* tried and builders come.
PartsAddUp(r) ==
    Free(job[r].builders) /\ Free(job[r].profits) =>
        /\ Sum(job[r].builders) = job[r].total
        /\ Sum(job[r].profits) = job[r].profitTotal

\* Payloads of a relay in a page's range beyond one per slot.
Surplus(r, a) ==
    LET rows == {q \in InRange(job[r].since, job[r].until) : q.relay = a}
    IN  Cardinality(rows) - Cardinality(SlotsOf(rows))

\* The queries of one page see the table at different times.  Unless a verdict
\* was taken back meanwhile, each sees at least what those before it saw: but
\* for several payloads in a slot, no relay is shown with more payloads than
\* the blocks of the builders listed under it, nor than all builders' blocks,
\* nor these with more blocks than the profits.
LaterPartsSeeMore(r) ==
    Done(r) /\ job[r].clean =>
        /\ \A a \in DOMAIN job[r].relays :
             /\ job[r].relays[a] <= job[r].total + Surplus(r, a)
             /\ job[r].pc = "save" /\ Free(job[r].byRelay[a]) =>
                  job[r].relays[a] <= Sum(job[r].byRelay[a]) + Surplus(r, a)
        /\ r # Weekly => job[r].total <= job[r].profitTotal

\* The recent payloads of an extra data are listed without a gap, each with the
\* one before it.
RecentNameTheirPrevious(x) ==
    \A entries \in ExtraDataPayloads(x), i \in 1 .. Limit :
        i \in DOMAIN entries =>
            LET before == {s \in SlotsOfExtra(x) : s < entries[i].slot}
            IN  /\ before # {}
                /\ entries[i].prevSlot = Max(before)
                /\ i + 1 \in DOMAIN entries => entries[i + 1].slot = entries[i].prevSlot

\* The numbers of one page agree: no part shows less than one read before it,
\* the percentages of each part add up to 100, and a list of payloads has no
\* gap.
PagesAreCoherent ==
    /\ \A r \in Readers : LaterPartsSeeMore(r) /\ PartsAddUp(r)
    /\ \A x \in Extras : RecentNameTheirPrevious(x)

\* A page counts every slot that started in its range and had a verdict when
\* the page was begun, and none that lies outside; the slot that spans the
\* start is the only one it may share with the range before.  A day's page is
\* of a day that is over, a week's of the week up to a Wednesday that is not
\* ahead.
PagesCountTheirRange ==
    /\ \A r \in Readers :
         Done(r) /\ job[r].clean =>
            /\ job[r].seen <= job[r].total
            /\ job[r].total <=
                 Cardinality(SlotsStarting(job[r].since - SlotLen + 1, job[r].until))
    /\ job[Daily].pc # "idle" => DayOf(job[Daily].until) < DayOf(now)
    /\ job[Weekly].pc # "idle" =>
         /\ job[Weekly].until <= now
         /\ \A t \in {job[Weekly].since, job[Weekly].until} :
              t % DayLen = 0 /\ Weekday(DayOf(t)) = Wednesday

\* The service says healthy, by its status and in every body, only if a payload
\* of one of the last slots is stored.
HealthyMeansFresh ==
    /\ HealthStatus = 200 =>
         \E r \in table : r.slot \in TimeToSlot(now) - MaxSlotsSinceLastUpdate .. TimeToSlot(now)
    /\ \A i \in DOMAIN HealthAnswers : HealthAnswers[i].healthy <=> HealthStatus = 200
=============================================================================
