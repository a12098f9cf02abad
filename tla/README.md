# TLA+ model of relayscan

relayscan observes Ethereum's MEV-Boost relays. It collects the bids that builders
submit (`bidcollect`), stores the payloads the relays delivered
(`data-api-backfill`), checks on an execution node that the promised value was
paid (`check-payload-value`), aggregates statistics per builder
(`update-builder-stats`) and shows them (`website`). This directory holds
specifications of the parts that carry state, their model-checking
configurations, and proofs.

## Inventory

| Part | State | Operations | Interacts with | What is hard |
|---|---|---|---|---|
| bid processor (`bid-processor.go`) | `bidCache`, `topBidCache`, open files; CSV files on disk | `processBids`, `writeBidToFile`, `getFiles`, `housekeeping` | collector loop, Redis, file system | two goroutines and two locks; write errors between two lines; crash and restart with files that survive |
| bid collector (`bidcollector.go`) | three bounded channels | select loop | sources, processor | a full channel blocks the sources |
| data API poller (`data-api-poller.go`) | the slot being scheduled | six polls per slot and relay | relays, channel | late or early wake-ups, answers out of order |
| getHeader poller (`getheader-poller.go`) | head slot, duties, epoch of the duties | head events, duty refresh, poll of the next slot | beacon node, relays, channel | duplicate and late head events, failing duty requests |
| ultrasound stream (`ultrasound-stream.go`) | connection, backoff | connect, read, reconnect | websocket, channel | retries with a capped delay |
| SSE webserver (`bidcollect/webserver`) | subscribers, a bounded queue each | subscribe, unsubscribe, hand out | Redis, HTTP clients | slow and leaving subscribers |
| backfill (`data-api-backfill.go`) | payload and builder tables; cursor, slots received | run, page, save | relays, database | relays deliver meanwhile; failure between pages |
| payload check (`check-payload-value.go`) | check columns of the payload table; worker pool | select rows, look up, compare, save | execution nodes, database | workers write rows of one slot, late blocks, fatal errors |
| backfill runner (`backfill_runner.go`) | ticker, signal channel | cycle of backfill and check | the two above | signals before and after they are registered, ticks during a cycle |
| builder statistics (`update-builder-stats.go`) | statistics table | aggregate per hour and day, upsert | database | several rows per slot, partial saves |
| website (`services/website`) | pages and statistics per time span, latest slot | update loops, handlers | database | queries without a transaction, independent loops, unsigned slot arithmetic |

Correctness, per part: the archive of bids is complete, ordered and free of
duplicates as far as the code promises; the payload table has no holes below its
newest row; a verdict on a payment is true, final, and eventually given.
`PROJECT.json` lists each hazard with its line and the properties that address it.

## Modules

`BidProcessor` models the processor with both goroutines. One action is one
step between two points at which the other goroutine, the clock or a crash can
intervene: `CheckBid` is the body of the loop up to the Redis call, `Publish`,
`OpenAll`/`OpenTop` (the two halves of `getFiles`), `WriteAll`/`WriteTop` (the
two halves of `writeBidToFile`). `pc # "idle"` means that `processBids` holds
`bidCacheLock`. `housekeeping` is two actions, because it reads the clock before
it waits for the lock. Each I/O step has an error action that logs and returns
as the code does; an error that is `log.Fatal` in the code restarts the
process. A write that fails may leave a part of its text and no newline, so
whatever is written next, by this run or the next one, continues that line of text
and is no line of its own to a reader (`AsRead`); a header's fragment does the same
to the next run's first bid. `Crash` keeps the files and loses the caches, with a fixed `--uid`, so
that a new run appends to the same files. Time is counted in slots. A bid's text is noted as
its key with two notes of the observer, the run that wrote it and whether
it came late.

`BidArchive` is what the collector promises to the readers of the archive: two
files per bucket that only grow, without a word on caches, locks or handles. Its
actions add one line, a bid's text that runs into a fragment, a fragment, or end the run. `BidProcessor`
implements it (`ImplementsArchive`) with its files and run number as they are:
each step adds at most one item to one file and must be allowed there, so that a
bid goes into a file that has begun, twice only if it came late, and to the top
file only if the same hour's all file has its line, or its text behind a
fragment, and no top bid of its slot is as high. A top line whose bid is no line of
the all file is possible in this one case. `BidLines` holds the items both speak of.

`Backfill` models `RunBackfill` over a sequence of relays. The data API is an
environment: it serves a page of the newest payloads at or below the cursor and
keeps growing, at the head and, for the payloads in `Delayed`, at slots behind it. `floor`,
`interrupted`, `errorLog`, `late` (listed when the table already had a newer one)
and `clean` are the observer's. `FetchPage` includes the insert; `SaveBuilders` ends with the three
stop conditions. A request that fails ends its relay's backfill (`EndRelay`), and
the run goes on with the next; one that is never answered holds the run (`FetchHangs`),
for neither client nor context has a timeout. The cursor stays on the lowest slot
received, so a slot with a page of payloads or more would never be passed; a relay
delivers a few payloads of a slot and a page is of 100 (`PageAssumption`).

`BackfillRunner` extends it with the service: a process that repeats the run on
a ticker, catches signals only after its first cycle, and takes a tick or a
signal when both are ready. A cycle's second half, the payload check, touches no
variable of the backfill and is part of `EndCycle`, or hangs in a request to a node, as
the one for the latest slot may (`CycleHangs`). While the
service is off the backfill command runs as in `Backfill`.

`CheckPayload` models `RunCheckPayloadValue` and its workers: selection, hand-over
through the unbuffered channel, the look-up of block and header (not found,
not canonical, no header, found), the reading of the balances (checked, panic) and `saveEntry`,
which updates every row of the slot. Blocks in `Unsettled` leave and join the chain at any
time (`Reorg`): balances are asked for by number, so that of a block that has left the chain
since its header was read they may be another block's (`Strange`). `Hang` is a request that is
never answered. `reorged` is the observer's. A nullable column is the empty set or a singleton. A
block is abstracted to what the comparison reads of it: balance change of the fee
recipient, destination and value of the last transaction, transfers.

`GetHeaderPoller` models `getheader-poller.go`. The loop of `Start` is one
goroutine whose steps are its requests: `TakeEvent`/`SkipEvent`, `GetDuties` and
`GetNextDuties` (the two requests of a refresh), `GetBlock`. Each request has a
failure action that does what the code does then: forget the event, or go on
with half of the duties. The beacon node is an environment whose head moves
between two requests and whose events can be lost, old or repeated.
`pollRelaysForBids` is an element of `polls` (`PollTooLate`, `PollSleeps`,
`PollWakes`), each `_pollRelayForBids` an element of `requests`, and `bidC` the
channel of `BidCollectorInputChannelSize` places. The clock counts
polling instants, one second into each slot. `asked`, `noDuty` and `dutyFailed`
are the observer's.

`DataAPIPoller` models `data-api-poller.go` with two clocks: sleeps follow the
monotonic one and slots the wall clock, which `SetClock` moves forward or back. A
pass of the loop (`Schedule`) starts an element of `polls` for each offset; one whose
time is past gives up, one that sleeps wakes at its time or any time later, and
asks the relays, of which any may fail or never answer. `rounds`, `asked`, `stepped`
and `setBack` are the observer's. It shares the collector's channels with the other
two sources in the code; here the collector is the step `Receive`.

`BuilderStats` models `update-builder-stats` in seconds, slots and days, with the
offset of the genesis that makes one slot span each midnight. A run reads and
counts at once (`StartRun`) and saves day by day (`SaveDay`); the builder's name of
an extra data may be any of the groups that match it, the row of a slot any of
its relays' rows. `due` and `renamed` are the observer's: days that the runs so
far should have right, and days whose payloads changed their name. The hourly
statistics are dead code, their flag is commented out.

`UltrasoundStream` and `SSEHub` model the stream reader and the SSE webserver as
sets of steps without a specification of their own; `BidStream` composes them
with the collector's select loop and Redis and owns `Init`, `Next` and `Spec`. A
goroutine of the stream is an element of `goroutines`. In `SSEHub`, `todo` is the
rest of the loop over subscribers, and a non-empty `todo` means that the read lock
is held; adding and removing a subscriber wait for it. `published` and `wasFull`
are the observer's.

`Website` models the update loop of each time span and the requests for a day and
for the week between two Wednesdays as readers of the same form, a record `job[r]` that goes from query to query, and the
latest-slot loop as a read and a store. Handlers that read memory or the table
once are operators on the state (`HealthAnswers`, `ExtraDataPayloads`). `ConsolidateBuilderEntries` is the
set of results over all orders of the rows and groups (`Consolidated` is one of them), and
`Descending` the `ORDER BY slot DESC LIMIT` of the recent payloads. A row of the payload
table is a relay's payload of a slot and a block, of which a relay may have several in one slot, as
the unique index allows: relays are counted by row and builders by distinct slot. `Surplus` is what a
relay's rows exceed its slots by. `byRelay` holds each relay's builders after grouping. `Stored`
are the rows of earlier runs of the backfill. `Daily` and `Weekly` name
requests and are not names of time spans (`ReadersAssumption`). `job[r].seen` and
`job[r].clean` are the observer's. The loops and requests do not write what others
of them read, so that `MaxAtWork` bounds only their product.

`Backfill_proofs`, `BidProcessor_proofs`, `BuilderStats_proofs`, `CheckPayload_proofs`,
`Collector_proofs` (about `BidStream` and `DataAPIPoller`), `GetHeaderPoller_proofs` and
`Website_proofs` hold the theorems, `SetLemmas` what several of them need of sets of
numbers and of sums over finite sets. `MC*` modules give small values to the constants.

## Runs

| Run | Checks | Shows |
|---|---|---|
| `bid_safety` | type, `ImplementsArchive`, `TopLinesAreInAll`, `TopLinesIncrease`, `DuplicatesAreLate`, `WritesToOpenFiles`, `LossesAreLogged` | what the two files can hold after any interleaving with one crash and one I/O error, and that every step is one of the abstract archive; a bid is missing only after a logged error, its own or that of the torn write it runs into |
| `bid_live` | `StaleKeysLeave` | old keys leave `bidCache` although messages keep coming |
| `bid_stored_once` | `StoredOnce` (violated) | a bid delivered after the eviction of its slot is stored twice; the documentation says only the first is stored |
| `backfill` | types of both modules, `HolesOnlyAfterInterruption`, `PagesAreContiguous`, `BuildersAreKnown`, `StopsOnSignal`, `CatchesUp` | pages never leave a payload out; only a broken-off backfill of that relay or a payload listed late can leave a hole; a running service catches up with the relays and obeys a signal although ticks wait too, unless a request is never answered |
| `backfill_gap` | `BackfilledSinceTheMerge` (violated) | the hole a broken-off run leaves is not filled by a later complete run |
| `check_payload` | type, `ColumnsAreOneCheck`, `OkMeansPaid`, `VerdictsStay`, `EventuallyChecked` | columns are never a mixture of two checks, a positive verdict is a payment by a block of the chain, or one that left it during the check, default runs do not lose it, a checkable row gets one while no request hangs |
| `check_found_own` | `FoundOnchainIsOwn` (violated) | a row is marked found because another relay's row of its slot was |
| `get_header` | type, `PolledOnce`, `ParentIsPreviousSlot`, `NoDutyOnlyAfterFailure`, `PollsEnd` | a slot's relays are asked once and with a parent of the slot before; only a failed duty request leaves a slot unpolled; started polls and answered bids do not get stuck |
| `builder_stats` | type, `DaysAreExact` | after kills and resumed backfills every slot of an earlier day is counted, once unless its name changed |
| `bid_stream` | type, `OneStream`, `DelayFollowsFailures`, `FastSubscribersMissNothing`, `SubscribersSeeOrder`, `LeaversAreRemoved` | one connection at a time with the right delay; subscribers that keep up get every bid in order; those that leave are forgotten although slow ones do not read |
| `data_api` | type, `AskedOnce`, `NoSlotSkipped`, `AnswersAreReceived` | no slot and offset is asked for twice unless the clock was set back; slots are passed over only after a sleep too long or a changed clock; a full channel loses no answer |
| `website` | type, `PagesAreCoherent`, `PagesCountTheirRange`, `HealthyMeansFresh` | queries without a transaction still give numbers that fit, for the right slots, but for several payloads of a relay in a slot, which count once for the builder and each for the relay; grouping loses no block, except for a builder that has the name of another's group; recent payloads are listed without a gap; a healthy answer is true |

Bounds. Every bound is a named constant. `bid_safety`: two bids of one slot in two
messages of up to two bids, three slots of time, buckets of one slot, so that a
bid can be repeated within a message, across an eviction, across a change
of file, behind a fragment, and after a restart. `bid_live`: four messages of at most one bid, so that
both bids come before and again after an eviction; "messages keep coming" is four of them. `backfill`: two relays, page limit three, two
payloads of one relay in each of two slots, those of the earlier slot perhaps listed late, a relay
before it without payloads whose requests fail or hang, minimum slots given as a number and as an
offset from the head, two processes with any number of cycles and one
fault, so that a page border cuts a slot and the second process meets the first
one's rows. `check_payload`: four rows, two of
them of one slot with different blocks, two workers, a limit of two rows, and
every selection mode (`all` up to slot 1, `slot` of the slot with two rows); one node error, one
block that leaves and joins the chain, and one balance of another block, which equals the claim
although its own block's does not. `get_header`: epochs of two slots, four
instants of time, three head blocks with two hashes, one relay, a channel of one
place and one failed request, so that an epoch border is crossed with
the next epoch's duties known or missing, the head is reorganised, and the
channel is full while another bid waits. `builder_stats`: days of two slots, one
of which spans midnight, four runs over all ranges of half days, a slot of two
relays and one late check, so that a kill can fall between any two days of a
run and the next runs resume before, at or after it. `bid_stream`: two messages,
three failures with delays from one to three seconds, so that a delay doubles to two
without the cap and reaches it after, two clients and queues of one place, so that a queue is full while
another client joins or leaves; "messages keep coming" is two of them. `data_api`: slots of two units, polls before a slot and at its end, when
the next slot's polls have started, three rounds, one change of the wall clock,
two answers and a channel of one place. `website`: four payloads, two of
them stored at the start, in a slot that spans midnight and in one with two payloads of one relay and one
of another, two verdicts and one taken back, a builder in two groups and
one with a group's name, three instants on both sides of midnight and in two
slots, an update allowed to be no slot old, so that health changes with the clock, weeks of two
days so that one instant is before the week's Wednesday and one on it, one reader at
work.

`backfill`, `backfill_gap`, `get_header`, `builder_stats`, `bid_stream`, `data_api` and `website`
do not check deadlock: when the bounded number of runs, slots, messages or verdicts is
used up the model stops. The other runs check it.

Fairness. `BidProcessor`: goroutines that can run do (weak fairness), and the
housekeeping goroutine eventually gets a mutex that is free again and again
(strong fairness; Go's mutex turns to first-in-first-out after a waiter starved
for a millisecond). `Backfill`: a run that began goes on. A step it may take is that a
request hangs for ever, so nothing is assumed of relays, nodes or users; the database is
assumed to answer. `BackfillRunner`: likewise, cycles go on or hang, and ticks come; its two liveness
properties excuse a service that hangs (`Hung`). A signal that is ready
whenever `select` runs is taken some time (strong fairness), since `select` chooses
at random. `DataAPIPoller`: the loop, sleeping goroutines, those that send, and the
collector go on; relays need not answer. `CheckPayload`: workers go on, where a step
may again be that a request hangs, and a run whose workers are done ends; starting runs, inserts and the node's
progress are not fair. That default runs are started again and again (by the runner's ticker, unless it is stopped or
its backfill hangs) is the premise `ServiceGoesOn` of `EventuallyChecked`. `GetHeaderPoller`:
time passes, and goroutines that sleep or send and the select loop go on; relays
and the beacon node need not answer, because the HTTP clients used here have no
timeout. `BidStream`: the loop over Redis messages goes on, a write to a client that
left ends, and a handler that can see the end of its request again and again does
(Go's `select` picks among ready branches at random); the lock goes to a waiting
writer before later readers. Clients that stay need not read, and neither the
stream's server nor the collector need go on. `BuilderStats` and `Website` state
safety only.

## Proofs

`BidProcessor_proofs` proves, for all values of the constants that satisfy the
assumptions of `BidProcessor`:

* `TypeCorrect`: `Spec => []TypeOK`. One lemma per group of actions; `batch`
  needs the facts on `Head` and `Tail`, the files those on `Append`.
* `WritesGoToOpenFiles`: `Spec => []WritesToOpenFiles`, with `HandleInv`, which adds
  that a file with an open handle has begun.
* `Implementation`: `Spec => ImplementsArchive`. Every step changes at most one file by
  one item (`AllStep`, `TopStep`), so `StepRefines` shows for each kind of line that
  the archive allows it. A bid into a file that has begun is `HandleInv`; the top
  line after the all line is `CacheInv`: every cached key is at most its slot's top
  value (`CacheBelowTop`, which needs that `topBidCache` is never evicted), hence a
  bid that becomes the top is new (`TopIsNew`), hence when the top line is written
  the bid's text is in the all file (`TopHasAllLine`), as a line or, by `GlueInv`, behind a fragment
  (`LineOrGlued`). That a repeated bid is late and a top
  bid beats all others of its slot is `LineInv`: lines of this run are cached or
  of evicted slots, and top lines are at most the top value.
* `TopInAll`, `TopRises`, `DuplicatesLate`, `HeadersFirst`: the four invariants of the
  files, proved as consequences of the refinement: each is inductive over the
  steps of `BidArchive`, whose variables are the processor's.
* `AllLossesLogged`: `Spec => []LossesAreLogged`, with `LossInv`: what is cached and not
  at hand has its text in a file of this run or is in the error log. `GlueInv` adds that text
  which is no line follows a fragment, and that the error of that fragment's write was logged, in
  this run or an earlier one.

`Collector_proofs` proves about `DataAPIPoller`, for every length of a slot, all offsets
and changes of the clock:

* `PollerTypeCorrect`, with the channel's bound.
* `SlotsInTurn`: `Spec => []NoSlotSkipped`. `SleepsUntilSlot` says that the loop's
  sleep ends at the start of the slot it has just scheduled, by the wall clock, if
  that was not changed; two lemmas on division give the next slot from there.
* `AskedOnceHolds`: `Spec => []AskedOnce`. Slots rise along the passes (`SlotsRise`)
  and polls carry the slot of their pass (`PollsOfTheirRound`).

`GetHeaderPoller_proofs` proves, for all values of its constants (in particular
every length of an epoch):

* `TypeCorrect`, with the channel's bound.
* `PolledOnceHolds`: `Spec => []PolledOnce`. `PolledInv` adds that no slot after the
  event's next one was polled, and while an event is handled not even that one;
  `IsOld` then makes every new event poll a slot never polled before.
* `ParentHolds`: `Spec => []ParentIsPreviousSlot`, inductive as it is; the proof
  follows a request from its goroutine through the channel.
* `NoDutyHolds`: `Spec => []NoDutyOnlyAfterFailure`. `DutyInv` says what the map holds:
  the epoch of the last update and, unless its request failed, the next one, and
  that the last update is of the event's epoch when the block is fetched. It
  rests on two facts on division: epochs do not decrease, and the next slot is in
  this epoch or the next.

`Backfill_proofs` proves, about the runner with the backfill in it, for every page
size, all relays and payloads:

* `TypeCorrect`: `RunnerSpec => []RunnerTypeOK`. `RunnerTypeInv` adds that no
  relay has delivered a payload of a slot to come (`HeadIsNewest`).
* `PagesHold` and `HolesHold`: `PagesAreContiguous` and `HolesOnlyAfterInterruption`.
  `LocalInv` says what the variables of one relay's backfill are worth: fresh
  between relays, the cursor the lowest slot received, the minimum slot at or below
  the floor, the slot from the database at or below the head. `RelayInv` then says
  of each relay what is `Missing` above the floor, but for what was listed `late`: nothing, once it is `Settled`;
  while its pages come, only what is below the cursor. `PageFact` is the step: a full
  page holds every payload between its lowest slot and the cursor, and a
  short one all that is left, by the cardinality of the answer.
* `BuildersHold`: `BuildersAreKnown`; builders are saved after the last page, so while a
  relay's backfill is in progress `BuildersInv` also counts those in `newBuilders`.

`CheckPayload_proofs` proves, for all rows, blocks, workers, limits and selections:

* `TypeCorrect`: workers are busy only during a run and with inserted rows.
* `ColumnsHold`: `ColumnsAreOneCheck`. `CheckInv` adds that a worker about to save
  holds the outcome of a check of its entry (`IsCheckOf`), and one about to read balances
  a block that was on the chain. Nodes only learn of blocks, and those that ever left or joined the
  chain only become more (`NodesGrow`), so it remains one until it is saved.
* `OkHolds`: `OkMeansPaid`, from `ColumnsHold` and `ZeroMeansPaid`, which is arithmetic
  on the value columns.
* `VerdictsHold`: `Spec => VerdictsStay`. `OncePlaced` says that an entry is in the queue
  or at one worker, `NoVerdictYet` that in a default run the only row of a slot has
  no verdict while it is there.

`Collector_proofs` proves about `BidStream`, for all sizes of the channel and of the queues, all clients
and numbers of bids and failures:

* `TypeCorrect`, with `StreamInv` and `HubTypeInv`, which type what queues hold.
* `OneStreamHolds`: `OneStream`; in `StreamInv` the goroutines of the stream are one, and
  it holds the last bid read, if any.
* `DelaysDouble`: `DelayFollowsFailures`. `Doubled` is a recursive function, of which
  `DoubledNumber` shows that it is what its definition says (functions up to `n` exist
  and agree). `DelayInv` keeps the delay before, in and after a sleep; doubling what is
  capped and capping again is doubling and capping (`CappedTwice`).
* `NothingMissed`: `FastSubscribersMissNothing`. `ClientInv` extends the equation to clients
  that were not yet greeted and to the message at the hub that a client was not yet
  offered; a client that has not left is subscribed exactly when its handler runs.
  A step moves one message along `Stream`, by the laws of concatenation (`Enqueue`,
  `Dequeue`, `Deliver`).
* `OrderHolds`: `SubscribersSeeOrder`. `OrderInv` divides the way of a bid into six parts,
  from the channel to what the client has received, each of which holds later bids
  than those in front; `PassedInv` bounds them all by what the stream has passed on,
  so that the next bid is the latest. Steps only move or drop bids (`PartsMove`).

`Website_proofs` proves, for all payloads, time spans, groups, values of the clock and
lengths of slots, days and weeks:

* `TypeCorrect`, `CoherenceHolds` and `RangesHold`: `Spec => []TypeOK`, `[]PagesAreCoherent`
  and `[]PagesCountTheirRange`. All rest on one inductive invariant, `SiteInv`, which joins
  that of the health check with `TableInv` and `JobsInv`. `JobsInv` says what a reader
  holds in the middle of a page: `JobShape`, which parts it has and that what is shown of
  builders adds up to the blocks of the query (`Shown`), and `JobCounts`, how each number read
  so far compares with what a query would return now. As long as the observer's `clean`
  is true verdicts only become more (`MoreVerdicts`), so each number stays below the one that the
  next query returns. Relays are counted by payload
  and builders by slot; what a relay has `Beyond` one payload per slot only grows while verdicts do
  (`MoreRowsMoreBeyond`), which is why the `Surplus` allowed is that of the end of the page; the blocks of all builders are the slots because the payloads of a
  slot that have a verdict have the same extra data (`OneExtra` in `TableInv`,
  `BlocksAreSlots`).
* Grouping: `Consolidated` is a fold from left to right. `FoldExists` shows that the
  fold's recursive function exists, by a smallest set of positions without one, and `FoldNext` takes
  one builder at a time. `ConsolidationKeepsAll` is the sum: each builder adds its blocks to
  one name (`PutCounts`, `OneMore`), unless it replaces another's, which needs the
  collision of names that the property excludes.
* Lists: `DescendingIsHighest` shows that the n highest slots exist and go down without
  one left between (`LeftAreBelow`), for every set and limit; the handler asks for one more than
  it shows, so that each has its previous one (`ListsHaveNoGap`).
* Ranges: `SlotOfTime` relates the slots of a range's ends to the times at which slots start, and
  `RangeCounts` bounds what a query counts by what started in the range. `WeeksBeginOnWednesday` and
  `EndOfDay` are arithmetic on days: the last Wednesday is a whole number of days ago
  and not ahead, and a day's page ends before the day of the request.

* `HealthyHolds`: `Spec => []HealthyMeansFresh`. `HealthInv` says that the latest slot
  stored, and the one read and not yet stored, are slots of payloads in the table, none
  of which is of the future. So the unsigned difference does not wrap
  (`SmallDifference`). `TimeAssumption` has the clock start more than
  `MaxSlotsSinceLastUpdate` slots after genesis, so that a latest slot of 0, nothing
  read yet, is never fresh. Verdicts that are taken back between the read and the
  answer do not matter: the payload remains.

`BuilderStats_proofs` proves, for all payloads, extra data, groups of names, lengths of
slots and days, and any number of runs, kills and checks:

* `TypeCorrect`, with the unique key of the table.
* `DaysHold`: `Spec => []DaysAreExact`. In `StatsInv` the statistics of a day are `Full`
  once the day has `Passed`, that is, each slot of the day counts in an entry under one
  name; so are those at hand of a day that is due and not yet saved. No entry counts
  more slots than those that may have its name (`NotMore`). Sums over the entries of a
  day then lie between bounds (`FullCountsAll`, `OneNameCountsOnce`), by induction over
  finite sets in `SetLemmas` (`SumCovers`, `SumOfParts`). A run counts whole days because
  no slot starts with a day (`SlotsStartWithinDays`, from the offset of the genesis), and a
  day without payloads is complete with nothing; days are saved in order, so the last
  saved day is never ahead of one that is due and pending (`SaveDayStep`).

Liveness properties are only model-checked: temporal reasoning with fairness is
beyond the proof system. Every invariant and every action property of a passing run is a theorem. In
`EventuallyChecked` a row is excused while as many newer rows as one run selects stay
without a verdict: they are selected first and starve it. It is also excused when its block
leaves the chain, when a row can make the process panic (a nil `To()`, again at each start), and when
a worker hangs in a request, since `wg.Wait` then keeps the run and no other is started. The run shows that
there is no other way.

## Not modelled

The text of CSV lines, log messages, HTML, SQL connection set-up, retries inside
the HTTP and database libraries, the SSZ decoder (generated), the archive's file
listing, the shell scripts. `PROJECT.json` gives the reason for each part.

## Plan

1. A lossy broadcast that `SSEHub` implements, as `BidArchive` for the processor.
2. Proofs of the facts about the database's rows that several components rely on (one
   extra data per slot, verdicts that only become more), as lemmas of one module.
