--------------------------- MODULE BuilderStats ---------------------------
(***************************************************************************)
(* The update-builder-stats command: delivered payloads of a range of      *)
(* slots are counted per day and builder, by extra data and by public key, *)
(* and saved day by day.  It is run by hand over a range of dates, which   *)
(* may cut a day, and with --backfill from the last saved day on.  Runs    *)
(* are killed or fail between two days, payloads are stored late, and the  *)
(* payload check fills in their extra data afterwards.                     *)
(***************************************************************************)
EXTENDS Integers, FiniteSets, FiniteSetsExt, Functions

CONSTANTS
    Rows,       \* payloads that may be stored: [slot, relay, pubkey]
    Extras,     \* extra data of blocks
    NoExtra,    \* the empty string, until the payload is checked
    Groups,     \* extra data -> the builder groups that match it
    SlotLen,    \* seconds of a slot
    DayLen,     \* seconds of a day
    Genesis,    \* start of slot 0
    FirstDay,   \* the clock's first day
    LastDay,    \* bound: the clock's last day
    MaxRuns,    \* bound: runs of the command
    MaxChecks   \* bound: payload checks

ASSUME TimeAssumption ==
    /\ SlotLen \in Nat \ {0}
    /\ DayLen \in Nat \ {0}
    /\ DayLen % SlotLen = 0
    /\ Genesis \in Nat /\ Genesis % SlotLen # 0        \* 1606824023 % 12 = 11
    /\ LastDay \in Nat /\ FirstDay \in 0 .. LastDay
ASSUME RowsAssumption ==
    /\ IsFiniteSet(Rows) /\ \A r \in Rows : r.slot \in Nat
    /\ Groups \in [Extras \cup {NoExtra} -> SUBSET STRING]
    /\ \A x \in Extras \cup {NoExtra} : IsFiniteSet(Groups[x])

VARIABLES
    today,      \* day of the wall clock
    table,      \* stored payloads
    extra,      \* their extra data
    stats,      \* saved statistics: [type, day, name, n]
    pending,    \* counted by the run, not yet saved
    range,      \* timeStart and timeEnd of the run at work
    due,        \* observer: days the runs so far should have right
    renamed,    \* observer: days with a payload whose extra data changed
    nRuns,
    nChecks

vars == <<today, table, extra, stats, pending, range, due, renamed, nRuns, nChecks>>

-----------------------------------------------------------------------------
(* Slots, times (in seconds) and days.                                      *)

SlotToTime(s) == s * SlotLen + Genesis
TimeToSlot(t) == (t - Genesis) \div SlotLen
DayOf(s) == SlotToTime(s) \div DayLen
BeginningOfDay(d) == d * DayLen
Days == 0 .. LastDay
NoRange == [from |-> 0, to |-> 0]

\* The first slot that starts in the range.
SlotStart(t) ==
    LET s == TimeToSlot(t) IN IF SlotToTime(s) < t THEN s + 1 ELSE s

\* The last slot of the range; the correction for a slot that starts after
\* the end never applies, TimeToSlot rounds down.
SlotEnd(t) ==
    LET s == TimeToSlot(t) IN IF SlotToTime(s) > t THEN s + 1 ELSE s

-----------------------------------------------------------------------------
(* Counting.                                                                *)

Types == {"extra_data", "builder_pubkey"}

\* BuilderNameFromExtraData takes the first match of a map in random order.
BuilderNames(x) == IF Groups[x] = {} THEN {x} ELSE Groups[x]
AllNames == {r.pubkey : r \in Rows} \cup UNION {BuilderNames(x) : x \in Extras \cup {NoExtra}}

GetDeliveredPayloadsForSlots(from, to) == {r \in table : from <= r.slot /\ r.slot <= to}

SlotsIn(rows) == {r.slot : r \in rows}

\* One row per slot: the last one that the query returned.
EntriesBySlot(rows) ==
    {f \in [SlotsIn(rows) -> rows] : \A s \in SlotsIn(rows) : f[s].slot = s}

\* The statistics of one type, given the name under which each slot counts.
Count(type, name) ==
    {[type |-> type, day |-> DayOf(s), name |-> name[s],
      n |-> Cardinality({t \in DOMAIN name : DayOf(t) = DayOf(s) /\ name[t] = name[s]})] :
        s \in DOMAIN name}

\* What saveDayBucket may compute of the entries.
DayBuckets(entries) ==
    {Count("extra_data", name)
       \cup Count("builder_pubkey", [s \in DOMAIN entries |-> entries[s].pubkey]) :
        name \in {f \in [DOMAIN entries -> AllNames] :
                    \A s \in DOMAIN entries : f[s] \in BuilderNames(extra[entries[s]])}}

Key(e) == <<e.type, e.day, e.name>>

SaveBuilderStatsTwice(new) == stats \cup new

\* The upsert: rows of the same key are replaced, others stay.
SaveBuilderStats(new) ==
    {e \in stats : \A f \in new : Key(e) # Key(f)} \cup new

\* GetLastDailyBuilderStatsEntry, by extra data.
SavedDays == {e.day : e \in {f \in stats : f.type = "extra_data"}}
LastEntryDay == Max(SavedDays)

-----------------------------------------------------------------------------
(* The environment.                                                         *)

NextDay ==
    /\ today < LastDay
    /\ today' = today + 1
    /\ UNCHANGED <<table, extra, stats, pending, range, due, renamed, nRuns, nChecks>>

\* The backfill stores a payload, possibly long after its slot.
InsertPayload(r) ==
    /\ r \notin table
    /\ DayOf(r.slot) <= today
    /\ table' = table \cup {r}
    /\ due' = due \ {DayOf(r.slot)}
    /\ UNCHANGED <<today, extra, stats, pending, range, renamed, nRuns, nChecks>>

\* saveEntry of the payload check writes the extra data of every row of the
\* slot, the empty one if the block is not found.
CheckPayload(s, x) ==
    LET changed == {r \in table : r.slot = s /\ extra[r] # x}
    IN  /\ nChecks < MaxChecks
        /\ nChecks' = nChecks + 1
        /\ changed # {}
        /\ extra' = [r \in Rows |-> IF r \in changed THEN x ELSE extra[r]]
        /\ due' = due \ {DayOf(s)}
        /\ renamed' = renamed \cup {DayOf(s)}
        /\ UNCHANGED <<today, table, stats, pending, range, nRuns>>

-----------------------------------------------------------------------------
(* The command.                                                             *)

WholeDays(from, to) ==
    {d \in Days : from <= BeginningOfDay(d) /\ BeginningOfDay(d + 1) <= to}

CutDays(from, to) ==
    {d \in Days : from < BeginningOfDay(d + 1) /\ BeginningOfDay(d) < to} \ WholeDays(from, to)

\* Days a new range leaves behind: no later backfill comes back to them.
Jumped(from) ==
    {d \in Days : BeginningOfDay(d + 1) <= from /\ (stats = {} \/ d >= LastEntryDay)}

NotBehind(d) == stats = {} \/ d >= LastEntryDay

\* The payloads of the range are read and counted.
StartRun(from, to) ==
    /\ pending = {}
    /\ nRuns < MaxRuns
    /\ nRuns' = nRuns + 1
    /\ LET rows == GetDeliveredPayloadsForSlots(SlotStart(from), SlotEnd(to))
       IN  \E entries \in EntriesBySlot(rows) : pending' \in DayBuckets(entries)
    /\ range' = IF pending' = {} THEN NoRange ELSE [from |-> from, to |-> to]
    /\ due' = (due \ (Jumped(from) \cup CutDays(from, to)))
                \cup {d \in WholeDays(from, to) : NotBehind(d)}
    /\ UNCHANGED <<today, table, extra, stats, renamed, nChecks>>

\* --start and --end; without --end, until today.
RunRange(from, to) == StartRun(from, to)
RunUntilToday(from) == StartRun(from, BeginningOfDay(today))

\* --backfill: from the last saved day until today; fatal if there is none.
RunBackfill ==
    /\ SavedDays # {}
    /\ StartRun(BeginningOfDay(LastEntryDay), BeginningOfDay(today))

PendingDays == {e.day : e \in pending}

IsNextDayAny(d) == d \in PendingDays

\* Days are saved in order.
IsNextDay(d) == d \in PendingDays /\ \A c \in PendingDays : d <= c

\* All statistics of a day are saved with one statement.
SaveDay(d) ==
    /\ IsNextDay(d)
    /\ LET new == {e \in pending : e.day = d}
       IN  /\ stats' = SaveBuilderStats(new)
           /\ pending' = pending \ new
           /\ range' = IF pending' = {} THEN NoRange ELSE range
    /\ UNCHANGED <<today, table, extra, due, renamed, nRuns, nChecks>>

\* The process is killed, or saving fails and it panics.
Crash ==
    /\ pending # {}
    /\ pending' = {}
    /\ range' = NoRange
    /\ UNCHANGED <<today, table, extra, stats, due, renamed, nRuns, nChecks>>

-----------------------------------------------------------------------------
Init ==
    /\ today = FirstDay
    /\ table = {}
    /\ extra = [r \in Rows |-> NoExtra]
    /\ stats = {}
    /\ pending = {}
    /\ range = NoRange
    /\ due = {}
    /\ renamed = {}
    /\ nRuns = 0
    /\ nChecks = 0

\* Dates, and times in the middle of a day.
HalfDays == {d * DayLen + h : d \in 1 .. LastDay, h \in {0, DayLen \div 2}}

Next ==
    \/ NextDay
    \/ \E r \in Rows : InsertPayload(r)
    \/ \E s \in SlotsIn(Rows), x \in Extras \cup {NoExtra} : CheckPayload(s, x)
    \/ \E from \in HalfDays :
         \/ RunUntilToday(from)
         \/ \E to \in HalfDays : from < to /\ RunRange(from, to)
    \/ RunBackfill
    \/ \E d \in Days : SaveDay(d)
    \/ Crash

Spec == Init /\ [][Next]_vars

-----------------------------------------------------------------------------
Stats == [type : Types, day : Days, name : AllNames, n : Nat \ {0}]

\* Types, and the table's unique key.
TypeOK ==
    /\ today \in Days
    /\ table \subseteq Rows
    /\ extra \in [Rows -> Extras \cup {NoExtra}]
    /\ stats \subseteq Stats
    /\ pending \subseteq Stats
    /\ \A e, f \in stats : Key(e) = Key(f) => e = f
    /\ due \subseteq Days
    /\ renamed \subseteq Days

SavedOf(type, d) == {e \in stats : e.type = type /\ e.day = d}

Total(type, d) == SumFunction([e \in SavedOf(type, d) |-> e.n])

SlotsOfDay(d) == {s \in SlotsIn(table) : DayOf(s) = d}

NameAsStored(type, r) == IF type = "extra_data" THEN BuilderNames(extra[r]) ELSE {r.pubkey}

\* No slot of the day ever counted under two names.
OneName(type, d) ==
    /\ type = "extra_data" => d \notin renamed
    /\ \A r1, r2 \in {r \in table : DayOf(r.slot) = d} :
        r1.slot = r2.slot =>
            Cardinality(NameAsStored(type, r1) \cup NameAsStored(type, r2)) = 1

\* Backfills resume after a kill without leaving a day out or half counted:
\* every slot of a day before the last saved one is counted, in both
\* statistics, and counted once unless it changed its builder's name.  Days
\* with payloads newer than their statistics, or that the user cut or skipped,
\* are not meant.
DaysAreExact ==
    \A d \in due :
        stats # {} /\ d < LastEntryDay =>
            \A type \in Types :
                /\ Total(type, d) >= Cardinality(SlotsOfDay(d))
                /\ OneName(type, d) => Total(type, d) = Cardinality(SlotsOfDay(d))
=============================================================================
