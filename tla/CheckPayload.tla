---------------------------- MODULE CheckPayload ----------------------------
(***************************************************************************)
(* check-payload-value: selects rows of the payload table and hands them   *)
(* over an unbuffered channel to a pool of workers; a worker looks the     *)
(* block up on the execution node, compares the value the proposer got     *)
(* with the value the relay claimed, and saves the outcome.                *)
(* (check-payload-value.go.)  Other processes insert rows meanwhile, the   *)
(* node learns of blocks late, blocks join and leave the chain between two *)
(* requests of a check, a request may never be answered, and a fatal error *)
(* ends the process at any step.                                           *)
(*                                                                         *)
(* A nullable column is a set: {} is NULL, {v} is the value v.             *)
(***************************************************************************)
EXTENDS Integers, FiniteSets

CONSTANTS
    Rows,       \* rows that can be inserted: [relay, slot, hash, claimed, checksummed]
    Blocks,     \* block hash -> what the block did, see BlockType
    Canonical,  \* hashes of the blocks that are on the chain at the start
    Unsettled,  \* bound: hashes of the blocks that may join or leave the chain
    Strange,    \* balance changes that may be read at the number of a block that left
    KnownAtStart, \* hashes of the blocks the nodes have from the start
    Workers,    \* the goroutines of the pool
    Limit,      \* --limit
    SlotMin,    \* --slot-min, 0: unset
    CheckTx,    \* --check-tx
    Modes,      \* selections that runs ask for: [kind, slot]
    MaxFaults   \* bound: node errors

Hashes == DOMAIN Blocks
Slots == {r.slot : r \in Rows}

\* delivered: balance change of the fee recipient; lastTx: where the last
\* transaction goes; lastValue: its value; sent: value of the transactions the
\* fee recipient sent; creates: some transaction has no To; selfBuilt: the coinbase is the proposer; coinbaseDiff,
\* toOwn: the coinbase's balance change and its transfers to its own addresses.
BlockType == [delivered : Int, lastTx : {"none", "recipient", "other", "create"},
              lastValue : Nat, sent : Nat, creates : BOOLEAN, selfBuilt : BOOLEAN,
              coinbaseDiff : Int, toOwn : Nat]

ASSUME BlocksAssumption ==
    /\ \A h \in Hashes : Blocks[h] \in BlockType
    /\ Canonical \subseteq Hashes
    /\ Unsettled \subseteq Hashes
    /\ Strange \subseteq Int
    /\ KnownAtStart \subseteq Hashes
ASSUME RowsAssumption ==
    /\ IsFiniteSet(Rows) /\ Rows # {}
    /\ \A r \in Rows : r.slot \in Nat /\ r.hash \in Hashes /\ r.claimed \in Nat
                         /\ r.checksummed \in BOOLEAN
ASSUME PoolAssumption ==
    /\ IsFiniteSet(Workers) /\ Workers # {}
    /\ Limit \in Nat \ {0}
    /\ SlotMin \in Nat
    /\ CheckTx \in BOOLEAN
    /\ MaxFaults \in Nat
ASSUME ModesAssumption ==
    \A m \in Modes : m.kind \in {"unchecked", "incorrect", "missed", "all", "slot"}

VARIABLES
    table,    \* inserted row -> its check columns
    known,    \* hashes the nodes can look up
    canonical, \* hashes of the blocks of the nodes' chain
    reorged,  \* observer: hashes of the blocks that joined or left it
    running,  \* RunCheckPayloadValue is under way
    mode,     \* its selection
    queue,    \* entries not yet handed to a worker
    wpc,      \* worker -> "wait", "look" (block and header), "pay" (balances),
              \* "save" or "hung" (in a request)
    entry,    \* worker -> the row at hand
    outcome,  \* worker -> the columns it will write
    nFaults

nodeVars == <<known, canonical, reorged>>
workerVars == <<wpc, entry, outcome>>
vars == <<table, nodeVars, running, mode, queue, workerVars, nFaults>>

-----------------------------------------------------------------------------
(* The check columns of a row, and what a check makes of them.             *)

NULL == {}
Unset == [found |-> NULL, missed |-> NULL, ok |-> NULL, diff |-> NULL, coinbase |-> NULL]

NotFound == [Unset EXCEPT !.found = {FALSE}]
Missed == [Unset EXCEPT !.found = {TRUE}, !.missed = {TRUE}]

\* claimed - delivered; if that is not 0 and the last transaction pays the fee
\* recipient, claimed - its value (addresses are compared as checksummed text).
ClaimDiff(r, delivered) ==
    LET b == Blocks[r.hash]
        direct == r.claimed - delivered
    IN  IF direct # 0 /\ b.lastTx = "recipient" /\ r.checksummed
        THEN r.claimed - b.lastValue
        ELSE direct

\* A transaction that creates a contract has To() = nil, and Hex() panics.
Panics(r, delivered) ==
    LET b == Blocks[r.hash]
    IN  \/ r.claimed # delivered /\ b.lastTx = "create"
        \/ CheckTx /\ b.creates

Diff(r, delivered) ==
    ClaimDiff(r, delivered) + (IF CheckTx /\ r.checksummed THEN Blocks[r.hash].sent ELSE 0)

CoinbaseDiff(r, change) ==
    LET b == Blocks[r.hash]
    IN  IF b.selfBuilt THEN NULL ELSE {change + b.toOwn}

\* What is saved, given the balance changes read for fee recipient and coinbase.
Checked(r, delivered, change) ==
    [found |-> {TRUE}, missed |-> NULL, ok |-> {Diff(r, delivered) = 0},
     diff |-> {Diff(r, delivered)}, coinbase |-> CoinbaseDiff(r, change)]

\* Balances are asked for by block number: once the block has left the chain,
\* any of the balances, of before and after, may be another block's.
Reading(h, own) == {own} \cup (IF h \in canonical THEN {} ELSE Strange)

DeliveredRead(h) == Reading(h, Blocks[h].delivered)
CoinbaseRead(h) == Reading(h, Blocks[h].coinbaseDiff)

-----------------------------------------------------------------------------
\* Another process inserts a row; the columns of the check are NULL.
Insert(r) ==
    /\ r \notin DOMAIN table
    /\ table' = [q \in DOMAIN table \cup {r} |-> IF q = r THEN Unset ELSE table[q]]
    /\ UNCHANGED <<nodeVars, running, mode, queue, workerVars, nFaults>>

\* The node learns of a block.
Sync(h) ==
    /\ h \notin known
    /\ known' = known \cup {h}
    /\ UNCHANGED <<table, canonical, reorged, running, mode, queue, workerVars, nFaults>>

\* A block leaves the nodes' chain, or joins it.
Reorg(h) ==
    /\ canonical' = IF h \in canonical THEN canonical \ {h} ELSE canonical \cup {h}
    /\ reorged' = reorged \cup {h}
    /\ UNCHANGED <<table, known, running, mode, queue, workerVars, nFaults>>

\* The WHERE clause of the query; Unchecked is the default selection.
Unchecked == [kind |-> "unchecked", slot |-> 0]

CandidatesUnfound(m) == {r \in DOMAIN table : table[r].found = NULL}

Candidates(m) ==
    CASE m.kind = "unchecked" -> {r \in DOMAIN table : table[r].ok = NULL}
      [] m.kind = "incorrect" -> {r \in DOMAIN table : table[r].ok = {FALSE}}
      [] m.kind = "missed"    -> {r \in DOMAIN table : table[r].missed = {TRUE}}
      [] m.kind = "all"       -> {r \in DOMAIN table : m.slot > 0 => r.slot <= m.slot}
      [] m.kind = "slot"      -> {r \in DOMAIN table : r.slot = m.slot}

\* ORDER BY slot DESC LIMIT, rows of one slot in any order.
IsSelection(S, m) ==
    LET C == Candidates(m) IN
    /\ S \subseteq C
    /\ m.kind = "slot" => S = C
    /\ m.kind # "slot" => /\ Cardinality(S) <= Limit
                          /\ S = C \/ Cardinality(S) = Limit
                          /\ \A p \in S, q \in C \ S : p.slot >= q.slot

\* RunCheckPayloadValue: rows are selected, the workers started.
StartRun(m) ==
    /\ ~ running
    /\ running' = TRUE
    /\ mode' = m
    /\ \E S \in SUBSET DOMAIN table :
        /\ IsSelection(S, m)
        /\ queue' = {r \in S : SlotMin # 0 => r.slot >= SlotMin}
    /\ UNCHANGED <<table, nodeVars, workerVars, nFaults>>

\* The workers that serve a run; a single slot is given to one.
Pool == IF mode.kind = "slot" THEN {CHOOSE w \in Workers : TRUE} ELSE Workers

TakeAgain(w) ==
    /\ running
    /\ w \in Pool
    /\ wpc[w] = "wait"
    /\ \E r \in queue :
        /\ \A q \in queue : r.slot >= q.slot
        /\ entry' = [entry EXCEPT ![w] = r]
        /\ UNCHANGED queue
    /\ wpc' = [wpc EXCEPT ![w] = "look"]
    /\ UNCHANGED <<table, nodeVars, running, mode, outcome, nFaults>>

\* entryC: the newest entry left goes to a worker that waits for one.
Take(w) ==
    /\ running
    /\ w \in Pool
    /\ wpc[w] = "wait"
    /\ \E r \in queue :
        /\ \A q \in queue : r.slot >= q.slot
        /\ entry' = [entry EXCEPT ![w] = r]
        /\ queue' = queue \ {r}
    /\ wpc' = [wpc EXCEPT ![w] = "look"]
    /\ UNCHANGED <<table, nodeVars, running, mode, outcome, nFaults>>

\* The iteration of the worker's loop ends; the entry is a variable of it.
AnyRow == CHOOSE r \in Rows : TRUE

Wait(W) ==
    /\ wpc' = [w \in Workers |-> IF w \in W THEN "wait" ELSE wpc[w]]
    /\ entry' = [w \in Workers |-> IF w \in W THEN AnyRow ELSE entry[w]]
    /\ outcome' = [w \in Workers |-> IF w \in W THEN Unset ELSE outcome[w]]

Fault ==
    /\ nFaults < MaxFaults
    /\ nFaults' = nFaults + 1

WillSave(w, c) ==
    /\ wpc' = [wpc EXCEPT ![w] = "save"]
    /\ outcome' = [outcome EXCEPT ![w] = c]
    /\ UNCHANGED <<table, nodeVars, running, mode, queue, entry>>

\* Both nodes answer "not found".
LookNotFound(w) ==
    /\ wpc[w] = "look"
    /\ entry[w].hash \notin known
    /\ WillSave(w, NotFound)
    /\ UNCHANGED nFaults

\* The first node fails, the backup does not have the block.
LookNotFoundOnBackup(w) ==
    /\ wpc[w] = "look"
    /\ entry[w].hash \in known
    /\ Fault
    /\ WillSave(w, NotFound)

\* The block with that number has another hash.
LookMissed(w) ==
    /\ wpc[w] = "look"
    /\ entry[w].hash \in known \ canonical
    /\ WillSave(w, Missed)
    /\ UNCHANGED nFaults

\* No header for the number: the entry is skipped, nothing is saved.
LookNoHeader(w) ==
    /\ wpc[w] = "look"
    /\ entry[w].hash \in known
    /\ Fault
    /\ Wait({w})
    /\ UNCHANGED <<table, nodeVars, running, mode, queue>>

WillPay(w) ==
    /\ wpc' = [wpc EXCEPT ![w] = "pay"]
    /\ UNCHANGED <<table, nodeVars, running, mode, queue, entry, outcome, nFaults>>

LookFoundByHash(w) ==
    /\ wpc[w] = "look"
    /\ entry[w].hash \in known
    /\ WillPay(w)

\* Found under its hash, and then under its number.
LookFound(w) ==
    /\ wpc[w] = "look"
    /\ entry[w].hash \in known \cap canonical
    /\ WillPay(w)

\* The balances are read and the payment is checked.
Pay(w) ==
    /\ wpc[w] = "pay"
    /\ \E d \in DeliveredRead(entry[w].hash), c \in CoinbaseRead(entry[w].hash) :
        /\ ~ Panics(entry[w], d)
        /\ WillSave(w, Checked(entry[w], d, c))
    /\ UNCHANGED nFaults

\* A node never answers: no request of the worker has a timeout.
Hang(w) ==
    /\ wpc[w] \in {"look", "pay"}
    /\ wpc' = [wpc EXCEPT ![w] = "hung"]
    /\ UNCHANGED <<table, nodeVars, running, mode, queue, entry, outcome, nFaults>>

\* Rows that saveEntry writes to: WHERE slot=:slot.
Targets(r) == {q \in DOMAIN table : q.slot = r.slot}

SaveSetColumns(w) ==
    /\ wpc[w] = "save"
    /\ table' = [q \in DOMAIN table |->
        IF q \in Targets(entry[w])
        THEN [c \in DOMAIN Unset |-> IF outcome[w][c] = NULL THEN table[q][c] ELSE outcome[w][c]]
        ELSE table[q]]
    /\ Wait({w})
    /\ UNCHANGED <<nodeVars, running, mode, queue, nFaults>>

\* saveEntry: all columns of the check, those left NULL included.
Save(w) ==
    /\ wpc[w] = "save"
    /\ table' = [q \in DOMAIN table |-> IF q \in Targets(entry[w]) THEN outcome[w] ELSE table[q]]
    /\ Wait({w})
    /\ UNCHANGED <<nodeVars, running, mode, queue, nFaults>>

FinishEarly ==
    /\ running
    /\ queue = {}
    /\ running' = FALSE
    /\ mode' = Unchecked
    /\ UNCHANGED <<table, nodeVars, queue, workerVars, nFaults>>

\* The channel is closed and the last worker is done (wg.Wait).
Finish ==
    /\ running
    /\ queue = {}
    /\ \A w \in Workers : wpc[w] = "wait"
    /\ running' = FALSE
    /\ mode' = Unchecked
    /\ UNCHANGED <<table, nodeVars, queue, workerVars, nFaults>>

\* The process ends: all workers and the queue are gone.
Exit ==
    /\ running
    /\ running' = FALSE
    /\ mode' = Unchecked
    /\ queue' = {}
    /\ Wait(Workers)
    /\ UNCHANGED <<table, nodeVars>>

\* A node or database error at a worker is fatal; or the process is killed.
Fatal ==
    /\ Exit
    /\ Fault

\* The nil dereference of Panics.
Panic(w) ==
    /\ wpc[w] = "pay"
    /\ \E d \in DeliveredRead(entry[w].hash) : Panics(entry[w], d)
    /\ Exit
    /\ UNCHANGED nFaults

-----------------------------------------------------------------------------
Init ==
    /\ table = [r \in {} |-> Unset]
    /\ known = KnownAtStart
    /\ canonical = Canonical
    /\ reorged = {}
    /\ running = FALSE
    /\ mode = Unchecked
    /\ queue = {}
    /\ wpc = [w \in Workers |-> "wait"]
    /\ entry = [w \in Workers |-> AnyRow]
    /\ outcome = [w \in Workers |-> Unset]
    /\ nFaults = 0

Look(w) ==
    \/ LookNotFound(w) \/ LookNotFoundOnBackup(w) \/ LookMissed(w)
    \/ LookNoHeader(w) \/ LookFound(w)

WorkerStep(w) == Take(w) \/ Look(w) \/ Pay(w) \/ Panic(w) \/ Hang(w) \/ Save(w)

Next ==
    \/ \E r \in Rows : Insert(r)
    \/ \E h \in Hashes : Sync(h)
    \/ \E h \in Unsettled : Reorg(h)
    \/ \E m \in Modes : StartRun(m)
    \/ \E w \in Workers : WorkerStep(w)
    \/ Finish
    \/ Fatal

\* The goroutines run: a request is answered, or fails, or its worker hangs.
Fairness ==
    /\ \A w \in Workers : WF_vars(WorkerStep(w))
    /\ WF_vars(Finish)

Spec == Init /\ [][Next]_vars /\ Fairness

-----------------------------------------------------------------------------
Optional(S) == {{}} \cup {{x} : x \in S}

ColumnsOK(c) ==
    /\ c.found \in Optional(BOOLEAN)
    /\ c.missed \in Optional({TRUE})
    /\ c.ok \in Optional(BOOLEAN)
    /\ c.diff = {} \/ \E d \in c.diff : d \in Int /\ c.diff = {d}
    /\ c.coinbase = {} \/ \E d \in c.coinbase : d \in Int /\ c.coinbase = {d}

\* Every variable has its type, and a worker is busy only during a run.
TypeOK ==
    /\ DOMAIN table \subseteq Rows
    /\ \A r \in DOMAIN table : ColumnsOK(table[r])
    /\ known \subseteq Hashes
    /\ canonical \subseteq Hashes
    /\ reorged \subseteq Unsettled
    /\ running \in BOOLEAN
    /\ mode \in Modes \cup {Unchecked}
    /\ queue \subseteq DOMAIN table
    /\ wpc \in [Workers -> {"wait", "look", "pay", "save", "hung"}]
    /\ ~ running => queue = {} /\ \A w \in Workers : wpc[w] = "wait"
    /\ entry \in [Workers -> Rows]
    /\ \A w \in Workers : wpc[w] # "wait" => entry[w] \in DOMAIN table
    /\ DOMAIN outcome = Workers /\ \A w \in Workers : ColumnsOK(outcome[w])
    /\ nFaults \in 0 .. MaxFaults

EverOnChain == canonical \cup reorged

\* The balance changes that a check of the block may have read.
EverRead(h, own) == {own} \cup (IF h \in reorged THEN Strange ELSE {})

\* The columns c are those of a check of q.
IsCheckOf(c, q) ==
    \/ c = NotFound
    \/ /\ c = Missed
       /\ q.hash \in known /\ (q.hash \notin canonical \/ q.hash \in reorged)
    \/ /\ q.hash \in known \cap EverOnChain
       /\ \E d \in EverRead(q.hash, Blocks[q.hash].delivered),
            e \in EverRead(q.hash, Blocks[q.hash].coinbaseDiff) : c = Checked(q, d, e)

\* A row's columns are never a mixture: they are those of one check of one row
\* of its slot, whose block the node has, whatever the workers' interleaving.
ColumnsAreOneCheck ==
    \A r \in DOMAIN table :
        table[r] # Unset => \E q \in Targets(r) : IsCheckOf(table[r], q)

\* value_check_ok holds only if a block of the chain paid, by its balance change
\* or by its last transaction, what a relay claimed for the slot, however late
\* the node learned of the blocks (--check-tx off); or a block that was on the
\* chain when it was looked up left it before its balances were read.
Paid(r) ==
    /\ r.hash \in EverOnChain
    /\ \/ r.claimed \in EverRead(r.hash, Blocks[r.hash].delivered)
       \/ Blocks[r.hash].lastTx = "recipient" /\ Blocks[r.hash].lastValue = r.claimed

OkMeansPaid ==
    \A r \in DOMAIN table :
        table[r].ok = {TRUE} /\ ~ CheckTx => \E q \in Targets(r) : Paid(q)

\* In a default run the verdict of a slot with one row is final: no worker
\* handles the row a second time and loses it to a failing node.
VerdictsStay ==
    [][\A r \in DOMAIN table :
        (/\ table[r].ok # NULL
         /\ \A q \in Rows : q.slot = r.slot => q = r
         /\ mode.kind = "unchecked")
        => table'[r].ok = table[r].ok]_vars

HasVerdict(r) == r \in DOMAIN table /\ table[r].ok # NULL
Verifiable(r) == r.hash \in known \cap canonical
Stuck(r) ==
    {q \in DOMAIN table : /\ q.slot >= r.slot
                          /\ \E p \in Targets(q) : ~ Verifiable(p)}

MayPanic(q) ==
    \E d \in EverRead(q.hash, Blocks[q.hash].delivered) : Panics(q, d)

\* backfill-runner comes to its check again and again: it is not stopped, and the
\* backfill before the check does not hang (BackfillRunner).
ServiceGoesOn == SF_vars(StartRun(Unchecked))

\* While the service goes on, a row whose block is on the chain and at the node
\* gets a verdict from one of the periodic runs, unless its block leaves the
\* chain, or a run's worth of rows as new stay without one, because a row of
\* their slot cannot be verified, or a row makes the process panic, or a request
\* of a worker is never answered: the run then never ends.
EventuallyChecked ==
    ServiceGoesOn =>
        \A r \in Rows :
            (r \in DOMAIN table /\ Verifiable(r)) ~>
                \/ HasVerdict(r)
                \/ ~ Verifiable(r)
                \/ Cardinality(Stuck(r) \ {r}) >= Limit
                \/ \E q \in DOMAIN table : MayPanic(q)
                \/ \E w \in Workers : wpc[w] = "hung"

\* src/database/migrations/001_init_database.go:77, "whether the payload
\* blockhash can be found on chain (at all)".
FoundOnchainIsOwn ==
    \A r \in DOMAIN table : table[r].found = {TRUE} => r.hash \in known
=============================================================================
