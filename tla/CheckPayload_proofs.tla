------------------------- MODULE CheckPayload_proofs -------------------------
(***************************************************************************)
(* Proofs about check-payload-value: the columns of a row are those of one *)
(* check, an approved value was paid, and in a default run a verdict is    *)
(* final, for all rows, blocks, sizes of the worker pool and limits.       *)
(***************************************************************************)
EXTENDS CheckPayload, TLAPS

\* The blocks a node has stay there, and those that join or leave the chain are noted.
NodesGrow ==
    /\ known \subseteq known'
    /\ reorged \subseteq reorged'
    /\ \A h \in Hashes \ reorged' : h \in canonical' <=> h \in canonical

Busy(w) == wpc[w] # "wait"

\* The columns of ColumnsAreOneCheck come from the outcomes of the workers.
CheckInv ==
    /\ TypeOK
    /\ \A w \in Workers : wpc[w] = "pay" => entry[w].hash \in known \cap EverOnChain
    /\ \A w \in Workers : wpc[w] = "save" => IsCheckOf(outcome[w], entry[w])
    /\ ColumnsAreOneCheck

\* An entry is in the queue or at one worker, and in a default run the only row
\* of a slot has no verdict as long as it is there.
Alone(r) == \A q \in Rows : q.slot = r.slot => q = r

OncePlaced ==
    /\ \A w \in Workers : Busy(w) => entry[w] \notin queue
    /\ \A v, w \in Workers : Busy(v) /\ Busy(w) /\ entry[v] = entry[w] => v = w

NoVerdictYet ==
    mode.kind = "unchecked" =>
        /\ \A r \in queue : Alone(r) => table[r].ok = NULL
        /\ \A w \in Workers : Busy(w) /\ Alone(entry[w]) => table[entry[w]].ok = NULL

VerdictInv == TypeOK /\ OncePlaced /\ NoVerdictYet

-----------------------------------------------------------------------------
(* The columns that a check writes.                                        *)

\* A block moves numbers, and numbers are read.
LEMMA BlockTypes ==
    ASSUME NEW r \in Rows
    PROVE  r.claimed \in Nat /\ r.hash \in Hashes /\ Blocks[r.hash] \in BlockType
  BY RowsAssumption, BlocksAssumption DEF Hashes

\* Each of the outcomes of a look-up fills the columns with values of their types.
LEMMA ColumnTypes ==
    /\ ColumnsOK(Unset) /\ ColumnsOK(NotFound) /\ ColumnsOK(Missed)
    /\ \A r \in Rows, d \in Int, c \in Int : ColumnsOK(Checked(r, d, c))
<1>1. ColumnsOK(Unset) /\ ColumnsOK(NotFound) /\ ColumnsOK(Missed)
  BY DEF ColumnsOK, Optional, Unset, NotFound, Missed, NULL
<1>2. ASSUME NEW r \in Rows, NEW d \in Int, NEW c \in Int PROVE ColumnsOK(Checked(r, d, c))
  <2>1. r.claimed \in Nat /\ Blocks[r.hash] \in BlockType
    BY BlockTypes
  <2>2. Diff(r, d) \in Int
    BY <2>1 DEF Diff, ClaimDiff, BlockType
  <2>3. CoinbaseDiff(r, c) = {} \/ \E e \in CoinbaseDiff(r, c) : e \in Int /\ CoinbaseDiff(r, c) = {e}
    BY <2>1 DEF CoinbaseDiff, BlockType, NULL
  <2>4. {Diff(r, d) = 0} \in Optional(BOOLEAN)
    BY DEF Optional
  <2>5. /\ Checked(r, d, c).found = {TRUE} /\ Checked(r, d, c).missed = {}
        /\ Checked(r, d, c).ok = {Diff(r, d) = 0} /\ Checked(r, d, c).diff = {Diff(r, d)}
        /\ Checked(r, d, c).coinbase = CoinbaseDiff(r, c)
    BY DEF Checked, NULL
  <2>6. {TRUE} \in Optional(BOOLEAN) /\ {} \in Optional({TRUE})
    BY DEF Optional
  <2> QED BY <2>2, <2>3, <2>4, <2>5, <2>6 DEF ColumnsOK
<1> QED BY <1>1, <1>2

\* ok is NULL in what is not a comparison of values.
LEMMA NullVerdict == Unset.ok = NULL /\ NotFound.ok = NULL /\ Missed.ok = NULL
BY DEF Unset, NotFound, Missed, NULL

\* Checked's ok is TRUE only if the difference is 0, and without --check-tx that
\* means that the claim is what was read or what the last transaction paid.
LEMMA ZeroMeansPaid ==
    ASSUME NEW r \in Rows, ~ CheckTx, NEW d \in Int, NEW c, Checked(r, d, c).ok = {TRUE}
    PROVE  \/ r.claimed = d
           \/ Blocks[r.hash].lastTx = "recipient" /\ Blocks[r.hash].lastValue = r.claimed
<1>1. r.claimed \in Nat /\ Blocks[r.hash] \in BlockType
  BY BlockTypes
<1>2. {Diff(r, d) = 0} = {TRUE}
  BY DEF Checked
<1>3. Diff(r, d) = 0
  <2>1. (Diff(r, d) = 0) \in {Diff(r, d) = 0}
    OBVIOUS
  <2>2. (Diff(r, d) = 0) \in {TRUE}
    BY <1>2, <2>1, Zenon
  <2> QED BY <2>2
<1>4. ClaimDiff(r, d) = 0
  BY <1>1, <1>3 DEF Diff, ClaimDiff, BlockType
<1> QED BY <1>1, <1>4 DEF ClaimDiff, BlockType

-----------------------------------------------------------------------------
(* Types.                                                                  *)

LEMMA TypeInit == Init => TypeOK
<1> SUFFICES ASSUME Init PROVE TypeOK
  OBVIOUS
<1>1. /\ DOMAIN table = {} /\ known = KnownAtStart /\ known \subseteq Hashes
      /\ canonical \subseteq Hashes /\ reorged = {}
  BY BlocksAssumption DEF Init
<1>2. wpc \in [Workers -> {"wait", "look", "pay", "save", "hung"}] /\ \A w \in Workers : wpc[w] = "wait"
  BY DEF Init
<1>3. DOMAIN outcome = Workers /\ \A w \in Workers : outcome[w] = Unset
  BY DEF Init
<1>4. running = FALSE /\ mode = Unchecked /\ queue = {} /\ nFaults \in 0 .. MaxFaults
  BY PoolAssumption DEF Init
<1>5. entry \in [Workers -> Rows]
  BY RowsAssumption DEF Init, AnyRow
<1> QED BY <1>1, <1>2, <1>3, <1>4, <1>5, ColumnTypes DEF TypeOK

\* Wait({w}) makes w wait, and leaves the others.
LEMMA WaitTypes ==
    ASSUME TypeOK, NEW W \in SUBSET Workers, Wait(W)
    PROVE  /\ wpc' \in [Workers -> {"wait", "look", "pay", "save", "hung"}]
           /\ DOMAIN outcome' = Workers /\ \A w \in Workers : ColumnsOK(outcome'[w])
           /\ entry' \in [Workers -> Rows]
           /\ \A w \in Workers : wpc'[w] # "wait" => w \notin W /\ wpc[w] # "wait" /\ entry'[w] = entry[w]
           /\ \A w \in W : wpc'[w] = "wait"
<1>1. AnyRow \in Rows
  BY RowsAssumption DEF AnyRow
<1> QED BY <1>1, ColumnTypes DEF TypeOK, Wait

\* A worker that is busy is one of a run.
LEMMA WillSaveTypes ==
    ASSUME TypeOK, NEW w \in Workers, wpc[w] # "wait", NEW c, ColumnsOK(c), WillSave(w, c),
           nFaults' \in 0 .. MaxFaults
    PROVE  TypeOK'
<1>1. running /\ entry[w] \in DOMAIN table
  BY DEF TypeOK
<1>2. wpc' \in [Workers -> {"wait", "look", "pay", "save", "hung"}]
  BY DEF TypeOK, WillSave
<1>3. \A v \in Workers : wpc'[v] # "wait" => entry'[v] \in DOMAIN table'
  BY <1>1 DEF TypeOK, WillSave
<1>4. \A v \in Workers : outcome'[v] = c \/ outcome'[v] = outcome[v]
  BY DEF TypeOK, WillSave
<1>5. DOMAIN outcome' = Workers /\ \A v \in Workers : ColumnsOK(outcome'[v])
  BY <1>4 DEF TypeOK, WillSave
<1> QED BY <1>1, <1>2, <1>3, <1>5 DEF TypeOK, WillSave, nodeVars

\* Every worker's step, every insertion and every step of a run keeps the types.
LEMMA TypeStep == TypeOK /\ [Next]_vars => TypeOK'
<1> SUFFICES ASSUME TypeOK, [Next]_vars PROVE TypeOK'
  OBVIOUS
<1> USE ColumnTypes
<1>1. ASSUME NEW r \in Rows, Insert(r) PROVE TypeOK'
  <2>1. DOMAIN table' = DOMAIN table \cup {r}
    BY <1>1 DEF Insert
  <2>2. \A q \in DOMAIN table' : ColumnsOK(table'[q])
    <3> SUFFICES ASSUME NEW q \in DOMAIN table' PROVE ColumnsOK(table'[q])
      OBVIOUS
    <3>1. table'[q] = Unset \/ (q \in DOMAIN table /\ table'[q] = table[q])
      BY <1>1 DEF Insert
    <3> QED BY <3>1 DEF TypeOK
  <2> QED BY <1>1, <2>1, <2>2 DEF TypeOK, Insert, nodeVars, workerVars
<1>2. ASSUME NEW h \in Hashes, Sync(h) PROVE TypeOK'
  BY <1>2 DEF TypeOK, Sync, workerVars
<1>3. ASSUME NEW m \in Modes, StartRun(m) PROVE TypeOK'
  BY <1>3 DEF TypeOK, StartRun, nodeVars, workerVars
<1>4. ASSUME NEW w \in Workers, Take(w) PROVE TypeOK'
  <2>1. queue' \subseteq queue /\ \A v \in Workers : entry'[v] = entry[v] \/ (v = w /\ entry'[v] \in queue)
    BY <1>4 DEF Take, TypeOK
  <2>2. entry' \in [Workers -> Rows]
    BY <1>4 DEF Take, TypeOK
  <2>3. \A v \in Workers : wpc'[v] # "wait" => v = w \/ wpc[v] # "wait"
    BY <1>4 DEF Take, TypeOK
  <2>4. entry'[w] \in DOMAIN table'
    BY <1>4 DEF Take, TypeOK
  <2>5. \A v \in Workers : wpc'[v] # "wait" => entry'[v] \in DOMAIN table'
    BY <1>4, <2>1, <2>3, <2>4 DEF TypeOK, Take
  <2>6. wpc' \in [Workers -> {"wait", "look", "pay", "save", "hung"}]
    BY <1>4 DEF TypeOK, Take
  <2> QED BY <1>4, <2>1, <2>2, <2>5, <2>6 DEF TypeOK, Take, nodeVars
<1>5. ASSUME NEW w \in Workers, LookNotFound(w) PROVE TypeOK'
  BY <1>5, WillSaveTypes DEF LookNotFound, TypeOK
<1>6. ASSUME NEW w \in Workers, LookNotFoundOnBackup(w) PROVE TypeOK'
  <2>1. nFaults' \in 0 .. MaxFaults
    BY <1>6, PoolAssumption DEF LookNotFoundOnBackup, Fault, TypeOK
  <2> QED BY <1>6, <2>1, WillSaveTypes DEF LookNotFoundOnBackup
<1>7. ASSUME NEW w \in Workers, LookMissed(w) PROVE TypeOK'
  BY <1>7, WillSaveTypes DEF LookMissed, TypeOK
<1>8. ASSUME NEW w \in Workers, LookNoHeader(w) PROVE TypeOK'
  <2>1. nFaults' \in 0 .. MaxFaults
    BY <1>8, PoolAssumption DEF LookNoHeader, Fault, TypeOK
  <2>2. {w} \in SUBSET Workers /\ Wait({w})
    BY <1>8 DEF LookNoHeader
  <2>3. running
    BY <1>8 DEF LookNoHeader, TypeOK
  <2>4. UNCHANGED <<table, known, canonical, reorged, running, mode, queue>>
    BY <1>8 DEF LookNoHeader, nodeVars
  <2> QED BY <2>1, <2>2, <2>3, <2>4, WaitTypes DEF TypeOK
<1>9. ASSUME NEW w \in Workers, LookFound(w) \/ Hang(w) PROVE TypeOK'
  <2>1. /\ wpc[w] # "wait" /\ running
        /\ wpc' = [wpc EXCEPT ![w] = "pay"] \/ wpc' = [wpc EXCEPT ![w] = "hung"]
        /\ UNCHANGED <<table, nodeVars, running, mode, queue, entry, outcome, nFaults>>
    BY <1>9 DEF LookFound, WillPay, Hang, TypeOK
  <2> QED BY <2>1 DEF TypeOK, nodeVars
<1>16. ASSUME NEW w \in Workers, Pay(w) PROVE TypeOK'
  <2>1. PICK d \in DeliveredRead(entry[w].hash), c \in CoinbaseRead(entry[w].hash) :
          WillSave(w, Checked(entry[w], d, c))
    BY <1>16 DEF Pay
  <2>2. entry[w] \in Rows
    BY DEF TypeOK
  <2>3. d \in Int /\ c \in Int
    BY <2>2, BlockTypes, BlocksAssumption DEF DeliveredRead, CoinbaseRead, Reading, BlockType
  <2>4. ColumnsOK(Checked(entry[w], d, c))
    BY <2>2, <2>3
  <2>5. wpc[w] # "wait" /\ nFaults' \in 0 .. MaxFaults
    BY <1>16 DEF Pay, TypeOK
  <2> QED BY <2>1, <2>4, <2>5, WillSaveTypes
<1>17. ASSUME NEW h \in Unsettled, Reorg(h) PROVE TypeOK'
  <2>1. canonical' \subseteq Hashes /\ reorged' \subseteq Unsettled
    BY <1>17, BlocksAssumption DEF Reorg, TypeOK
  <2> QED BY <1>17, <2>1 DEF TypeOK, Reorg, workerVars
<1>10. ASSUME NEW w \in Workers, Save(w) PROVE TypeOK'
  <2>1. {w} \in SUBSET Workers /\ Wait({w}) /\ running
    BY <1>10 DEF Save, TypeOK
  <2>2. /\ DOMAIN table' = DOMAIN table
        /\ UNCHANGED <<known, canonical, reorged, running, mode, queue, nFaults>>
    BY <1>10 DEF Save, nodeVars
  <2>3. \A q \in DOMAIN table : table'[q] = outcome[w] \/ table'[q] = table[q]
    BY <1>10 DEF Save
  <2>4. \A q \in DOMAIN table' : ColumnsOK(table'[q])
    BY <2>2, <2>3 DEF TypeOK
  <2> QED BY <2>1, <2>2, <2>4, WaitTypes DEF TypeOK
<1>11. CASE Finish
  BY <1>11 DEF TypeOK, Finish, nodeVars, workerVars
<1>12. ASSUME Exit, nFaults' \in 0 .. MaxFaults PROVE TypeOK'
  BY <1>12, WaitTypes DEF TypeOK, Exit, nodeVars
<1>13. CASE Fatal
  <2>1. Exit /\ nFaults' \in 0 .. MaxFaults
    BY <1>13, PoolAssumption DEF Fatal, Fault, TypeOK
  <2> QED BY <1>12, <2>1
<1>14. ASSUME NEW w \in Workers, Panic(w) PROVE TypeOK'
  BY <1>12, <1>14 DEF Panic, TypeOK
<1>15. CASE UNCHANGED vars
  BY <1>15 DEF vars, nodeVars, workerVars, TypeOK
<1> QED BY <1>1, <1>2, <1>3, <1>4, <1>5, <1>6, <1>7, <1>8, <1>9, <1>10, <1>11, <1>13,
           <1>14, <1>15, <1>16, <1>17 DEF Next, WorkerStep, Look

\* Every variable keeps its type, for all rows, blocks, workers and limits.
THEOREM TypeCorrect == Spec => []TypeOK
<1>1. Init => TypeOK
  BY TypeInit
<1>2. TypeOK /\ [Next]_vars => TypeOK'
  BY TypeStep
<1> QED BY <1>1, <1>2, PTL DEF Spec

-----------------------------------------------------------------------------
(* Columns are those of one check.                                         *)

LEMMA CheckInit == Init => CheckInv
BY TypeInit DEF Init, CheckInv, ColumnsAreOneCheck

\* No step takes a block from a node, or changes the chain unnoted.
LEMMA NodesStep ==
    ASSUME [Next]_vars
    PROVE  NodesGrow
<1>1. ASSUME NEW h \in Hashes, Sync(h) PROVE NodesGrow
  BY <1>1 DEF Sync, NodesGrow
<1>2. ASSUME NEW h \in Unsettled, Reorg(h) PROVE NodesGrow
  BY <1>2 DEF Reorg, NodesGrow
<1>3. CASE UNCHANGED nodeVars
  BY <1>3 DEF nodeVars, NodesGrow
<1>4. (\E h \in Hashes : Sync(h)) \/ (\E h \in Unsettled : Reorg(h)) \/ UNCHANGED nodeVars
  BY DEF Next, vars, Insert, StartRun, WorkerStep, Take, Look, LookNotFound, LookNotFoundOnBackup,
         LookMissed, LookNoHeader, LookFound, WillPay, WillSave, Pay, Panic, Hang, Save, Finish,
         Fatal, Exit
<1> QED BY <1>1, <1>2, <1>3, <1>4

\* What was a check of q remains one as the nodes go on.
LEMMA CheckKept ==
    ASSUME TypeOK, NodesGrow
    PROVE  /\ \A q \in Rows : \A c : IsCheckOf(c, q) => IsCheckOf(c, q)'
           /\ \A h \in Hashes : h \in known \cap EverOnChain => h \in (known \cap EverOnChain)'
<1>1. \A h \in Hashes : h \in known \cap EverOnChain => h \in (known \cap EverOnChain)'
  BY DEF EverOnChain, NodesGrow
<1>2. ASSUME NEW q \in Rows, NEW c, IsCheckOf(c, q) PROVE IsCheckOf(c, q)'
  <2>1. q.hash \in Hashes
    BY BlockTypes
  <2>2. CASE c = NotFound
    BY <2>2 DEF IsCheckOf
  <2>3. CASE /\ c = Missed
             /\ q.hash \in known /\ (q.hash \notin canonical \/ q.hash \in reorged)
    BY <2>1, <2>3 DEF IsCheckOf, NodesGrow
  <2>4. CASE /\ q.hash \in known \cap EverOnChain
             /\ \E d \in EverRead(q.hash, Blocks[q.hash].delivered),
                  e \in EverRead(q.hash, Blocks[q.hash].coinbaseDiff) : c = Checked(q, d, e)
    <3>1. PICK d \in EverRead(q.hash, Blocks[q.hash].delivered),
               e \in EverRead(q.hash, Blocks[q.hash].coinbaseDiff) : c = Checked(q, d, e)
      BY <2>4
    <3>2. /\ d \in EverRead(q.hash, Blocks[q.hash].delivered)'
          /\ e \in EverRead(q.hash, Blocks[q.hash].coinbaseDiff)'
      BY DEF EverRead, NodesGrow
    <3> QED BY <1>1, <2>1, <2>4, <3>1, <3>2 DEF IsCheckOf, Checked, Diff, ClaimDiff, CoinbaseDiff
  <2> QED BY <1>2, <2>2, <2>3, <2>4 DEF IsCheckOf
<1> QED BY <1>1, <1>2

\* A step that leaves the table alone keeps the columns.
LEMMA ColumnsKept ==
    ASSUME ColumnsAreOneCheck, TypeOK, NodesGrow, table' = table
    PROVE  ColumnsAreOneCheck'
<1>1. \A q \in DOMAIN table : Targets(q)' = Targets(q) /\ Targets(q) \subseteq Rows
  BY DEF Targets, TypeOK
<1> QED BY <1>1, CheckKept DEF ColumnsAreOneCheck

\* What holds of the workers' places and outcomes.
WorkersOK ==
    /\ \A w \in Workers : wpc[w] = "pay" => entry[w].hash \in known \cap EverOnChain
    /\ \A w \in Workers : wpc[w] = "save" => IsCheckOf(outcome[w], entry[w])

\* A worker that pays or saves after a step either did before or got there by a check.
LEMMA OutcomesKept ==
    ASSUME CheckInv, TypeOK', NodesGrow,
           \A w \in Workers : wpc'[w] = "pay" =>
               \/ wpc[w] = "pay" /\ entry'[w] = entry[w]
               \/ entry'[w].hash \in known \cap EverOnChain,
           \A w \in Workers : wpc'[w] = "save" =>
               \/ wpc[w] = "save" /\ entry'[w] = entry[w] /\ outcome'[w] = outcome[w]
               \/ IsCheckOf(outcome'[w], entry'[w])
    PROVE  WorkersOK'
<1>1. ASSUME NEW w \in Workers PROVE entry'[w] \in Rows /\ entry'[w].hash \in Hashes
  BY BlockTypes DEF TypeOK
<1>2. ASSUME NEW w \in Workers, wpc'[w] = "pay" PROVE entry'[w].hash \in (known \cap EverOnChain)'
  <2>1. entry'[w].hash \in known \cap EverOnChain
    BY <1>2 DEF CheckInv
  <2> QED BY <1>1, <2>1, CheckKept DEF CheckInv
<1>3. ASSUME NEW w \in Workers, wpc'[w] = "save" PROVE IsCheckOf(outcome[w], entry[w])'
  <2>1. IsCheckOf(outcome'[w], entry'[w])
    BY <1>3 DEF CheckInv
  <2> QED BY <1>1, <2>1, CheckKept DEF CheckInv, IsCheckOf, EverOnChain, EverRead
<1> QED BY <1>2, <1>3 DEF WorkersOK

\* A step that only moves workers, to other places than those that need a check.
LEMMA PlacesOnly ==
    ASSUME CheckInv, TypeOK', NodesGrow, table' = table,
           \A w \in Workers : wpc'[w] \in {"pay", "save"} =>
               wpc'[w] = wpc[w] /\ entry'[w] = entry[w] /\ outcome'[w] = outcome[w]
    PROVE  WorkersOK' /\ ColumnsAreOneCheck'
<1>1. WorkersOK'
  BY OutcomesKept
<1> QED BY <1>1, ColumnsKept DEF CheckInv

\* A look-up or a payment that ends in an outcome of a check.
LEMMA CheckKeeps ==
    ASSUME CheckInv, TypeOK', NodesGrow, NEW w \in Workers, NEW c, IsCheckOf(c, entry[w]),
           WillSave(w, c)
    PROVE  WorkersOK' /\ ColumnsAreOneCheck'
<1>1. table' = table /\ entry' = entry
  BY DEF WillSave
<1>2. /\ \A v \in Workers : v # w => wpc'[v] = wpc[v] /\ outcome'[v] = outcome[v]
      /\ wpc'[w] = "save" /\ outcome'[w] = c
  BY DEF WillSave, CheckInv, TypeOK
<1>3. IsCheckOf(outcome'[w], entry'[w])
  BY <1>1, <1>2
<1>4. WorkersOK'
  BY <1>1, <1>2, <1>3, OutcomesKept
<1> QED BY <1>1, <1>4, ColumnsKept DEF CheckInv

\* A save writes one outcome to all rows of the slot of its entry.
LEMMA SaveKeeps ==
    ASSUME CheckInv, NodesGrow, NEW w \in Workers, Save(w)
    PROVE  ColumnsAreOneCheck'
<1>1. entry[w] \in DOMAIN table /\ IsCheckOf(outcome[w], entry[w]) /\ DOMAIN table \subseteq Rows
  BY DEF CheckInv, TypeOK, Save
<1>2. DOMAIN table' = DOMAIN table
  BY DEF Save
<1>3. ASSUME NEW r \in DOMAIN table, table'[r] # Unset
      PROVE  \E q \in Targets(r)' : q \in Rows /\ IsCheckOf(table'[r], q)
  <2>1. CASE r \in Targets(entry[w])
    <3>1. entry[w] \in Targets(r)'
      BY <1>1, <1>2, <2>1 DEF Targets
    <3>2. table'[r] = outcome[w]
      BY <2>1 DEF Save
    <3> QED BY <1>1, <3>1, <3>2
  <2>2. CASE r \notin Targets(entry[w])
    <3>1. table'[r] = table[r]
      BY <2>2 DEF Save
    <3>2. PICK q \in Targets(r) : IsCheckOf(table[r], q)
      BY <1>3, <3>1 DEF CheckInv, ColumnsAreOneCheck
    <3>3. q \in Targets(r)' /\ q \in Rows
      BY <1>1, <1>2, <3>2 DEF Targets
    <3> QED BY <3>1, <3>2, <3>3
  <2> QED BY <2>1, <2>2
<1>4. \A q \in Rows : \A c : IsCheckOf(c, q) => IsCheckOf(c, q)'
  BY CheckKept DEF CheckInv
<1>5. ASSUME NEW r \in DOMAIN table', table'[r] # Unset
      PROVE  \E q \in Targets(r)' : IsCheckOf(table[r], q)'
  <2>1. PICK q \in Targets(r)' : q \in Rows /\ IsCheckOf(table'[r], q)
    BY <1>2, <1>3, <1>5
  <2> QED BY <1>4, <2>1 DEF IsCheckOf
<1> QED BY <1>5 DEF ColumnsAreOneCheck

\* Each step changes the outcomes or the columns only as a check does.
LEMMA CheckStep == CheckInv /\ [Next]_vars => CheckInv'
<1> SUFFICES ASSUME CheckInv, [Next]_vars PROVE CheckInv'
  OBVIOUS
<1>0. TypeOK' /\ NodesGrow
  BY TypeStep, NodesStep DEF CheckInv
<1>1. WorkersOK' /\ ColumnsAreOneCheck' => CheckInv'
  BY <1>0 DEF CheckInv, WorkersOK
<1>2. ASSUME NEW r \in Rows, Insert(r) PROVE WorkersOK' /\ ColumnsAreOneCheck'
  <2>1. DOMAIN table' = DOMAIN table \cup {r} /\ UNCHANGED <<wpc, entry, outcome>>
    BY <1>2 DEF Insert, workerVars
  <2>2. WorkersOK'
    BY <1>0, <2>1, OutcomesKept
  <2>3. ASSUME NEW p \in DOMAIN table', table'[p] # Unset
        PROVE  \E q \in Targets(p)' : IsCheckOf(table[p], q)'
    <3>1. p \in DOMAIN table /\ table'[p] = table[p]
      BY <1>2, <2>3 DEF Insert
    <3>2. PICK q \in Targets(p) : IsCheckOf(table[p], q)
      BY <2>3, <3>1 DEF CheckInv, ColumnsAreOneCheck
    <3>3. q \in Targets(p)' /\ q \in Rows
      BY <2>1, <3>2 DEF Targets, CheckInv, TypeOK
    <3>4. IsCheckOf(table'[p], q)
      BY <3>1, <3>2
    <3>5. \A c : IsCheckOf(c, q) => IsCheckOf(c, q)'
      BY <1>0, <3>3, CheckKept DEF CheckInv
    <3> QED BY <3>3, <3>4, <3>5 DEF IsCheckOf
  <2> QED BY <2>2, <2>3 DEF ColumnsAreOneCheck
<1>3. CASE \/ \E h \in Hashes : Sync(h)
           \/ \E h \in Unsettled : Reorg(h)
           \/ \E m \in Modes : StartRun(m)
           \/ Finish
           \/ UNCHANGED vars
  <2>1. table' = table /\ UNCHANGED <<wpc, entry, outcome>>
    BY <1>3 DEF Sync, Reorg, StartRun, Finish, vars, workerVars
  <2> QED BY <1>0, <1>1, <2>1, PlacesOnly
<1>4. ASSUME Exit PROVE CheckInv'
  <2>1. Wait(Workers) /\ table' = table
    BY <1>4 DEF Exit
  <2>2. \A w \in Workers : wpc'[w] = "wait"
    BY <2>1 DEF Wait
  <2> QED BY <1>0, <1>1, <2>1, <2>2, PlacesOnly
<1>5. ASSUME NEW w \in Workers, Take(w) \/ LookNoHeader(w) \/ Hang(w) PROVE CheckInv'
  <2>1. table' = table
    BY <1>5 DEF Take, LookNoHeader, Hang
  <2>2. \A v \in Workers : wpc'[v] \in {"pay", "save"} =>
           wpc'[v] = wpc[v] /\ entry'[v] = entry[v] /\ outcome'[v] = outcome[v]
    BY <1>5 DEF Take, LookNoHeader, Wait, Hang, CheckInv, TypeOK
  <2> QED BY <1>0, <1>1, <2>1, <2>2, PlacesOnly
<1>6. ASSUME NEW w \in Workers, LookNotFound(w) \/ LookNotFoundOnBackup(w) \/ LookMissed(w)
      PROVE  CheckInv'
  <2>1. CASE LookMissed(w)
    <3>1. IsCheckOf(Missed, entry[w]) /\ WillSave(w, Missed)
      BY <2>1 DEF LookMissed, IsCheckOf
    <3> QED BY <1>0, <1>1, <3>1, CheckKeeps
  <2>2. CASE LookNotFound(w) \/ LookNotFoundOnBackup(w)
    <3>1. IsCheckOf(NotFound, entry[w]) /\ WillSave(w, NotFound)
      BY <2>2 DEF LookNotFound, LookNotFoundOnBackup, IsCheckOf
    <3> QED BY <1>0, <1>1, <3>1, CheckKeeps
  <2> QED BY <1>6, <2>1, <2>2
<1>7. ASSUME NEW w \in Workers, LookFound(w) PROVE CheckInv'
  <2>1. /\ table' = table /\ entry' = entry /\ outcome' = outcome
        /\ entry[w].hash \in known \cap EverOnChain
        /\ \A v \in Workers : v = w \/ wpc'[v] = wpc[v]
        /\ wpc'[w] = "pay"
    BY <1>7 DEF LookFound, WillPay, EverOnChain, CheckInv, TypeOK
  <2>2. WorkersOK'
    BY <1>0, <2>1, OutcomesKept
  <2> QED BY <1>0, <1>1, <2>1, <2>2, ColumnsKept DEF CheckInv
<1>8. ASSUME NEW w \in Workers, Pay(w) PROVE CheckInv'
  <2>1. PICK d \in DeliveredRead(entry[w].hash), c \in CoinbaseRead(entry[w].hash) :
          WillSave(w, Checked(entry[w], d, c))
    BY <1>8 DEF Pay
  <2>2. entry[w].hash \in known \cap EverOnChain
    BY <1>8 DEF Pay, CheckInv
  <2>3. /\ d \in EverRead(entry[w].hash, Blocks[entry[w].hash].delivered)
        /\ c \in EverRead(entry[w].hash, Blocks[entry[w].hash].coinbaseDiff)
    BY <2>2 DEF DeliveredRead, CoinbaseRead, Reading, EverRead, EverOnChain
  <2>4. IsCheckOf(Checked(entry[w], d, c), entry[w])
    BY <2>2, <2>3 DEF IsCheckOf
  <2> QED BY <1>0, <1>1, <2>1, <2>4, CheckKeeps
<1>9. ASSUME NEW w \in Workers, Save(w) PROVE CheckInv'
  <2>1. \A v \in Workers : wpc'[v] \in {"pay", "save"} =>
           wpc'[v] = wpc[v] /\ entry'[v] = entry[v] /\ outcome'[v] = outcome[v]
    BY <1>9 DEF Save, Wait, CheckInv, TypeOK
  <2>2. WorkersOK'
    BY <1>0, <2>1, OutcomesKept
  <2> QED BY <1>0, <1>1, <1>9, <2>2, SaveKeeps
<1> QED BY <1>1, <1>2, <1>3, <1>4, <1>5, <1>6, <1>7, <1>8, <1>9
        DEF Next, WorkerStep, Look, Fatal, Panic

\* A row's columns are those of one check of one row of its slot, whatever the
\* interleaving of workers that write by slot, and whatever the chain does meanwhile.
THEOREM ColumnsHold == Spec => []ColumnsAreOneCheck
<1>1. CheckInv /\ [Next]_vars => CheckInv'
  BY CheckStep
<1>2. CheckInv => ColumnsAreOneCheck
  BY DEF CheckInv
<1> QED BY <1>1, <1>2, CheckInit, PTL DEF Spec

\* A row is marked as paid only if a block of its slot paid what was claimed, or
\* left the chain while its balances were read.
THEOREM OkHolds == Spec => []OkMeansPaid
<1>1. ColumnsAreOneCheck /\ TypeOK => OkMeansPaid
  <2> SUFFICES ASSUME ColumnsAreOneCheck, TypeOK, ~ CheckTx,
                      NEW r \in DOMAIN table, table[r].ok = {TRUE}
               PROVE  \E q \in Targets(r) : Paid(q)
    BY DEF OkMeansPaid
  <2>1. table[r].ok # NULL
    BY DEF NULL
  <2>2. table[r] # Unset /\ table[r] # NotFound /\ table[r] # Missed
    BY <2>1, NullVerdict
  <2>3. PICK q \in Targets(r) : IsCheckOf(table[r], q)
    BY <2>2 DEF ColumnsAreOneCheck
  <2>4. q \in Rows /\ Blocks[q.hash] \in BlockType
    BY <2>3, BlockTypes DEF Targets, TypeOK
  <2>5. PICK d \in EverRead(q.hash, Blocks[q.hash].delivered),
             e \in EverRead(q.hash, Blocks[q.hash].coinbaseDiff) :
               q.hash \in EverOnChain /\ table[r] = Checked(q, d, e)
    BY <2>2, <2>3 DEF IsCheckOf
  <2>6. d \in Int
    BY <2>4, BlocksAssumption DEF EverRead, BlockType
  <2>7. \/ q.claimed = d
        \/ Blocks[q.hash].lastTx = "recipient" /\ Blocks[q.hash].lastValue = q.claimed
    BY <2>4, <2>5, <2>6, ZeroMeansPaid
  <2>8. Paid(q)
    BY <2>5, <2>7 DEF Paid
  <2> QED BY <2>3, <2>8
<1> QED BY <1>1, ColumnsHold, TypeCorrect, PTL

-----------------------------------------------------------------------------
(* Verdicts are final in default runs.                                     *)

\* Candidates of a default run have no verdict.
LEMMA SelectedHaveNone ==
    ASSUME NEW m, m.kind = "unchecked", NEW S, IsSelection(S, m)
    PROVE  \A r \in S : r \in DOMAIN table /\ table[r].ok = NULL
BY DEF IsSelection, Candidates

\* A step in which the table, the queue and the run stay, and no worker takes
\* another entry.
LEMMA PlacesKept ==
    ASSUME VerdictInv, TypeOK', table' = table, queue' = queue, mode' = mode,
           \A w \in Workers : wpc'[w] # "wait" => wpc[w] # "wait" /\ entry'[w] = entry[w]
    PROVE  VerdictInv'
BY DEF VerdictInv, OncePlaced, NoVerdictYet, Busy

\* The process ends: nothing is queued and no worker is busy.
LEMMA ExitKeeps ==
    ASSUME VerdictInv, TypeOK', Exit
    PROVE  VerdictInv'
<1>1. queue' = {} /\ \A w \in Workers : wpc'[w] = "wait"
  BY WaitTypes DEF Exit, VerdictInv
<1> QED BY <1>1 DEF VerdictInv, OncePlaced, NoVerdictYet, Busy

\* No step gives a row with a verdict another one, nor puts it back to work.
LEMMA VerdictStep == VerdictInv /\ [Next]_vars => VerdictInv'
<1> SUFFICES ASSUME VerdictInv, [Next]_vars, TypeOK, TypeOK' PROVE VerdictInv'
  BY TypeStep DEF VerdictInv
<1>1. ASSUME NEW r \in Rows, Insert(r) PROVE VerdictInv'
  <2>1. \A q \in DOMAIN table : table'[q] = table[q]
    BY <1>1 DEF Insert
  <2>2. UNCHANGED <<queue, mode, wpc, entry>>
    BY <1>1 DEF Insert, workerVars
  <2> QED BY <2>1, <2>2 DEF VerdictInv, OncePlaced, NoVerdictYet, Busy, TypeOK
<1>2. CASE (\E h \in Hashes : Sync(h)) \/ (\E h \in Unsettled : Reorg(h))
  <2>1. UNCHANGED <<table, queue, mode, wpc, entry>>
    BY <1>2 DEF Sync, Reorg, workerVars
  <2> QED BY <2>1, PlacesKept
<1>3. ASSUME NEW m \in Modes, StartRun(m) PROVE VerdictInv'
  <2>1. \A w \in Workers : wpc'[w] = "wait"
    BY <1>3 DEF StartRun, workerVars, TypeOK
  <2>2. mode'.kind = "unchecked" => \A r \in queue' : table'[r].ok = NULL
    BY <1>3, SelectedHaveNone DEF StartRun
  <2> QED BY <2>1, <2>2 DEF VerdictInv, OncePlaced, NoVerdictYet, Busy
<1>4. ASSUME NEW w \in Workers, Take(w) PROVE VerdictInv'
  <2>1. /\ entry'[w] \in queue /\ queue' = queue \ {entry'[w]} /\ wpc[w] = "wait"
        /\ table' = table /\ mode' = mode
        /\ \A v \in Workers : v # w => entry'[v] = entry[v] /\ wpc'[v] = wpc[v]
    BY <1>4 DEF Take, TypeOK
  <2>2. OncePlaced'
    BY <2>1 DEF VerdictInv, OncePlaced, Busy
  <2>3. NoVerdictYet'
    BY <2>1 DEF VerdictInv, NoVerdictYet, Busy
  <2> QED BY <2>2, <2>3 DEF VerdictInv
<1>5. ASSUME NEW w \in Workers, wpc[w] # "wait", NEW c, WillSave(w, c) PROVE VerdictInv'
  <2>1. \A v \in Workers : wpc'[v] # "wait" => wpc[v] # "wait" /\ entry'[v] = entry[v]
    BY <1>5 DEF WillSave, TypeOK
  <2> QED BY <1>5, <2>1, PlacesKept DEF WillSave
<1>6. ASSUME NEW w \in Workers, Look(w) \/ Pay(w) \/ Panic(w) \/ Hang(w) PROVE VerdictInv'
  <2>1. CASE LookNotFound(w) \/ LookNotFoundOnBackup(w) \/ LookMissed(w) \/ Pay(w)
    BY <1>5, <2>1 DEF LookNotFound, LookNotFoundOnBackup, LookMissed, Pay
  <2>2. CASE LookNoHeader(w)
    <3>1. Wait({w}) /\ UNCHANGED <<table, queue, mode>>
      BY <2>2 DEF LookNoHeader
    <3> QED BY <3>1, WaitTypes, PlacesKept
  <2>3. CASE Panic(w)
    BY <2>3, ExitKeeps DEF Panic
  <2>4. CASE LookFound(w) \/ Hang(w)
    <3>1. /\ UNCHANGED <<table, queue, mode, entry>>
          /\ \A v \in Workers : wpc'[v] # "wait" => wpc[v] # "wait"
      BY <2>4 DEF LookFound, WillPay, Hang, TypeOK
    <3> QED BY <3>1, PlacesKept
  <2> QED BY <1>6, <2>1, <2>2, <2>3, <2>4 DEF Look
<1>7. ASSUME NEW w \in Workers, Save(w) PROVE VerdictInv'
  <2>1. Wait({w}) /\ UNCHANGED <<queue, mode>> /\ DOMAIN table' = DOMAIN table
    BY <1>7 DEF Save
  <2>2. \A v \in Workers : wpc'[v] # "wait" => v # w /\ wpc[v] # "wait" /\ entry'[v] = entry[v]
    BY <2>1, WaitTypes
  <2>3. entry[w] \in DOMAIN table /\ wpc[w] # "wait"
    BY <1>7 DEF Save, TypeOK
  <2>4. \A r \in DOMAIN table : Alone(r) /\ r # entry[w] => table'[r] = table[r]
    BY <1>7, <2>3 DEF Save, Targets, Alone, TypeOK
  <2>5. OncePlaced'
    BY <2>1, <2>2 DEF VerdictInv, OncePlaced, Busy
  <2>6. NoVerdictYet'
    <3>1. \A r \in queue : r # entry[w] /\ r \in DOMAIN table
      BY <2>3 DEF VerdictInv, OncePlaced, Busy, TypeOK
    <3>2. \A v \in Workers : wpc'[v] # "wait" => entry[v] # entry[w] /\ entry[v] \in DOMAIN table
      BY <2>2, <2>3 DEF VerdictInv, OncePlaced, Busy, TypeOK
    <3> QED BY <2>1, <2>2, <2>4, <3>1, <3>2 DEF VerdictInv, NoVerdictYet, Busy, Alone
  <2> QED BY <2>5, <2>6 DEF VerdictInv
<1>8. CASE Finish
  <2>1. queue' = {} /\ \A w \in Workers : wpc'[w] = "wait"
    BY <1>8 DEF Finish, workerVars
  <2> QED BY <2>1 DEF VerdictInv, OncePlaced, NoVerdictYet, Busy
<1>9. CASE Fatal
  BY <1>9, ExitKeeps DEF Fatal
<1>10. CASE UNCHANGED vars
  BY <1>10, PlacesKept DEF vars, workerVars
<1> QED BY <1>1, <1>2, <1>3, <1>4, <1>6, <1>7, <1>8, <1>9, <1>10 DEF Next, WorkerStep

\* Only Save changes a verdict, and in a default run not that of a row that has one.
LEMMA OnlySaveChanges ==
    ASSUME VerdictInv, [Next]_vars, NEW r \in DOMAIN table, table[r].ok # NULL, Alone(r),
           mode.kind = "unchecked"
    PROVE  table'[r].ok = table[r].ok
<1>1. ASSUME NEW q \in Rows, Insert(q) PROVE table'[r] = table[r]
  BY <1>1 DEF Insert
<1>2. ASSUME NEW w \in Workers, Save(w) PROVE table'[r] = table[r]
  <2>1. entry[w] \in Rows /\ Busy(w)
    BY <1>2 DEF Save, VerdictInv, TypeOK, Busy
  <2>2. entry[w] # r
    BY <2>1 DEF VerdictInv, NoVerdictYet
  <2> QED BY <1>2, <2>1, <2>2 DEF Save, Targets, Alone
<1>3. ASSUME NEW w \in Workers, Take(w) \/ Look(w) \/ Pay(w) \/ Panic(w) \/ Hang(w)
      PROVE  table' = table
  BY <1>3 DEF Look, Take, LookNotFound, LookNotFoundOnBackup, LookMissed, LookFound, WillPay,
              LookNoHeader, Pay, Panic, Hang, Exit, WillSave
<1> QED BY <1>1, <1>2, <1>3 DEF Next, WorkerStep, Sync, Reorg, StartRun, Finish, Fatal, Exit, vars

\* Whatever the pool and the order of selections, default runs never overwrite the
\* verdict of a slot with one row.
THEOREM VerdictsHold == Spec => VerdictsStay
<1>1. Init => VerdictInv
  BY TypeInit DEF Init, VerdictInv, OncePlaced, NoVerdictYet, Busy
<1>2. VerdictInv /\ [Next]_vars => VerdictInv'
  BY VerdictStep
<1>3. VerdictInv /\ [Next]_vars =>
        [\A r \in DOMAIN table :
            (/\ table[r].ok # NULL
             /\ \A q \in Rows : q.slot = r.slot => q = r
             /\ mode.kind = "unchecked")
            => table'[r].ok = table[r].ok]_vars
  BY OnlySaveChanges DEF Alone
<1> QED BY <1>1, <1>2, <1>3, PTL DEF Spec, VerdictsStay
=============================================================================
