--------------------------- MODULE BackfillRunner ---------------------------
(***************************************************************************)
(* backfill-runner (backfill_runner.go): the service that repeats the      *)
(* backfill of Backfill, and the check of CheckPayload after it, on a      *)
(* ticker, until a signal stops it.  Signals are only caught once the      *)
(* first cycle is over.  The backfill command may be run while the service *)
(* is not.                                                                 *)
(***************************************************************************)
EXTENDS Backfill

VARIABLES
    svc,         \* "off", "cycle" (in runBackfillCycle), "wait" (in select) or
                 \* "hung" (in a cycle, in a request to a node)
    offset,      \* --min-slot of the service
    registered,  \* signal.Notify was called and the ticker made
    sigC         \* signals in sigC, of one place

svcVars == <<svc, offset, registered, sigC>>
runnerVars == <<vars, svcVars>>

StartService(m) ==
    /\ svc = "off"
    /\ pc = "idle"
    /\ NewProcess
    /\ BeginRun(0, m)
    /\ svc' = "cycle"
    /\ offset' = m
    /\ UNCHANGED <<registered, sigC>>

\* The process is gone.
Off ==
    /\ svc' = "off"
    /\ registered' = FALSE
    /\ sigC' = 0
    /\ offset' = 0

EndCycleAndRegister ==
    /\ svc = "cycle"
    /\ pc = "idle"
    /\ svc' = "wait"
    /\ registered' = TRUE
    /\ sigC' = 0
    /\ UNCHANGED offset
    /\ UNCHANGED vars

\* RunBackfill has returned; RunCheckPayloadValue, whose errors are only
\* logged, follows.  After the first cycle the ticker starts.
EndCycle ==
    /\ svc = "cycle"
    /\ pc = "idle"
    /\ svc' = "wait"
    /\ registered' = TRUE
    /\ UNCHANGED <<offset, sigC>>
    /\ UNCHANGED vars

\* A node never answers: of the checker's requests after the backfill, or of
\* the one for the latest slot before it.  None has a timeout.
CycleHangs ==
    /\ \/ svc = "cycle" /\ pc = "idle"
       \/ svc = "wait" /\ offset < 0
    /\ svc' = "hung"
    /\ UNCHANGED <<offset, registered, sigC>>
    /\ UNCHANGED vars

\* With --once the service ends after its first cycle.
EndOnce ==
    /\ svc = "cycle"
    /\ pc = "idle"
    /\ ~ registered
    /\ Off
    /\ UNCHANGED vars

\* A tick, of the interval that is over or of one that ended in the last cycle.
TakeTick ==
    /\ svc = "wait"
    /\ svc' = "cycle"
    /\ BeginRun(0, offset)
    /\ UNCHANGED <<offset, registered, sigC, nRuns>>

\* SIGINT or SIGTERM in a later cycle, or while the service waits: kept, once.
Signal ==
    /\ registered
    /\ sigC' = 1
    /\ UNCHANGED <<svc, offset, registered>>
    /\ UNCHANGED vars

\* In the first cycle nothing catches it: it kills the process.
EarlySignal ==
    /\ svc # "off"
    /\ ~ registered
    /\ Die
    /\ Off
    /\ UNCHANGED nFaults

\* select takes the signal; a tick may be ready as well.
TakeSignal ==
    /\ svc = "wait"
    /\ sigC = 1
    /\ Off
    /\ UNCHANGED vars

KillService ==
    /\ svc # "off"
    /\ Fault
    /\ Die
    /\ Off

RunnerInit ==
    /\ Init
    /\ svc = "off"
    /\ offset = 0
    /\ registered = FALSE
    /\ sigC = 0

RunnerCall ==
    \E m \in MinSlots : StartService(m)

World == NextSlot \/ RelayStep

\* What RunBackfill, the command's run and the world do, as in Backfill.
BackfillAlone ==
    /\ World \/ BackfillStep \/ (svc = "off" /\ (Call \/ Kill))
    /\ UNCHANGED svcVars

RunnerNext ==
    \/ BackfillAlone
    \/ RunnerCall
    \/ EndCycle
    \/ EndOnce
    \/ CycleHangs
    \/ TakeTick
    \/ Signal
    \/ EarlySignal
    \/ TakeSignal
    \/ KillService

\* Cycles go on, until one hangs in a request; ticks come.  select chooses at
\* random among the channels that are ready, so neither is passed over for ever.
RunnerFairness ==
    /\ WF_runnerVars(BackfillStep /\ UNCHANGED svcVars)
    /\ WF_runnerVars(EndCycle \/ EndOnce \/ (svc = "cycle" /\ CycleHangs))
    /\ WF_runnerVars(TakeTick)
    /\ SF_runnerVars(TakeSignal)

RunnerSpec == RunnerInit /\ [][RunnerNext]_runnerVars /\ RunnerFairness

-----------------------------------------------------------------------------
\* The variables of the service have their types; it waits only between two
\* backfills and never without having registered for signals.
RunnerTypeOK ==
    /\ TypeOK
    /\ svc \in {"off", "cycle", "wait", "hung"}
    /\ offset \in MinSlots \cup {0}
    /\ registered \in BOOLEAN
    /\ sigC \in 0 .. 1
    /\ svc = "wait" => pc = "idle" /\ registered
    /\ svc = "hung" => pc = "idle"
    /\ svc = "off" => ~ registered

\* A request that is never answered holds the cycle, signals and all.
Hung == svc = "hung" \/ pc = "hung"

\* Once the service catches signals, one stops it, whenever it comes: between
\* two cycles or in the middle of one that takes longer than the interval, so
\* that a tick is always waiting too.  Only a request without an answer keeps it.
StopsOnSignal == (sigC = 1) ~> (svc = "off" \/ Hung)

CaughtUp ==
    \A p \in delivered :
        p \in db \/ p \in late \/ p.slot < floor \/ p.relay \in interrupted

\* A running service catches up with what the relays deliver, with its own
\* cursor and minimum slot and whatever a cycle's requests run into, except for
\* relays whose backfill was broken off after a page, for payloads listed late,
\* and unless a request is never answered.  (The payloads of the model are
\* finitely many: after the last one, a cycle leaves none behind.)
CatchesUp == registered ~> (CaughtUp \/ svc = "off" \/ Hung)
=============================================================================
