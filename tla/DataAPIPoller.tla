--------------------------- MODULE DataAPIPoller ---------------------------
(***************************************************************************)
(* The data API poller of the bid collector (data-api-poller.go): at the   *)
(* start of every slot it starts a goroutine for each moment, relative to  *)
(* the next slot, at which every relay is asked for the bids it received    *)
(* for that slot.  Answers go through a bounded channel to the collector.  *)
(*                                                                         *)
(* Sleeps follow the monotonic clock and never end early; slots follow the *)
(* wall clock, which may be set while the poller sleeps.  A goroutine may  *)
(* run any time after it could.                                            *)
(***************************************************************************)
EXTENDS Integers, FiniteSets, Sequences

CONSTANTS
    SlotLen,     \* length of a slot (12 seconds)
    Offsets,     \* when to ask, relative to the start of the slot
    Relays,
    ChanSize,    \* room in the channel
    StartNow,    \* the clocks' first value
    Changes,     \* what the wall clock can be changed by
    MaxChanges,  \* bound: changes of the wall clock
    MaxAnswers,  \* bound: answers of relays
    MaxNow       \* bound: the monotonic clock's last value

ASSUME PollerAssumption ==
    /\ SlotLen \in Nat \ {0}
    /\ Offsets \subseteq Int
    /\ IsFiniteSet(Relays)
    /\ ChanSize \in Nat \ {0}
    /\ StartNow \in Nat
    /\ Changes \subseteq Int
    /\ MaxChanges \in Nat
    /\ MaxAnswers \in Nat
    /\ MaxNow \in Nat
    /\ StartNow <= MaxNow

VARIABLES
    now,       \* the monotonic clock
    drift,     \* what the wall clock is ahead of it
    wake,      \* when the loop's sleep ends
    rounds,    \* observer: the loop's passes: the slot, and how its sleep went
    polls,     \* goroutines of pollRelaysForBids
    asked,     \* observer: polls that asked the relays
    inFlight,  \* requests that will be answered
    sending,   \* goroutines that have an answer to send
    bidC,      \* answers in the channel
    collected,  \* answers the collector received
    stepped,   \* observer: the wall clock was changed in the loop's sleep
    setBack,   \* observer: it was set back before
    nChanges

timeVars == <<now, drift>>
loopVars == <<wake, rounds>>
chanVars == <<inFlight, sending, bidC, collected>>
obsVars  == <<stepped, setBack, nChanges>>
pollerVars == <<timeVars, loopVars, polls, asked, chanVars, obsVars>>

-----------------------------------------------------------------------------
NoTime == -1

TimeToSlot(t) == t \div SlotLen
SlotToTime(s) == s * SlotLen

\* time.Now()
Wall == now + drift

Tick ==
    /\ now < MaxNow
    /\ now' = now + 1
    /\ UNCHANGED <<drift, loopVars, polls, asked, chanVars, obsVars>>

\* The wall clock is set.
SetClock(d) ==
    /\ nChanges < MaxChanges
    /\ nChanges' = nChanges + 1
    /\ Wall + d >= 0
    /\ drift' = drift + d
    /\ stepped' = TRUE
    /\ setBack' = (setBack \/ d < 0)
    /\ UNCHANGED <<now, loopVars, polls, asked, chanVars>>

-----------------------------------------------------------------------------
nextSlot == TimeToSlot(Wall) + 1
untilNextSlot == SlotToTime(nextSlot) - Wall

ThisRound ==
    [slot |-> nextSlot, overslept |-> now >= wake + SlotLen, stepped |-> stepped]

\* One pass of the loop: polls for the next slot, then a sleep until time t.
Pass(t) ==
    /\ wake <= now
    /\ rounds' = Append(rounds, ThisRound)
    /\ polls' = polls \cup
         {[round |-> Len(rounds) + 1, slot |-> nextSlot, offset |-> o, at |-> NoTime] :
              o \in Offsets}
    /\ wake' = t
    /\ stepped' = FALSE
    /\ UNCHANGED <<timeVars, asked, chanVars, setBack, nChanges>>

ScheduleAhead == Pass(now + untilNextSlot - 1)
ScheduleInLine == \E o \in Offsets : o >= SlotLen /\ Pass(now + untilNextSlot + o)

\* The loop wakes, and sleeps until the next slot starts.
Schedule == Pass(now + untilNextSlot)

WaitTime(p) == SlotToTime(p.slot) + p.offset - Wall

PollTooLate(p) ==
    /\ p.at = NoTime
    /\ WaitTime(p) < 0
    /\ polls' = polls \ {p}
    /\ UNCHANGED <<timeVars, loopVars, asked, chanVars, obsVars>>

PollSleeps(p) ==
    /\ p.at = NoTime
    /\ WaitTime(p) >= 0
    /\ polls' = (polls \ {p}) \cup {[p EXCEPT !.at = now + WaitTime(p)]}
    /\ UNCHANGED <<timeVars, loopVars, asked, chanVars, obsVars>>

\* A request for each relay; those that fail, or hang, for the client has no
\* timeout, have no effect.
PollWakes(p) ==
    /\ p.at # NoTime
    /\ p.at <= now
    /\ polls' = polls \ {p}
    /\ asked' = asked \cup {[round |-> p.round, slot |-> p.slot, offset |-> p.offset]}
    /\ \E R \in SUBSET Relays :
        /\ inFlight + sending + bidC + collected + Cardinality(R) <= MaxAnswers
        /\ inFlight' = inFlight + Cardinality(R)
    /\ UNCHANGED <<timeVars, loopVars, sending, bidC, collected, obsVars>>

Answer ==
    /\ inFlight > 0
    /\ inFlight' = inFlight - 1
    /\ sending' = sending + 1
    /\ UNCHANGED <<timeVars, loopVars, polls, asked, bidC, collected, obsVars>>

SendUnbounded ==
    /\ sending > 0
    /\ sending' = sending - 1
    /\ bidC' = bidC + 1
    /\ UNCHANGED <<timeVars, loopVars, polls, asked, inFlight, collected, obsVars>>

SendOrDrop ==
    /\ sending > 0
    /\ sending' = sending - 1
    /\ bidC' = IF bidC < ChanSize THEN bidC + 1 ELSE bidC
    /\ UNCHANGED <<timeVars, loopVars, polls, asked, inFlight, collected, obsVars>>

Send ==
    /\ sending > 0
    /\ bidC < ChanSize
    /\ sending' = sending - 1
    /\ bidC' = bidC + 1
    /\ UNCHANGED <<timeVars, loopVars, polls, asked, inFlight, collected, obsVars>>

\* The collector's select takes a message of this channel.
Receive ==
    /\ bidC > 0
    /\ bidC' = bidC - 1
    /\ collected' = collected + 1
    /\ UNCHANGED <<timeVars, loopVars, polls, asked, inFlight, sending, obsVars>>

-----------------------------------------------------------------------------
\* Start sleeps until the next slot first.
PollerInit ==
    /\ now = StartNow
    /\ drift = 0
    /\ wake = SlotToTime(TimeToSlot(StartNow) + 1)
    /\ rounds = <<>>
    /\ polls = {}
    /\ asked = {}
    /\ inFlight = 0
    /\ sending = 0
    /\ bidC = 0
    /\ collected = 0
    /\ stepped = FALSE
    /\ setBack = FALSE
    /\ nChanges = 0

Clocks == Tick \/ \E d \in Changes : SetClock(d)

Poll == \E p \in polls : PollTooLate(p) \/ PollSleeps(p) \/ PollWakes(p)

PollerStep == Clocks \/ Schedule \/ Poll \/ Answer \/ Send \/ Receive

\* The goroutines and the collector's loop run, and select serves every
\* channel; a relay need not answer.
PollerFairness ==
    /\ WF_pollerVars(Schedule)
    /\ WF_pollerVars(Poll)
    /\ WF_pollerVars(Send)
    /\ WF_pollerVars(Receive)

PollerSpec == PollerInit /\ [][PollerStep]_pollerVars /\ PollerFairness

-----------------------------------------------------------------------------
Round == [slot : Nat, overslept : BOOLEAN, stepped : BOOLEAN]

\* Every variable has its type; every poll belongs to a pass of the loop, and the
\* channel is never overfull.
PollerTypeOK ==
    /\ now \in StartNow .. MaxNow
    /\ drift \in Int
    /\ Wall \in Nat
    /\ wake \in Int
    /\ rounds \in Seq(Round)
    /\ polls \subseteq [round : DOMAIN rounds, slot : Nat, offset : Offsets, at : Int]
    /\ asked \subseteq [round : DOMAIN rounds, slot : Nat, offset : Offsets]
    /\ inFlight \in Nat
    /\ sending \in Nat
    /\ bidC \in 0 .. ChanSize
    /\ collected \in Nat
    /\ inFlight + sending + bidC + collected <= MaxAnswers
    /\ stepped \in BOOLEAN
    /\ setBack \in BOOLEAN
    /\ nChanges \in 0 .. MaxChanges

\* No slot is asked for twice at the same offset, however late goroutines run and
\* although the last polls of a slot are still asleep when later ones start,
\* unless the wall clock was set back.
AskedOnce ==
    setBack \/ \A p, q \in asked : (p.slot = q.slot /\ p.offset = q.offset) => p = q

\* The loop passes over a slot, or takes one twice, only after it overslept a
\* whole slot or the wall clock was changed while it slept.
NoSlotSkipped ==
    \A i \in DOMAIN rounds :
        (i > 1 /\ ~ rounds[i].overslept /\ ~ rounds[i].stepped)
            => rounds[i].slot = rounds[i - 1].slot + 1

\* Every answer gets to the collector, although the channel may be full when it
\* comes: the goroutine waits.
AnswersAreReceived ==
    \A n \in 1 .. MaxAnswers : (sending + bidC + collected >= n) ~> (collected >= n)
=============================================================================
