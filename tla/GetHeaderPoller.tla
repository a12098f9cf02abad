-------------------------- MODULE GetHeaderPoller --------------------------
(***************************************************************************)
(* The getHeader poller of the bid collector (getheader-poller.go): on     *)
(* each head event of the beacon node it refreshes the proposer duties if  *)
(* the epoch is new, fetches the head block, and starts a goroutine that   *)
(* asks every relay for a header one second into the next slot; answers go *)
(* through a bounded channel to the collector's select loop.  Head events  *)
(* are late, lost, repeated or of an older slot, and requests fail.        *)
(*                                                                         *)
(* The clock counts polling instants: now = s once slot s is a second old. *)
(***************************************************************************)
EXTENDS Integers, Sequences

CONSTANTS
    Relays,         \* relays that are polled
    Hashes,         \* block hashes, two blocks of a slot differ in theirs
    SlotsPerEpoch,
    ChannelSize,    \* BidCollectorInputChannelSize
    StartSlot,      \* the clock's first value
    MaxSlot,        \* bound: the clock's last value
    MaxBlocks,      \* bound: head blocks
    MaxFaults       \* bound: failed requests to the beacon node

ASSUME SlotsAssumption ==
    /\ SlotsPerEpoch \in Nat \ {0}
    /\ StartSlot \in Nat \ {0}
    /\ MaxSlot \in Nat
    /\ StartSlot <= MaxSlot
ASSUME BoundsAssumption ==
    /\ ChannelSize \in Nat \ {0}
    /\ MaxBlocks \in Nat
    /\ MaxFaults \in Nat
    /\ Hashes # {}

VARIABLES
    now,                  \* the wall clock
    head,                 \* the beacon node's head block: [slot, hash]
    events,               \* slots of the head events not yet received
    pc,                   \* "wait", "duties", "nextDuties" or "block"
    headSlot,             \* slot of the event at hand
    duties,               \* slots with a known proposer
    lastDutyUpdateEpoch,
    polls,                \* goroutines pollRelaysForBids: [slot, parent, st]
    requests,             \* requests: [relay, slot, parent], and whether a bid has come
    bidC,                 \* the channel: answered requests
    processed,            \* answers the select loop took
    asked,                \* observer: slot -> times its polling was started
    noDuty,               \* observer: slots not polled for want of a proposer
    dutyFailed,           \* observer: epochs whose duties could not be fetched
    nBlocks,
    nFaults

envVars  == <<now, head, events, nBlocks>>
loopVars == <<pc, headSlot, duties, lastDutyUpdateEpoch>>
pollVars == <<polls, requests, bidC, processed>>
obsVars  == <<asked, noDuty, dutyFailed>>
vars == <<envVars, loopVars, pollVars, obsVars, nFaults>>

-----------------------------------------------------------------------------
Slots == 0 .. MaxSlot + 2   \* a head may be a slot ahead of now, a poll two
EpochOf(s) == s \div SlotsPerEpoch
SlotsOf(e) == {s \in Slots : EpochOf(s) = e}
nextSlot == headSlot + 1

Tick ==
    /\ now < MaxSlot
    /\ now' = now + 1
    /\ UNCHANGED <<head, events, nBlocks, loopVars, pollVars, obsVars, nFaults>>

\* The beacon node has a new head, of a later slot or, after a reorganisation,
\* of the same or an earlier one; its event may be lost.
NewHead(s, h) ==
    /\ nBlocks < MaxBlocks
    /\ nBlocks' = nBlocks + 1
    /\ [slot |-> s, hash |-> h] # head
    /\ s <= now + 1
    /\ head' = [slot |-> s, hash |-> h]
    /\ events' \in {Append(events, s), events}
    /\ UNCHANGED <<now, loopVars, pollVars, obsVars, nFaults>>

-----------------------------------------------------------------------------
(* Start: the loop over the head events.                                    *)

NeedsDutiesOnce == duties = {}

NeedsDuties ==
    \/ duties = {}
    \/ EpochOf(Head(events)) > lastDutyUpdateEpoch

IsOldStrict(s) == s < headSlot
IsOld(s) == s <= headSlot

SkipEvent ==
    /\ pc = "wait"
    /\ events # <<>>
    /\ IsOld(Head(events))
    /\ events' = Tail(events)
    /\ UNCHANGED <<now, head, nBlocks, loopVars, pollVars, obsVars, nFaults>>

TakeEvent ==
    /\ pc = "wait"
    /\ events # <<>>
    /\ ~ IsOld(Head(events))
    /\ headSlot' = Head(events)
    /\ events' = Tail(events)
    /\ pc' = IF NeedsDuties THEN "duties" ELSE "block"
    /\ UNCHANGED <<now, head, nBlocks, duties, lastDutyUpdateEpoch, pollVars, obsVars, nFaults>>

Fault ==
    /\ nFaults < MaxFaults
    /\ nFaults' = nFaults + 1

\* The duties of the current epoch replace the old ones.
GetDuties ==
    /\ pc = "duties"
    /\ duties' = SlotsOf(EpochOf(headSlot))
    /\ pc' = "nextDuties"
    /\ UNCHANGED <<envVars, headSlot, lastDutyUpdateEpoch, pollVars, obsVars, nFaults>>

\* They are asked for again with the next event.
GetDutiesFails ==
    /\ pc = "duties"
    /\ Fault
    /\ dutyFailed' = dutyFailed \cup {EpochOf(headSlot)}
    /\ pc' = "wait"
    /\ UNCHANGED <<envVars, headSlot, duties, lastDutyUpdateEpoch, pollVars, asked, noDuty>>

GetNextDuties ==
    /\ pc = "nextDuties"
    /\ duties' = duties \cup SlotsOf(EpochOf(headSlot) + 1)
    /\ lastDutyUpdateEpoch' = EpochOf(headSlot)
    /\ pc' = "block"
    /\ UNCHANGED <<envVars, headSlot, pollVars, obsVars, nFaults>>

\* The epoch counts as updated nevertheless.
GetNextDutiesFails ==
    /\ pc = "nextDuties"
    /\ Fault
    /\ dutyFailed' = dutyFailed \cup {EpochOf(headSlot) + 1}
    /\ lastDutyUpdateEpoch' = EpochOf(headSlot)
    /\ pc' = "block"
    /\ UNCHANGED <<envVars, headSlot, duties, pollVars, asked, noDuty>>

GetBlockFails ==
    /\ pc = "block"
    /\ Fault
    /\ pc' = "wait"
    /\ UNCHANGED <<envVars, headSlot, duties, lastDutyUpdateEpoch, pollVars, obsVars>>

\* The node's head has moved on since the event.
GetOtherBlock ==
    /\ pc = "block"
    /\ head.slot # headSlot
    /\ pc' = "wait"
    /\ UNCHANGED <<envVars, headSlot, duties, lastDutyUpdateEpoch, pollVars, obsVars, nFaults>>

GetAnyBlock ==
    /\ pc = "block"
    /\ pc' = "wait"
    /\ IF nextSlot \in duties
       THEN /\ polls' = polls \cup {[slot |-> nextSlot, parent |-> head, st |-> "new"]}
            /\ asked' = [asked EXCEPT ![nextSlot] = @ + 1]
            /\ UNCHANGED noDuty
       ELSE /\ noDuty' = noDuty \cup {nextSlot}
            /\ UNCHANGED <<polls, asked>>
    /\ UNCHANGED <<envVars, headSlot, duties, lastDutyUpdateEpoch, requests, bidC, processed,
                   dutyFailed, nFaults>>

\* Polling of the next slot is started, if its proposer is known.
GetBlock ==
    /\ pc = "block"
    /\ head.slot = headSlot
    /\ pc' = "wait"
    /\ IF nextSlot \in duties
       THEN /\ polls' = polls \cup {[slot |-> nextSlot, parent |-> head, st |-> "new"]}
            /\ asked' = [asked EXCEPT ![nextSlot] = @ + 1]
            /\ UNCHANGED noDuty
       ELSE /\ noDuty' = noDuty \cup {nextSlot}
            /\ UNCHANGED <<polls, asked>>
    /\ UNCHANGED <<envVars, headSlot, duties, lastDutyUpdateEpoch, requests, bidC, processed,
                   dutyFailed, nFaults>>

-----------------------------------------------------------------------------
(* pollRelaysForBids and its requests, each a goroutine.                    *)

\* The instant has passed: the goroutine returns.
PollTooLate(p) ==
    /\ p.st = "new"
    /\ now >= p.slot
    /\ polls' = polls \ {p}
    /\ UNCHANGED <<envVars, loopVars, requests, bidC, processed, obsVars, nFaults>>

PollSleeps(p) ==
    /\ p.st = "new"
    /\ now < p.slot
    /\ polls' = (polls \ {p}) \cup {[p EXCEPT !.st = "sleep"]}
    /\ UNCHANGED <<envVars, loopVars, requests, bidC, processed, obsVars, nFaults>>

PollWakes(p) ==
    /\ p.st = "sleep"
    /\ now >= p.slot
    /\ polls' = polls \ {p}
    /\ requests' = requests \cup
        {[relay |-> r, slot |-> p.slot, parent |-> p.parent, bid |-> FALSE] : r \in Relays}
    /\ UNCHANGED <<envVars, loopVars, bidC, processed, obsVars, nFaults>>

\* No bid, too many requests, an error, or a code other than 200.
NoBid(q) ==
    /\ ~ q.bid
    /\ requests' = requests \ {q}
    /\ UNCHANGED <<envVars, loopVars, polls, bidC, processed, obsVars, nFaults>>

\* The relay answers with a bid.
Answer(q) ==
    /\ ~ q.bid
    /\ requests' = (requests \ {q}) \cup {[q EXCEPT !.bid = TRUE]}
    /\ UNCHANGED <<envVars, loopVars, polls, bidC, processed, obsVars, nFaults>>

SendBidUnbounded(q) ==
    /\ q.bid
    /\ bidC' = Append(bidC, q)
    /\ requests' = requests \ {q}
    /\ UNCHANGED <<envVars, loopVars, polls, processed, obsVars, nFaults>>

\* The bid is sent to the channel; the goroutine blocks while it is full.
SendBid(q) ==
    /\ q.bid
    /\ Len(bidC) < ChannelSize
    /\ bidC' = Append(bidC, q)
    /\ requests' = requests \ {q}
    /\ UNCHANGED <<envVars, loopVars, polls, processed, obsVars, nFaults>>

ProcessBidOnce ==
    /\ bidC # <<>>
    /\ processed = {}
    /\ processed' = processed \cup {Head(bidC)}
    /\ bidC' = Tail(bidC)
    /\ UNCHANGED <<envVars, loopVars, polls, requests, obsVars, nFaults>>

\* The collector's select loop.
ProcessBid ==
    /\ bidC # <<>>
    /\ processed' = processed \cup {Head(bidC)}
    /\ bidC' = Tail(bidC)
    /\ UNCHANGED <<envVars, loopVars, polls, requests, obsVars, nFaults>>

-----------------------------------------------------------------------------
\* The loop's variables have Go's zero values.
Init ==
    /\ now = StartSlot
    /\ \E h \in Hashes : head = [slot |-> StartSlot, hash |-> h]
    /\ events = <<>>
    /\ pc = "wait"
    /\ headSlot = 0
    /\ duties = {}
    /\ lastDutyUpdateEpoch = 0
    /\ polls = {}
    /\ requests = {}
    /\ bidC = <<>>
    /\ processed = {}
    /\ asked = [s \in Slots |-> 0]
    /\ noDuty = {}
    /\ dutyFailed = {}
    /\ nBlocks = 0
    /\ nFaults = 0

Env == Tick \/ \E s \in 1 .. MaxSlot + 1, h \in Hashes : NewHead(s, h)

LoopStep ==
    \/ SkipEvent \/ TakeEvent
    \/ GetDuties \/ GetDutiesFails \/ GetNextDuties \/ GetNextDutiesFails
    \/ GetBlockFails \/ GetOtherBlock \/ GetBlock

PollStep == \E p \in polls : PollTooLate(p) \/ PollSleeps(p) \/ PollWakes(p)

RelayStep == \E q \in requests : NoBid(q) \/ Answer(q)

SendStep == \E q \in requests : SendBid(q)

Next == Env \/ LoopStep \/ PollStep \/ RelayStep \/ SendStep \/ ProcessBid

\* Time passes and every goroutine that can run does.  Relays and the beacon
\* node need not answer: the HTTP clients have no timeout.
Fairness ==
    /\ WF_vars(Tick)
    /\ WF_vars(PollStep)
    /\ WF_vars(SendStep)
    /\ WF_vars(ProcessBid)

Spec == Init /\ [][Next]_vars /\ Fairness

-----------------------------------------------------------------------------
Blocks == [slot : Slots, hash : Hashes]
Requests == [relay : Relays, slot : Slots, parent : Blocks, bid : BOOLEAN]

\* Every variable has its type and the channel respects its size.
TypeOK ==
    /\ now \in StartSlot .. MaxSlot
    /\ head \in Blocks /\ head.slot <= MaxSlot + 1
    /\ events \in Seq(1 .. MaxSlot + 1)
    /\ pc \in {"wait", "duties", "nextDuties", "block"}
    /\ headSlot \in 0 .. MaxSlot + 1
    /\ duties \in SUBSET Slots
    /\ lastDutyUpdateEpoch \in Nat
    /\ polls \in SUBSET [slot : Slots, parent : Blocks, st : {"new", "sleep"}]
    /\ requests \in SUBSET Requests
    /\ bidC \in Seq(Requests) /\ Len(bidC) <= ChannelSize
    /\ processed \in SUBSET Requests
    /\ asked \in [Slots -> Nat]
    /\ noDuty \in SUBSET Slots
    /\ dutyFailed \in SUBSET Nat
    /\ nBlocks \in 0 .. MaxBlocks
    /\ nFaults \in 0 .. MaxFaults

\* The relays are asked at most once for a slot, however often head events are
\* repeated, reordered or lost, and although a slot may be skipped and retried.
PolledOnce == \A s \in Slots : asked[s] <= 1

Asks == polls \cup requests \cup processed \cup {bidC[i] : i \in DOMAIN bidC}

\* The parent hash in a request is that of a block one slot earlier: a head
\* that moved on while the duties were fetched is never used as the parent.
ParentIsPreviousSlot == \A q \in Asks : q.parent.slot = q.slot - 1

\* A slot is given up for want of a proposer only if a request for its epoch's
\* duties failed: neither skipped slots at an epoch's border nor late events
\* leave the map without the next slot.
NoDutyOnlyAfterFailure == \A s \in noDuty : EpochOf(s) \in dutyFailed

\* A polling that is started comes to its requests or returns, and a bid that
\* was answered gets out of its goroutine, whatever the channel's bound and
\* however many other requests hang.
Waiting(s) ==
    \/ s <= MaxSlot /\ \E p \in polls : p.slot = s
    \/ \E q \in requests : q.slot = s /\ q.bid

PollsEnd == \A s \in Slots : Waiting(s) ~> ~ Waiting(s)
=============================================================================
