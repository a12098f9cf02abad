---------------------- MODULE GetHeaderPoller_proofs ----------------------
(***************************************************************************)
(* Proofs about GetHeaderPoller, for every number of relays, blocks and    *)
(* slots and every length of an epoch.                                     *)
(***************************************************************************)
EXTENDS GetHeaderPoller, TLAPS

USE SlotsAssumption, BoundsAssumption

\* Head and tail of a non-empty sequence.
LEMMA HeadTail ==
    ASSUME NEW S, NEW s \in Seq(S), s # <<>>
    PROVE  Head(s) \in S /\ Tail(s) \in Seq(S) /\ Len(Tail(s)) = Len(s) - 1
  OBVIOUS

\* The epoch of a slot is a number.
LEMMA EpochType ==
    ASSUME NEW s \in Nat
    PROVE  EpochOf(s) \in Nat
  BY DEF EpochOf

\* Epochs do not decrease with the slot.
LEMMA EpochMonotone ==
    ASSUME NEW s \in Nat, NEW t \in Nat, s <= t
    PROVE  EpochOf(s) <= EpochOf(t)
  BY DEF EpochOf

\* The next slot is in the same epoch or in the next one.
LEMMA EpochNext ==
    ASSUME NEW s \in Nat
    PROVE  EpochOf(s + 1) \in {EpochOf(s), EpochOf(s) + 1}
  BY DEF EpochOf

LEMMA NextIsLater == \A s, t \in Nat : s <= t => s <= t + 1
  OBVIOUS

-----------------------------------------------------------------------------
(* Type correctness.                                                        *)

LEMMA InitType == Init => TypeOK
<1> SUFFICES ASSUME Init PROVE TypeOK
  OBVIOUS
<1>1. PICK h \in Hashes : head = [slot |-> StartSlot, hash |-> h]
  BY DEF Init
<1>2. head \in Blocks /\ head.slot <= MaxSlot + 1
  BY <1>1 DEF Blocks, Slots
<1>3. asked \in [Slots -> Nat]
  BY DEF Init
<1>4. events \in Seq(1 .. MaxSlot + 1) /\ bidC \in Seq(Requests) /\ Len(bidC) <= ChannelSize
  BY DEF Init
<1>5. QED
  BY <1>2, <1>3, <1>4 DEF Init, TypeOK

\* A new head is a block, and its event a slot.
LEMMA NewHeadType ==
    ASSUME TypeOK, NEW s \in 1 .. MaxSlot + 1, NEW h \in Hashes, NewHead(s, h)
    PROVE  TypeOK'
<1>1. head' \in Blocks /\ head'.slot <= MaxSlot + 1
  BY DEF NewHead, Blocks, Slots
<1>2. events' \in Seq(1 .. MaxSlot + 1)
  <2>1. events \in Seq(1 .. MaxSlot + 1)
    BY DEF TypeOK
  <2>2. Append(events, s) \in Seq(1 .. MaxSlot + 1)
    BY <2>1
  <2>3. events' = events \/ events' = Append(events, s)
    BY DEF NewHead
  <2>4. QED
    BY <2>1, <2>2, <2>3
<1>3. nBlocks' \in 0 .. MaxBlocks
  BY DEF NewHead, TypeOK
<1>4. QED
  BY <1>1, <1>2, <1>3 DEF NewHead, TypeOK, loopVars, pollVars, obsVars

\* The loop of Start keeps the types.
LEMMA LoopType ==
    ASSUME TypeOK, LoopStep
    PROVE  TypeOK'
<1>0. headSlot \in Nat
  BY DEF TypeOK
<1>1. EpochOf(headSlot) \in Nat
  BY <1>0, EpochType
<1>2. ASSUME events # <<>>
      PROVE  Head(events) \in 1 .. MaxSlot + 1 /\ Tail(events) \in Seq(1 .. MaxSlot + 1)
  <2>1. events \in Seq(1 .. MaxSlot + 1)
    BY DEF TypeOK
  <2>2. QED
    BY <1>2, <2>1, HeadTail
<1>3. CASE SkipEvent
  BY <1>2, <1>3 DEF SkipEvent, TypeOK, loopVars, pollVars, obsVars
<1>4. CASE TakeEvent
  BY <1>2, <1>4 DEF TakeEvent, TypeOK, pollVars, obsVars
<1>5. CASE GetDuties
  BY <1>5 DEF GetDuties, TypeOK, SlotsOf, envVars, pollVars, obsVars
<1>6. CASE GetDutiesFails
  <2>1. dutyFailed' \in SUBSET Nat
    BY <1>1, <1>6 DEF GetDutiesFails, TypeOK
  <2>2. nFaults' \in 0 .. MaxFaults
    BY <1>6 DEF GetDutiesFails, Fault, TypeOK
  <2>3. QED
    BY <1>6, <2>1, <2>2 DEF GetDutiesFails, TypeOK, envVars, pollVars
<1>7. CASE GetNextDuties
  BY <1>1, <1>7 DEF GetNextDuties, TypeOK, SlotsOf, envVars, pollVars, obsVars
<1>8. CASE GetNextDutiesFails
  <2>0. EpochOf(headSlot) + 1 \in Nat
    BY <1>1
  <2>1. dutyFailed' \in SUBSET Nat
    BY <1>8, <2>0 DEF GetNextDutiesFails, TypeOK
  <2>2. nFaults' \in 0 .. MaxFaults
    BY <1>8 DEF GetNextDutiesFails, Fault, TypeOK
  <2>3. QED
    BY <1>1, <1>8, <2>1, <2>2 DEF GetNextDutiesFails, TypeOK, envVars, pollVars
<1>9. CASE GetBlockFails
  BY <1>9 DEF GetBlockFails, Fault, TypeOK, envVars, pollVars, obsVars
<1>10. CASE GetOtherBlock
  BY <1>10 DEF GetOtherBlock, TypeOK, envVars, pollVars, obsVars
<1>11. CASE GetBlock
  <2>1. nextSlot \in Slots
    BY DEF TypeOK, nextSlot, Slots
  <2>2. [slot |-> nextSlot, parent |-> head, st |-> "new"]
            \in [slot : Slots, parent : Blocks, st : {"new", "sleep"}]
    BY <2>1 DEF TypeOK
  <2>3. polls' \in SUBSET [slot : Slots, parent : Blocks, st : {"new", "sleep"}]
    BY <1>11, <2>2 DEF GetBlock, TypeOK
  <2>4. asked \in [Slots -> Nat] /\ asked[nextSlot] + 1 \in Nat
    BY <2>1 DEF TypeOK
  <2>5. asked' = asked \/ asked' = [asked EXCEPT ![nextSlot] = asked[nextSlot] + 1]
    BY <1>11 DEF GetBlock
  <2>6. asked' \in [Slots -> Nat]
    BY <2>4, <2>5
  <2>7. noDuty' \in SUBSET Slots
    BY <1>11, <2>1 DEF GetBlock, TypeOK
  <2>8. QED
    BY <1>11, <2>3, <2>6, <2>7 DEF GetBlock, TypeOK, envVars
<1>12. QED
  BY <1>3, <1>4, <1>5, <1>6, <1>7, <1>8, <1>9, <1>10, <1>11 DEF LoopStep

\* So do the polling goroutines.
LEMMA PollType ==
    ASSUME TypeOK, NEW p \in polls, PollTooLate(p) \/ PollSleeps(p) \/ PollWakes(p)
    PROVE  TypeOK'
<1> DEFINE P == [slot : Slots, parent : Blocks, st : {"new", "sleep"}]
<1>1. p \in P /\ polls \in SUBSET P
  BY DEF TypeOK
<1>2. [p EXCEPT !.st = "sleep"] \in P
  BY <1>1
<1>3. polls' \in SUBSET P
  BY <1>1, <1>2 DEF PollTooLate, PollSleeps, PollWakes
<1>4. requests' \in SUBSET Requests
  <2>1. \A r \in Relays :
          [relay |-> r, slot |-> p.slot, parent |-> p.parent, bid |-> FALSE] \in Requests
    BY <1>1 DEF Requests
  <2>2. QED
    BY <2>1 DEF PollTooLate, PollSleeps, PollWakes, TypeOK
<1>5. QED
  BY <1>3, <1>4 DEF PollTooLate, PollSleeps, PollWakes, TypeOK, envVars, loopVars, obsVars

\* And the requests, their answers and the select loop.
LEMMA RequestType ==
    ASSUME TypeOK, RelayStep \/ SendStep \/ ProcessBid
    PROVE  TypeOK'
<1>0. bidC \in Seq(Requests) /\ Len(bidC) <= ChannelSize /\ Len(bidC) \in Nat
  BY DEF TypeOK
<1>1. CASE RelayStep
  <2>1. PICK q \in requests : NoBid(q) \/ Answer(q)
    BY <1>1 DEF RelayStep
  <2>2. q \in Requests
    BY DEF TypeOK
  <2>3. [q EXCEPT !.bid = TRUE] \in Requests
    BY <2>2 DEF Requests
  <2>4. requests' \in SUBSET Requests
    BY <2>1, <2>3 DEF NoBid, Answer, TypeOK
  <2>5. QED
    BY <2>1, <2>4 DEF NoBid, Answer, TypeOK, envVars, loopVars, obsVars
<1>2. CASE SendStep
  <2>1. PICK q \in requests : SendBid(q)
    BY <1>2 DEF SendStep
  <2>2. q \in Requests
    BY DEF TypeOK
  <2>3. bidC' \in Seq(Requests) /\ Len(bidC') = Len(bidC) + 1
    BY <1>0, <2>1, <2>2 DEF SendBid
  <2>4. Len(bidC') <= ChannelSize
    BY <1>0, <2>1, <2>3 DEF SendBid
  <2>5. QED
    BY <2>1, <2>3, <2>4 DEF SendBid, TypeOK, envVars, loopVars, obsVars
<1>3. CASE ProcessBid
  <2>1. Head(bidC) \in Requests /\ Tail(bidC) \in Seq(Requests) /\ Len(Tail(bidC)) = Len(bidC) - 1
    BY <1>0, <1>3, HeadTail DEF ProcessBid
  <2>2. bidC' \in Seq(Requests) /\ Len(bidC') <= ChannelSize
    BY <1>0, <1>3, <2>1 DEF ProcessBid
  <2>3. QED
    BY <1>3, <2>1, <2>2 DEF ProcessBid, TypeOK, envVars, loopVars, obsVars
<1>4. QED
  BY <1>1, <1>2, <1>3

LEMMA StepType == TypeOK /\ [Next]_vars => TypeOK'
<1> SUFFICES ASSUME TypeOK, [Next]_vars PROVE TypeOK'
  OBVIOUS
<1>1. CASE Tick
  BY <1>1 DEF Tick, TypeOK, loopVars, pollVars, obsVars
<1>2. CASE \E s \in 1 .. MaxSlot + 1, h \in Hashes : NewHead(s, h)
  BY <1>2, NewHeadType
<1>3. CASE LoopStep
  BY <1>3, LoopType
<1>4. CASE PollStep
  BY <1>4, PollType DEF PollStep
<1>5. CASE RelayStep \/ SendStep \/ ProcessBid
  BY <1>5, RequestType
<1>6. CASE UNCHANGED vars
  BY <1>6 DEF vars, envVars, loopVars, pollVars, obsVars, TypeOK
<1>7. QED
  BY <1>1, <1>2, <1>3, <1>4, <1>5, <1>6 DEF Next, Env

\* The poller's variables keep their types, and the channel its bound.
THEOREM TypeCorrect == Spec => []TypeOK
<1>1. Init => TypeOK
  BY InitType
<1>2. TypeOK /\ [Next]_vars => TypeOK'
  BY StepType
<1>3. QED
  BY <1>1, <1>2, PTL DEF Spec

-----------------------------------------------------------------------------
(* The relays are asked once.                                               *)

\* No slot after the one at hand was polled; while an event is handled, not
\* even the slot it is about to poll.
PolledInv ==
    \A s \in Slots :
        /\ asked[s] <= 1
        /\ asked[s] > 0 => s <= headSlot + 1
        /\ asked[s] > 0 /\ pc # "wait" => s <= headSlot

LEMMA PolledStep == TypeOK /\ PolledInv /\ [Next]_vars => PolledInv'
<1> SUFFICES ASSUME TypeOK, PolledInv, [Next]_vars PROVE PolledInv'
  OBVIOUS
<1>0. headSlot \in Nat /\ asked \in [Slots -> Nat] /\ Slots \subseteq Nat
  BY DEF TypeOK, Slots
<1>1. CASE TakeEvent
  <2>1. events \in Seq(1 .. MaxSlot + 1) /\ events # <<>>
    BY <1>1 DEF TypeOK, TakeEvent
  <2>2. Head(events) \in Nat
    BY <2>1, HeadTail
  <2>3. headSlot' \in Nat /\ headSlot' > headSlot /\ asked' = asked /\ pc = "wait"
    BY <1>0, <1>1, <2>2 DEF TakeEvent, IsOld, obsVars
  <2>4. \A s \in Slots : asked[s] <= 1 /\ (asked[s] > 0 => s <= headSlot')
    BY <1>0, <2>3 DEF PolledInv
  <2>5. \A s \in Slots : s <= headSlot' => s <= headSlot' + 1
    BY <1>0, <2>3, NextIsLater
  <2>6. QED
    BY <2>3, <2>4, <2>5 DEF PolledInv
<1>2. CASE GetBlock
  <2>1. headSlot' = headSlot /\ pc = "block" /\ pc' = "wait"
    BY <1>2 DEF GetBlock
  <2>2. nextSlot = headSlot + 1 /\ nextSlot \in Slots
    BY DEF nextSlot, TypeOK, Slots
  <2>3. asked' = asked \/ asked' = [asked EXCEPT ![nextSlot] = asked[nextSlot] + 1]
    BY <1>2 DEF GetBlock
  <2>4. asked[nextSlot] = 0
    BY <1>0, <2>1, <2>2 DEF PolledInv
  <2>5. \A s \in Slots : asked'[s] = asked[s] \/ (s = nextSlot /\ asked'[s] = 1)
    BY <1>0, <2>3, <2>4
  <2>6. QED
    BY <1>0, <2>1, <2>2, <2>5 DEF PolledInv
<1>3. CASE UNCHANGED <<asked, headSlot>> /\ (pc' = "wait" \/ pc' = pc \/ pc # "wait")
  BY <1>3 DEF PolledInv
<1>4. CASE LoopStep
  <2>1. CASE SkipEvent
    BY <1>3, <2>1 DEF SkipEvent, loopVars, obsVars
  <2>2. CASE GetDuties \/ GetNextDuties
    BY <1>3, <2>2 DEF GetDuties, GetNextDuties, obsVars
  <2>3. CASE GetDutiesFails \/ GetNextDutiesFails
    BY <1>3, <2>3 DEF GetDutiesFails, GetNextDutiesFails
  <2>4. CASE GetBlockFails \/ GetOtherBlock
    BY <1>3, <2>4 DEF GetBlockFails, GetOtherBlock, obsVars
  <2>5. QED
    BY <1>1, <1>2, <1>4, <2>1, <2>2, <2>3, <2>4 DEF LoopStep
<1>5. CASE Env
  BY <1>3, <1>5 DEF Env, Tick, NewHead, loopVars, obsVars
<1>6. CASE PollStep
  BY <1>3, <1>6 DEF PollStep, PollTooLate, PollSleeps, PollWakes, loopVars, obsVars
<1>7. CASE RelayStep \/ SendStep \/ ProcessBid
  BY <1>3, <1>7 DEF RelayStep, NoBid, Answer, SendStep, SendBid, ProcessBid, loopVars, obsVars
<1>8. CASE UNCHANGED vars
  BY <1>3, <1>8 DEF vars, loopVars, obsVars
<1>9. QED
  BY <1>4, <1>5, <1>6, <1>7, <1>8 DEF Next

\* The relays are asked at most once for a slot, whatever the head events.
THEOREM PolledOnceHolds == Spec => []PolledOnce
<1>1. Init => PolledInv
  BY DEF Init, PolledInv, Slots
<1>2. TypeOK /\ PolledInv /\ [Next]_vars => PolledInv'
  BY PolledStep
<1>3. PolledInv => PolledOnce
  BY DEF PolledInv, PolledOnce
<1>4. QED
  BY <1>1, <1>2, <1>3, TypeCorrect, PTL DEF Spec

-----------------------------------------------------------------------------
(* The parent of what is asked for.                                         *)

LEMMA ParentStep ==
    TypeOK /\ ParentIsPreviousSlot /\ [Next]_vars => ParentIsPreviousSlot'
<1> SUFFICES ASSUME TypeOK, ParentIsPreviousSlot, [Next]_vars
             PROVE  ParentIsPreviousSlot'
  OBVIOUS
<1> DEFINE Good(q) == q.parent.slot = q.slot - 1
<1>0. bidC \in Seq(Requests)
  BY DEF TypeOK
<1>1. /\ \A q \in polls : Good(q)
      /\ \A q \in requests : Good(q)
      /\ \A q \in processed : Good(q)
      /\ \A i \in DOMAIN bidC : Good(bidC[i])
  BY DEF ParentIsPreviousSlot, Asks
<1>2. SUFFICES /\ \A q \in polls' : Good(q)
               /\ \A q \in requests' : Good(q)
               /\ \A q \in processed' : Good(q)
               /\ \A i \in DOMAIN bidC' : Good(bidC'[i])
  BY DEF ParentIsPreviousSlot, Asks
<1>3. CASE UNCHANGED pollVars
  BY <1>1, <1>3 DEF pollVars
<1>4. CASE GetBlock
  <2>1. headSlot \in Nat /\ head.slot = headSlot
    BY <1>4 DEF GetBlock, TypeOK
  <2>2. Good([slot |-> nextSlot, parent |-> head, st |-> "new"])
    BY <2>1 DEF nextSlot
  <2>3. QED
    BY <1>1, <1>4, <2>2 DEF GetBlock
<1>5. CASE PollStep
  <2>1. PICK p \in polls : PollTooLate(p) \/ PollSleeps(p) \/ PollWakes(p)
    BY <1>5 DEF PollStep
  <2>2. p \in [slot : Slots, parent : Blocks, st : {"new", "sleep"}] /\ Good(p)
    BY <1>1 DEF TypeOK
  <2>3. Good([p EXCEPT !.st = "sleep"])
    BY <2>2
  <2>4. \A r \in Relays :
          Good([relay |-> r, slot |-> p.slot, parent |-> p.parent, bid |-> FALSE])
    BY <2>2
  <2>5. bidC' = bidC /\ processed' = processed
    BY <2>1 DEF PollTooLate, PollSleeps, PollWakes
  <2>6. \A q \in polls' : Good(q)
    BY <1>1, <2>1, <2>3 DEF PollTooLate, PollSleeps, PollWakes
  <2>7. \A q \in requests' : Good(q)
    BY <1>1, <2>1, <2>4 DEF PollTooLate, PollSleeps, PollWakes
  <2>8. QED
    BY <1>1, <2>5, <2>6, <2>7
<1>6. CASE RelayStep
  <2>1. PICK q \in requests : NoBid(q) \/ Answer(q)
    BY <1>6 DEF RelayStep
  <2>2. q \in Requests /\ Good(q)
    BY <1>1 DEF TypeOK
  <2>3. Good([q EXCEPT !.bid = TRUE])
    BY <2>2 DEF Requests
  <2>4. \A x \in requests' : Good(x)
    BY <1>1, <2>1, <2>3 DEF NoBid, Answer
  <2>5. UNCHANGED <<polls, bidC, processed>>
    BY <2>1 DEF NoBid, Answer
  <2>6. QED
    BY <1>1, <2>4, <2>5
<1>7. CASE SendStep
  <2>1. PICK q \in requests : SendBid(q)
    BY <1>7 DEF SendStep
  <2>2. q \in Requests /\ Good(q)
    BY <1>1 DEF TypeOK
  <2>3. bidC' = Append(bidC, q)
    BY <2>1 DEF SendBid
  <2>4. \A i \in DOMAIN bidC' : bidC'[i] = q \/ (i \in DOMAIN bidC /\ bidC'[i] = bidC[i])
    BY <1>0, <2>2, <2>3
  <2>5. \A i \in DOMAIN bidC' : Good(bidC'[i])
    BY <1>1, <2>2, <2>4
  <2>6. polls' = polls /\ processed' = processed /\ requests' \subseteq requests
    BY <2>1 DEF SendBid
  <2>7. QED
    BY <1>1, <2>5, <2>6
<1>8. CASE ProcessBid
  <2>1. bidC # <<>> /\ bidC' = Tail(bidC) /\ processed' = processed \cup {Head(bidC)}
        /\ polls' = polls /\ requests' = requests
    BY <1>8 DEF ProcessBid
  <2>2. 1 \in DOMAIN bidC /\ Head(bidC) = bidC[1]
    BY <1>0, <2>1
  <2>3. \A i \in DOMAIN bidC' : i + 1 \in DOMAIN bidC /\ bidC'[i] = bidC[i + 1]
    BY <1>0, <2>1
  <2>4. \A q \in processed' : Good(q)
    BY <1>1, <2>1, <2>2
  <2>5. \A i \in DOMAIN bidC' : Good(bidC'[i])
    BY <1>1, <2>3
  <2>6. QED
    BY <1>1, <2>1, <2>4, <2>5
<1>9. CASE Env
  BY <1>3, <1>9 DEF Env, Tick, NewHead
<1>10. CASE LoopStep
  <2>1. CASE SkipEvent \/ TakeEvent
    BY <1>3, <2>1 DEF SkipEvent, TakeEvent
  <2>2. CASE GetDuties \/ GetNextDuties \/ GetDutiesFails \/ GetNextDutiesFails
    BY <1>3, <2>2 DEF GetDuties, GetNextDuties, GetDutiesFails, GetNextDutiesFails
  <2>3. CASE GetBlockFails \/ GetOtherBlock
    BY <1>3, <2>3 DEF GetBlockFails, GetOtherBlock
  <2>4. QED
    BY <1>4, <1>10, <2>1, <2>2, <2>3 DEF LoopStep
<1>11. CASE UNCHANGED vars
  BY <1>3, <1>11 DEF vars
<1>12. QED
  BY <1>5, <1>6, <1>7, <1>8, <1>9, <1>10, <1>11 DEF Next

\* Every request, and every bid on its way to the collector, names as parent a
\* block of the slot before.
THEOREM ParentHolds == Spec => []ParentIsPreviousSlot
<1>1. Init => ParentIsPreviousSlot
  BY DEF Init, ParentIsPreviousSlot, Asks
<1>2. TypeOK /\ ParentIsPreviousSlot /\ [Next]_vars => ParentIsPreviousSlot'
  BY ParentStep
<1>3. QED
  BY <1>1, <1>2, TypeCorrect, PTL DEF Spec

-----------------------------------------------------------------------------
(* Proposers that are not known.                                            *)

Covered(e) == SlotsOf(e) \subseteq duties

\* Between two updates the map holds the epoch of the last update, and the one
\* after it unless that request failed; the epoch of the last update is never
\* later than the event's, and equal to it when the block is fetched.
DutyInv ==
    /\ lastDutyUpdateEpoch <= EpochOf(headSlot)
    /\ pc = "nextDuties" => Covered(EpochOf(headSlot))
    /\ pc = "block" => duties # {} /\ lastDutyUpdateEpoch = EpochOf(headSlot)
    /\ duties # {} /\ pc # "nextDuties" =>
            /\ Covered(lastDutyUpdateEpoch)
            /\ \/ Covered(lastDutyUpdateEpoch + 1)
               \/ lastDutyUpdateEpoch + 1 \in dutyFailed
    /\ NoDutyOnlyAfterFailure

\* A slot belongs to its epoch.
LEMMA SlotInEpoch ==
    ASSUME NEW s \in Slots
    PROVE  s \in SlotsOf(EpochOf(s))
  BY DEF SlotsOf

LEMMA DutyStep == TypeOK /\ DutyInv /\ [Next]_vars => DutyInv'
<1> SUFFICES ASSUME TypeOK, DutyInv, [Next]_vars PROVE DutyInv'
  OBVIOUS
<1>0. headSlot \in Nat /\ headSlot \in Slots /\ lastDutyUpdateEpoch \in Nat
  BY DEF TypeOK, Slots
<1>1. EpochOf(headSlot) \in Nat
  BY <1>0, EpochType
<1>2. CASE UNCHANGED <<pc, headSlot, duties, lastDutyUpdateEpoch, noDuty, dutyFailed>>
  BY <1>2 DEF DutyInv, Covered, NoDutyOnlyAfterFailure, EpochOf
<1>3. CASE TakeEvent
  <2>1. events \in Seq(1 .. MaxSlot + 1) /\ events # <<>>
    BY <1>3 DEF TypeOK, TakeEvent
  <2>2. Head(events) \in Nat
    BY <2>1, HeadTail
  <2>3. headSlot' = Head(events) /\ headSlot <= headSlot' /\ headSlot' \in Nat
    BY <1>0, <1>3, <2>2 DEF TakeEvent, IsOld
  <2>4. EpochOf(headSlot) <= EpochOf(headSlot') /\ EpochOf(headSlot') \in Nat
    BY <1>0, <2>3, EpochMonotone, EpochType
  <2>5. lastDutyUpdateEpoch <= EpochOf(headSlot')
    BY <1>0, <1>1, <2>4 DEF DutyInv
  <2>6. EpochOf(headSlot)' = EpochOf(headSlot')
    BY DEF EpochOf
  <2>7. pc = "wait" /\ pc' \in {"duties", "block"}
        /\ UNCHANGED <<duties, lastDutyUpdateEpoch, noDuty, dutyFailed>>
    BY <1>3 DEF TakeEvent, obsVars
  <2>8. ASSUME pc' = "block"
        PROVE  duties # {} /\ lastDutyUpdateEpoch = EpochOf(headSlot')
    <3>1. duties # {} /\ ~ (EpochOf(headSlot') > lastDutyUpdateEpoch)
      BY <1>3, <2>3, <2>8 DEF TakeEvent, NeedsDuties
    <3>2. QED
      BY <1>0, <2>4, <2>5, <3>1
  <2>9. QED
    BY <2>5, <2>6, <2>7, <2>8 DEF DutyInv, Covered, NoDutyOnlyAfterFailure
<1>4. CASE GetDuties
  BY <1>4 DEF GetDuties, DutyInv, Covered, NoDutyOnlyAfterFailure, EpochOf, obsVars, SlotsOf
<1>5. CASE GetDutiesFails
  BY <1>5 DEF GetDutiesFails, DutyInv, Covered, NoDutyOnlyAfterFailure, EpochOf
<1>6. CASE GetNextDuties \/ GetNextDutiesFails
  <2>1. /\ pc = "nextDuties" /\ pc' = "block" /\ headSlot' = headSlot
        /\ lastDutyUpdateEpoch' = EpochOf(headSlot) /\ duties \subseteq duties'
        /\ noDuty' = noDuty /\ dutyFailed \subseteq dutyFailed'
    BY <1>6 DEF GetNextDuties, GetNextDutiesFails, obsVars
  <2>2. EpochOf(headSlot)' = EpochOf(headSlot)
    BY <2>1 DEF EpochOf
  <2>3. Covered(EpochOf(headSlot))
    BY <2>1 DEF DutyInv
  <2>4. SlotsOf(EpochOf(headSlot)) \subseteq duties' /\ duties' # {}
    BY <1>0, <2>1, <2>3, SlotInEpoch DEF Covered
  <2>5. \/ SlotsOf(EpochOf(headSlot) + 1) \subseteq duties'
        \/ EpochOf(headSlot) + 1 \in dutyFailed'
    BY <1>6 DEF GetNextDuties, GetNextDutiesFails
  <2>6. NoDutyOnlyAfterFailure'
    BY <2>1 DEF DutyInv, NoDutyOnlyAfterFailure, EpochOf
  <2>7. lastDutyUpdateEpoch' <= EpochOf(headSlot)'
    BY <1>1, <2>1, <2>2
  <2>8. Covered(lastDutyUpdateEpoch)' /\
          (Covered(lastDutyUpdateEpoch + 1)' \/ (lastDutyUpdateEpoch + 1 \in dutyFailed)')
    BY <2>1, <2>4, <2>5 DEF Covered, SlotsOf, EpochOf
  <2>9. QED
    BY <2>1, <2>2, <2>4, <2>6, <2>7, <2>8 DEF DutyInv
<1>7. CASE GetBlockFails \/ GetOtherBlock
  BY <1>7 DEF GetBlockFails, GetOtherBlock, DutyInv, Covered, NoDutyOnlyAfterFailure, EpochOf, obsVars
<1>8. CASE GetBlock
  <2>1. /\ pc = "block" /\ pc' = "wait" /\ headSlot' = headSlot
        /\ UNCHANGED <<duties, lastDutyUpdateEpoch, dutyFailed>>
        /\ noDuty' = noDuty \/ (nextSlot \notin duties /\ noDuty' = noDuty \cup {nextSlot})
    BY <1>8 DEF GetBlock
  <2>2. ASSUME nextSlot \notin duties
        PROVE  EpochOf(nextSlot) \in dutyFailed
    <3>1. nextSlot \in Slots /\ nextSlot = headSlot + 1
      BY DEF TypeOK, nextSlot, Slots
    <3>2. nextSlot \in SlotsOf(EpochOf(nextSlot))
      BY <3>1, SlotInEpoch
    <3>3. EpochOf(nextSlot) \in {EpochOf(headSlot), EpochOf(headSlot) + 1}
      BY <1>0, <3>1, EpochNext
    <3>4. /\ Covered(EpochOf(headSlot))
          /\ Covered(EpochOf(headSlot) + 1) \/ EpochOf(headSlot) + 1 \in dutyFailed
      BY <2>1 DEF DutyInv
    <3>5. QED
      BY <2>2, <3>2, <3>3, <3>4 DEF Covered
  <2>3. NoDutyOnlyAfterFailure'
    BY <2>1, <2>2 DEF DutyInv, NoDutyOnlyAfterFailure, EpochOf
  <2>4. QED
    BY <2>1, <2>3 DEF DutyInv, Covered, EpochOf
<1>9. CASE LoopStep
  <2>1. CASE SkipEvent
    BY <1>2, <2>1 DEF SkipEvent, loopVars, obsVars
  <2>2. QED
    BY <1>3, <1>4, <1>5, <1>6, <1>7, <1>8, <1>9, <2>1 DEF LoopStep
<1>10. CASE Env
  BY <1>2, <1>10 DEF Env, Tick, NewHead, loopVars, obsVars
<1>11. CASE PollStep
  BY <1>2, <1>11 DEF PollStep, PollTooLate, PollSleeps, PollWakes, loopVars, obsVars
<1>12. CASE RelayStep \/ SendStep \/ ProcessBid
  BY <1>2, <1>12 DEF RelayStep, NoBid, Answer, SendStep, SendBid, ProcessBid, loopVars, obsVars
<1>13. CASE UNCHANGED vars
  BY <1>2, <1>13 DEF vars, loopVars, obsVars
<1>14. QED
  BY <1>9, <1>10, <1>11, <1>12, <1>13 DEF Next

\* A slot goes unpolled for want of a proposer only after a failed request for
\* the duties of its epoch.
THEOREM NoDutyHolds == Spec => []NoDutyOnlyAfterFailure
<1>1. Init => DutyInv
  <2> SUFFICES ASSUME Init PROVE DutyInv
    OBVIOUS
  <2>1. EpochOf(0) \in Nat
    BY EpochType
  <2>2. QED
    BY <2>1 DEF Init, DutyInv, NoDutyOnlyAfterFailure
<1>2. TypeOK /\ DutyInv /\ [Next]_vars => DutyInv'
  BY DutyStep
<1>3. DutyInv => NoDutyOnlyAfterFailure
  BY DEF DutyInv
<1>4. QED
  BY <1>1, <1>2, <1>3, TypeCorrect, PTL DEF Spec
=============================================================================
