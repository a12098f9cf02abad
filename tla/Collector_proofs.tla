-------------------------- MODULE Collector_proofs --------------------------
(***************************************************************************)
(* Proofs about what feeds the collector and what it feeds.                *)
(*                                                                         *)
(* The way of a bid to the subscribers: there is always one goroutine of   *)
(* the stream, its delays double up to the maximum, a subscriber that      *)
(* keeps up misses nothing, and bids reach every subscriber in order, for  *)
(* all sizes of channel and queues, all clients and numbers of bids and    *)
(* failures.                                                               *)
(*                                                                         *)
(* The data API poller: its loop takes the slots one by one and asks for   *)
(* none twice, for every slot length and set of offsets.  The inductive    *)
(* invariant relates the end of the loop's sleep, read on the wall clock,  *)
(* to the start of the slot of its last pass.                              *)
(***************************************************************************)
EXTENDS BidStream, DataAPIPoller, SetLemmas, SequenceTheorems, TLAPS

\* Strengthens StreamTypeOK: the only goroutine of the stream holds the last bid
\* that was read, if any.
StreamInv ==
    /\ StreamTypeOK
    /\ \E g : goroutines = {g}
    /\ \A g \in goroutines : g.pc = "send" => g.bid = sent /\ sent > 0
    /\ fails <= nFails

-----------------------------------------------------------------------------
(* The ultrasound stream.                                                  *)

\* The stream begins with one goroutine that dials.
LEMMA StreamInitially == StreamInit => StreamInv
<1> SUFFICES ASSUME StreamInit PROVE StreamInv
  OBVIOUS
<1>1. goroutines = {Dialling} /\ Dialling.pc = "dial"
  BY DEF StreamInit, Dialling, Goroutine
<1>2. Dialling \in [id : 0 .. MaxFails, pc : {"dial", "sleep", "read", "send"},
                   bid : 0 .. MaxBids, delay : 0 .. MaxBackoffSec]
  <2>1. 0 \in 0 .. MaxFails /\ 0 \in 0 .. MaxBids /\ 0 \in 0 .. MaxBackoffSec
    BY BackoffAssumption, StreamAssumption
  <2> QED BY <2>1 DEF Dialling, Goroutine
<1>3. /\ backoffSec \in InitialBackoffSec .. MaxBackoffSec
      /\ ultrasoundBidC \in Seq(1 .. MaxBids) /\ Len(ultrasoundBidC) <= ChannelSize
      /\ sent \in 0 .. MaxBids /\ nFails \in 0 .. MaxFails /\ fails \in 0 .. MaxFails
      /\ fails <= nFails
  BY BackoffAssumption, StreamAssumption DEF StreamInit
<1> QED BY <1>1, <1>2, <1>3 DEF StreamInv, StreamTypeOK

\* What is left to show for a step that replaces the goroutine.
LEMMA Replaced ==
    ASSUME NEW g, NEW h, goroutines = {g}, goroutines' = (goroutines \ {g}) \cup {h}
    PROVE  goroutines' = {h}
OBVIOUS

\* The goroutine that dials after a failure.
LEMMA ReconnectingTypes ==
    ASSUME StreamInv, Failure, NEW g \in goroutines,
           goroutines' = (goroutines \ {g}) \cup {Reconnecting},
           UNCHANGED <<backoffSec, ultrasoundBidC, sent>>
    PROVE  StreamInv'
<1>1. goroutines' = {Reconnecting}
  BY DEF StreamInv
<1>2. Reconnecting \in [id : 0 .. MaxFails, pc : {"dial", "sleep", "read", "send"},
                        bid : 0 .. MaxBids, delay : 0 .. MaxBackoffSec]
  <2>1. nFails + 1 \in 0 .. MaxFails
    BY StreamAssumption DEF StreamInv, StreamTypeOK, Failure
  <2>2. backoffSec \in 0 .. MaxBackoffSec
    BY BackoffAssumption DEF StreamInv, StreamTypeOK
  <2>3. 0 \in 0 .. MaxBids
    BY StreamAssumption
  <2> QED BY <2>1, <2>2, <2>3 DEF Reconnecting, Goroutine
<1>3. Reconnecting.pc = "sleep"
  BY DEF Reconnecting, Goroutine
<1>4. nFails' \in 0 .. MaxFails /\ fails' \in 0 .. MaxFails /\ fails' <= nFails'
  BY StreamAssumption DEF StreamInv, StreamTypeOK, Failure
<1> QED BY <1>1, <1>2, <1>3, <1>4 DEF StreamInv, StreamTypeOK

\* Each step of the stream replaces its goroutine by one of the same types.
LEMMA StreamKeeps == StreamInv /\ StreamStep => StreamInv'
<1> SUFFICES ASSUME StreamInv, NEW g \in goroutines,
                    \/ Connect(g) \/ ConnectFails(g) \/ Reconnect(g)
                    \/ ReadMessage(g) \/ ReadUndecodable(g) \/ ReadFails(g) \/ SendBid(g)
             PROVE  StreamInv'
  BY DEF StreamStep
<1> DEFINE Type == [id : 0 .. MaxFails, pc : {"dial", "sleep", "read", "send"},
                    bid : 0 .. MaxBids, delay : 0 .. MaxBackoffSec]
<1>1. goroutines = {g} /\ g \in Type
  BY DEF StreamInv, StreamTypeOK
<1>2. CASE Connect(g)
  <2> DEFINE h == [g EXCEPT !.pc = "read"]
  <2>1. goroutines' = {h} /\ h \in Type /\ h.pc = "read"
    BY <1>1, <1>2 DEF Connect
  <2>2. backoffSec' \in InitialBackoffSec .. MaxBackoffSec /\ fails' \in 0 .. MaxFails
    BY <1>2, BackoffAssumption, StreamAssumption DEF Connect
  <2>3. fails' <= nFails'
    BY <1>2 DEF Connect, StreamInv, StreamTypeOK
  <2> HIDE DEF h
  <2> QED BY <1>2, <2>1, <2>2, <2>3 DEF Connect, StreamInv, StreamTypeOK
<1>3. CASE ConnectFails(g)
  BY <1>3, ReconnectingTypes DEF ConnectFails
<1>4. CASE Reconnect(g)
  <2> DEFINE h == [g EXCEPT !.pc = "dial", !.delay = 0]
  <2>1. goroutines' = {h} /\ h \in Type /\ h.pc = "dial"
    <3>1. 0 \in 0 .. MaxBackoffSec
      BY BackoffAssumption
    <3> QED BY <1>1, <1>4, <3>1 DEF Reconnect
  <2>2. backoffSec' \in InitialBackoffSec .. MaxBackoffSec
    BY <1>4, BackoffAssumption DEF Reconnect, StreamInv, StreamTypeOK
  <2> HIDE DEF h
  <2> QED BY <1>4, <2>1, <2>2 DEF Reconnect, StreamInv, StreamTypeOK
<1>5. CASE ReadMessage(g)
  <2> DEFINE h == [g EXCEPT !.pc = "send", !.bid = sent + 1]
  <2>1. sent + 1 \in 0 .. MaxBids /\ sent + 1 > 0
    BY <1>5, StreamAssumption DEF ReadMessage, StreamInv, StreamTypeOK
  <2>2. goroutines' = {h} /\ h \in Type /\ h.pc = "send" /\ h.bid = sent + 1
    BY <1>1, <1>5, <2>1 DEF ReadMessage
  <2> HIDE DEF h
  <2> QED BY <1>5, <2>1, <2>2 DEF ReadMessage, StreamInv, StreamTypeOK
<1>6. CASE ReadUndecodable(g)
  <2>1. sent' \in 0 .. MaxBids
    BY <1>6, StreamAssumption DEF ReadUndecodable, StreamInv, StreamTypeOK
  <2>2. g.pc # "send"
    BY <1>6 DEF ReadUndecodable
  <2> QED BY <1>1, <1>6, <2>1, <2>2 DEF ReadUndecodable, StreamInv, StreamTypeOK
<1>7. CASE ReadFails(g)
  BY <1>7, ReconnectingTypes DEF ReadFails
<1>8. CASE SendBid(g)
  <2> DEFINE h == [g EXCEPT !.pc = "read", !.bid = 0]
  <2>1. goroutines' = {h} /\ h \in Type /\ h.pc = "read"
    <3>1. 0 \in 0 .. MaxBids
      BY StreamAssumption
    <3> QED BY <1>1, <1>8, <3>1 DEF SendBid
  <2>2. g.bid \in 1 .. MaxBids
    BY <1>1, <1>8 DEF SendBid, StreamInv, StreamTypeOK
  <2>3. /\ ultrasoundBidC' \in Seq(1 .. MaxBids)
        /\ Len(ultrasoundBidC') <= ChannelSize
    BY <1>8, <2>2, AppendProperties, LenProperties, StreamAssumption
       DEF SendBid, StreamInv, StreamTypeOK
  <2> HIDE DEF h
  <2> QED BY <1>8, <2>1, <2>3 DEF SendBid, StreamInv, StreamTypeOK
<1> QED BY <1>2, <1>3, <1>4, <1>5, <1>6, <1>7, <1>8

\* Steps of the collector and of the webserver do not disturb the stream.
LEMMA StreamInvStep == StreamInv /\ [Next]_vars => StreamInv'
<1> SUFFICES ASSUME StreamInv, [Next]_vars PROVE StreamInv'
  OBVIOUS
<1>1. CASE ProcessBid
  <2>1. ultrasoundBidC' \in Seq(1 .. MaxBids) /\ Len(ultrasoundBidC') <= ChannelSize
    BY <1>1, HeadTailProperties, LenProperties, StreamAssumption DEF ProcessBid, StreamInv, StreamTypeOK
  <2> QED BY <1>1, <2>1 DEF ProcessBid, StreamInv, StreamTypeOK
<1>2. CASE UNCHANGED streamVars
  BY <1>2 DEF streamVars, StreamInv, StreamTypeOK
<1> QED BY <1>1, <1>2, StreamKeeps DEF Next, vars

\* Failing dials and broken connections, in any number, never leave the stream
\* without a goroutine nor with two.
THEOREM OneStreamHolds == Spec => []OneStream
<1>1. Init => StreamInv
  BY StreamInitially DEF Init
<1>2. StreamInv /\ [Next]_vars => StreamInv'
  BY StreamInvStep
<1>3. StreamInv => OneStream
  BY FS_Singleton DEF StreamInv, OneStream
<1> QED BY <1>1, <1>2, <1>3, PTL DEF Spec

-----------------------------------------------------------------------------
(* The ultrasound stream: delays.                                          *)

\* The functions that double from number to number, for all numbers or up to n.
IsDoubled(h) == h = [n \in Nat |-> IF n = 0 THEN InitialBackoffSec ELSE 2 * h[n - 1]]
IsDoubledTo(h, n) == h = [i \in 0 .. n |-> IF i = 0 THEN InitialBackoffSec ELSE 2 * h[i - 1]]

LEMMA DoubledToNumber ==
    ASSUME NEW n \in Nat, NEW h, IsDoubledTo(h, n)
    PROVE  \A i \in 0 .. n : h[i] = IF i = 0 THEN InitialBackoffSec ELSE 2 * h[i - 1]
<1> DEFINE body(i) == IF i = 0 THEN InitialBackoffSec ELSE 2 * h[i - 1]
<1>1. h = [i \in 0 .. n |-> body(i)]
  BY DEF IsDoubledTo
<1> HIDE DEF body
<1>2. \A i \in 0 .. n : h[i] = body(i)
  BY <1>1
<1>3. QED
  BY <1>2 DEF body

LEMMA DoubledToUnique ==
    ASSUME NEW n \in Nat, NEW m \in Nat, NEW g, NEW h, IsDoubledTo(g, n), IsDoubledTo(h, m),
           NEW i \in Nat, i <= n, i <= m
    PROVE  g[i] = h[i]
<1> DEFINE Bad == {k \in Nat : k <= i /\ g[k] # h[k]}
<1>1. SUFFICES ASSUME Bad # {} PROVE FALSE
  OBVIOUS
<1>2. PICK k \in Bad : \A j \in Bad : k <= j
  <2>1. Bad \in SUBSET Nat
    OBVIOUS
  <2> HIDE DEF Bad
  <2>2. QED
    BY <1>1, <2>1, SmallestNumber
<1>3. /\ g[k] = IF k = 0 THEN InitialBackoffSec ELSE 2 * g[k - 1]
      /\ h[k] = IF k = 0 THEN InitialBackoffSec ELSE 2 * h[k - 1]
  <2>1. k \in 0 .. n /\ k \in 0 .. m
    BY <1>2
  <2>2. QED
    BY <2>1, DoubledToNumber
<1>4. k # 0 => g[k - 1] = h[k - 1]
  BY <1>2
<1>5. QED
  BY <1>2, <1>3, <1>4

LEMMA DoubledToExists == \A n \in Nat : \E h : IsDoubledTo(h, n)
<1> DEFINE Bad == {n \in Nat : ~ \E h : IsDoubledTo(h, n)}
<1>1. SUFFICES ASSUME Bad # {} PROVE FALSE
  OBVIOUS
<1>2. PICK n \in Bad : \A m \in Bad : n <= m
  <2>1. Bad \in SUBSET Nat
    OBVIOUS
  <2> HIDE DEF Bad
  <2>2. QED
    BY <1>1, <2>1, SmallestNumber
<1>3. CASE n = 0
  <2> DEFINE h == [i \in 0 .. n |-> InitialBackoffSec]
  <2>1. \A i \in 0 .. n : i = 0
    BY <1>3
  <2>2. IsDoubledTo(h, n)
    BY <2>1 DEF IsDoubledTo
  <2> HIDE DEF h
  <2>3. QED
    BY <1>2, <2>2
<1>4. CASE n # 0
  <2>1. n - 1 \in Nat /\ n - 1 \notin Bad
    BY <1>2, <1>4
  <2>2. PICK g : IsDoubledTo(g, n - 1)
    BY <2>1
  <2> DEFINE h == [i \in 0 .. n |-> IF i = n THEN 2 * g[n - 1] ELSE g[i]]
             body(i) == IF i = 0 THEN InitialBackoffSec ELSE 2 * h[i - 1]
  <2>3. ASSUME NEW i \in 0 .. n PROVE h[i] = body(i)
    <3>1. i # n => g[i] = IF i = 0 THEN InitialBackoffSec ELSE 2 * g[i - 1]
      BY <2>1, <2>2, DoubledToNumber
    <3>2. i # 0 => i - 1 \in 0 .. n /\ i - 1 # n /\ h[i - 1] = g[i - 1]
      BY <1>2
    <3>3. h[i] = IF i = n THEN 2 * g[n - 1] ELSE g[i]
      OBVIOUS
    <3> HIDE DEF h
    <3>4. QED
      BY <1>4, <3>1, <3>2, <3>3
  <2>4. h = [i \in 0 .. n |-> h[i]]
    OBVIOUS
  <2> HIDE DEF h
  <2>5. IsDoubledTo(h, n)
    BY <2>3, <2>4 DEF IsDoubledTo
  <2>6. QED
    BY <1>2, <2>5
<1>5. QED
  BY <1>3, <1>4

\* Doubled is what its recursive definition says.
LEMMA DoubledNumber ==
    \A n \in Nat : Doubled[n] = IF n = 0 THEN InitialBackoffSec ELSE 2 * Doubled[n - 1]
<1> DEFINE g(n) == CHOOSE h : IsDoubledTo(h, n)
           H == [n \in Nat |-> g(n)[n]]
<1>1. \A n \in Nat : IsDoubledTo(g(n), n)
  BY DoubledToExists
<1> HIDE DEF g
<1>2. ASSUME NEW n \in Nat PROVE H[n] = IF n = 0 THEN InitialBackoffSec ELSE 2 * H[n - 1]
  <2>1. g(n)[n] = IF n = 0 THEN InitialBackoffSec ELSE 2 * g(n)[n - 1]
    BY <1>1, DoubledToNumber
  <2>2. n # 0 => n - 1 \in Nat /\ g(n)[n - 1] = g(n - 1)[n - 1]
    <3>1. SUFFICES ASSUME n # 0 PROVE n - 1 \in Nat /\ g(n)[n - 1] = g(n - 1)[n - 1]
      OBVIOUS
    <3>2. n - 1 \in Nat /\ n - 1 <= n /\ n - 1 <= n - 1
      BY <3>1
    <3>3. IsDoubledTo(g(n), n) /\ IsDoubledTo(g(n - 1), n - 1)
      BY <1>1, <3>2
    <3>4. QED
      BY <3>2, <3>3, DoubledToUnique
  <2>3. QED
    BY <2>1, <2>2
<1>3. \E h : IsDoubled(h)
  <2> DEFINE body(n) == IF n = 0 THEN InitialBackoffSec ELSE 2 * H[n - 1]
  <2>1. H = [n \in Nat |-> H[n]]
    OBVIOUS
  <2> HIDE DEF H
  <2>2. IsDoubled(H)
    BY <1>2, <2>1 DEF IsDoubled
  <2>3. QED
    BY <2>2
<1>4. IsDoubled(Doubled)
  <2>1. Doubled = CHOOSE h : IsDoubled(h)
    BY DEF Doubled, IsDoubled
  <2>2. QED
    BY <1>3, <2>1
<1>5. QED
  <2> DEFINE body(n) == IF n = 0 THEN InitialBackoffSec ELSE 2 * Doubled[n - 1]
  <2>1. Doubled = [n \in Nat |-> body(n)]
    BY <1>4 DEF IsDoubled
  <2> HIDE DEF body
  <2>2. \A n \in Nat : Doubled[n] = body(n)
    BY <2>1
  <2>3. QED
    BY <2>2 DEF body

LEMMA DoubledType == \A n \in Nat : Doubled[n] \in Nat
<1> DEFINE Bad == {n \in Nat : Doubled[n] \notin Nat}
<1>1. SUFFICES ASSUME Bad # {} PROVE FALSE
  OBVIOUS
<1>2. PICK n \in Bad : \A m \in Bad : n <= m
  <2>1. Bad \in SUBSET Nat
    OBVIOUS
  <2> HIDE DEF Bad
  <2>2. QED
    BY <1>1, <2>1, SmallestNumber
<1>3. n # 0 => Doubled[n - 1] \in Nat
  BY <1>2
<1>4. QED
  BY <1>2, <1>3, DoubledNumber, BackoffAssumption

\* Doubling what is capped, and capping again, is doubling and capping.
LEMMA CappedTwice ==
    ASSUME NEW n \in Nat
    PROVE  AtMost(AtMost(Doubled[n]) * 2) = AtMost(Doubled[n + 1])
<1>1. Doubled[n] \in Nat /\ Doubled[n + 1] = 2 * Doubled[n]
  BY DoubledNumber, DoubledType
<1>2. QED
  BY <1>1, BackoffAssumption DEF AtMost

\* The delay was doubled for each failure but the one the stream sleeps for.
DelayInv ==
    \A g \in goroutines :
        /\ g.pc = "sleep" =>
             fails > 0 /\ g.delay = AtMost(Doubled[fails - 1]) /\ backoffSec = g.delay
        /\ g.pc = "dial" => backoffSec = AtMost(Doubled[fails])
        /\ g.pc \in {"read", "send"} => fails = 0 /\ backoffSec = AtMost(Doubled[0])

LEMMA FirstDelay == AtMost(Doubled[0]) = InitialBackoffSec
  BY DoubledNumber, BackoffAssumption DEF AtMost

\* After a failure the next goroutine sleeps for the present delay.
LEMMA ReconnectingDelay ==
    ASSUME StreamInv, DelayInv, Failure, NEW g \in goroutines, g.pc \in {"dial", "read"},
           goroutines' = (goroutines \ {g}) \cup {Reconnecting},
           UNCHANGED backoffSec
    PROVE  DelayInv'
<1>1. goroutines' = {Reconnecting} /\ fails \in Nat
  BY DEF StreamInv, StreamTypeOK
<1>2. Reconnecting.pc = "sleep" /\ Reconnecting.delay = backoffSec
  BY DEF Reconnecting, Goroutine
<1>3. fails' = fails + 1 /\ fails' - 1 = fails /\ fails' > 0
  BY <1>1 DEF Failure
<1>4. backoffSec = AtMost(Doubled[fails])
  BY DEF DelayInv
<1>5. QED
  BY <1>1, <1>2, <1>3, <1>4 DEF DelayInv

LEMMA DelayStep == StreamInv /\ DelayInv /\ [Next]_vars => DelayInv'
<1> SUFFICES ASSUME StreamInv, DelayInv, [Next]_vars PROVE DelayInv'
  OBVIOUS
<1>1. CASE UNCHANGED <<goroutines, backoffSec, fails>>
  BY <1>1 DEF DelayInv
<1>2. ASSUME NEW g \in goroutines, Connect(g) PROVE DelayInv'
  <2> DEFINE h == [g EXCEPT !.pc = "read"]
  <2>1. goroutines' = {h} /\ h.pc = "read"
    BY <1>2 DEF StreamInv, StreamTypeOK, Connect
  <2>2. backoffSec' = InitialBackoffSec /\ fails' = 0
    BY <1>2 DEF Connect
  <2> HIDE DEF h
  <2>3. QED
    BY <2>1, <2>2, FirstDelay DEF DelayInv
<1>3. ASSUME NEW g \in goroutines, ConnectFails(g) PROVE DelayInv'
  BY <1>3, ReconnectingDelay DEF ConnectFails
<1>4. ASSUME NEW g \in goroutines, Reconnect(g) PROVE DelayInv'
  <2> DEFINE h == [g EXCEPT !.pc = "dial", !.delay = 0]
  <2>1. goroutines' = {h} /\ h.pc = "dial" /\ fails' = fails /\ fails \in Nat
    BY <1>4 DEF StreamInv, StreamTypeOK, Reconnect
  <2>2. fails - 1 \in Nat /\ backoffSec = AtMost(Doubled[fails - 1])
    BY <1>4, <2>1 DEF DelayInv, Reconnect
  <2>3. backoffSec' = AtMost(backoffSec * 2)
    BY <1>4 DEF Reconnect, AtMost
  <2>4. backoffSec' = AtMost(Doubled[fails])
    BY <2>1, <2>2, <2>3, CappedTwice
  <2> HIDE DEF h
  <2>5. QED
    BY <2>1, <2>4 DEF DelayInv
<1>5. ASSUME NEW g \in goroutines, ReadMessage(g) PROVE DelayInv'
  <2> DEFINE h == [g EXCEPT !.pc = "send", !.bid = sent + 1]
  <2>1. goroutines' = {h} /\ h.pc = "send" /\ UNCHANGED <<backoffSec, fails>> /\ g.pc = "read"
    BY <1>5 DEF StreamInv, StreamTypeOK, ReadMessage
  <2> HIDE DEF h
  <2>2. QED
    BY <2>1 DEF DelayInv
<1>6. ASSUME NEW g \in goroutines, ReadFails(g) PROVE DelayInv'
  BY <1>6, ReconnectingDelay DEF ReadFails
<1>7. ASSUME NEW g \in goroutines, SendBid(g) PROVE DelayInv'
  <2> DEFINE h == [g EXCEPT !.pc = "read", !.bid = 0]
  <2>1. goroutines' = {h} /\ h.pc = "read" /\ UNCHANGED <<backoffSec, fails>> /\ g.pc = "send"
    BY <1>7 DEF StreamInv, StreamTypeOK, SendBid
  <2> HIDE DEF h
  <2>2. QED
    BY <2>1 DEF DelayInv
<1>8. ASSUME StreamStep PROVE DelayInv'
  BY <1>1, <1>2, <1>3, <1>4, <1>5, <1>6, <1>7, <1>8 DEF StreamStep, ReadUndecodable
<1>9. QED
  BY <1>1, <1>8 DEF Next, vars, streamVars, ProcessBid

\* However connections and dials fail, the delay before a dial is doubled for
\* each failure since the last success, up to the maximum.
THEOREM DelaysDouble == Spec => []DelayFollowsFailures
<1>1. Init => StreamInv /\ DelayInv
  <2>1. Init => DelayInv
    BY FirstDelay DEF Init, StreamInit, DelayInv, Dialling, Goroutine
  <2>2. QED
    BY <2>1, StreamInitially DEF Init
<1>2. StreamInv /\ DelayInv /\ [Next]_vars => (StreamInv /\ DelayInv)'
  BY StreamInvStep, DelayStep
<1>3. DelayInv => DelayFollowsFailures
  BY DEF DelayInv, DelayFollowsFailures
<1> QED BY <1>1, <1>2, <1>3, PTL DEF Spec

-----------------------------------------------------------------------------
(* The webserver: types.                                                   *)

Messages == Nat \cup {Header}

\* Strengthens HubTypeOK with the types of what queues and clients hold.
HubTypeInv ==
    /\ redisC \in Seq(Nat)
    /\ msg \in Nat
    /\ sseConnectionMap \subseteq Clients
    /\ todo \subseteq sseConnectionMap
    /\ pc \in [Clients -> {"none", "hello", "select", "write", "remove", "gone"}]
    /\ msgC \in [Clients -> Seq(Nat)]
    /\ \A c \in Clients : Len(msgC[c]) <= QueueSize
    /\ cur \in [Clients -> Nat]
    /\ left \subseteq Clients
    /\ received \in [Clients -> Seq(Messages)]
    /\ published \in [Clients -> Seq(Nat)]
    /\ wasFull \subseteq Clients

\* At the start nothing is queued and no one is subscribed.
LEMMA HubTypeInitially == HubInit => HubTypeInv
<1> SUFFICES ASSUME HubInit PROVE HubTypeInv
  OBVIOUS
<1>1. <<>> \in Seq(Nat) /\ <<>> \in Seq(Messages) /\ Len(<<>>) = 0
  BY EmptySeq
<1>2. \A c \in Clients : msgC[c] = <<>>
  BY DEF HubInit
<1> QED BY <1>1, <1>2, QueueAssumption DEF HubInit, HubTypeInv

\* A message is handed out, or passed over.
LEMMA HubStepTypes == HubTypeInv /\ HubStep => HubTypeInv'
<1> SUFFICES ASSUME HubTypeInv, HubStep PROVE HubTypeInv'
  OBVIOUS
<1>1. CASE SendToSubscribers
  <2>1. msg' \in Nat /\ redisC' \in Seq(Nat)
    BY <1>1, HeadTailProperties DEF SendToSubscribers, HubTypeInv
  <2>2. published' \in [Clients -> Seq(Nat)]
    BY <1>1, <2>1, AppendProperties DEF SendToSubscribers, HubTypeInv
  <2> QED BY <1>1, <2>1, <2>2 DEF SendToSubscribers, HubTypeInv, handlerVars
<1>2. ASSUME NEW c \in todo, Offer(c) PROVE HubTypeInv'
  <2>1. c \in Clients
    BY DEF HubTypeInv
  <2>2. wasFull' \subseteq Clients
    BY <1>2, <2>1 DEF Offer, HubTypeInv
  <2>3. msgC' \in [Clients -> Seq(Nat)] /\ \A d \in Clients : Len(msgC'[d]) <= QueueSize
    <3>1. CASE Len(msgC[c]) < QueueSize
      <4>1. /\ Append(msgC[c], msg) \in Seq(Nat)
            /\ Len(Append(msgC[c], msg)) = Len(msgC[c]) + 1
        BY <2>1, AppendProperties DEF HubTypeInv
      <4>2. Len(msgC[c]) \in Nat
        BY <2>1, LenProperties DEF HubTypeInv
      <4>3. Len(msgC[c]) + 1 <= QueueSize
        BY <3>1, <4>2, QueueAssumption
      <4>4. msgC' = [msgC EXCEPT ![c] = Append(msgC[c], msg)]
        BY <1>2, <3>1 DEF Offer
      <4> QED BY <2>1, <4>1, <4>3, <4>4 DEF HubTypeInv
    <3>2. CASE ~ (Len(msgC[c]) < QueueSize)
      BY <1>2, <3>2 DEF Offer, HubTypeInv
    <3> QED BY <3>1, <3>2
  <2> QED BY <1>2, <2>2, <2>3 DEF Offer, HubTypeInv, handlerVars
<1> QED BY <1>1, <1>2 DEF HubStep

\* A write to a client.
LEMMA WrittenTypes ==
    ASSUME HubTypeInv, NEW c \in Clients, NEW m \in Messages
    PROVE  Written(c, m) \in [Clients -> Seq(Messages)]
BY AppendProperties DEF HubTypeInv, Written

\* A handler's steps.
LEMMA HandlerStepTypes ==
    ASSUME HubTypeInv, NEW c \in Clients, HandlerStep(c)
    PROVE  HubTypeInv'
<1>1. CASE AddSubscriber(c)
  BY <1>1 DEF AddSubscriber, HubTypeInv
<1>2. CASE WriteHeader(c)
  <2>1. received' \in [Clients -> Seq(Messages)]
    BY <1>2, WrittenTypes DEF WriteHeader, Messages
  <2> QED BY <1>2, <2>1 DEF WriteHeader, HubTypeInv
<1>3. CASE Take(c)
  <2>1. /\ Head(msgC[c]) \in Nat /\ Tail(msgC[c]) \in Seq(Nat)
        /\ Len(Tail(msgC[c])) = Len(msgC[c]) - 1 /\ Len(msgC[c]) \in Nat
    BY <1>3, HeadTailProperties, LenProperties DEF Take, HubTypeInv
  <2>2. Len(Tail(msgC[c])) <= QueueSize
    BY <2>1, QueueAssumption DEF HubTypeInv
  <2> QED BY <1>3, <2>1, <2>2 DEF Take, HubTypeInv
<1>4. CASE Write(c)
  <2>1. received' \in [Clients -> Seq(Messages)]
    BY <1>4, WrittenTypes DEF Write, Messages, HubTypeInv
  <2> QED BY <1>4, <2>1 DEF Write, HubTypeInv
<1>5. CASE SeeDone(c)
  BY <1>5 DEF SeeDone, HubTypeInv
<1>6. CASE RemoveSubscriber(c)
  <2>1. <<>> \in Seq(Nat) /\ Len(<<>>) = 0
    BY EmptySeq
  <2>2. msgC' \in [Clients -> Seq(Nat)] /\ pc' \in [Clients -> {"none", "hello", "select", "write", "remove", "gone"}]
    BY <1>6, <2>1 DEF RemoveSubscriber, HubTypeInv
  <2>3. \A d \in Clients : Len(msgC'[d]) <= QueueSize
    <3>1. \A d \in Clients : msgC'[d] = <<>> \/ msgC'[d] = msgC[d]
      BY <1>6 DEF RemoveSubscriber, HubTypeInv
    <3> QED BY <2>1, <3>1, QueueAssumption DEF HubTypeInv
  <2>4. todo = {}
    BY <1>6 DEF RemoveSubscriber, Locked
  <2> QED BY <1>6, <2>2, <2>3, <2>4 DEF RemoveSubscriber, HubTypeInv
<1>7. CASE Leave(c)
  <2>1. <<>> \in Seq(Nat)
    BY EmptySeq
  <2> QED BY <1>7, <2>1 DEF Leave, HubTypeInv
<1> QED BY <1>1, <1>2, <1>3, <1>4, <1>5, <1>6, <1>7 DEF HandlerStep

\* A bid that is published is a number.
LEMMA HubTypeStep == StreamInv /\ HubTypeInv /\ [Next]_vars => HubTypeInv'
<1> SUFFICES ASSUME StreamInv, HubTypeInv, [Next]_vars PROVE HubTypeInv'
  OBVIOUS
<1>1. CASE ProcessBid
  <2>1. Head(ultrasoundBidC) \in Nat
    <3>1. Head(ultrasoundBidC) \in 1 .. MaxBids
      BY <1>1, HeadTailProperties DEF ProcessBid, StreamInv, StreamTypeOK
    <3> QED BY <3>1, StreamAssumption
  <2>2. redisC' \in Seq(Nat)
    <3>1. Append(redisC, Head(ultrasoundBidC)) \in Seq(Nat)
      BY <2>1, AppendProperties DEF HubTypeInv
    <3>2. redisC' = Append(redisC, Head(ultrasoundBidC)) \/ redisC' = redisC
      BY <1>1 DEF ProcessBid, Publish
    <3> QED BY <3>1, <3>2 DEF HubTypeInv
  <2> QED BY <1>1, <2>2 DEF ProcessBid, handlerVars, HubTypeInv
<1>2. CASE UNCHANGED hubVars
  BY <1>2 DEF hubVars, HubTypeInv
<1> QED BY <1>1, <1>2, HubStepTypes, HandlerStepTypes DEF Next, vars

\* All variables of the stream and of the webserver keep their types, and no
\* queue exceeds its size.
THEOREM TypeCorrect == Spec => []TypeOK
<1>1. Init => StreamInv /\ HubTypeInv
  BY StreamInitially, HubTypeInitially DEF Init
<1>2. StreamInv /\ HubTypeInv /\ [Next]_vars => (StreamInv /\ HubTypeInv)'
  BY StreamInvStep, HubTypeStep
<1>3. StreamInv /\ HubTypeInv => TypeOK
  BY DEF StreamInv, HubTypeInv, TypeOK, HubTypeOK
<1> QED BY <1>1, <1>2, <1>3, PTL DEF Spec

-----------------------------------------------------------------------------
(* The webserver: what a subscriber gets.                                  *)

\* A message joins the end of a queue.
LEMMA Enqueue ==
    ASSUME NEW T, NEW s \in Seq(T), NEW q \in Seq(T), NEW m \in T
    PROVE  s \o Append(q, m) = (s \o q) \o <<m>>
<1>1. Append(q, m) = q \o <<m>> /\ <<m>> \in Seq(T)
  BY AppendIsConcat
<1> QED BY <1>1, ConcatAssociative

\* A message taken from the queue is the one being written.
LEMMA Dequeue ==
    ASSUME NEW T, NEW s \in Seq(T), NEW q \in Seq(T), q # <<>>
    PROVE  (s \o <<Head(q)>>) \o Tail(q) = (s \o <<>>) \o q
<1>1. Head(q) \in T /\ Tail(q) \in Seq(T)
  BY HeadTailProperties
<1>2. <<Head(q)>> \in Seq(T)
  BY <1>1
<1>3. q = <<Head(q)>> \o Tail(q)
  <2>1. <<Head(q)>> \o Tail(q) \in Seq(T) /\ Len(<<Head(q)>> \o Tail(q)) = Len(q)
    BY <1>1, <1>2, ConcatProperties, HeadTailProperties, LenProperties
  <2>2. \A i \in 1 .. Len(q) : (<<Head(q)>> \o Tail(q))[i] = q[i]
    BY <1>1, <1>2, ConcatProperties, HeadTailProperties, LenProperties
  <2> QED BY <2>1, <2>2, SeqEqual
<1>4. (s \o <<Head(q)>>) \o Tail(q) = s \o (<<Head(q)>> \o Tail(q))
  BY <1>1, <1>2, ConcatAssociative
<1> QED BY <1>3, <1>4, ConcatEmptySeq

\* A message that was written is the last one received.
LEMMA Deliver ==
    ASSUME NEW T, NEW s \in Seq(T), NEW m \in T
    PROVE  Append(s, m) \o <<>> = s \o <<m>>
<1>1. Append(s, m) \in Seq(T) /\ Append(s, m) = s \o <<m>>
  BY AppendProperties, AppendIsConcat
<1> QED BY <1>1, ConcatEmptySeq

\* The message at the hub that c was not offered yet, and the header once written.
Offered(c) == IF c \in todo THEN <<msg>> ELSE <<>>
Greeting(c) == IF pc[c] \in {"none", "hello"} THEN <<>> ELSE <<Header>>
Writing(c) == IF pc[c] = "write" THEN <<cur[c]>> ELSE <<>>

\* A client that is connected is subscribed; nothing has reached it before the
\* header; and unless its queue was full, it will have got what was published.
ClientInv(c) ==
    /\ pc[c] \in {"none", "hello", "select", "write"}
    /\ c \in sseConnectionMap <=> pc[c] # "none"
    /\ pc[c] \in {"none", "hello"} => received[c] = <<>>
    /\ pc[c] = "none" => published[c] = <<>> /\ msgC[c] = <<>>
    /\ c \notin wasFull => Stream(c) \o Offered(c) = Greeting(c) \o published[c]

FastInv == \A c \in Clients \ left : ClientInv(c)

\* The parts of Stream are sequences of messages.
LEMMA PartTypes ==
    ASSUME HubTypeInv, NEW c \in Clients
    PROVE  /\ received[c] \in Seq(Messages) /\ msgC[c] \in Seq(Messages)
           /\ published[c] \in Seq(Messages) /\ Writing(c) \in Seq(Messages)
           /\ Offered(c) \in Seq(Messages) /\ Greeting(c) \in Seq(Messages)
           /\ received[c] \o Writing(c) \in Seq(Messages)
           /\ Stream(c) \in Seq(Messages)
           /\ Stream(c) = (received[c] \o Writing(c)) \o msgC[c]
<1>1. msgC[c] \in Seq(Messages) /\ published[c] \in Seq(Messages)
  <2>1. Nat \subseteq Messages
    BY DEF Messages
  <2> QED BY <2>1, SeqMonotonic DEF HubTypeInv
<1>2. \A m \in Messages : <<m>> \in Seq(Messages)
  OBVIOUS
<1>3. <<>> \in Seq(Messages)
  BY EmptySeq
<1>4. Header \in Messages /\ msg \in Messages /\ cur[c] \in Messages
  BY DEF Messages, HubTypeInv
<1>5. received[c] \in Seq(Messages) /\ Writing(c) \in Seq(Messages)
  BY <1>2, <1>3, <1>4 DEF Writing, HubTypeInv
<1>6. Offered(c) \in Seq(Messages) /\ Greeting(c) \in Seq(Messages)
  BY <1>2, <1>3, <1>4 DEF Offered, Greeting
<1>7. received[c] \o Writing(c) \in Seq(Messages)
  BY <1>5, ConcatProperties
<1>8. Stream(c) = (received[c] \o Writing(c)) \o msgC[c]
  BY DEF Stream, Writing
<1> QED BY <1>1, <1>5, <1>6, <1>7, <1>8, ConcatProperties

\* The header is a message.
LEMMA HeaderSeq == <<Header>> \in Seq(Messages)
<1>1. Header \in Messages
  BY DEF Messages
<1> QED BY <1>1

\* At the start no message was published.
LEMMA FastInitially == HubInit => FastInv
<1> SUFFICES ASSUME HubInit, NEW c \in Clients PROVE ClientInv(c)
  BY DEF FastInv
<1>1. HubTypeInv
  BY HubTypeInitially
<1>2. Stream(c) = (<<>> \o <<>>) \o <<>> /\ Offered(c) = <<>> /\ Greeting(c) = <<>>
  BY DEF HubInit, Stream, Offered, Greeting
<1>3. Stream(c) \o Offered(c) = Greeting(c) \o published[c]
  BY <1>2, EmptySeq, ConcatEmptySeq DEF HubInit
<1> QED BY <1>3 DEF HubInit, ClientInv

\* A client of which nothing changes, that neither joins nor leaves.
SameClient(c) ==
    /\ pc'[c] = pc[c] /\ cur'[c] = cur[c] /\ msgC'[c] = msgC[c]
    /\ received'[c] = received[c] /\ published'[c] = published[c]
    /\ c \in sseConnectionMap' <=> c \in sseConnectionMap
    /\ c \in wasFull' <=> c \in wasFull

\* The invariant of such a client holds on.
LEMMA SameClientKeeps ==
    ASSUME NEW c, ClientInv(c), SameClient(c), c \in todo' <=> c \in todo,
           c \in todo => msg' = msg
    PROVE  ClientInv(c)'
BY DEF ClientInv, SameClient, Stream, Offered, Greeting

\* A message is taken from Redis: it is published and offered to no one yet.
LEMMA SendKeeps ==
    ASSUME HubTypeInv, HubTypeInv', FastInv, SendToSubscribers
    PROVE  FastInv'
<1> SUFFICES ASSUME NEW c \in Clients, c \notin left PROVE ClientInv(c)'
  BY DEF FastInv, SendToSubscribers, handlerVars
<1>1. ClientInv(c)
  BY DEF FastInv
<1>2. /\ UNCHANGED <<handlerVars, msgC, wasFull>> /\ todo = {} /\ todo' = sseConnectionMap
      /\ msg' \in Nat
  BY DEF SendToSubscribers, Locked, HubTypeInv
<1>3. CASE c \notin sseConnectionMap
  <2>1. SameClient(c)
    BY <1>2, <1>3 DEF SendToSubscribers, SameClient, handlerVars
  <2> QED BY <1>1, <1>2, <1>3, <2>1, SameClientKeeps
<1>4. CASE c \in sseConnectionMap
  <2>1. published'[c] = Append(published[c], msg')
    BY <1>4 DEF SendToSubscribers
  <2>2. Stream(c)' = Stream(c) /\ Offered(c)' = <<msg'>> /\ Greeting(c)' = Greeting(c)
    BY <1>2, <1>4 DEF Stream, Offered, Greeting, handlerVars
  <2>3. Offered(c) = <<>>
    BY <1>2 DEF Offered
  <2>4. msg' \in Messages
    BY <1>2 DEF Messages
  <2>5. Greeting(c) \o Append(published[c], msg') = (Greeting(c) \o published[c]) \o <<msg'>>
    BY <2>4, PartTypes, Enqueue
  <2>6. c \notin wasFull => Stream(c) = Greeting(c) \o published[c]
    BY <1>1, <2>3, PartTypes, ConcatEmptySeq DEF ClientInv
  <2>7. c \notin wasFull' => Stream(c)' \o Offered(c)' = Greeting(c)' \o published'[c]
    BY <1>2, <2>1, <2>2, <2>5, <2>6
  <2> QED BY <1>1, <1>2, <1>4, <2>7 DEF ClientInv, handlerVars
<1> QED BY <1>3, <1>4

\* A message is offered to a client: it is queued for it or its queue is full.
LEMMA OfferKeeps ==
    ASSUME HubTypeInv, FastInv, NEW d \in todo, Offer(d)
    PROVE  FastInv'
<1> SUFFICES ASSUME NEW c \in Clients, c \notin left PROVE ClientInv(c)'
  BY DEF FastInv, Offer, handlerVars
<1>1. ClientInv(c) /\ d \in Clients
  BY DEF FastInv, HubTypeInv
<1>2. UNCHANGED <<sseConnectionMap, pc, cur, left, received, redisC, msg, published>>
  BY DEF Offer, handlerVars
<1>3. todo' = todo \ {d}
  BY DEF Offer
<1>4. CASE c # d
  <2>1. SameClient(c)
    BY <1>1, <1>2, <1>4 DEF Offer, SameClient, HubTypeInv
  <2> QED BY <1>1, <1>2, <1>3, <1>4, <2>1, SameClientKeeps
<1>5. CASE c = d
  <2>1. CASE Len(msgC[d]) < QueueSize
    <3>1. msgC'[c] = Append(msgC[c], msg) /\ wasFull' = wasFull
      BY <1>1, <1>5, <2>1 DEF Offer, HubTypeInv
    <3>2. Offered(c) = <<msg>> /\ Offered(c)' = <<>> /\ Greeting(c)' = Greeting(c)
      BY <1>2, <1>3, <1>5 DEF Offered, Greeting
    <3>3. Stream(c)' = (received[c] \o Writing(c)) \o Append(msgC[c], msg)
      BY <1>2, <3>1 DEF Stream, Writing
    <3>4. msg \in Messages
      BY DEF HubTypeInv, Messages
    <3>5. Stream(c)' = Stream(c) \o <<msg>>
      <4>1. /\ received[c] \o Writing(c) \in Seq(Messages) /\ msgC[c] \in Seq(Messages)
            /\ Stream(c) = (received[c] \o Writing(c)) \o msgC[c]
        BY PartTypes
      <4>2. (received[c] \o Writing(c)) \o Append(msgC[c], msg)
              = ((received[c] \o Writing(c)) \o msgC[c]) \o <<msg>>
        <5> DEFINE s == received[c] \o Writing(c)
                   q == msgC[c]
        <5>1. s \in Seq(Messages) /\ q \in Seq(Messages)
          BY <4>1
        <5> HIDE DEF s, q
        <5>2. s \o Append(q, msg) = (s \o q) \o <<msg>>
          BY <3>4, <5>1, Enqueue
        <5> QED BY <5>2 DEF s, q
      <4> QED BY <3>3, <4>1, <4>2
    <3>6. Stream(c) \o <<msg>> \in Seq(Messages)
      <4>1. <<msg>> \in Seq(Messages)
        BY <3>4
      <4> QED BY <4>1, PartTypes, ConcatProperties
    <3>7. Stream(c)' \o Offered(c)' = Stream(c) \o Offered(c)
      BY <3>2, <3>5, <3>6, ConcatEmptySeq
    <3>8. pc[c] # "none"
      BY <1>1, <1>5 DEF ClientInv, HubTypeInv
    <3>9. c \notin wasFull' => Stream(c)' \o Offered(c)' = Greeting(c)' \o published'[c]
      BY <1>1, <1>2, <3>1, <3>2, <3>7 DEF ClientInv
    <3> QED BY <1>1, <1>2, <3>8, <3>9 DEF ClientInv
  <2>2. CASE ~ (Len(msgC[d]) < QueueSize)
    <3>1. c \in wasFull' /\ msgC' = msgC
      BY <1>5, <2>2 DEF Offer
    <3> QED BY <1>1, <1>2, <3>1 DEF ClientInv
  <2> QED BY <2>1, <2>2
<1> QED BY <1>4, <1>5

\* Steps of a client's handler, for this client: its stream remains the same, but
\* for the header.
LEMMA HandlerKeeps ==
    ASSUME HubTypeInv, NEW c \in Clients, c \notin left', ClientInv(c), HandlerStep(c)
    PROVE  ClientInv(c)'
<1>1. c \notin left
  BY DEF HandlerStep, AddSubscriber, WriteHeader, Take, Write, SeeDone, RemoveSubscriber, Leave
<1>2. CASE AddSubscriber(c)
  <2>1. /\ UNCHANGED <<redisC, msg, todo, msgC, cur, left, received, published, wasFull>>
        /\ pc[c] = "none" /\ pc'[c] = "hello" /\ c \in sseConnectionMap'
    BY <1>2 DEF AddSubscriber, HubTypeInv
  <2>2. Stream(c)' = Stream(c) /\ Offered(c)' = Offered(c) /\ Greeting(c)' = Greeting(c)
    BY <2>1 DEF Stream, Offered, Greeting
  <2> QED BY <2>1, <2>2 DEF ClientInv
<1>3. CASE WriteHeader(c)
  <2>1. /\ UNCHANGED <<sseConnectionMap, msg, todo, msgC, cur, published, wasFull>>
        /\ pc[c] = "hello" /\ pc'[c] = "select" /\ received'[c] = Append(<<>>, Header)
    BY <1>1, <1>3 DEF WriteHeader, Written, HubTypeInv, ClientInv
  <2>2. received'[c] = <<Header>>
    BY <2>1
  <2>3. Stream(c) = msgC[c]
    <3>1. Stream(c) = (<<>> \o <<>>) \o msgC[c]
      BY <2>1 DEF Stream, ClientInv
    <3> QED BY <3>1, PartTypes, ConcatEmptySeq, EmptySeq
  <2>4. Stream(c)' = <<Header>> \o msgC[c]
    <3>1. Stream(c)' = (<<Header>> \o <<>>) \o msgC[c]
      BY <2>1, <2>2 DEF Stream
    <3>2. <<Header>> \o <<>> = <<Header>>
      BY HeaderSeq, ConcatEmptySeq
    <3> QED BY <3>1, <3>2
  <2>5. Offered(c)' = Offered(c) /\ Greeting(c) = <<>> /\ Greeting(c)' = <<Header>>
    BY <2>1 DEF Offered, Greeting
  <2>6. Stream(c)' \o Offered(c)' = <<Header>> \o (Stream(c) \o Offered(c))
    <3>1. msgC[c] \in Seq(Messages) /\ Offered(c) \in Seq(Messages)
      BY PartTypes
    <3>2. (<<Header>> \o msgC[c]) \o Offered(c) = <<Header>> \o (msgC[c] \o Offered(c))
      <4> DEFINE h == <<Header>>
                 q == msgC[c]
                 o == Offered(c)
      <4>1. h \in Seq(Messages) /\ q \in Seq(Messages) /\ o \in Seq(Messages)
        BY <3>1, HeaderSeq
      <4> HIDE DEF h, q, o
      <4>2. (h \o q) \o o = h \o (q \o o)
        BY <4>1, ConcatAssociative
      <4> QED BY <4>2 DEF h, q, o
    <3> QED BY <2>3, <2>4, <2>5, <3>2
  <2>7. <<>> \o published[c] = published[c]
    BY PartTypes, ConcatEmptySeq
  <2>8. c \notin wasFull' => Stream(c)' \o Offered(c)' = Greeting(c)' \o published'[c]
    BY <2>1, <2>5, <2>6, <2>7 DEF ClientInv
  <2> QED BY <2>1, <2>8 DEF ClientInv
<1>4. ASSUME UNCHANGED <<sseConnectionMap, msg, todo, published, wasFull>>,
             pc[c] \in {"select", "write"}, pc'[c] \in {"select", "write"}, Stream(c)' = Stream(c)
      PROVE  ClientInv(c)'
  <2>1. Offered(c)' = Offered(c) /\ Greeting(c)' = Greeting(c)
    BY <1>4 DEF Offered, Greeting
  <2> QED BY <1>4, <2>1 DEF ClientInv
<1>5. CASE Take(c)
  <2>1. /\ UNCHANGED <<sseConnectionMap, msg, todo, published, wasFull, received>>
        /\ pc[c] = "select" /\ pc'[c] = "write" /\ msgC[c] # <<>>
        /\ cur'[c] = Head(msgC[c]) /\ msgC'[c] = Tail(msgC[c])
    BY <1>5 DEF Take, HubTypeInv
  <2>2. Stream(c)' = (received[c] \o <<Head(msgC[c])>>) \o Tail(msgC[c])
    BY <2>1 DEF Stream
  <2>3. Stream(c) = (received[c] \o <<>>) \o msgC[c]
    BY <2>1 DEF Stream
  <2>4. Stream(c)' = Stream(c)
    BY <2>1, <2>2, <2>3, PartTypes, Dequeue
  <2> QED BY <1>4, <2>1, <2>4
<1>6. CASE Write(c)
  <2>1. /\ UNCHANGED <<sseConnectionMap, msg, todo, published, wasFull, msgC>>
        /\ pc[c] = "write" /\ pc'[c] = "select" /\ received'[c] = Append(received[c], cur[c])
    BY <1>1, <1>6 DEF Write, Written, HubTypeInv
  <2>2. Stream(c)' = (Append(received[c], cur[c]) \o <<>>) \o msgC[c]
    BY <2>1 DEF Stream
  <2>3. Stream(c) = (received[c] \o <<cur[c]>>) \o msgC[c]
    BY <2>1 DEF Stream
  <2>4. cur[c] \in Messages
    BY DEF HubTypeInv, Messages
  <2>5. Stream(c)' = Stream(c)
    BY <2>2, <2>3, <2>4, PartTypes, Deliver
  <2> QED BY <1>4, <2>1, <2>5
<1>7. ~ SeeDone(c) /\ ~ RemoveSubscriber(c) /\ ~ Leave(c)
  BY <1>1 DEF SeeDone, RemoveSubscriber, Leave, ClientInv
<1> QED BY <1>2, <1>3, <1>5, <1>6, <1>7 DEF HandlerStep

\* A handler's steps do not concern the other clients.
LEMMA OthersSame ==
    ASSUME HubTypeInv, NEW d \in Clients, HandlerStep(d), NEW c \in Clients, c # d
    PROVE  SameClient(c) /\ todo' = todo /\ msg' = msg /\ (c \in left' <=> c \in left)
BY DEF HandlerStep, AddSubscriber, WriteHeader, Take, Write, SeeDone, RemoveSubscriber, Leave,
       Written, SameClient, HubTypeInv

\* Every step keeps what subscribers are due.
LEMMA FastStep == HubTypeInv /\ HubTypeInv' /\ FastInv /\ [Next]_vars => FastInv'
<1> SUFFICES ASSUME HubTypeInv, HubTypeInv', FastInv, [Next]_vars PROVE FastInv'
  OBVIOUS
<1>1. CASE HubStep
  BY <1>1, SendKeeps, OfferKeeps DEF HubStep
<1>2. ASSUME NEW d \in Clients, HandlerStep(d) PROVE FastInv'
  <2> SUFFICES ASSUME NEW c \in Clients, c \notin left' PROVE ClientInv(c)'
    BY DEF FastInv
  <2>1. CASE c = d
    <3>1. c \notin left
      BY <1>2, <2>1 DEF HandlerStep, AddSubscriber, WriteHeader, Take, Write, SeeDone,
                        RemoveSubscriber, Leave
    <3> QED BY <1>2, <2>1, <3>1, HandlerKeeps DEF FastInv
  <2>2. CASE c # d
    <3>1. SameClient(c) /\ todo' = todo /\ msg' = msg /\ c \notin left
      BY <1>2, <2>2, OthersSame
    <3> QED BY <3>1, SameClientKeeps DEF FastInv
  <2> QED BY <2>1, <2>2
<1>3. ASSUME UNCHANGED <<handlerVars, msg, todo, msgC, published, wasFull>> PROVE FastInv'
  <2> SUFFICES ASSUME NEW c \in Clients, c \notin left PROVE ClientInv(c)'
    BY <1>3 DEF FastInv, handlerVars
  <2>1. SameClient(c)
    BY <1>3 DEF SameClient, handlerVars
  <2> QED BY <1>3, <2>1, SameClientKeeps DEF FastInv
<1> QED BY <1>1, <1>2, <1>3 DEF Next, ProcessBid, vars, hubVars, handlerVars

\* A subscriber whose queue never was full gets the header and every message
\* since it was added, for every number of clients and every size of the queues.
THEOREM NothingMissed == Spec => []FastSubscribersMissNothing
<1>1. Init => StreamInv /\ HubTypeInv /\ FastInv
  BY StreamInitially, HubTypeInitially, FastInitially DEF Init
<1>2. StreamInv /\ HubTypeInv /\ FastInv /\ [Next]_vars => (StreamInv /\ HubTypeInv /\ FastInv)'
  BY StreamInvStep, HubTypeStep, FastStep
<1>3. HubTypeInv /\ FastInv => FastSubscribersMissNothing
  <2> SUFFICES ASSUME HubTypeInv, FastInv, NEW c \in Clients, c \notin wasFull, c \notin left,
                      c \notin todo, pc[c] \notin {"none", "hello"}
               PROVE  Stream(c) = <<Header>> \o published[c]
    BY DEF FastSubscribersMissNothing
  <2>1. Stream(c) \o <<>> = <<Header>> \o published[c]
    BY DEF FastInv, ClientInv, Offered, Greeting
  <2> QED BY <2>1, PartTypes, ConcatEmptySeq
<1> QED BY <1>1, <1>2, <1>3, PTL DEF Spec

-----------------------------------------------------------------------------
(* The way of the bids: order.                                             *)

\* The bids in a sequence of messages, and whether they rise.
Bids(s) == {s[i] : i \in DOMAIN s} \ {Header}

InOrder(s) ==
    \A i, j \in DOMAIN s : i < j /\ Header \notin {s[i], s[j]} => s[i] < s[j]

Less(A, B) == \A a \in A, b \in B : a < b

\* No message.
LEMMA BidsOfNone == Bids(<<>>) = {} /\ InOrder(<<>>)
BY DEF Bids, InOrder

\* One message.
LEMMA BidsOfOne == \A m : Bids(<<m>>) = {m} \ {Header}
BY DEF Bids

\* A message at the end.
LEMMA BidsAppend ==
    ASSUME NEW T, NEW s \in Seq(T), NEW m \in T
    PROVE  /\ Bids(Append(s, m)) = Bids(s) \cup ({m} \ {Header})
           /\ InOrder(s) /\ Less(Bids(s), {m} \ {Header}) => InOrder(Append(s, m))
<1> DEFINE t == Append(s, m)
<1>1. /\ Len(s) \in Nat /\ DOMAIN s = 1 .. Len(s)
      /\ t \in Seq(T) /\ Len(t) = Len(s) + 1 /\ DOMAIN t = 1 .. Len(s) + 1
      /\ (\A i \in 1 .. Len(s) : t[i] = s[i]) /\ t[Len(s) + 1] = m
  BY AppendProperties, LenProperties
<1> HIDE DEF t
<1>2. \A i \in DOMAIN t : i \in DOMAIN s \/ i = Len(s) + 1
  BY <1>1
<1>3. Bids(t) = Bids(s) \cup ({m} \ {Header})
  <2>1. Len(s) + 1 \in DOMAIN t /\ DOMAIN s \subseteq DOMAIN t
    BY <1>1
  <2> QED BY <1>1, <1>2, <2>1 DEF Bids
<1>4. ASSUME InOrder(s), Less(Bids(s), {m} \ {Header}),
             NEW i \in DOMAIN t, NEW j \in DOMAIN t, i < j, Header \notin {t[i], t[j]}
      PROVE  t[i] < t[j]
  <2>1. i \in 1 .. Len(s)
    BY <1>1, <1>4
  <2>2. CASE j = Len(s) + 1
    BY <1>1, <1>4, <2>1, <2>2 DEF Less, Bids
  <2>3. CASE j \in DOMAIN s
    BY <1>1, <1>4, <2>1, <2>3 DEF InOrder
  <2> QED BY <1>2, <2>2, <2>3
<1> QED BY <1>3, <1>4 DEF t, InOrder

\* A message taken from the front.
LEMMA BidsHeadTail ==
    ASSUME NEW T, NEW s \in Seq(T), s # <<>>
    PROVE  /\ Bids(s) = ({Head(s)} \ {Header}) \cup Bids(Tail(s))
           /\ InOrder(s) => InOrder(Tail(s)) /\ Less({Head(s)} \ {Header}, Bids(Tail(s)))
<1> DEFINE t == Tail(s)
<1>1. /\ Len(s) \in Nat \ {0} /\ DOMAIN s = 1 .. Len(s)
      /\ t \in Seq(T) /\ Len(t) = Len(s) - 1 /\ DOMAIN t = 1 .. Len(s) - 1
      /\ (\A i \in 1 .. Len(s) - 1 : t[i] = s[i + 1]) /\ Head(s) = s[1]
  BY HeadTailProperties, LenProperties, EmptySeq
<1> HIDE DEF t
<1>2. \A i \in DOMAIN t : i + 1 \in DOMAIN s /\ t[i] = s[i + 1] /\ 1 < i + 1
  BY <1>1
<1>3. \A i \in DOMAIN s : i = 1 \/ (i - 1 \in DOMAIN t /\ t[i - 1] = s[i])
  BY <1>1
<1>4. 1 \in DOMAIN s
  BY <1>1
<1>5. Bids(s) = ({Head(s)} \ {Header}) \cup Bids(t)
  BY <1>1, <1>2, <1>3, <1>4 DEF Bids
<1>6. ASSUME InOrder(s) PROVE InOrder(t)
  BY <1>1, <1>2, <1>6 DEF InOrder
<1>7. ASSUME InOrder(s) PROVE Less({Head(s)} \ {Header}, Bids(t))
  BY <1>1, <1>2, <1>4, <1>7 DEF InOrder, Less, Bids
<1> QED BY <1>5, <1>6, <1>7 DEF t

\* Two sequences, one after the other.
LEMMA BidsConcat ==
    ASSUME NEW T, NEW s \in Seq(T), NEW t \in Seq(T)
    PROVE  /\ Bids(s \o t) = Bids(s) \cup Bids(t)
           /\ InOrder(s) /\ InOrder(t) /\ Less(Bids(s), Bids(t)) => InOrder(s \o t)
<1> DEFINE u == s \o t
<1>1. /\ Len(s) \in Nat /\ Len(t) \in Nat /\ DOMAIN s = 1 .. Len(s) /\ DOMAIN t = 1 .. Len(t)
      /\ DOMAIN u = 1 .. Len(s) + Len(t)
      /\ \A i \in 1 .. Len(s) + Len(t) : u[i] = IF i <= Len(s) THEN s[i] ELSE t[i - Len(s)]
  BY ConcatProperties, LenProperties
<1> HIDE DEF u
<1>2. \A i \in DOMAIN u :
         \/ i \in DOMAIN s /\ u[i] = s[i]
         \/ i - Len(s) \in DOMAIN t /\ u[i] = t[i - Len(s)] /\ i > Len(s)
  BY <1>1
<1>3. \A i \in DOMAIN s : i \in DOMAIN u /\ u[i] = s[i]
  BY <1>1
<1>4. \A i \in DOMAIN t : i + Len(s) \in DOMAIN u /\ u[i + Len(s)] = t[i]
  BY <1>1
<1>5. Bids(u) = Bids(s) \cup Bids(t)
  BY <1>2, <1>3, <1>4 DEF Bids
<1>6. ASSUME InOrder(s), InOrder(t), Less(Bids(s), Bids(t)),
             NEW i \in DOMAIN u, NEW j \in DOMAIN u, i < j, Header \notin {u[i], u[j]}
      PROVE  u[i] < u[j]
  <2>1. CASE j \in DOMAIN s /\ u[j] = s[j]
    <3>1. i \in DOMAIN s /\ u[i] = s[i]
      BY <1>1, <1>6, <2>1
    <3> QED BY <1>6, <2>1, <3>1 DEF InOrder
  <2>2. CASE j - Len(s) \in DOMAIN t /\ u[j] = t[j - Len(s)] /\ j > Len(s)
    <3>1. CASE i \in DOMAIN s /\ u[i] = s[i]
      BY <1>6, <2>2, <3>1 DEF Less, Bids
    <3>2. CASE i - Len(s) \in DOMAIN t /\ u[i] = t[i - Len(s)] /\ i > Len(s)
      <4>1. i - Len(s) < j - Len(s)
        BY <1>1, <1>6
      <4> QED BY <1>6, <2>2, <3>2, <4>1 DEF InOrder
    <3> QED BY <1>2, <3>1, <3>2
  <2> QED BY <1>2, <2>1, <2>2
<1> QED BY <1>5, <1>6 DEF u, InOrder

\* What client c has been written or is being written, has queued too, and has
\* been offered too.
Got(c) == Bids(received[c]) \cup Bids(Writing(c))
Has(c) == Got(c) \cup Bids(msgC[c])
Seen(c) == Has(c) \cup Bids(Offered(c))

\* The last bid that the goroutine of the stream has passed on, or skipped.
LastPassed == IF \E g \in goroutines : g.pc = "send" THEN sent - 1 ELSE sent

\* Along the way from the stream to client c each part holds later bids than the
\* parts in front of it.
OrderInv(c) ==
    /\ InOrder(received[c]) /\ InOrder(msgC[c]) /\ InOrder(redisC) /\ InOrder(ultrasoundBidC)
    /\ Less(Bids(received[c]), Bids(Writing(c)))
    /\ Less(Got(c), Bids(msgC[c]))
    /\ Less(Has(c), Bids(Offered(c)))
    /\ Less(Seen(c), Bids(redisC))
    /\ Less(Seen(c) \cup Bids(redisC), Bids(ultrasoundBidC))

\* Nothing on the way is later than what the stream has passed on.
PassedInv(c) ==
    \A b \in Seen(c) \cup Bids(redisC) \cup Bids(ultrasoundBidC) : b <= LastPassed

WayInv == \A c \in Clients : OrderInv(c) /\ PassedInv(c)

SameParts(c) ==
    /\ received'[c] = received[c] /\ msgC'[c] = msgC[c]
    /\ Writing(c)' = Writing(c) /\ Offered(c)' = Offered(c)

\* The queues hold messages.
LEMMA QueueTypes ==
    ASSUME StreamInv, HubTypeInv
    PROVE  redisC \in Seq(Messages) /\ ultrasoundBidC \in Seq(Messages)
<1>1. Nat \subseteq Messages /\ 1 .. MaxBids \subseteq Messages
  BY StreamAssumption DEF Messages
<1> QED BY <1>1, SeqMonotonic DEF StreamInv, StreamTypeOK, HubTypeInv

\* Only the header is not a bid.
LEMMA BidsAreNumbers == \A s \in Seq(Messages) : Bids(s) \subseteq Nat
BY LenProperties DEF Bids, Messages

\* All bids on the way to c are numbers.
LEMMA WayNumbers ==
    ASSUME StreamInv, HubTypeInv, NEW c \in Clients
    PROVE  Seen(c) \cup Bids(redisC) \cup Bids(ultrasoundBidC) \subseteq Nat
BY PartTypes, QueueTypes, BidsAreNumbers DEF Seen, Has, Got

\* At the start nothing is on the way.
LEMMA WayInitially == Init => WayInv
<1> SUFFICES ASSUME Init PROVE WayInv
  OBVIOUS
<1>1. /\ redisC = <<>> /\ ultrasoundBidC = <<>>
      /\ \A c \in Clients : /\ received[c] = <<>> /\ msgC[c] = <<>>
                            /\ Writing(c) = <<>> /\ Offered(c) = <<>>
  BY DEF Init, StreamInit, HubInit, Writing, Offered
<1> QED BY <1>1, BidsOfNone DEF WayInv, OrderInv, PassedInv, Less, Seen, Has, Got

\* A step of the stream that passes nothing on.
LEMMA NothingPassed ==
    ASSUME StreamInv, HubTypeInv, WayInv, UNCHANGED hubVars,
           ultrasoundBidC' = ultrasoundBidC, LastPassed' \in Int, LastPassed' >= LastPassed
    PROVE  WayInv'
<1>1. redisC' = redisC /\ \A c \in Clients : SameParts(c)
  BY DEF hubVars, SameParts, Writing, Offered
<1>2. \A c \in Clients : Seen(c)' = Seen(c) /\ Has(c)' = Has(c) /\ Got(c)' = Got(c)
  BY <1>1 DEF SameParts, Seen, Has, Got
<1>3. \A c \in Clients : OrderInv(c)'
  BY <1>1, <1>2 DEF WayInv, OrderInv, SameParts
<1>4. LastPassed \in Int
  BY DEF LastPassed, StreamInv, StreamTypeOK
<1>5. ASSUME NEW c \in Clients PROVE PassedInv(c)'
  <2> SUFFICES ASSUME NEW b \in Seen(c) \cup Bids(redisC) \cup Bids(ultrasoundBidC)
               PROVE  b <= LastPassed'
    BY <1>1, <1>2 DEF PassedInv
  <2>1. b \in Nat /\ b <= LastPassed
    BY WayNumbers DEF WayInv, PassedInv
  <2> QED BY <1>4, <2>1
<1> QED BY <1>3, <1>5 DEF WayInv

\* The goroutine sends the bid that it holds, the last one read.
LEMMA SendBidKeeps ==
    ASSUME StreamInv, HubTypeInv, WayInv, UNCHANGED hubVars, NEW g \in goroutines, SendBid(g)
    PROVE  WayInv'
<1>1. redisC' = redisC /\ \A c \in Clients : SameParts(c)
  BY DEF hubVars, SameParts, Writing, Offered
<1>2. \A c \in Clients : Seen(c)' = Seen(c) /\ Has(c)' = Has(c) /\ Got(c)' = Got(c)
  BY <1>1 DEF SameParts, Seen, Has, Got
<1>3. /\ LastPassed = sent - 1 /\ g.bid = sent /\ sent \in Nat \ {0}
      /\ ultrasoundBidC' = Append(ultrasoundBidC, sent)
  <2>1. g.pc = "send" /\ ultrasoundBidC' = Append(ultrasoundBidC, g.bid)
    BY DEF SendBid
  <2>2. g.bid = sent /\ sent > 0 /\ sent \in Nat
    BY <2>1, StreamAssumption DEF StreamInv, StreamTypeOK
  <2> QED BY <2>1, <2>2 DEF LastPassed
<1>4. LastPassed' = sent
  <2> DEFINE h == [g EXCEPT !.pc = "read", !.bid = 0]
  <2>1. goroutines' = {h} /\ sent' = sent
    BY DEF SendBid, StreamInv
  <2>2. h.pc = "read"
    BY DEF StreamInv, StreamTypeOK
  <2> HIDE DEF h
  <2> QED BY <2>1, <2>2 DEF LastPassed
<1>5. /\ ultrasoundBidC \in Seq(Messages) /\ sent \in Messages
      /\ {sent} \ {Header} = {sent}
  <2>1. sent \in Messages /\ sent # Header
    BY <1>3, QueueAssumption DEF Messages
  <2> QED BY <2>1, QueueTypes
<1>6. Bids(ultrasoundBidC') = Bids(ultrasoundBidC) \cup {sent}
  <2>1. Bids(Append(ultrasoundBidC, sent)) = Bids(ultrasoundBidC) \cup ({sent} \ {Header})
    BY <1>5, BidsAppend
  <2> QED BY <1>3, <1>5, <2>1
<1>7. ASSUME NEW c \in Clients
      PROVE  \A b \in Seen(c) \cup Bids(redisC) \cup Bids(ultrasoundBidC) : b \in Nat /\ b < sent
  <2> SUFFICES ASSUME NEW b \in Seen(c) \cup Bids(redisC) \cup Bids(ultrasoundBidC)
               PROVE  b \in Nat /\ b < sent
    OBVIOUS
  <2>1. b \in Nat /\ b <= LastPassed
    BY WayNumbers DEF WayInv, PassedInv
  <2> QED BY <1>3, <2>1
<1>8. ASSUME NEW c \in Clients PROVE OrderInv(c)'
  <2>1. Less(Seen(c) \cup Bids(redisC), Bids(ultrasoundBidC'))
    BY <1>6, <1>7 DEF WayInv, OrderInv, Less
  <2>2. InOrder(ultrasoundBidC')
    <3>1. Less(Bids(ultrasoundBidC), {sent} \ {Header})
      BY <1>7 DEF Less
    <3> QED BY <1>3, <1>5, <3>1, BidsAppend DEF WayInv, OrderInv
  <2> QED BY <1>1, <1>2, <2>1, <2>2 DEF WayInv, OrderInv, SameParts
<1>9. ASSUME NEW c \in Clients PROVE PassedInv(c)'
  BY <1>1, <1>2, <1>3, <1>4, <1>6, <1>7 DEF PassedInv
<1> QED BY <1>8, <1>9 DEF WayInv

\* Of the stream's steps only SendBid passes a bid on.
LEMMA StreamKeepsWay ==
    ASSUME StreamInv, StreamInv', HubTypeInv, WayInv, StreamStep, UNCHANGED hubVars
    PROVE  WayInv'
<1>1. PICK g \in goroutines :
         \/ Connect(g) \/ ConnectFails(g) \/ Reconnect(g)
         \/ ReadMessage(g) \/ ReadUndecodable(g) \/ ReadFails(g) \/ SendBid(g)
  BY DEF StreamStep
<1>2. goroutines = {g} /\ sent \in Nat /\ sent' \in Nat
  BY StreamAssumption DEF StreamInv, StreamTypeOK
<1>3. CASE SendBid(g)
  BY <1>3, SendBidKeeps
<1>4. CASE ReadMessage(g)
  <2>1. LastPassed = sent
    BY <1>2, <1>4 DEF LastPassed, ReadMessage
  <2>2. LastPassed' \in {sent' - 1, sent'} /\ sent' = sent + 1
    BY <1>4 DEF LastPassed, ReadMessage
  <2> QED BY <1>2, <1>4, <2>1, <2>2, NothingPassed DEF ReadMessage
<1>5. CASE ReadUndecodable(g)
  <2>1. LastPassed = sent
    BY <1>2, <1>5 DEF LastPassed, ReadUndecodable
  <2>2. LastPassed' \in {sent' - 1, sent'} /\ sent' = sent + 1
    BY <1>5 DEF LastPassed, ReadUndecodable
  <2> QED BY <1>2, <1>5, <2>1, <2>2, NothingPassed DEF ReadUndecodable
<1>6. ASSUME g.pc # "send", NEW h, h.pc # "send", goroutines' = (goroutines \ {g}) \cup {h},
             sent' = sent, ultrasoundBidC' = ultrasoundBidC
      PROVE  WayInv'
  <2>1. LastPassed = sent
    BY <1>2, <1>6 DEF LastPassed
  <2>2. LastPassed' = sent
    BY <1>2, <1>6 DEF LastPassed
  <2> QED BY <1>2, <1>6, <2>1, <2>2, NothingPassed
<1>7. Reconnecting.pc = "sleep"
  BY DEF Reconnecting, Goroutine
<1>8. [g EXCEPT !.pc = "read"].pc = "read" /\ [g EXCEPT !.pc = "dial", !.delay = 0].pc = "dial"
  BY <1>2 DEF StreamInv, StreamTypeOK
<1>9. CASE Connect(g)
  BY <1>6, <1>8, <1>9 DEF Connect
<1>10. CASE ConnectFails(g)
  BY <1>6, <1>7, <1>10 DEF ConnectFails
<1>11. CASE Reconnect(g)
  BY <1>6, <1>8, <1>11 DEF Reconnect
<1>12. CASE ReadFails(g)
  BY <1>6, <1>7, <1>12 DEF ReadFails
<1> QED BY <1>1, <1>3, <1>4, <1>5, <1>9, <1>10, <1>11, <1>12

\* The collector takes a bid and publishes it, or fails to.
LEMMA ProcessKeepsWay ==
    ASSUME StreamInv, HubTypeInv, WayInv, ProcessBid
    PROVE  WayInv'
<1> SUFFICES ASSUME NEW c \in Clients PROVE OrderInv(c)' /\ PassedInv(c)'
  BY DEF WayInv
<1> DEFINE m == Head(ultrasoundBidC)
           U == Bids(Tail(ultrasoundBidC))
<1>1. SameParts(c) /\ LastPassed' = LastPassed
  BY DEF ProcessBid, SameParts, Writing, Offered, LastPassed, handlerVars
<1>2. Seen(c)' = Seen(c) /\ Has(c)' = Has(c) /\ Got(c)' = Got(c)
  BY <1>1 DEF SameParts, Seen, Has, Got
<1>3. /\ ultrasoundBidC' = Tail(ultrasoundBidC) /\ ultrasoundBidC # <<>>
      /\ redisC' = redisC \/ redisC' = Append(redisC, m)
  BY DEF ProcessBid, Publish
<1>4. redisC \in Seq(Messages) /\ ultrasoundBidC \in Seq(Messages)
  BY QueueTypes
<1>5. m \in Messages
  BY <1>3, <1>4, HeadTailProperties
<1>6. OrderInv(c) /\ PassedInv(c)
  BY DEF WayInv
<1>7. /\ Bids(ultrasoundBidC) = ({m} \ {Header}) \cup U
      /\ InOrder(Tail(ultrasoundBidC)) /\ Less({m} \ {Header}, U)
  BY <1>3, <1>4, <1>6, BidsHeadTail DEF OrderInv
<1> HIDE DEF m, U
<1>8. Bids(redisC') \subseteq Bids(redisC) \cup ({m} \ {Header}) /\ InOrder(redisC')
  <2>1. Less(Bids(redisC), {m} \ {Header})
    BY <1>6, <1>7 DEF OrderInv, Less
  <2>2. Bids(Append(redisC, m)) = Bids(redisC) \cup ({m} \ {Header}) /\ InOrder(Append(redisC, m))
    BY <1>4, <1>5, <1>6, <2>1, BidsAppend DEF OrderInv
  <2> QED BY <1>3, <1>6, <2>2 DEF OrderInv
<1>9. Bids(ultrasoundBidC') = U
  BY <1>3 DEF U
<1>10. Less(Seen(c), Bids(redisC')) /\ Less(Seen(c) \cup Bids(redisC'), U)
  BY <1>6, <1>7, <1>8 DEF OrderInv, Less
<1>11. OrderInv(c)'
  BY <1>1, <1>2, <1>3, <1>6, <1>7, <1>8, <1>9, <1>10 DEF OrderInv, SameParts
<1>12. PassedInv(c)'
  BY <1>1, <1>2, <1>6, <1>7, <1>8, <1>9 DEF PassedInv
<1> QED BY <1>11, <1>12

\* The hub takes a bid from Redis and holds it for the clients subscribed.
LEMMA SendKeepsWay ==
    ASSUME StreamInv, HubTypeInv, WayInv, SendToSubscribers, UNCHANGED streamVars
    PROVE  WayInv'
<1> SUFFICES ASSUME NEW c \in Clients PROVE OrderInv(c)' /\ PassedInv(c)'
  BY DEF WayInv
<1> DEFINE m == Head(redisC)
           D == Bids(Tail(redisC))
<1>1. /\ redisC # <<>> /\ redisC' = Tail(redisC) /\ msg' = m
      /\ UNCHANGED <<pc, msgC, cur, received, ultrasoundBidC, goroutines, sent>> /\ todo = {}
  BY DEF SendToSubscribers, Locked, handlerVars, streamVars
<1>2. Writing(c)' = Writing(c) /\ Got(c)' = Got(c) /\ Has(c)' = Has(c) /\ LastPassed' = LastPassed
  BY <1>1 DEF Writing, Got, Has, LastPassed
<1>3. Seen(c) = Has(c)
  BY <1>1, BidsOfNone DEF Seen, Offered
<1>4. Bids(Offered(c))' \subseteq {m} \ {Header}
  <2>1. Offered(c)' = <<m>> \/ Offered(c)' = <<>>
    BY <1>1 DEF Offered
  <2> QED BY <2>1, BidsOfNone, BidsOfOne
<1>5. OrderInv(c) /\ PassedInv(c)
  BY DEF WayInv
<1>6. /\ Bids(redisC) = ({m} \ {Header}) \cup D
      /\ InOrder(Tail(redisC)) /\ Less({m} \ {Header}, D)
  BY <1>1, <1>5, QueueTypes, BidsHeadTail DEF OrderInv
<1> HIDE DEF m, D
<1>7. Bids(redisC)' = D
  BY <1>1 DEF D
<1>8. Seen(c)' \subseteq Seen(c) \cup ({m} \ {Header})
  BY <1>2, <1>3, <1>4 DEF Seen
<1>9. Less(Has(c), Bids(Offered(c))')
  BY <1>3, <1>4, <1>5, <1>6 DEF OrderInv, Less
<1>10. Less(Seen(c)', D)
  BY <1>5, <1>6, <1>8 DEF OrderInv, Less
<1>11. Less(Seen(c)' \cup D, Bids(ultrasoundBidC))
  BY <1>5, <1>6, <1>8 DEF OrderInv, Less
<1>12. OrderInv(c)'
  BY <1>1, <1>2, <1>5, <1>6, <1>7, <1>9, <1>10, <1>11 DEF OrderInv
<1>13. PassedInv(c)'
  BY <1>1, <1>2, <1>5, <1>6, <1>7, <1>8 DEF PassedInv
<1> QED BY <1>12, <1>13

\* What a step of the webserver leaves alone, for one client, except its parts.
LEMMA PartsMove ==
    ASSUME NEW c \in Clients, OrderInv(c), PassedInv(c),
           UNCHANGED <<redisC, ultrasoundBidC, goroutines, sent>>,
           InOrder(received'[c]), InOrder(msgC'[c]),
           Less(Bids(received'[c]), Bids(Writing(c)')),
           Less(Got(c)', Bids(msgC'[c])), Less(Has(c)', Bids(Offered(c)')),
           Seen(c)' \subseteq Seen(c)
    PROVE  OrderInv(c)' /\ PassedInv(c)'
<1>1. LastPassed' = LastPassed
  BY DEF LastPassed
<1>2. PassedInv(c)'
  BY <1>1 DEF PassedInv
<1>3. Less(Seen(c)', Bids(redisC)) /\ Less(Seen(c)' \cup Bids(redisC), Bids(ultrasoundBidC))
  BY DEF OrderInv, Less
<1>4. OrderInv(c)'
  BY <1>3 DEF OrderInv
<1> QED BY <1>2, <1>4

\* A client of which no part changes.
LEMMA SamePartsKeep ==
    ASSUME NEW c \in Clients, OrderInv(c), PassedInv(c), SameParts(c),
           UNCHANGED <<redisC, ultrasoundBidC, goroutines, sent>>
    PROVE  OrderInv(c)' /\ PassedInv(c)'
<1>1. Seen(c)' = Seen(c) /\ Has(c)' = Has(c) /\ Got(c)' = Got(c)
  BY DEF SameParts, Seen, Has, Got
<1>2. LastPassed' = LastPassed
  BY DEF LastPassed
<1> QED BY <1>1, <1>2 DEF OrderInv, PassedInv, SameParts

\* The bid at the hub joins a client's queue, or is not for it.
LEMMA OfferKeepsWay ==
    ASSUME StreamInv, HubTypeInv, WayInv, NEW d \in todo, Offer(d), UNCHANGED streamVars
    PROVE  WayInv'
<1> SUFFICES ASSUME NEW c \in Clients PROVE OrderInv(c)' /\ PassedInv(c)'
  BY DEF WayInv
<1>1. /\ UNCHANGED <<pc, cur, received, redisC, msg, ultrasoundBidC, goroutines, sent>>
      /\ todo' = todo \ {d} /\ d \in Clients
  BY DEF Offer, handlerVars, streamVars, HubTypeInv
<1>2. OrderInv(c) /\ PassedInv(c)
  BY DEF WayInv
<1>3. Writing(c)' = Writing(c) /\ Got(c)' = Got(c)
  BY <1>1 DEF Writing, Got
<1>4. CASE c # d
  <2>1. SameParts(c)
    BY <1>1, <1>3, <1>4 DEF Offer, SameParts, Offered, HubTypeInv
  <2> QED BY <1>1, <1>2, <2>1, SamePartsKeep
<1>5. CASE c = d
  <2>1. Offered(c) = <<msg>> /\ Offered(c)' = <<>>
    BY <1>1, <1>5 DEF Offered
  <2>2. Bids(Offered(c)) = {msg} \ {Header} /\ Bids(Offered(c)') = {}
    BY <2>1, BidsOfNone, BidsOfOne
  <2>3. CASE Len(msgC[d]) < QueueSize
    <3>1. msgC'[c] = Append(msgC[c], msg) /\ msgC[c] \in Seq(Messages) /\ msg \in Messages
      BY <1>1, <1>5, <2>3, PartTypes DEF Offer, HubTypeInv, Messages
    <3>2. Less(Bids(msgC[c]), {msg} \ {Header})
      BY <1>2, <2>2 DEF OrderInv, Less, Has
    <3>3. /\ Bids(Append(msgC[c], msg)) = Bids(msgC[c]) \cup ({msg} \ {Header})
          /\ InOrder(Append(msgC[c], msg))
      BY <1>2, <3>1, <3>2, BidsAppend DEF OrderInv
    <3>4. Less(Got(c), Bids(msgC'[c]))
      BY <1>2, <2>2, <3>1, <3>3 DEF OrderInv, Less, Has
    <3>5. Seen(c)' \subseteq Seen(c)
      BY <1>3, <2>2, <3>1, <3>3 DEF Seen, Has
    <3>6. Less(Has(c)', Bids(Offered(c)'))
      BY <2>2 DEF Less
    <3> QED BY <1>1, <1>2, <1>3, <3>1, <3>3, <3>4, <3>5, <3>6, PartsMove DEF OrderInv
  <2>4. CASE ~ (Len(msgC[d]) < QueueSize)
    <3>1. msgC' = msgC
      BY <2>4 DEF Offer
    <3>2. Has(c)' = Has(c) /\ Seen(c)' \subseteq Seen(c) /\ Less(Has(c)', Bids(Offered(c)'))
      BY <1>3, <2>2, <3>1 DEF Has, Seen, Less
    <3> QED BY <1>1, <1>2, <1>3, <3>1, <3>2, PartsMove DEF OrderInv
  <2> QED BY <2>3, <2>4
<1> QED BY <1>4, <1>5

\* A handler passes on bids in the order of the queue, or drops them when the client
\* is gone; the header may come anywhere.
LEMMA HandlerKeepsWay ==
    ASSUME StreamInv, HubTypeInv, WayInv, NEW d \in Clients, HandlerStep(d), UNCHANGED streamVars
    PROVE  WayInv'
<1> SUFFICES ASSUME NEW c \in Clients PROVE OrderInv(c)' /\ PassedInv(c)'
  BY DEF WayInv
<1>1. UNCHANGED <<redisC, ultrasoundBidC, goroutines, sent, todo, msg>>
  BY DEF HandlerStep, AddSubscriber, WriteHeader, Take, Write, SeeDone, RemoveSubscriber,
         Leave, streamVars
<1>2. OrderInv(c) /\ PassedInv(c)
  BY DEF WayInv
<1>3. Offered(c)' = Offered(c)
  BY <1>1 DEF Offered
<1>4. CASE c # d
  <2>1. SameParts(c)
    BY <1>3, <1>4, OthersSame DEF SameParts, SameClient, Writing
  <2> QED BY <1>1, <1>2, <2>1, SamePartsKeep
<1>5. ASSUME received'[c] = received[c], msgC'[c] = msgC[c], Writing(c) = <<>>, Writing(c)' = <<>>
      PROVE  OrderInv(c)' /\ PassedInv(c)'
  BY <1>1, <1>2, <1>3, <1>5, SamePartsKeep DEF SameParts
<1>6. CASE c = d /\ (AddSubscriber(d) \/ SeeDone(d))
  BY <1>5, <1>6 DEF AddSubscriber, SeeDone, Writing, HubTypeInv
<1>7. CASE c = d /\ WriteHeader(d)
  <2>1. /\ Writing(c) = <<>> /\ Writing(c)' = <<>> /\ msgC' = msgC
        /\ received'[c] = received[c] \/ received'[c] = Append(received[c], Header)
    BY <1>7 DEF WriteHeader, Written, Writing, HubTypeInv
  <2>2. received[c] \in Seq(Messages) /\ Header \in Messages
    BY PartTypes DEF Messages
  <2>3. Bids(received'[c]) = Bids(received[c]) /\ InOrder(received'[c])
    <3>1. /\ Bids(Append(received[c], Header)) = Bids(received[c]) \cup ({Header} \ {Header})
          /\ InOrder(received[c]) /\ Less(Bids(received[c]), {Header} \ {Header})
                => InOrder(Append(received[c], Header))
      BY <2>2, BidsAppend
    <3>2. InOrder(received[c]) /\ Less(Bids(received[c]), {Header} \ {Header})
      BY <1>2 DEF OrderInv, Less
    <3> QED BY <2>1, <3>1, <3>2
  <2>4. Got(c)' = Got(c) /\ Has(c)' = Has(c) /\ Seen(c)' = Seen(c)
    BY <1>3, <2>1, <2>3 DEF Got, Has, Seen
  <2> QED BY <1>1, <1>2, <1>3, <2>1, <2>3, <2>4, PartsMove DEF OrderInv
<1>8. CASE c = d /\ Take(d)
  <2> DEFINE m == Head(msgC[c])
             Q == Bids(Tail(msgC[c]))
  <2>1. /\ Writing(c) = <<>> /\ Writing(c)' = <<m>> /\ msgC[c] # <<>>
        /\ msgC'[c] = Tail(msgC[c]) /\ received' = received
    BY <1>8 DEF Take, Writing, HubTypeInv
  <2>2. /\ Bids(msgC[c]) = ({m} \ {Header}) \cup Q
        /\ InOrder(Tail(msgC[c])) /\ Less({m} \ {Header}, Q)
    BY <1>2, <2>1, PartTypes, BidsHeadTail DEF OrderInv
  <2> HIDE DEF m
  <2>3. Bids(Writing(c)) = {} /\ Bids(Writing(c)') = {m} \ {Header} /\ Bids(msgC'[c]) = Q
    BY <2>1, BidsOfNone, BidsOfOne
  <2> HIDE DEF Q
  <2>4. Less(Bids(received'[c]), Bids(Writing(c)')) /\ Less(Got(c)', Bids(msgC'[c]))
    BY <1>2, <2>1, <2>2, <2>3 DEF OrderInv, Less, Got
  <2>5. Has(c)' = Has(c) /\ Seen(c)' = Seen(c)
    BY <1>3, <2>1, <2>2, <2>3 DEF Got, Has, Seen
  <2> QED BY <1>1, <1>2, <1>3, <2>1, <2>2, <2>4, <2>5, PartsMove DEF OrderInv
<1>9. CASE c = d /\ Write(d)
  <2>1. /\ Writing(c) = <<cur[c]>> /\ Writing(c)' = <<>> /\ msgC' = msgC
        /\ received'[c] = received[c] \/ received'[c] = Append(received[c], cur[c])
    BY <1>9 DEF Write, Written, Writing, HubTypeInv
  <2>2. received[c] \in Seq(Messages) /\ cur[c] \in Messages
    BY PartTypes DEF Messages, HubTypeInv
  <2>3. Bids(Writing(c)) = {cur[c]} \ {Header} /\ Bids(Writing(c)') = {}
    BY <2>1, BidsOfNone, BidsOfOne
  <2>4. Bids(received'[c]) \subseteq Bids(received[c]) \cup ({cur[c]} \ {Header}) /\ InOrder(received'[c])
    <3>1. Less(Bids(received[c]), {cur[c]} \ {Header}) /\ InOrder(received[c])
      BY <1>2, <2>3 DEF OrderInv
    <3>2. /\ Bids(Append(received[c], cur[c])) = Bids(received[c]) \cup ({cur[c]} \ {Header})
          /\ InOrder(Append(received[c], cur[c]))
      BY <2>2, <3>1, BidsAppend
    <3> QED BY <2>1, <3>1, <3>2
  <2>5. Got(c)' \subseteq Got(c) /\ Has(c)' \subseteq Has(c) /\ Seen(c)' \subseteq Seen(c)
    BY <1>3, <2>1, <2>3, <2>4 DEF Got, Has, Seen
  <2>6. /\ Less(Bids(received'[c]), Bids(Writing(c)')) /\ Less(Got(c)', Bids(msgC'[c]))
        /\ Less(Has(c)', Bids(Offered(c)'))
    BY <1>2, <1>3, <2>1, <2>3, <2>5 DEF OrderInv, Less
  <2> QED BY <1>1, <1>2, <2>1, <2>4, <2>5, <2>6, PartsMove DEF OrderInv
<1>10. CASE c = d /\ RemoveSubscriber(d)
  <2>1. Writing(c) = <<>> /\ Writing(c)' = <<>> /\ msgC'[c] = <<>> /\ received' = received
    BY <1>10 DEF RemoveSubscriber, Writing, HubTypeInv
  <2>2. Bids(msgC'[c]) = {} /\ InOrder(msgC'[c])
    BY <2>1, BidsOfNone
  <2>3. Got(c)' = Got(c) /\ Has(c)' \subseteq Has(c) /\ Seen(c)' \subseteq Seen(c)
    BY <1>3, <2>1, <2>2 DEF Got, Has, Seen
  <2>4. /\ Less(Bids(received'[c]), Bids(Writing(c)')) /\ Less(Got(c)', Bids(msgC'[c]))
        /\ Less(Has(c)', Bids(Offered(c)'))
    BY <1>2, <1>3, <2>1, <2>2, <2>3 DEF OrderInv, Less
  <2> QED BY <1>1, <1>2, <2>1, <2>2, <2>3, <2>4, PartsMove DEF OrderInv
<1>11. CASE c = d /\ Leave(d)
  <2>1. SameParts(c)
    BY <1>3, <1>11 DEF Leave, SameParts, Writing
  <2> QED BY <1>1, <1>2, <2>1, SamePartsKeep
<1> QED BY <1>4, <1>6, <1>7, <1>8, <1>9, <1>10, <1>11 DEF HandlerStep

\* Every step keeps the order of the way.
LEMMA WayStep ==
    StreamInv /\ StreamInv' /\ HubTypeInv /\ WayInv /\ [Next]_vars => WayInv'
<1> SUFFICES ASSUME StreamInv, StreamInv', HubTypeInv, WayInv, [Next]_vars PROVE WayInv'
  OBVIOUS
<1>1. CASE StreamStep /\ UNCHANGED hubVars
  BY <1>1, StreamKeepsWay
<1>2. CASE ProcessBid
  BY <1>2, ProcessKeepsWay
<1>3. CASE HubStep /\ UNCHANGED streamVars
  BY <1>3, SendKeepsWay, OfferKeepsWay DEF HubStep
<1>4. CASE UNCHANGED vars
  <2>1. ultrasoundBidC' = ultrasoundBidC /\ LastPassed' = LastPassed /\ UNCHANGED hubVars
    BY <1>4 DEF vars, streamVars, LastPassed
  <2>2. LastPassed \in Int
    BY DEF LastPassed, StreamInv, StreamTypeOK
  <2> QED BY <2>1, <2>2, NothingPassed
<1> QED BY <1>1, <1>2, <1>3, <1>4, HandlerKeepsWay DEF Next

\* The bids of the stream reach every subscriber in their order and none twice,
\* whatever is dropped on the way and however often the stream reconnects.
THEOREM OrderHolds == Spec => []SubscribersSeeOrder
<1>1. Init => StreamInv /\ HubTypeInv /\ WayInv
  BY StreamInitially, HubTypeInitially, WayInitially DEF Init
<1>2. StreamInv /\ HubTypeInv /\ WayInv /\ [Next]_vars => (StreamInv /\ HubTypeInv /\ WayInv)'
  BY StreamInvStep, HubTypeStep, WayStep
<1>3. HubTypeInv /\ WayInv => SubscribersSeeOrder
  <2> SUFFICES ASSUME HubTypeInv, WayInv, NEW c \in Clients PROVE InOrder(Stream(c))
    BY DEF SubscribersSeeOrder, InOrder
  <2> DEFINE r == received[c]
             w == Writing(c)
             q == msgC[c]
  <2>1. r \in Seq(Messages) /\ w \in Seq(Messages) /\ q \in Seq(Messages) /\ Stream(c) = (r \o w) \o q
    BY PartTypes
  <2>2. InOrder(r) /\ InOrder(q) /\ Less(Bids(r), Bids(w)) /\ Less(Bids(r) \cup Bids(w), Bids(q))
    BY DEF WayInv, OrderInv, Got
  <2>3. InOrder(w)
    BY DEF Writing, InOrder
  <2> HIDE DEF r, w, q
  <2>4. r \o w \in Seq(Messages) /\ InOrder(r \o w) /\ Bids(r \o w) = Bids(r) \cup Bids(w)
    BY <2>1, <2>2, <2>3, BidsConcat, ConcatProperties
  <2>5. InOrder((r \o w) \o q)
    BY <2>1, <2>2, <2>4, BidsConcat
  <2> QED BY <2>1, <2>5
<1> QED BY <1>1, <1>2, <1>3, PTL DEF Spec

-----------------------------------------------------------------------------
(* The data API poller.                                                    *)

\* A slot's number, and its bounds.
LEMMA Division ==
    ASSUME NEW t \in Nat
    PROVE  /\ TimeToSlot(t) \in Nat
           /\ SlotToTime(TimeToSlot(t)) <= t
           /\ t < SlotToTime(TimeToSlot(t)) + SlotLen
  BY PollerAssumption DEF TimeToSlot, SlotToTime

\* The start of a slot is a time.
LEMMA Times ==
    ASSUME NEW s \in Nat
    PROVE  SlotToTime(s) \in Nat /\ SlotToTime(s + 1) = SlotToTime(s) + SlotLen
  BY PollerAssumption DEF SlotToTime

\* A time at or after the start of slot s is in slot s or a later one.
LEMMA SlotReached ==
    ASSUME NEW t \in Nat, NEW s \in Nat, SlotToTime(s) <= t
    PROVE  s <= TimeToSlot(t)
<1> DEFINE q == TimeToSlot(t)
<1>1. q \in Nat /\ t < q * SlotLen + SlotLen
  BY Division DEF SlotToTime
<1>2. SUFFICES ASSUME q < s PROVE FALSE
  BY <1>1
<1>3. q + 1 <= s
  BY <1>1, <1>2
<1>4. (q + 1) * SlotLen <= s * SlotLen
  BY <1>1, <1>3, PollerAssumption
<1>5. (q + 1) * SlotLen = q * SlotLen + SlotLen
  BY <1>1, PollerAssumption
<1>6. s * SlotLen <= t
  BY DEF SlotToTime
<1>7. s * SlotLen \in Int /\ q * SlotLen \in Int
  BY <1>1, PollerAssumption
<1>8. QED
  BY <1>1, <1>4, <1>5, <1>6, <1>7, PollerAssumption

\* A time less than a slot after the start of slot s is in no later one.
LEMMA SlotNotPassed ==
    ASSUME NEW t \in Nat, NEW s \in Nat, t < SlotToTime(s) + SlotLen
    PROVE  TimeToSlot(t) <= s
<1> DEFINE q == TimeToSlot(t)
<1>1. q \in Nat /\ SlotToTime(q) <= t /\ SlotToTime(q) \in Nat
  BY Division, Times
<1>2. SUFFICES ASSUME s + 1 <= q PROVE FALSE
  BY <1>1
<1>3. SlotToTime(s + 1) <= t
  <2>1. (s + 1) * SlotLen <= q * SlotLen
    BY <1>1, <1>2, PollerAssumption
  <2>2. SlotToTime(s + 1) \in Nat
    BY Times
  <2>3. QED
    BY <1>1, <2>1, <2>2 DEF SlotToTime
<1>4. QED
  BY <1>3, Times, PollerAssumption

-----------------------------------------------------------------------------
\* The numbers in the state.
LEMMA Numbers ==
    PollerTypeOK => /\ now \in Int /\ drift \in Int /\ wake \in Int
              /\ inFlight \in Nat /\ sending \in Nat /\ bidC \in Nat /\ collected \in Nat
  BY PollerAssumption DEF PollerTypeOK

\* The pass that is due has a slot, after the clock's.
LEMMA RoundType ==
    ASSUME PollerTypeOK
    PROVE  /\ nextSlot \in Nat
           /\ untilNextSlot \in Int
           /\ ThisRound \in Round
<1>1. Wall \in Nat /\ wake \in Int /\ now \in Int /\ stepped \in BOOLEAN
  BY Numbers DEF PollerTypeOK
<1>2. nextSlot \in Nat
  BY <1>1, Division DEF nextSlot
<1>3. untilNextSlot \in Int
  BY <1>1, <1>2, Times DEF untilNextSlot
<1>4. (now >= wake + SlotLen) \in BOOLEAN
  OBVIOUS
<1>5. QED
  BY <1>1, <1>2, <1>3, <1>4 DEF ThisRound, Round

\* Every initial state is well typed.
LEMMA PollerInitType == PollerInit => PollerTypeOK
<1> SUFFICES ASSUME PollerInit PROVE PollerTypeOK
  OBVIOUS
<1>1. wake \in Int
  BY Division, Times, PollerAssumption DEF PollerInit
<1>2. Wall \in Nat /\ now \in StartNow .. MaxNow
  BY PollerAssumption DEF PollerInit, Wall
<1>3. /\ inFlight + sending + bidC + collected <= MaxAnswers
      /\ bidC \in 0 .. ChanSize
      /\ nChanges \in 0 .. MaxChanges
  BY PollerAssumption DEF PollerInit
<1>4. rounds \in Seq(Round)
  BY DEF PollerInit
<1>5. /\ drift \in Int /\ inFlight \in Nat /\ sending \in Nat /\ collected \in Nat
  BY DEF PollerInit
<1>6. stepped \in BOOLEAN /\ setBack \in BOOLEAN /\ polls = {} /\ asked = {}
  BY DEF PollerInit
<1>7. QED
  BY <1>1, <1>2, <1>3, <1>4, <1>5, <1>6 DEF PollerTypeOK

\* Every step keeps the types, one action at a time.
LEMMA PollerStepType == PollerTypeOK /\ [PollerStep]_pollerVars => PollerTypeOK'
<1> SUFFICES ASSUME PollerTypeOK, [PollerStep]_pollerVars PROVE PollerTypeOK'
  OBVIOUS
<1> USE PollerAssumption
<1>1. CASE Tick
  BY <1>1 DEF PollerTypeOK, Tick, Wall, loopVars, chanVars, obsVars
<1>2. ASSUME NEW d \in Changes, SetClock(d) PROVE PollerTypeOK'
  BY <1>2 DEF PollerTypeOK, SetClock, Wall, loopVars, chanVars
<1>3. CASE Schedule
  <2>1. nextSlot \in Nat /\ untilNextSlot \in Int /\ ThisRound \in Round
    BY RoundType
  <2>2. rounds' \in Seq(Round) /\ DOMAIN rounds' = DOMAIN rounds \cup {Len(rounds) + 1}
    BY <1>3, <2>1 DEF PollerTypeOK, Schedule, Pass
  <2>3. polls' \subseteq [round : DOMAIN rounds', slot : Nat, offset : Offsets, at : Int]
    BY <1>3, <2>1, <2>2 DEF PollerTypeOK, Schedule, Pass, NoTime
  <2>4. wake' \in Int
    BY <1>3, <2>1, Numbers DEF Schedule, Pass
  <2>5. UNCHANGED <<now, drift, chanVars, setBack, nChanges>> /\ stepped' = FALSE
    BY <1>3 DEF Schedule, Pass, timeVars
  <2>6. asked' \subseteq [round : DOMAIN rounds', slot : Nat, offset : Offsets]
    BY <1>3, <2>2 DEF PollerTypeOK, Schedule, Pass
  <2>7. QED
    BY <2>2, <2>3, <2>4, <2>5, <2>6 DEF PollerTypeOK, Wall, chanVars
<1>4. ASSUME NEW p \in polls, PollTooLate(p) PROVE PollerTypeOK'
  BY <1>4 DEF PollerTypeOK, PollTooLate, Wall, timeVars, loopVars, chanVars, obsVars
<1>5. ASSUME NEW p \in polls, PollSleeps(p) PROVE PollerTypeOK'
  <2>1. now + WaitTime(p) \in Int
    <3>1. p.slot \in Nat /\ p.offset \in Int
      BY DEF PollerTypeOK
    <3>2. SlotToTime(p.slot) \in Nat
      BY <3>1, Times
    <3>3. QED
      BY <3>1, <3>2, Numbers DEF WaitTime, Wall
  <2>2. polls' \subseteq [round : DOMAIN rounds, slot : Nat, offset : Offsets, at : Int]
    BY <1>5, <2>1 DEF PollerTypeOK, PollSleeps
  <2>3. QED
    BY <1>5, <2>2 DEF PollerTypeOK, PollSleeps, Wall, timeVars, loopVars, chanVars, obsVars
<1>6. ASSUME NEW p \in polls, PollWakes(p) PROVE PollerTypeOK'
  <2>1. PICK R \in SUBSET Relays :
            /\ inFlight + sending + bidC + collected + Cardinality(R) <= MaxAnswers
            /\ inFlight' = inFlight + Cardinality(R)
    BY <1>6 DEF PollWakes
  <2>2. Cardinality(R) \in Nat
    BY FS_Subset, FS_CardinalityType
  <2>3. /\ inFlight' \in Nat
        /\ inFlight' + sending + bidC + collected <= MaxAnswers
    BY <2>1, <2>2, Numbers
  <2>4. asked' \subseteq [round : DOMAIN rounds, slot : Nat, offset : Offsets]
    BY <1>6 DEF PollerTypeOK, PollWakes
  <2>5. QED
    BY <1>6, <2>3, <2>4 DEF PollerTypeOK, PollWakes, Wall, timeVars, loopVars, obsVars
<1>7. CASE Answer
  BY <1>7 DEF PollerTypeOK, Answer, Wall, timeVars, loopVars, obsVars
<1>8. CASE Send
  BY <1>8 DEF PollerTypeOK, Send, Wall, timeVars, loopVars, obsVars
<1>9. CASE Receive
  BY <1>9 DEF PollerTypeOK, Receive, Wall, timeVars, loopVars, obsVars
<1>10. CASE UNCHANGED pollerVars
  BY <1>10 DEF PollerTypeOK, pollerVars, Wall, timeVars, loopVars, chanVars, obsVars
<1>11. QED
  BY <1>1, <1>2, <1>3, <1>4, <1>5, <1>6, <1>7, <1>8, <1>9, <1>10 DEF PollerStep, Clocks, Poll

\* The poller's variables keep their types, whatever the clocks and relays do.
THEOREM PollerTypeCorrect == PollerSpec => []PollerTypeOK
<1>1. QED
  BY PollerInitType, PollerStepType, PTL DEF PollerSpec

-----------------------------------------------------------------------------
LastSlot == rounds[Len(rounds)].slot

\* The loop's sleep ends when the slot of its last pass starts; if the clock was
\* changed forward since, not before.
SleepsUntilSlot ==
    rounds # <<>> =>
        /\ ~ stepped => wake + drift = SlotToTime(LastSlot)
        /\ ~ setBack => wake + drift >= SlotToTime(LastSlot)

SlotsRise ==
    setBack \/ \A i, j \in DOMAIN rounds : i < j => rounds[i].slot < rounds[j].slot

PollsOfTheirRound == \A p \in polls \cup asked : p.slot = rounds[p.round].slot

PollerInv == PollerTypeOK /\ SleepsUntilSlot /\ SlotsRise /\ PollsOfTheirRound /\ NoSlotSkipped

\* PollerInv holds initially.
LEMMA PollerInvInit == PollerInit => PollerInv
  BY PollerInitType DEF PollerInit, PollerInv, SleepsUntilSlot, SlotsRise, PollsOfTheirRound, NoSlotSkipped

\* The rounds after a pass.
LEMMA RoundsAfter ==
    ASSUME PollerTypeOK, Schedule
    PROVE  /\ Len(rounds) \in Nat
           /\ DOMAIN rounds = 1 .. Len(rounds)
           /\ Len(rounds') = Len(rounds) + 1
           /\ DOMAIN rounds' = 1 .. Len(rounds) + 1
           /\ \A i \in DOMAIN rounds : rounds'[i] = rounds[i] /\ rounds[i] \in Round
           /\ rounds'[Len(rounds) + 1] = ThisRound
           /\ rounds # <<>> => Len(rounds) \in DOMAIN rounds
<1>1. rounds \in Seq(Round) /\ ThisRound \in Round /\ rounds' = Append(rounds, ThisRound)
  BY RoundType DEF PollerTypeOK, Schedule, Pass
<1>2. Len(rounds) \in Nat /\ DOMAIN rounds = 1 .. Len(rounds) /\ \A i \in DOMAIN rounds : rounds[i] \in Round
  BY <1>1
<1>3. /\ Len(rounds') = Len(rounds) + 1 /\ DOMAIN rounds' = 1 .. Len(rounds) + 1
      /\ \A i \in DOMAIN rounds : rounds'[i] = rounds[i]
      /\ rounds'[Len(rounds) + 1] = ThisRound
  BY <1>1
<1>4. rounds # <<>> => Len(rounds) \in DOMAIN rounds
  BY <1>1
<1>5. QED
  BY <1>2, <1>3, <1>4

\* A pass takes a slot after those of the passes before it; the next one, if the
\* clock was not changed and the loop did not oversleep.
LEMMA NextSlotFollows ==
    ASSUME PollerInv, Schedule, rounds # <<>>
    PROVE  /\ LastSlot \in Nat
           /\ ~ setBack => LastSlot < nextSlot
           /\ (now < wake + SlotLen /\ ~ stepped) => nextSlot = LastSlot + 1
<1>1. LastSlot \in Nat /\ Wall \in Nat /\ TimeToSlot(Wall) \in Nat /\ now \in Int /\ drift \in Int
  <2>1. rounds[Len(rounds)] \in Round
    BY RoundsAfter DEF PollerInv
  <2>2. Wall \in Nat
    BY DEF PollerInv, PollerTypeOK
  <2>3. QED
    BY <2>1, <2>2, Division, Numbers DEF PollerInv, LastSlot, Round
<1>2. SlotToTime(LastSlot) \in Nat
  BY <1>1, Times
<1>3. wake <= now /\ wake \in Int
  BY DEF Schedule, Pass, PollerInv, PollerTypeOK
<1>4. ASSUME SlotToTime(LastSlot) <= wake + drift PROVE LastSlot <= TimeToSlot(Wall)
  <2>1. SlotToTime(LastSlot) <= Wall
    BY <1>1, <1>2, <1>3, <1>4 DEF Wall
  <2>2. QED
    BY <1>1, <2>1, SlotReached
<1>5. ASSUME SlotToTime(LastSlot) = wake + drift, now < wake + SlotLen
      PROVE  TimeToSlot(Wall) <= LastSlot
  <2>1. Wall < SlotToTime(LastSlot) + SlotLen
    BY <1>1, <1>2, <1>3, <1>5, PollerAssumption DEF Wall
  <2>2. QED
    BY <1>1, <2>1, SlotNotPassed
<1>6. ~ setBack => LastSlot < nextSlot
  BY <1>1, <1>2, <1>3, <1>4 DEF PollerInv, SleepsUntilSlot, nextSlot
<1>7. (now < wake + SlotLen /\ ~ stepped) => nextSlot = LastSlot + 1
  BY <1>1, <1>2, <1>3, <1>4, <1>5 DEF PollerInv, SleepsUntilSlot, nextSlot
<1>8. QED
  BY <1>1, <1>6, <1>7

\* A pass of the loop keeps the invariant.
LEMMA ScheduleInv == PollerInv /\ Schedule /\ PollerTypeOK' => PollerInv'
<1> SUFFICES ASSUME PollerInv, Schedule, PollerTypeOK' PROVE PollerInv'
  OBVIOUS
<1> USE DEF PollerInv
<1>1. nextSlot \in Nat /\ ThisRound.slot = nextSlot
  BY RoundType DEF ThisRound
<1>2. SleepsUntilSlot'
  <2>1. LastSlot' = nextSlot
    BY <1>1, RoundsAfter DEF LastSlot
  <2>2. wake' + drift' = SlotToTime(nextSlot)
    <3>1. wake' = now + (SlotToTime(nextSlot) - (now + drift)) /\ drift' = drift
      BY DEF Schedule, Pass, untilNextSlot, Wall, timeVars
    <3>2. SlotToTime(nextSlot) \in Nat /\ now \in Int /\ drift \in Int
      BY <1>1, Times, Numbers
    <3>3. QED
      BY <3>1, <3>2
  <2>3. SlotToTime(nextSlot) \in Nat
    BY <1>1, Times
  <2>4. QED
    BY <2>1, <2>2, <2>3 DEF SleepsUntilSlot
<1>3. SlotsRise'
  <2>1. SUFFICES ASSUME ~ setBack, NEW i \in DOMAIN rounds', NEW j \in DOMAIN rounds', i < j
                 PROVE  rounds'[i].slot < rounds'[j].slot
    BY DEF SlotsRise, Schedule, Pass
  <2>2. CASE j \in DOMAIN rounds
    BY <2>1, <2>2, RoundsAfter DEF SlotsRise
  <2>3. CASE j = Len(rounds) + 1
    <3>1. i \in DOMAIN rounds /\ rounds # <<>>
      BY <2>1, <2>3, RoundsAfter
    <3>2. rounds[i].slot <= LastSlot /\ rounds[i].slot \in Nat
      BY <2>1, <3>1, RoundsAfter DEF SlotsRise, LastSlot, Round
    <3>3. QED
      BY <1>1, <2>1, <2>3, <3>1, <3>2, RoundsAfter, NextSlotFollows
  <2>4. QED
    BY <2>2, <2>3, RoundsAfter
<1>4. PollsOfTheirRound'
  <2>1. SUFFICES ASSUME NEW p \in polls' \cup asked' PROVE p.slot = rounds'[p.round].slot
    BY DEF PollsOfTheirRound
  <2>2. CASE p \in polls \cup asked
    BY <2>2, RoundsAfter DEF PollsOfTheirRound, PollerTypeOK
  <2>3. CASE p \notin polls \cup asked
    <3>1. p.round = Len(rounds) + 1 /\ p.slot = nextSlot
      BY <2>1, <2>3 DEF Schedule, Pass
    <3>2. QED
      BY <1>1, <3>1, RoundsAfter
  <2>4. QED
    BY <2>2, <2>3
<1>5. NoSlotSkipped'
  <2>1. SUFFICES ASSUME NEW i \in DOMAIN rounds', i > 1,
                        ~ rounds'[i].overslept, ~ rounds'[i].stepped
                 PROVE  rounds'[i].slot = rounds'[i - 1].slot + 1
    BY DEF NoSlotSkipped
  <2>2. CASE i \in DOMAIN rounds
    BY <2>1, <2>2, RoundsAfter DEF NoSlotSkipped
  <2>3. CASE i = Len(rounds) + 1
    <3>1. rounds # <<>> /\ i - 1 = Len(rounds) /\ i - 1 \in DOMAIN rounds
      BY <2>1, <2>3, RoundsAfter
    <3>2. now < wake + SlotLen /\ ~ stepped
      <4>1. ~ ThisRound.overslept /\ ~ ThisRound.stepped
        BY <2>1, <2>3, RoundsAfter
      <4>2. ~ (now >= wake + SlotLen) /\ ~ stepped
        BY <4>1 DEF ThisRound
      <4>3. QED
        BY <4>2, Numbers, PollerAssumption
    <3>3. QED
      BY <1>1, <2>3, <3>1, <3>2, RoundsAfter, NextSlotFollows DEF LastSlot
  <2>4. QED
    BY <2>2, <2>3, RoundsAfter
<1>6. QED
  BY <1>2, <1>3, <1>4, <1>5

\* Every step keeps the invariant.
LEMMA PollerInvStep == PollerInv /\ [PollerStep]_pollerVars => PollerInv'
<1> SUFFICES ASSUME PollerInv, [PollerStep]_pollerVars PROVE PollerInv'
  OBVIOUS
<1>1. PollerTypeOK'
  BY PollerStepType DEF PollerInv
<1>2. CASE Schedule
  BY <1>1, <1>2, ScheduleInv
<1>3. ASSUME UNCHANGED <<rounds, wake, drift, stepped, setBack>>,
             \A p \in (polls \cup asked)' :
                 \E q \in polls \cup asked : p.slot = q.slot /\ p.round = q.round
      PROVE  PollerInv'
  BY <1>1, <1>3 DEF PollerInv, SleepsUntilSlot, SlotsRise, PollsOfTheirRound, NoSlotSkipped, LastSlot
<1>4. CASE Tick \/ Answer \/ Send \/ Receive \/ UNCHANGED pollerVars
  <2>1. UNCHANGED <<rounds, wake, drift, stepped, setBack, polls, asked>>
    BY <1>4 DEF Tick, Answer, Send, Receive, pollerVars, timeVars, loopVars, obsVars
  <2>2. QED
    BY <1>3, <2>1
<1>5. ASSUME NEW d \in Changes, SetClock(d) PROVE PollerInv'
  <2>1. SleepsUntilSlot'
    <3>1. UNCHANGED <<rounds, wake>> /\ drift' = drift + d /\ stepped'
      BY <1>5 DEF SetClock, loopVars
    <3>2. ~ setBack' => ~ setBack /\ d >= 0
      <4>1. setBack' = (setBack \/ d < 0) /\ d \in Int
        BY <1>5, PollerAssumption DEF SetClock
      <4>2. ~ setBack' => ~ setBack /\ ~ (d < 0)
        BY <4>1, Zenon
      <4>3. ~ (d < 0) => d >= 0
        BY <4>1
      <4>4. QED
        BY <4>2, <4>3
    <3>3. LastSlot' = LastSlot
      BY <3>1 DEF LastSlot
    <3>4. rounds # <<>> => LastSlot \in Nat /\ SlotToTime(LastSlot) \in Nat
      <4>1. rounds \in Seq(Round)
        BY DEF PollerInv, PollerTypeOK
      <4>2. rounds # <<>> => rounds[Len(rounds)] \in Round
        BY <4>1
      <4>3. QED
        BY <4>2, Times DEF LastSlot, Round
    <3>5. QED
      BY <3>1, <3>2, <3>3, <3>4, PollerAssumption DEF SleepsUntilSlot, PollerInv, PollerTypeOK
  <2>2. UNCHANGED <<rounds, polls, asked>> /\ (setBack => setBack')
    BY <1>5 DEF SetClock, loopVars
  <2>3. QED
    BY <1>1, <2>1, <2>2 DEF PollerInv, SlotsRise, PollsOfTheirRound, NoSlotSkipped
<1>6. ASSUME NEW p \in polls, PollTooLate(p) \/ PollSleeps(p) \/ PollWakes(p) PROVE PollerInv'
  <2>1. UNCHANGED <<rounds, wake, drift, stepped, setBack>>
    BY <1>6 DEF PollTooLate, PollSleeps, PollWakes, timeVars, loopVars, obsVars
  <2>2. \A q \in (polls \cup asked)' :
            \E r \in polls \cup asked : q.slot = r.slot /\ q.round = r.round
    <3>1. CASE PollTooLate(p)
      BY <3>1 DEF PollTooLate
    <3>2. CASE PollSleeps(p)
      BY <3>2 DEF PollSleeps, PollerInv, PollerTypeOK
    <3>3. CASE PollWakes(p)
      BY <3>3 DEF PollWakes
    <3>4. QED
      BY <1>6, <3>1, <3>2, <3>3
  <2>3. QED
    BY <1>3, <2>1, <2>2
<1>7. QED
  BY <1>2, <1>4, <1>5, <1>6 DEF PollerStep, Clocks, Poll

\* Without a slot overslept or a changed clock, the loop takes every slot in turn.
THEOREM SlotsInTurn == PollerSpec => []NoSlotSkipped
<1>1. PollerInv => NoSlotSkipped
  BY DEF PollerInv
<1>2. QED
  BY <1>1, PollerInvInit, PollerInvStep, PTL DEF PollerSpec

\* While the clock is not set back, no slot and offset is asked for twice.
THEOREM AskedOnceHolds == PollerSpec => []AskedOnce
<1>1. PollerInv => AskedOnce
  <2>1. SUFFICES ASSUME PollerInv, ~ setBack, NEW p \in asked, NEW q \in asked,
                        p.slot = q.slot, p.offset = q.offset
                 PROVE  p = q
    BY DEF AskedOnce
  <2>2. p.round \in DOMAIN rounds /\ q.round \in DOMAIN rounds
    BY <2>1 DEF PollerInv, PollerTypeOK
  <2>3. DOMAIN rounds \subseteq Nat /\ \A i \in DOMAIN rounds : rounds[i].slot \in Nat
    <3>1. rounds \in Seq(Round)
      BY <2>1 DEF PollerInv, PollerTypeOK
    <3>2. DOMAIN rounds = 1 .. Len(rounds) /\ \A i \in DOMAIN rounds : rounds[i] \in Round
      BY <3>1
    <3>3. QED
      BY <3>1, <3>2 DEF Round
  <2>4. ~ (p.round < q.round) /\ ~ (q.round < p.round)
    BY <2>1, <2>2, <2>3 DEF PollerInv, SlotsRise, PollsOfTheirRound
  <2>5. p.round = q.round
    BY <2>2, <2>3, <2>4
  <2>6. QED
    BY <2>1, <2>5 DEF PollerInv, PollerTypeOK
<1>2. QED
  BY <1>1, PollerInvInit, PollerInvStep, PTL DEF PollerSpec
=============================================================================
