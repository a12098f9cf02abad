------------------------- MODULE UltrasoundStream -------------------------
(***************************************************************************)
(* The ultrasound bid stream of the collector (ultrasound-stream.go): a    *)
(* websocket that is read into a bounded channel and dialled again, by a   *)
(* new goroutine and after a growing delay, whenever it fails.  The bids   *)
(* of the stream are numbered in the order in which the server sends them. *)
(***************************************************************************)
EXTENDS Integers, Sequences, FiniteSets

CONSTANTS
    InitialBackoffSec,
    MaxBackoffSec,
    ChannelSize,    \* BidCollectorInputChannelSize
    MaxBids,        \* bound: messages of the server
    MaxFails        \* bound: failed dials and broken connections

ASSUME BackoffAssumption ==
    /\ InitialBackoffSec \in Nat \ {0}
    /\ MaxBackoffSec \in Nat
    /\ InitialBackoffSec <= MaxBackoffSec
ASSUME StreamAssumption ==
    /\ ChannelSize \in Nat \ {0}
    /\ MaxBids \in Nat
    /\ MaxFails \in Nat

VARIABLES
    goroutines,     \* of the stream: [id, pc, bid, delay]
    backoffSec,
    ultrasoundBidC, \* the channel to the collector
    sent,           \* messages read so far
    nFails,
    fails           \* observer: failures since the last successful dial

streamVars == <<goroutines, backoffSec, ultrasoundBidC, sent, nFails, fails>>

Goroutine(id, pc, bid, delay) == [id |-> id, pc |-> pc, bid |-> bid, delay |-> delay]
Dialling == Goroutine(0, "dial", 0, 0)

\* go ustream.reconnect(): a new goroutine sleeps for the present delay.
Reconnecting == Goroutine(nFails + 1, "sleep", 0, backoffSec)

-----------------------------------------------------------------------------
ConnectKeepsBackoff(g) ==
    /\ g.pc = "dial"
    /\ goroutines' = (goroutines \ {g}) \cup {[g EXCEPT !.pc = "read"]}
    /\ fails' = 0
    /\ UNCHANGED <<backoffSec, ultrasoundBidC, sent, nFails>>

\* The dial succeeds and the delay is reset.
Connect(g) ==
    /\ g.pc = "dial"
    /\ goroutines' = (goroutines \ {g}) \cup {[g EXCEPT !.pc = "read"]}
    /\ backoffSec' = InitialBackoffSec
    /\ fails' = 0
    /\ UNCHANGED <<ultrasoundBidC, sent, nFails>>

Failure ==
    /\ nFails < MaxFails
    /\ nFails' = nFails + 1
    /\ fails' = fails + 1

ConnectGivesUp(g) ==
    /\ g.pc = "dial"
    /\ Failure
    /\ goroutines' = goroutines \ {g}
    /\ UNCHANGED <<backoffSec, ultrasoundBidC, sent>>

ConnectFails(g) ==
    /\ g.pc = "dial"
    /\ Failure
    /\ goroutines' = (goroutines \ {g}) \cup {Reconnecting}
    /\ UNCHANGED <<backoffSec, ultrasoundBidC, sent>>

ReconnectUncapped(g) ==
    /\ g.pc = "sleep"
    /\ backoffSec' = backoffSec * 2
    /\ goroutines' = (goroutines \ {g}) \cup {[g EXCEPT !.pc = "dial", !.delay = 0]}
    /\ UNCHANGED <<ultrasoundBidC, sent, nFails, fails>>

\* The delay is over; the next one is twice as long, up to the maximum.
Reconnect(g) ==
    /\ g.pc = "sleep"
    /\ backoffSec' = IF backoffSec * 2 > MaxBackoffSec THEN MaxBackoffSec ELSE backoffSec * 2
    /\ goroutines' = (goroutines \ {g}) \cup {[g EXCEPT !.pc = "dial", !.delay = 0]}
    /\ UNCHANGED <<ultrasoundBidC, sent, nFails, fails>>

\* A message is read and decoded.
ReadMessage(g) ==
    /\ g.pc = "read"
    /\ sent < MaxBids
    /\ sent' = sent + 1
    /\ goroutines' = (goroutines \ {g}) \cup {[g EXCEPT !.pc = "send", !.bid = sent + 1]}
    /\ UNCHANGED <<backoffSec, ultrasoundBidC, nFails, fails>>

\* It cannot be decoded: the loop goes on.
ReadUndecodable(g) ==
    /\ g.pc = "read"
    /\ sent < MaxBids
    /\ sent' = sent + 1
    /\ UNCHANGED <<goroutines, backoffSec, ultrasoundBidC, nFails, fails>>

ReadFailsGoesOn(g) ==
    /\ g.pc = "read"
    /\ Failure
    /\ goroutines' = goroutines \cup {Reconnecting}
    /\ UNCHANGED <<backoffSec, ultrasoundBidC, sent>>

\* The connection breaks: reconnect, and the goroutine returns.
ReadFails(g) ==
    /\ g.pc = "read"
    /\ Failure
    /\ goroutines' = (goroutines \ {g}) \cup {Reconnecting}
    /\ UNCHANGED <<backoffSec, ultrasoundBidC, sent>>

SendBidAgain(g) ==
    /\ g.pc = "send"
    /\ Len(ultrasoundBidC) < ChannelSize
    /\ ultrasoundBidC' = Append(ultrasoundBidC, g.bid)
    /\ UNCHANGED <<goroutines, backoffSec, sent, nFails, fails>>

\* The goroutine blocks while the channel is full.
SendBid(g) ==
    /\ g.pc = "send"
    /\ Len(ultrasoundBidC) < ChannelSize
    /\ ultrasoundBidC' = Append(ultrasoundBidC, g.bid)
    /\ goroutines' = (goroutines \ {g}) \cup {[g EXCEPT !.pc = "read", !.bid = 0]}
    /\ UNCHANGED <<backoffSec, sent, nFails, fails>>

-----------------------------------------------------------------------------
StreamInit ==
    /\ goroutines = {Dialling}
    /\ backoffSec = InitialBackoffSec
    /\ ultrasoundBidC = <<>>
    /\ sent = 0
    /\ nFails = 0
    /\ fails = 0

StreamStep ==
    \E g \in goroutines :
        \/ Connect(g) \/ ConnectFails(g) \/ Reconnect(g)
        \/ ReadMessage(g) \/ ReadUndecodable(g) \/ ReadFails(g) \/ SendBid(g)

-----------------------------------------------------------------------------
StreamTypeOK ==
    /\ \A g \in goroutines :
        g \in [id : 0 .. MaxFails, pc : {"dial", "sleep", "read", "send"},
               bid : 0 .. MaxBids, delay : 0 .. MaxBackoffSec]
    /\ backoffSec \in InitialBackoffSec .. MaxBackoffSec
    /\ ultrasoundBidC \in Seq(1 .. MaxBids) /\ Len(ultrasoundBidC) <= ChannelSize
    /\ sent \in 0 .. MaxBids
    /\ nFails \in 0 .. MaxFails
    /\ fails \in 0 .. MaxFails

\* There is one goroutine of the stream at any time, connected or about to dial
\* again: with none the stream would be given up, two would deliver every bid
\* twice and share backoffSec without a lock.
OneStream == Cardinality(goroutines) = 1

\* The delay after n failures in a row, if it had no maximum.
Doubled[n \in Nat] == IF n = 0 THEN InitialBackoffSec ELSE 2 * Doubled[n - 1]

AtMost(n) == IF n > MaxBackoffSec THEN MaxBackoffSec ELSE n

\* The delay before a dial is determined by the failures since the last
\* success: doubled for each, up to the maximum, and back after a success.
DelayFollowsFailures ==
    \A g \in goroutines : g.pc = "sleep" => g.delay = AtMost(Doubled[fails - 1])
=============================================================================
