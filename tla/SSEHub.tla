------------------------------ MODULE SSEHub ------------------------------
(***************************************************************************)
(* The webserver that streams bids as server-sent events: a loop hands     *)
(* every message of Redis to the queues of all subscribers, under a read   *)
(* lock and without waiting for a full queue; one handler per subscriber   *)
(* writes its queue to the client, which may stall or leave at any time.   *)
(* Bids are numbers, in the order in which the collector received them.    *)
(***************************************************************************)
EXTENDS Integers, Sequences

CONSTANTS
    Clients,
    QueueSize,      \* places of a subscriber's msgC
    Header          \* the CSV header

ASSUME QueueAssumption == QueueSize \in Nat \ {0} /\ Header \notin Nat

VARIABLES
    redisC,             \* messages of the Redis subscription
    sseConnectionMap,
    msg,                \* the message being handed out
    todo,               \* subscribers it was not yet offered to; read lock held if any
    pc,                 \* the handler of a client
    msgC,               \* its queue
    cur,                \* the message it is writing
    left,               \* clients whose request context is done
    received,           \* what reached the client
    published,          \* observer: messages since the client was added, until it leaves
    wasFull             \* observer: clients whose queue was full once

hubVars == <<redisC, sseConnectionMap, msg, todo, pc, msgC, cur, left, received, published, wasFull>>
handlerVars == <<sseConnectionMap, pc, cur, left, received>>

Locked == todo # {}

-----------------------------------------------------------------------------
(* SendToSubscribers.                                                       *)

\* The read lock is taken; without subscribers the message is dropped.
SendToSubscribers ==
    /\ ~ Locked
    /\ redisC # <<>>
    /\ msg' = Head(redisC)
    /\ redisC' = Tail(redisC)
    /\ todo' = sseConnectionMap
    /\ published' = [c \in Clients |->
                        IF c \in sseConnectionMap \ left THEN Append(published[c], msg') ELSE published[c]]
    /\ UNCHANGED <<handlerVars, msgC, wasFull>>

OfferUntilFull(c) ==
    /\ c \in todo
    /\ IF Len(msgC[c]) < QueueSize
       THEN /\ msgC' = [msgC EXCEPT ![c] = Append(@, msg)]
            /\ todo' = todo \ {c}
            /\ UNCHANGED wasFull
       ELSE /\ wasFull' = wasFull \cup ({c} \ left)
            /\ todo' = {}
            /\ UNCHANGED msgC
    /\ UNCHANGED <<handlerVars, redisC, msg, published>>

\* A subscriber with a full queue is passed over.
Offer(c) ==
    /\ c \in todo
    /\ todo' = todo \ {c}
    /\ IF Len(msgC[c]) < QueueSize
       THEN /\ msgC' = [msgC EXCEPT ![c] = Append(@, msg)]
            /\ UNCHANGED wasFull
       ELSE /\ wasFull' = wasFull \cup ({c} \ left)
            /\ UNCHANGED msgC
    /\ UNCHANGED <<handlerVars, redisC, msg, published>>

-----------------------------------------------------------------------------
(* handleSSESubscription.                                                   *)

AddSubscriber(c) ==
    /\ pc[c] = "none"
    /\ ~ Locked
    /\ sseConnectionMap' = sseConnectionMap \cup {c}
    /\ pc' = [pc EXCEPT ![c] = "hello"]
    /\ UNCHANGED <<redisC, msg, todo, msgC, cur, left, received, published, wasFull>>

\* A client that has left does not receive what is written to it; the error
\* is ignored.
Written(c, m) == IF c \in left THEN received ELSE [received EXCEPT ![c] = Append(@, m)]

WriteHeader(c) ==
    /\ pc[c] = "hello"
    /\ received' = Written(c, Header)
    /\ pc' = [pc EXCEPT ![c] = "select"]
    /\ UNCHANGED <<redisC, sseConnectionMap, msg, todo, msgC, cur, left, published, wasFull>>

Take(c) ==
    /\ pc[c] = "select"
    /\ msgC[c] # <<>>
    /\ cur' = [cur EXCEPT ![c] = Head(msgC[c])]
    /\ msgC' = [msgC EXCEPT ![c] = Tail(@)]
    /\ pc' = [pc EXCEPT ![c] = "write"]
    /\ UNCHANGED <<redisC, sseConnectionMap, msg, todo, left, received, published, wasFull>>

WriteOrReturn(c) ==
    /\ pc[c] = "write"
    /\ received' = Written(c, cur[c])
    /\ pc' = [pc EXCEPT ![c] = IF c \in left THEN "gone" ELSE "select"]
    /\ cur' = [cur EXCEPT ![c] = 0]
    /\ UNCHANGED <<redisC, sseConnectionMap, msg, todo, msgC, left, published, wasFull>>

\* The client takes the message, or is gone; until then the handler waits.
Write(c) ==
    /\ pc[c] = "write"
    /\ received' = Written(c, cur[c])
    /\ pc' = [pc EXCEPT ![c] = "select"]
    /\ cur' = [cur EXCEPT ![c] = 0]
    /\ UNCHANGED <<redisC, sseConnectionMap, msg, todo, msgC, left, published, wasFull>>

\* select takes the context's branch, also when the queue is not empty.
SeeDone(c) ==
    /\ pc[c] = "select"
    /\ c \in left
    /\ pc' = [pc EXCEPT ![c] = "remove"]
    /\ UNCHANGED <<redisC, sseConnectionMap, msg, todo, msgC, cur, left, received, published, wasFull>>

\* The subscription and its queue are forgotten.
RemoveSubscriber(c) ==
    /\ pc[c] = "remove"
    /\ ~ Locked
    /\ sseConnectionMap' = sseConnectionMap \ {c}
    /\ pc' = [pc EXCEPT ![c] = "gone"]
    /\ msgC' = [msgC EXCEPT ![c] = <<>>]
    /\ UNCHANGED <<redisC, msg, todo, cur, left, received, published, wasFull>>

\* The client closes its connection.
Leave(c) ==
    /\ pc[c] \notin {"none", "gone"}
    /\ c \notin left
    /\ left' = left \cup {c}
    /\ published' = [published EXCEPT ![c] = <<>>]
    /\ wasFull' = wasFull \ {c}
    /\ UNCHANGED <<redisC, sseConnectionMap, msg, todo, pc, msgC, cur, received>>

-----------------------------------------------------------------------------
HubInit ==
    /\ redisC = <<>>
    /\ sseConnectionMap = {}
    /\ msg = 0
    /\ todo = {}
    /\ pc = [c \in Clients |-> "none"]
    /\ msgC = [c \in Clients |-> <<>>]
    /\ cur = [c \in Clients |-> 0]
    /\ left = {}
    /\ received = [c \in Clients |-> <<>>]
    /\ published = [c \in Clients |-> <<>>]
    /\ wasFull = {}

HubStep == SendToSubscribers \/ \E c \in todo : Offer(c)

HandlerStep(c) ==
    \/ AddSubscriber(c) \/ WriteHeader(c) \/ Take(c) \/ Write(c)
    \/ SeeDone(c) \/ RemoveSubscriber(c) \/ Leave(c)

\* The loop over Redis goes on, and so do handlers; a client need not read,
\* but writing to one that has left ends.  Go's select takes each of two ready
\* branches infinitely often.
HubFairness ==
    /\ WF_hubVars(HubStep)
    /\ \A c \in Clients :
        /\ WF_hubVars(WriteHeader(c))
        /\ WF_hubVars(c \in left /\ Write(c))
        /\ SF_hubVars(SeeDone(c))
        /\ SF_hubVars(RemoveSubscriber(c))

-----------------------------------------------------------------------------
HubTypeOK ==
    /\ redisC \in Seq(Nat)
    /\ sseConnectionMap \subseteq Clients
    /\ todo \subseteq sseConnectionMap
    /\ pc \in [Clients -> {"none", "hello", "select", "write", "remove", "gone"}]
    /\ \A c \in Clients : msgC[c] \in Seq(Nat) /\ Len(msgC[c]) <= QueueSize
    /\ left \subseteq Clients
    /\ wasFull \subseteq Clients

\* What a subscriber has got, is being written, or waits for it, in order.
Stream(c) ==
    received[c] \o (IF pc[c] = "write" THEN <<cur[c]>> ELSE <<>>) \o msgC[c]

\* A subscriber whose queue never was full gets the header and then every
\* message published since it was added, whatever the others do: whether they
\* stall, join or leave while the message is handed out.
FastSubscribersMissNothing ==
    \A c \in Clients \ (wasFull \cup left \cup todo) :
        pc[c] \notin {"none", "hello"} => Stream(c) = <<Header>> \o published[c]

\* A client that left is forgotten, also if its handler was writing to it and
\* messages keep coming.
LeaversAreRemoved ==
    \A c \in Clients : (c \in left) ~> (c \notin sseConnectionMap)
=============================================================================
