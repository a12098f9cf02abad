----------------------------- MODULE BidStream -----------------------------
(***************************************************************************)
(* The way of a bid from the ultrasound stream through the collector's     *)
(* select loop and Redis to the subscribers of the SSE webserver: the      *)
(* stream, the hub, and the steps that join them.                          *)
(***************************************************************************)
EXTENDS UltrasoundStream, SSEHub

vars == <<streamVars, hubVars>>

Publish(m) == redisC' = Append(redisC, m)

\* The select loop takes a bid, and processBids publishes it; a failure to
\* publish is logged.
ProcessBid ==
    /\ ultrasoundBidC # <<>>
    /\ ultrasoundBidC' = Tail(ultrasoundBidC)
    /\ Publish(Head(ultrasoundBidC)) \/ UNCHANGED redisC
    /\ UNCHANGED <<goroutines, backoffSec, sent, nFails, fails>>
    /\ UNCHANGED <<handlerVars, msg, todo, msgC, published, wasFull>>

Init == StreamInit /\ HubInit

Next ==
    \/ StreamStep /\ UNCHANGED hubVars
    \/ ProcessBid
    \/ HubStep /\ UNCHANGED streamVars
    \/ \E c \in Clients : HandlerStep(c) /\ UNCHANGED streamVars

\* Neither the server of the stream nor the collector need go on.
Spec == Init /\ [][Next]_vars /\ HubFairness

-----------------------------------------------------------------------------
TypeOK == StreamTypeOK /\ HubTypeOK

\* Subscribers see the bids in the order of the stream and none twice, across
\* reconnections, full queues and failed publications.
SubscribersSeeOrder ==
    \A c \in Clients : \A i, j \in DOMAIN Stream(c) :
        i < j /\ Header \notin {Stream(c)[i], Stream(c)[j]} => Stream(c)[i] < Stream(c)[j]
=============================================================================
