--------------------------- MODULE MCBidProcessor ---------------------------
(* Small instance of BidProcessor: two bids of one slot, each of which the   *)
(* relays may deliver any number of times.                                  *)
EXTENDS BidProcessor

MCBids == {[slot |-> 2, block |-> "x", value |-> 1],
           [slot |-> 2, block |-> "y", value |-> 2]}
=============================================================================
