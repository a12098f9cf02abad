---------------------------- MODULE MCBidStream ----------------------------
(* Small instance of BidStream; the constants are given in the cfg.         *)
EXTENDS BidStream
=============================================================================
