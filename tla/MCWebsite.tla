----------------------------- MODULE MCWebsite -----------------------------
(* Small instance of Website: the slot that spans midnight before the day   *)
(* that ends, and that day's last slot, delivered by two relays, by one of  *)
(* them twice.  The first payloads are stored from the start.  One builder  *)
(* matches two groups, one has the name of a group.                         *)
EXTENDS Website

MCStored ==
    {[slot |-> 7, relay |-> "a", block |-> "p"],
     [slot |-> 9, relay |-> "a", block |-> "p"]}
MCRows ==
    MCStored \cup
    {[slot |-> 9, relay |-> "a", block |-> "q"],
     [slot |-> 9, relay |-> "b", block |-> "p"]}
MCExtras == {"x", "y", "h"}
MCGroups == [x |-> {"g"}, y |-> {"g", "h"}, h |-> {}]
MCSpans == [h |-> 4]
=============================================================================
