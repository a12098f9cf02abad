-------------------------- MODULE MCBuilderStats --------------------------
(* Small instance of BuilderStats: days of two slots, each starting half a  *)
(* slot after midnight, and a slot that two relays report.                  *)
EXTENDS BuilderStats

MCRows ==
    {[slot |-> 2, relay |-> "a", pubkey |-> "p"],
     [slot |-> 3, relay |-> "a", pubkey |-> "p"],
     [slot |-> 3, relay |-> "b", pubkey |-> "q"],
     [slot |-> 5, relay |-> "a", pubkey |-> "q"]}
MCExtras == {"x"}
MCGroups == [x |-> {"g"}, none |-> {}]
=============================================================================
