----------------------------- MODULE MCBackfill -----------------------------
(* Small instance of Backfill: "fb" delivers up to four payloads, two in     *)
(* each of two slots, of which those of slot 4 may be listed when the chain  *)
(* is at slot 5.  "us", which is backfilled first, has none; its requests    *)
(* may fail or hang.                                                         *)
EXTENDS Backfill

P(r, s, h, b) == [relay |-> r, slot |-> s, hash |-> h, builder |-> b]
MCPayloads == {P("fb", 4, "b", "v"), P("fb", 4, "c", "u"),
               P("fb", 5, "d", "u"), P("fb", 5, "e", "u")}
MCDelayed == {p \in MCPayloads : p.slot = 4}
MCRelays == <<"us", "fb">>
Offsets == {0, -1}
=============================================================================
