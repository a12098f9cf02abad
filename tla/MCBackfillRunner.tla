-------------------------- MODULE MCBackfillRunner --------------------------
(* The service over the relays and payloads of MCBackfill.                   *)
EXTENDS MCBackfill, BackfillRunner
=============================================================================
