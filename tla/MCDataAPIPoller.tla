-------------------------- MODULE MCDataAPIPoller --------------------------
(* Small instance of DataAPIPoller: slots of two, a poll before a slot and   *)
(* one at its end, when the next slot's polls have started; a channel of one *)
(* place; a wall clock that is changed once.                                 *)
EXTENDS DataAPIPoller

MCOffsets == {-1, 2}
MCChanges == {-1, 1}
=============================================================================
