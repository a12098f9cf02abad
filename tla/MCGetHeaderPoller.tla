------------------------- MODULE MCGetHeaderPoller -------------------------
(* Small instance of GetHeaderPoller; the constants are given in the cfg.   *)
EXTENDS GetHeaderPoller
=============================================================================
