--------------------------- MODULE MCMTScheduler ---------------------------
(* MTScheduler for TLC: p has a period, o and s do not.  A time of two is   *)
(* enough for an event to miss a deadline and to be put back after it.       *)
EXTENDS MTScheduler
=============================================================================
