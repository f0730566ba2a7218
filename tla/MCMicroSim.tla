----------------------------- MODULE MCMicroSim -----------------------------
(* MicroSim for TLC: with a period and an offset of one and an end at two,   *)
(* events of every kind meet at one time, in every order of their insertion. *)
EXTENDS MicroSim
=============================================================================
