---------------------------- MODULE MCSyncRunner ----------------------------
(* Instances of SyncRunner for TLC. *)
EXTENDS SyncRunner

CONSTANTS r1, r2, r3

ThreeRunners == {r1, r2, r3}
=============================================================================
