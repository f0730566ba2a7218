---------------------------- MODULE StageBarrier ----------------------------
(***************************************************************************)
(* What a group of runners started under one master is promised: the       *)
(* stages 1..NumStages are run in lock-step.  A stage is opened only after *)
(* every runner has finished the one before, each runner runs every opened *)
(* stage once and in order, nothing is started after an abort, and the     *)
(* verdict "ok" is given only when everybody has finished the last stage.  *)
(*                                                                         *)
(* This is the reference that SyncRunner (SynchronizedRunner and           *)
(* SynchronizedRunnerMaster) is compared with.                             *)
(***************************************************************************)
EXTENDS Naturals

CONSTANTS
  Runners,    \* the participants
  NumStages   \* how many stages there are

VARIABLES
  opened,   \* the last stage opened, 0 before the first
  done,     \* done[r]: the last stage runner r has finished
  busy,     \* the runners running a stage now
  gone,     \* the runners that returned, after the last stage or an error
  aborted,  \* no further stage is to be started
  verdict   \* what the master told its caller

vars == <<opened, done, busy, gone, aborted, verdict>>

Init ==
  /\ opened = 0
  /\ done = [r \in Runners |-> 0]
  /\ busy = {}
  /\ gone = {}
  /\ aborted = FALSE
  /\ verdict = "none"

Open ==
  /\ ~aborted
  /\ opened < NumStages
  /\ \A r \in Runners : done[r] = opened
  /\ opened' = opened + 1
  /\ UNCHANGED <<done, busy, gone, aborted, verdict>>

Start(r) ==
  /\ ~aborted
  /\ r \notin busy \cup gone
  /\ done[r] < opened
  /\ busy' = busy \cup {r}
  /\ UNCHANGED <<opened, done, gone, aborted, verdict>>

Finish(r) ==
  /\ r \in busy
  /\ busy' = busy \ {r}
  /\ done' = [done EXCEPT ![r] = @ + 1]
  /\ gone' = IF done[r] + 1 = NumStages THEN gone \cup {r} ELSE gone
  /\ UNCHANGED <<opened, aborted, verdict>>

\* The stage of r ends in an error.
Break(r) ==
  /\ r \in busy
  /\ busy' = busy \ {r}
  /\ gone' = gone \cup {r}
  /\ UNCHANGED <<opened, done, aborted, verdict>>

\* An idle runner returns because of the abort.
Leave(r) ==
  /\ aborted
  /\ r \notin busy \cup gone
  /\ gone' = gone \cup {r}
  /\ UNCHANGED <<opened, done, busy, aborted, verdict>>

Abort ==
  /\ verdict = "none"
  /\ opened > 0
  /\ aborted' = TRUE
  /\ verdict' = "error"
  /\ UNCHANGED <<opened, done, busy, gone>>

Succeed ==
  /\ ~aborted
  /\ verdict = "none"
  /\ \A r \in Runners : done[r] = NumStages
  /\ verdict' = "ok"
  /\ UNCHANGED <<opened, done, busy, gone, aborted>>

Next ==
  \/ Open
  \/ Abort
  \/ Succeed
  \/ \E r \in Runners : Start(r) \/ Finish(r) \/ Break(r) \/ Leave(r)

Spec == Init /\ [][Next]_vars
=============================================================================
