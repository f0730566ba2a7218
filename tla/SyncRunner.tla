----------------------------- MODULE SyncRunner -----------------------------
(***************************************************************************)
(* SynchronizedRunnerMaster::runAllStages and the SynchronizedRunners of   *)
(* other processes, which share a Synchronizer in shared memory: a mutex,  *)
(* the stage to run, a failure flag, a condition variable on which runners *)
(* wait for the next stage, and a semaphore that runners post when a stage *)
(* is finished.                                                            *)
(*                                                                         *)
(* runStage, failure and the wait are only touched under runStageMutex, so *)
(* each critical section is one step.  The wait releases the mutex: it is  *)
(* the end of one critical section, and the return from it begins another. *)
(* The semaphore is not under the mutex: posts and takes are steps of      *)
(* their own.                                                              *)
(***************************************************************************)
EXTENDS Naturals, FiniteSets

CONSTANTS
  Runners,      \* the attached SynchronizedRunners; numOfRunners_ counts them
  MaxSpurious,  \* bound: spurious wake-ups of the condition variable in a run
  StopsOnError  \* TRUE: the caller is runAllStages, which stops at a failed stage;
                \* FALSE: it calls runStage for every stage, whatever that returns

ASSUME RunnersAssumption == IsFiniteSet(Runners)
ASSUME SpuriousAssumption == MaxSpurious \in Nat
ASSUME StopsOnErrorAssumption == StopsOnError \in BOOLEAN

\* RunStage, numbered in the order in which runAllStages goes through it.
SYNCHRONIZE == 0
INIT == 1
NORMAL == 2
FINAL == 3
RunStages == SYNCHRONIZE .. FINAL

VARIABLES
  runStage,   \* Synchronizer::runStage
  failure,    \* Synchronizer::failure
  finishedStage, \* Synchronizer::finishedStage, the count of the semaphore
  mpc,        \* where the master is in runAllStages / runStage
  taken,      \* the master's loop counter i: posts taken for this stage
  succeeded,  \* the stages for which runStage returned false: no error
  pc,         \* pc[r]: where runner r is in runSynchronized
  stage,      \* stage[r]: the runner's local stage
  lastRunStage, \* lastRunStage[r]: the runner's local lastRunStage
  spurious    \* spurious wake-ups so far

shared == <<runStage, failure, finishedStage>>
master == <<mpc, taken, succeeded>>
runners == <<pc, stage, lastRunStage, spurious>>
vars == <<shared, master, runners>>

NumOfRunners == Cardinality(Runners)

Init ==
  /\ runStage = SYNCHRONIZE
  /\ failure = FALSE
  /\ finishedStage = 0
  /\ mpc = "announce"
  /\ taken = 0
  /\ succeeded = {}
  /\ pc = [r \in Runners |-> "top"]
  /\ stage = [r \in Runners |-> SYNCHRONIZE]
  /\ lastRunStage = [r \in Runners |-> SYNCHRONIZE]
  /\ spurious = 0

-----------------------------------------------------------------------------
(* The master *)

\* A slip: notify_one() where all are to be woken.
NotifyOne ==
  \/ /\ \A r \in Runners : pc[r] # "waiting"
     /\ UNCHANGED pc
  \/ \E r \in Runners :
       /\ pc[r] = "waiting"
       /\ pc' = [pc EXCEPT ![r] = "woken"]

\* runStageChanged.notify_all()
NotifyAll ==
  pc' = [r \in Runners |-> IF pc[r] = "waiting" THEN "woken" ELSE pc[r]]

\* runStage(stage): publish the next stage and wake whoever waits for it.
Announce ==
  /\ mpc = "announce"
  /\ runStage' = runStage + 1
  /\ NotifyAll
  /\ mpc' = "collect"
  /\ taken' = 0
  /\ UNCHANGED <<failure, finishedStage, succeeded, stage, lastRunStage, spurious>>

\* A slip: the loop ends one post early.
AllButOneTaken == taken + 1 >= NumOfRunners

\* The loop over numOfRunners_ has come to its end.
AllTaken == taken = NumOfRunners

\* timed_wait got a post.
Collect ==
  /\ mpc = "collect"
  /\ taken < NumOfRunners
  /\ finishedStage > 0
  /\ finishedStage' = finishedStage - 1
  /\ taken' = taken + 1
  /\ UNCHANGED <<runStage, failure, mpc, succeeded, runners>>

\* A slip: runAllStages does not end with the last stage.
StageCompleteOnly ==
  /\ mpc = "collect"
  /\ AllTaken
  /\ succeeded' = succeeded \cup {runStage}
  /\ mpc' = "announce"
  /\ UNCHANGED <<shared, taken, runners>>

\* As many posts as runners: runStage returns false and the caller goes on.
StageComplete ==
  /\ mpc = "collect"
  /\ AllTaken
  /\ succeeded' = succeeded \cup {runStage}
  /\ mpc' = IF runStage = FINAL THEN "done" ELSE "announce"
  /\ UNCHANGED <<shared, taken, runners>>

\* A slip: the clock of the deadline starts with the first post.
ExpiresAfterFirstPost == finishedStage = 0 /\ taken > 0

\* timed_wait returns false only when there is no post.  When the deadline
\* passes depends on time, which is not modelled: it may be at once.
Expires == finishedStage = 0

TimeOut ==
  /\ mpc = "collect"
  /\ taken < NumOfRunners
  /\ Expires
  /\ mpc' = "timedOut"
  /\ UNCHANGED <<shared, taken, succeeded, runners>>

\* The mutex is taken again to raise the flag, which nobody takes down; posts
\* may have come in between, and they stay in the semaphore.
SignalFailure ==
  /\ mpc = "timedOut"
  /\ failure' = TRUE
  /\ NotifyAll
  /\ mpc' = IF StopsOnError \/ runStage = FINAL THEN "done" ELSE "announce"
  /\ UNCHANGED <<runStage, finishedStage, taken, succeeded, stage, lastRunStage, spurious>>

Master == Announce \/ Collect \/ StageComplete \/ TimeOut \/ SignalFailure

-----------------------------------------------------------------------------
(* A runner *)

Goto(r, where) == pc' = [pc EXCEPT ![r] = where]

\* The rest of a critical section that decides to run the published stage.
ReadStage(r) ==
  /\ stage' = [stage EXCEPT ![r] = runStage]
  /\ Goto(r, "running")
  /\ UNCHANGED <<lastRunStage, spurious>>

Return(r, result) ==
  /\ Goto(r, result)
  /\ UNCHANGED <<stage, lastRunStage, spurious>>

\* The top of the loop: give up, wait for another stage, or run this one.
Enter(r) ==
  /\ pc[r] = "top"
  /\ \/ /\ failure
        /\ Return(r, "error")
     \/ /\ ~failure
        /\ runStage = lastRunStage[r]
        /\ Goto(r, "waiting")
        /\ UNCHANGED <<stage, lastRunStage, spurious>>
     \/ /\ ~failure
        /\ runStage # lastRunStage[r]
        /\ ReadStage(r)
  /\ UNCHANGED <<shared, master>>

\* wait() is not in a loop and pthread_cond_wait may return without a notify.
SpuriousWake(r) ==
  /\ pc[r] = "waiting"
  /\ spurious < MaxSpurious
  /\ spurious' = spurious + 1
  /\ Goto(r, "woken")
  /\ UNCHANGED <<shared, master, stage, lastRunStage>>

\* A slip: the flag is not looked at after the wait.
ResumeUnchecked(r) ==
  /\ pc[r] = "woken"
  /\ ReadStage(r)
  /\ UNCHANGED <<shared, master>>

\* wait() has returned with the mutex: the stage is not compared again.
Resume(r) ==
  /\ pc[r] = "woken"
  /\ \/ /\ failure
        /\ Return(r, "error")
     \/ /\ ~failure
        /\ ReadStage(r)
  /\ UNCHANGED <<shared, master>>

\* All runnables ran the stage without error: post, and leave after FINAL.
RunSucceeds(r) ==
  /\ pc[r] = "running"
  /\ lastRunStage' = [lastRunStage EXCEPT ![r] = stage[r]]
  /\ finishedStage' = finishedStage + 1
  /\ Goto(r, IF stage[r] = FINAL THEN "ok" ELSE "top")
  /\ UNCHANGED <<runStage, failure, master, stage, spurious>>

\* Some runnable failed: return without a post and without telling the master.
RunFails(r) ==
  /\ pc[r] = "running"
  /\ Return(r, "error")
  /\ UNCHANGED <<shared, master>>

Runner(r) == Enter(r) \/ Resume(r) \/ RunSucceeds(r) \/ RunFails(r)

-----------------------------------------------------------------------------
\* The program may stop: everybody has returned.
Next ==
  \/ Master
  \/ \E r \in Runners : Runner(r) \/ SpuriousWake(r)

Spec == Init /\ [][Next]_vars

(***************************************************************************)
(* timed_wait bounds every wait of the master, so the master keeps going   *)
(* whatever the runners do.  That a runner which is not waiting keeps      *)
(* going is assumed by RunnersReturn only, and nothing is of spurious      *)
(* wake-ups.                                                               *)
(***************************************************************************)
MasterFairSpec == Spec /\ WF_vars(Master)
-----------------------------------------------------------------------------
(* Properties *)

\* Every variable has its type; runAllStages never goes past FINAL.
TypeOK ==
  /\ runStage \in RunStages
  /\ failure \in BOOLEAN
  /\ finishedStage \in Nat
  /\ mpc \in {"announce", "collect", "timedOut", "done"}
  /\ taken \in 0 .. NumOfRunners
  /\ succeeded \subseteq INIT .. FINAL
  /\ pc \in [Runners -> {"top", "waiting", "woken", "running", "ok", "error"}]
  /\ stage \in [Runners -> RunStages]
  /\ lastRunStage \in [Runners -> RunStages]
  /\ spurious \in 0 .. MaxSpurious

\* The runners that have not finished stage s.
Behind(s) == {r \in Runners : lastRunStage[r] < s}

\* The barrier is off by one runner at most for each spurious wake-up: when
\* runStage(s) has returned without error, the runners that have not finished
\* s are no more than the spurious wake-ups so far.
BarrierSlack == \A s \in succeeded : Cardinality(Behind(s)) <= spurious

\* runAllStages returns whatever the runners do, even if one never runs again.
MasterReturns == <>(mpc = "done")

\* Every runSynchronized returns if runners go on, that is if their runnables
\* return: a failure of the master or of another runner leaves nobody waiting for
\* a stage that never comes.
RunnersReturn == (\A r \in Runners : WF_vars(Runner(r))) => <>(\A r \in Runners : pc[r] \in {"ok", "error"})

Barrier == INSTANCE StageBarrier WITH
  NumStages <- FINAL,
  opened <- runStage,
  done <- lastRunStage,
  busy <- {r \in Runners : pc[r] = "running"},
  gone <- {r \in Runners : pc[r] \in {"ok", "error"}},
  aborted <- failure,
  verdict <- IF mpc # "done" THEN "none" ELSE IF failure THEN "error" ELSE "ok"

\* Up to the first spurious wake-up the protocol is the stage barrier: whatever is
\* late or fails, each of its steps is one of the barrier or none at all.
IsStageBarrier ==
  Barrier!Init /\ [][spurious' = 0 => Barrier!Next \/ UNCHANGED Barrier!vars]_vars
=============================================================================
