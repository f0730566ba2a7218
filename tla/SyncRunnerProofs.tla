--------------------------- MODULE SyncRunnerProofs ---------------------------
(***************************************************************************)
(* Proofs about SyncRunner, for every set of runners and every bound on    *)
(* spurious wake-ups.                                                      *)
(***************************************************************************)
EXTENDS SyncRunner, FiniteSetTheorems, TLAPS

USE DEF SYNCHRONIZE, INIT, NORMAL, FINAL, RunStages

-----------------------------------------------------------------------------
(* Type correctness *)

\* numOfRunners_ is a number: there are finitely many runners.
LEMMA NumOfRunnersType == NumOfRunners \in Nat
  BY RunnersAssumption, FS_CardinalityType DEF NumOfRunners

\* What the type invariant needs beside the types: a stage is announced only
\* after INIT .. NORMAL, so runStage never goes past FINAL.
ControlOK ==
  /\ mpc = "announce" => runStage < FINAL
  /\ mpc \in {"collect", "timedOut"} => runStage >= INIT

\* A step of the master or of a runner keeps every type.
LEMMA TypeStep == TypeOK /\ ControlOK /\ [Next]_vars => TypeOK' /\ ControlOK'
<1> SUFFICES ASSUME TypeOK, ControlOK, [Next]_vars
             PROVE  TypeOK' /\ ControlOK'
  OBVIOUS
<1> USE NumOfRunnersType, SpuriousAssumption, StopsOnErrorAssumption
    DEF TypeOK, ControlOK
<1>1. CASE Announce
  BY <1>1 DEF Announce, NotifyAll
<1>2. CASE Collect
  BY <1>2 DEF Collect, runners
<1>3. CASE StageComplete
  BY <1>3 DEF StageComplete, shared, runners
<1>4. CASE TimeOut
  BY <1>4 DEF TimeOut, shared, runners
<1>5. CASE SignalFailure
  BY <1>5 DEF SignalFailure, NotifyAll
<1>6. ASSUME NEW r \in Runners, Enter(r)
      PROVE  TypeOK' /\ ControlOK'
  BY <1>6 DEF Enter, Return, ReadStage, Goto, shared, master
<1>7. ASSUME NEW r \in Runners, Resume(r)
      PROVE  TypeOK' /\ ControlOK'
  BY <1>7 DEF Resume, Return, ReadStage, Goto, shared, master
<1>8. ASSUME NEW r \in Runners, RunSucceeds(r)
      PROVE  TypeOK' /\ ControlOK'
  BY <1>8 DEF RunSucceeds, Goto, master
<1>9. ASSUME NEW r \in Runners, RunFails(r)
      PROVE  TypeOK' /\ ControlOK'
  BY <1>9 DEF RunFails, Return, Goto, shared, master
<1>10. ASSUME NEW r \in Runners, SpuriousWake(r)
       PROVE  TypeOK' /\ ControlOK'
  BY <1>10 DEF SpuriousWake, Goto, shared, master
<1>11. CASE UNCHANGED vars
  BY <1>11 DEF vars, shared, master, runners
<1>12. QED
  BY <1>1, <1>2, <1>3, <1>4, <1>5, <1>6, <1>7, <1>8, <1>9, <1>10, <1>11
     DEF Next, Master, Runner

\* The Synchronizer and the runners start with these types.
LEMMA InitTypeOK == Init => TypeOK /\ ControlOK
<1> SUFFICES ASSUME Init PROVE TypeOK /\ ControlOK
  OBVIOUS
<1>1. failure \in BOOLEAN /\ succeeded \subseteq INIT .. FINAL
  BY DEF Init
<1>2. taken \in 0 .. NumOfRunners /\ spurious \in 0 .. MaxSpurious
  BY NumOfRunnersType, SpuriousAssumption DEF Init
<1>3. /\ pc \in [Runners -> {"top", "waiting", "woken", "running", "ok", "error"}]
      /\ stage \in [Runners -> RunStages] /\ lastRunStage \in [Runners -> RunStages]
  BY DEF Init
<1>4. QED
  BY <1>1, <1>2, <1>3 DEF Init, TypeOK, ControlOK

\* Every variable keeps its type, for any number of runners.
THEOREM TypeCorrect == Spec => []TypeOK
<1>1. Spec => [](TypeOK /\ ControlOK)
  BY InitTypeOK, TypeStep, PTL DEF Spec
<1>2. QED
  BY <1>1, PTL

-----------------------------------------------------------------------------
(***************************************************************************)
(* The barrier holds up to the spurious wake-ups.                          *)
(*                                                                         *)
(* Work counts, over all runners, the stages each one has finished.  The   *)
(* master takes NumOfRunners posts for each stage that succeeds.  A post   *)
(* that is not the first of its runner for its stage can only come from a  *)
(* wake-up without a new stage, so the posts that were or can still be     *)
(* taken are at most Work and the spurious wake-ups together, once the     *)
(* wake-ups whose stage is still to be rerun (Rerunning) are set aside.    *)
(***************************************************************************)
Finished(s) == {r \in Runners : lastRunStage[r] >= s}

Work ==
  Cardinality(Finished(INIT)) + Cardinality(Finished(NORMAL)) + Cardinality(Finished(FINAL))

Rerunning ==
  {r \in Runners :
     \/ pc[r] = "running" /\ stage[r] = lastRunStage[r]
     \/ pc[r] = "woken" /\ ~failure /\ runStage = lastRunStage[r]}

\* The stage published last has not been reported as a success.
Pending == mpc \in {"collect", "timedOut"} \/ failure

PostsTaken ==
  IF Pending THEN NumOfRunners * (runStage - 1) + taken ELSE NumOfRunners * runStage

PostsCovered ==
  PostsTaken + finishedStage + Cardinality(Rerunning) <= Work + spurious

\* A runner is never ahead of the master, nor behind itself.
RunnersFollow ==
  \A r \in Runners :
    /\ lastRunStage[r] <= runStage
    /\ pc[r] = "running" =>
         /\ lastRunStage[r] <= stage[r]
         /\ stage[r] <= runStage

\* Where the master is tells which stages have succeeded.
MasterOK ==
  /\ failure => mpc = "done" /\ runStage >= INIT
  /\ mpc = "done" /\ ~failure => runStage = FINAL
  /\ succeeded = IF Pending THEN INIT .. runStage - 1 ELSE INIT .. runStage

SlackInv ==
  /\ TypeOK
  /\ ControlOK
  /\ MasterOK
  /\ RunnersFollow
  /\ PostsCovered
  /\ BarrierSlack

\* A set of runners is finite and no larger than numOfRunners_.
LEMMA SubsetCardinality ==
  ASSUME NEW S \in SUBSET Runners
  PROVE  IsFiniteSet(S) /\ Cardinality(S) \in Nat /\ Cardinality(S) <= NumOfRunners
BY RunnersAssumption, FS_Subset, FS_CardinalityType DEF NumOfRunners

\* A set of runners inside another has at most as many members.
LEMMA SubsetMonotone ==
  ASSUME NEW S \in SUBSET Runners, NEW T \in SUBSET S
  PROVE  Cardinality(T) <= Cardinality(S)
BY SubsetCardinality, FS_Subset

\* The counts of SlackInv and BarrierSlack are natural numbers, now and next.
LEMMA CountTypes ==
  /\ Cardinality(Rerunning) \in Nat /\ Cardinality(Rerunning)' \in Nat
  /\ \A s : /\ Cardinality(Finished(s)) \in 0 .. NumOfRunners
            /\ Cardinality(Finished(s))' \in 0 .. NumOfRunners
            /\ Cardinality(Behind(s)) \in Nat /\ Cardinality(Behind(s))' \in Nat
  /\ Work \in Nat /\ Work' \in Nat
<1>1. Cardinality(Rerunning) \in Nat /\ Cardinality(Rerunning)' \in Nat
  <2>1. Rerunning \in SUBSET Runners /\ Rerunning' \in SUBSET Runners
    BY DEF Rerunning
  <2>2. QED
    BY <2>1, SubsetCardinality
<1>2. ASSUME NEW s
      PROVE  /\ Cardinality(Finished(s)) \in 0 .. NumOfRunners
             /\ Cardinality(Finished(s))' \in 0 .. NumOfRunners
             /\ Cardinality(Behind(s)) \in Nat /\ Cardinality(Behind(s))' \in Nat
  <2>1. /\ Finished(s) \in SUBSET Runners /\ Finished(s)' \in SUBSET Runners
        /\ Behind(s) \in SUBSET Runners /\ Behind(s)' \in SUBSET Runners
    BY DEF Finished, Behind
  <2>2. QED
    BY <2>1, SubsetCardinality, NumOfRunnersType
<1>3. Work \in Nat /\ Work' \in Nat
  BY <1>2, NumOfRunnersType DEF Work
<1>4. QED
  BY <1>1, <1>2, <1>3

\* Who has not finished a stage is everybody else's complement.
LEMMA BehindIsRest ==
  ASSUME TypeOK, NEW s \in RunStages
  PROVE  Cardinality(Behind(s)) = NumOfRunners - Cardinality(Finished(s))
<1>1. Behind(s) = Runners \ Finished(s)
  BY DEF Behind, Finished, TypeOK
<1>2. Runners \cap Finished(s) = Finished(s)
  BY DEF Finished
<1>3. QED
  BY <1>1, <1>2, RunnersAssumption, FS_Difference DEF NumOfRunners

\* The counting argument: when all posts of the stage published last are
\* taken, the spurious wake-ups account for the runners that lack it.
LEMMA CompletedStageSlack ==
  ASSUME SlackInv, Pending, taken = NumOfRunners, runStage >= INIT
  PROVE  Cardinality(Behind(runStage)) <= spurious
<1> DEFINE D(s) == Cardinality(Finished(s))
<1>1. NumOfRunners * (runStage - 1) + NumOfRunners <= D(INIT) + D(NORMAL) + D(FINAL) + spurious
  <2>1. /\ finishedStage \in Nat /\ spurious \in Nat /\ runStage \in 1 .. 3
        /\ NumOfRunners * (runStage - 1) \in Nat
    BY NumOfRunnersType, SpuriousAssumption DEF SlackInv, TypeOK
  <2>2. NumOfRunners * (runStage - 1) + NumOfRunners + finishedStage + Cardinality(Rerunning)
           <= D(INIT) + D(NORMAL) + D(FINAL) + spurious
    BY DEF SlackInv, PostsCovered, PostsTaken, Work
  <2>3. QED
    BY <2>1, <2>2, CountTypes, NumOfRunnersType
<1>2. \A s \in INIT .. FINAL : D(s) \in 0 .. NumOfRunners
  BY CountTypes
<1>3. \A s \in INIT .. FINAL : s > runStage => D(s) = 0
  <2>1. ASSUME NEW s \in INIT .. FINAL, s > runStage PROVE D(s) = 0
    <3>1. Finished(s) = {}
      BY <2>1 DEF Finished, SlackInv, RunnersFollow, TypeOK
    <3>2. QED
      BY <3>1, FS_EmptySet
  <2>2. QED
    BY <2>1
<1>4. NumOfRunners - D(runStage) <= spurious
  <2> HIDE DEF D
  <2>1. spurious \in Nat
    BY SpuriousAssumption DEF SlackInv, TypeOK
  <2>2. CASE runStage = INIT
    <3>1. D(NORMAL) = 0 /\ D(FINAL) = 0
      BY <2>2, <1>3
    <3>2. QED
      BY <1>1, <1>2, <2>1, <2>2, <3>1, NumOfRunnersType
  <2>3. CASE runStage = NORMAL
    <3>1. D(FINAL) = 0
      BY <2>3, <1>3
    <3>2. QED
      BY <1>1, <1>2, <2>1, <2>3, <3>1, NumOfRunnersType
  <2>4. CASE runStage = FINAL
    BY <1>1, <1>2, <2>1, <2>4, NumOfRunnersType
  <2>5. QED
    BY <2>2, <2>3, <2>4 DEF SlackInv, TypeOK
<1>5. QED
  BY <1>4, BehindIsRest DEF SlackInv, TypeOK

\* The steps of the master keep what its position tells.
LEMMA MasterStep ==
  ASSUME StopsOnError, SlackInv, [Next]_vars
  PROVE  MasterOK'
<1> USE NumOfRunnersType DEF SlackInv, TypeOK, ControlOK, MasterOK, Pending
<1>1. CASE Announce
  BY <1>1 DEF Announce
<1>2. CASE Collect
  BY <1>2 DEF Collect
<1>3. CASE StageComplete
  BY <1>3 DEF StageComplete, shared
<1>4. CASE TimeOut
  BY <1>4 DEF TimeOut, shared
<1>5. CASE SignalFailure
  BY <1>5 DEF SignalFailure
<1>6. ASSUME UNCHANGED <<runStage, failure, master>>
      PROVE  MasterOK'
  BY <1>6 DEF master
<1>7. QED
  BY <1>1, <1>2, <1>3, <1>4, <1>5, <1>6
     DEF Next, Master, Runner, Enter, Resume, RunSucceeds, RunFails, SpuriousWake,
         shared, master, vars

\* A stage only enters lastRunStage[r] from stage[r], read under the mutex.
LEMMA RunnersFollowStep ==
  ASSUME SlackInv, [Next]_vars
  PROVE  /\ RunnersFollow'
         /\ \A r \in Runners : lastRunStage[r] <= lastRunStage'[r]
<1> USE DEF SlackInv, TypeOK, ControlOK, RunnersFollow
<1>1. CASE Announce
  BY <1>1 DEF Announce, NotifyAll
<1>2. CASE SignalFailure
  BY <1>2 DEF SignalFailure, NotifyAll
<1>3. CASE UNCHANGED <<runStage, runners>>
  BY <1>3 DEF runners
<1>4. ASSUME NEW p \in Runners, Enter(p) \/ Resume(p)
      PROVE  RunnersFollow' /\ UNCHANGED lastRunStage
  BY <1>4 DEF Enter, Resume, Return, ReadStage, Goto, shared, master
<1>5. ASSUME NEW p \in Runners, RunSucceeds(p)
      PROVE  /\ RunnersFollow'
             /\ \A r \in Runners : lastRunStage[r] <= lastRunStage'[r]
  BY <1>5 DEF RunSucceeds, Goto, master
<1>6. ASSUME NEW p \in Runners, RunFails(p) \/ SpuriousWake(p)
      PROVE  RunnersFollow' /\ UNCHANGED lastRunStage
  BY <1>6 DEF RunFails, SpuriousWake, Return, Goto, shared, master
<1>7. QED
  BY <1>1, <1>2, <1>3, <1>4, <1>5, <1>6
     DEF Next, Master, Runner, Collect, StageComplete, TimeOut, vars, shared

\* As long as the runners' progress does not change, neither does the work.
LEMMA WorkUnchanged ==
  ASSUME UNCHANGED lastRunStage
  PROVE  Work' = Work
BY DEF Work, Finished

\* Taking posts, giving up and publishing a stage: what the master does is
\* covered, because a step of it adds no post and nobody to Rerunning.
LEMMA MasterCovered ==
  ASSUME SlackInv, MasterOK', RunnersFollow', Master
  PROVE  PostsCovered'
<1> USE NumOfRunnersType DEF SlackInv, TypeOK, ControlOK, MasterOK
<1>1. UNCHANGED lastRunStage /\ UNCHANGED stage /\ spurious' = spurious
  BY DEF Master, Announce, Collect, StageComplete, TimeOut, SignalFailure, runners
<1>2. Work' = Work
  BY <1>1, WorkUnchanged
<1>3. Rerunning' \subseteq Rerunning
  <2>1. CASE Announce
    <3>1. \A r \in Runners : lastRunStage[r] # runStage'
      BY <2>1 DEF Announce, RunnersFollow
    <3>2. QED
      BY <1>1, <2>1, <3>1 DEF Announce, NotifyAll, Rerunning
  <2>2. CASE SignalFailure
    BY <1>1, <2>2 DEF SignalFailure, NotifyAll, Rerunning
  <2>3. CASE UNCHANGED <<runStage, failure, pc>>
    BY <1>1, <2>3 DEF Rerunning
  <2>4. QED
    BY <2>1, <2>2, <2>3 DEF Master, Collect, StageComplete, TimeOut, shared, runners
<1>4. Cardinality(Rerunning)' <= Cardinality(Rerunning)
  <2>1. Rerunning \in SUBSET Runners
    BY DEF Rerunning
  <2>2. QED
    BY <1>3, <2>1, SubsetMonotone
<1>5. /\ PostsTaken' + finishedStage' = PostsTaken + finishedStage
      /\ PostsTaken \in Int /\ PostsTaken' \in Int /\ finishedStage' \in Nat
  <2>1. NumOfRunners * runStage = NumOfRunners * (runStage - 1) + NumOfRunners
    OBVIOUS
  <2>2. CASE Announce
    BY <2>1, <2>2 DEF Announce, PostsTaken, Pending
  <2>3. CASE Collect
    BY <2>1, <2>3 DEF Collect, PostsTaken, Pending
  <2>4. CASE StageComplete
    BY <2>1, <2>4 DEF StageComplete, AllTaken, PostsTaken, Pending, shared
  <2>5. CASE TimeOut
    BY <2>1, <2>5 DEF TimeOut, PostsTaken, Pending, shared
  <2>6. CASE SignalFailure
    BY <2>1, <2>6 DEF SignalFailure, PostsTaken, Pending
  <2>7. QED
    BY <2>2, <2>3, <2>4, <2>5, <2>6 DEF Master
<1>6. PostsTaken + finishedStage + Cardinality(Rerunning) <= Work + spurious
  BY DEF PostsCovered
<1>7. PostsTaken' + finishedStage' + Cardinality(Rerunning)' <= Work' + spurious'
  <2>1. /\ spurious \in Nat /\ finishedStage \in Nat /\ Work \in Nat
        /\ Cardinality(Rerunning) \in Nat /\ Cardinality(Rerunning)' \in Nat
    BY SpuriousAssumption, CountTypes
  <2>2. /\ PostsTaken \in Int /\ PostsTaken' \in Int /\ finishedStage' \in Nat
        /\ PostsTaken' + finishedStage' = PostsTaken + finishedStage
    BY <1>5
  <2> HIDE DEF SlackInv, TypeOK, ControlOK, MasterOK
  <2>3. PostsTaken' + finishedStage' + Cardinality(Rerunning)' <= Work + spurious
    <3>1. PostsTaken + finishedStage + Cardinality(Rerunning)' <= Work + spurious
      BY <1>4, <1>6, <2>1, <2>2
    <3>2. QED
      BY <2>2, <3>1
  <2>4. QED
    BY <1>1, <1>2, <2>3
<1>8. QED
  BY <1>7 DEF PostsCovered

\* A runner starting a stage, waiting, waking up or leaving: only a spurious
\* wake-up adds to Rerunning, and it is counted.
LEMMA RunnerMoveCovered ==
  ASSUME SlackInv, NEW r \in Runners,
         Enter(r) \/ Resume(r) \/ RunFails(r) \/ SpuriousWake(r)
  PROVE  PostsCovered'
<1> USE DEF SlackInv, TypeOK
<1>1. UNCHANGED <<runStage, failure, finishedStage, mpc, taken, lastRunStage>>
  BY DEF Enter, Resume, RunFails, SpuriousWake, Return, ReadStage, Goto, shared, master
<1>2. Work' = Work /\ PostsTaken' = PostsTaken
  BY <1>1, WorkUnchanged DEF PostsTaken, Pending
<1>3. Rerunning \in SUBSET Runners
  BY DEF Rerunning
<1>4. CASE Enter(r) \/ Resume(r) \/ RunFails(r)
  <2>1. Rerunning' \subseteq Rerunning
    BY <1>1, <1>4
       DEF Enter, Resume, RunFails, Return, ReadStage, Goto, Rerunning, runners
  <2>2. Cardinality(Rerunning)' <= Cardinality(Rerunning)
    BY <1>3, <2>1, SubsetMonotone
  <2>3. spurious' = spurious
    BY <1>4 DEF Enter, Resume, RunFails, Return, ReadStage
  <2>4. PostsTaken + finishedStage + Cardinality(Rerunning)' <= Work + spurious
    <3>1. /\ PostsTaken \in Int /\ finishedStage \in Int
          /\ spurious \in Int /\ Work \in Int
      BY CountTypes, NumOfRunnersType, SpuriousAssumption DEF PostsTaken
    <3>2. QED
      BY <2>2, <3>1, CountTypes DEF PostsCovered
  <2>5. QED
    BY <1>1, <1>2, <2>3, <2>4 DEF PostsCovered
<1>5. CASE SpuriousWake(r)
  <2>1. Rerunning' \subseteq Rerunning \cup {r}
    BY <1>1, <1>5 DEF SpuriousWake, Goto, Rerunning
  <2>2. Cardinality(Rerunning)' <= Cardinality(Rerunning) + 1
    <3>1. IsFiniteSet(Rerunning) /\ Cardinality(Rerunning) \in Nat
      BY <1>3, SubsetCardinality
    <3>2. /\ IsFiniteSet(Rerunning \cup {r})
          /\ Cardinality(Rerunning \cup {r}) <= Cardinality(Rerunning) + 1
      <4>1. /\ IsFiniteSet(Rerunning \cup {r})
            /\ Cardinality(Rerunning \cup {r}) =
                 IF r \in Rerunning THEN Cardinality(Rerunning) ELSE Cardinality(Rerunning) + 1
        BY <3>1, FS_AddElement, Zenon
      <4>2. QED
        BY <3>1, <4>1
    <3>3. Rerunning \cup {r} \in SUBSET Runners
      BY <1>3
    <3>4. Cardinality(Rerunning') <= Cardinality(Rerunning \cup {r})
      BY <2>1, <3>3, SubsetMonotone
    <3>5. Cardinality(Rerunning') \in Nat /\ Cardinality(Rerunning \cup {r}) \in Nat
      BY <3>2, CountTypes, FS_CardinalityType
    <3>6. QED
      BY <3>1, <3>2, <3>4, <3>5
  <2>3. spurious' = spurious + 1
    BY <1>5 DEF SpuriousWake
  <2>4. PostsTaken + finishedStage + Cardinality(Rerunning)' <= Work + (spurious + 1)
    <3>1. /\ PostsTaken \in Int /\ finishedStage \in Int
          /\ spurious \in Int /\ Work \in Int
      BY CountTypes, NumOfRunnersType, SpuriousAssumption DEF PostsTaken
    <3>2. QED
      BY <2>2, <3>1, CountTypes DEF PostsCovered
  <2>5. QED
    BY <1>1, <1>2, <2>3, <2>4 DEF PostsCovered
<1>6. QED
  BY <1>4, <1>5

\* A finished stage adds a post.  It is covered by the runner's first time
\* through the stage, or else the runner was in Rerunning and no longer is.
LEMMA RunSucceedsCovered ==
  ASSUME SlackInv, RunnersFollow', NEW r \in Runners, RunSucceeds(r)
  PROVE  PostsCovered'
<1> USE DEF SlackInv, TypeOK
<1>1. /\ UNCHANGED <<runStage, failure, mpc, taken>> /\ spurious' = spurious
      /\ finishedStage' = finishedStage + 1
      /\ lastRunStage' = [lastRunStage EXCEPT ![r] = stage[r]]
      /\ pc[r] = "running" /\ stage' = stage
      /\ lastRunStage[r] <= stage[r] /\ stage[r] \in RunStages
  BY DEF RunSucceeds, master, RunnersFollow
<1>2. PostsTaken' = PostsTaken
  BY <1>1 DEF PostsTaken, Pending
<1>3. /\ PostsTaken \in Int /\ finishedStage \in Int
      /\ spurious \in Int /\ Work \in Int /\ Work' \in Int
  BY CountTypes, NumOfRunnersType, SpuriousAssumption DEF PostsTaken
<1>4. Rerunning' = Rerunning \ {r}
  BY <1>1 DEF RunSucceeds, Goto, Rerunning
<1>5. IsFiniteSet(Rerunning) /\ Cardinality(Rerunning) \in Nat
  <2>1. Rerunning \in SUBSET Runners
    BY DEF Rerunning
  <2>2. QED
    BY <2>1, SubsetCardinality
<1>6. Cardinality(Rerunning)' + 1 <= Cardinality(Rerunning) + (Work' - Work)
  <2>1. CASE stage[r] = lastRunStage[r]
    <3>1. lastRunStage' = lastRunStage
      BY <1>1, <2>1
    <3>2. Work' = Work
      BY <3>1, WorkUnchanged
    <3>3. r \in Rerunning
      BY <1>1, <2>1 DEF Rerunning
    <3>4. Cardinality(Rerunning)' = Cardinality(Rerunning) - 1
      BY <1>4, <1>5, <3>3, FS_RemoveElement
    <3>5. QED
      BY <1>3, <1>5, <3>2, <3>4
  <2>2. CASE stage[r] # lastRunStage[r]
    <3>1. Rerunning' = Rerunning
      BY <1>1, <1>4, <2>2 DEF Rerunning
    <3>2. ASSUME NEW s \in INIT .. FINAL
          PROVE  Cardinality(Finished(s)) <= Cardinality(Finished(s))'
      <4>1. Finished(s) \subseteq Finished(s)'
        BY <1>1 DEF Finished
      <4>2. Finished(s)' \in SUBSET Runners
        BY DEF Finished
      <4>3. QED
        BY <4>1, <4>2, SubsetMonotone
    <3>3. Cardinality(Finished(stage[r])) + 1 <= Cardinality(Finished(stage[r])')
      <4>1. Finished(stage[r]) \cup {r} \subseteq Finished(stage[r])'
        BY <1>1 DEF Finished
      <4>2. r \notin Finished(stage[r])
        BY <1>1, <2>2 DEF Finished
      <4>3. Finished(stage[r]) \in SUBSET Runners /\ Finished(stage[r])' \in SUBSET Runners
        BY DEF Finished
      <4>4. Cardinality(Finished(stage[r]) \cup {r}) = Cardinality(Finished(stage[r])) + 1
        BY <4>2, <4>3, SubsetCardinality, FS_AddElement
      <4>5. QED
        BY <4>1, <4>3, <4>4, SubsetMonotone
    <3>4. Work' >= Work + 1
      <4> DEFINE C(s) == Cardinality(Finished(s))
                 N(s) == Cardinality(Finished(s)')
      <4>1. \A s \in INIT .. FINAL : C(s) \in Nat /\ N(s) \in Nat /\ C(s) <= N(s)
        BY <3>2, CountTypes, NumOfRunnersType
      <4>2. \E s \in INIT .. FINAL : C(s) + 1 <= N(s)
        BY <1>1, <2>2, <3>3
      <4>3. Work = C(INIT) + C(NORMAL) + C(FINAL) /\ Work' = N(INIT) + N(NORMAL) + N(FINAL)
        BY DEF Work
      <4> HIDE DEF C, N
      <4>4. CASE C(INIT) + 1 <= N(INIT)
        BY <4>1, <4>3, <4>4
      <4>5. CASE C(NORMAL) + 1 <= N(NORMAL)
        BY <4>1, <4>3, <4>5
      <4>6. CASE C(FINAL) + 1 <= N(FINAL)
        BY <4>1, <4>3, <4>6
      <4>7. QED
        BY <4>2, <4>4, <4>5, <4>6
    <3>5. QED
      BY <1>3, <1>5, <3>1, <3>4
  <2>3. QED
    BY <2>1, <2>2
<1>7. PostsTaken + finishedStage + Cardinality(Rerunning) <= Work + spurious
  BY DEF PostsCovered
<1>8. PostsTaken + (finishedStage + 1) + Cardinality(Rerunning)' <= Work' + spurious
  BY <1>3, <1>5, <1>6, <1>7, CountTypes
<1>9. QED
  BY <1>1, <1>2, <1>8 DEF PostsCovered

\* Whatever step is taken, the posts stay covered: PostsCovered is preserved.
LEMMA PostsCoveredStep ==
  ASSUME StopsOnError, SlackInv, [Next]_vars
  PROVE  PostsCovered'
<1>1. MasterOK' /\ RunnersFollow'
  BY MasterStep, RunnersFollowStep
<1>2. CASE Master
  BY <1>1, <1>2, MasterCovered
<1>3. ASSUME NEW r \in Runners, Runner(r) \/ SpuriousWake(r)
      PROVE  PostsCovered'
  BY <1>1, <1>3, RunnerMoveCovered, RunSucceedsCovered DEF Runner
<1>4. CASE UNCHANGED vars
  BY <1>4 DEF vars, shared, master, runners, SlackInv, PostsCovered, PostsTaken, Pending,
              Work, Finished, Rerunning
<1>5. QED
  BY <1>2, <1>3, <1>4 DEF Next

\* BarrierSlack is preserved when a stage completes and by all other steps.
LEMMA BarrierSlackStep ==
  ASSUME SlackInv, [Next]_vars
  PROVE  BarrierSlack'
<1>1. \A s \in RunStages : Cardinality(Behind(s)') <= Cardinality(Behind(s))
  <2>1. ASSUME NEW s \in RunStages PROVE Behind(s)' \subseteq Behind(s)
    BY RunnersFollowStep, TypeStep DEF Behind, SlackInv, TypeOK
  <2>2. QED
    BY <2>1, SubsetMonotone DEF Behind
<1>2. /\ spurious \in Nat /\ spurious' \in Nat /\ spurious <= spurious'
      /\ succeeded \subseteq RunStages
  BY TypeStep, SpuriousAssumption
     DEF SlackInv, TypeOK, Next, Master, Announce, Collect, StageComplete, TimeOut,
         SignalFailure, Runner, Enter, Resume, RunSucceeds, RunFails, SpuriousWake,
         Return, ReadStage, vars, runners
<1>3. \A s \in succeeded : Cardinality(Behind(s)') <= spurious'
  BY <1>1, <1>2, CountTypes DEF SlackInv, BarrierSlack
<1>4. CASE StageComplete
  <2>1. /\ Pending /\ taken = NumOfRunners /\ runStage >= INIT /\ runStage \in RunStages
        /\ succeeded' = succeeded \cup {runStage}
    BY <1>4 DEF StageComplete, AllTaken, Pending, SlackInv, ControlOK, TypeOK
  <2>2. ASSUME NEW s \in RunStages, s = runStage
        PROVE  Cardinality(Behind(s)') <= spurious'
    <3>1. Cardinality(Behind(s)) <= spurious
      BY <2>1, <2>2, CompletedStageSlack
    <3>2. QED
      BY <1>1, <1>2, <3>1, CountTypes
  <2>3. \A s \in succeeded' : Cardinality(Behind(s)') <= spurious'
    BY <1>3, <2>1, <2>2
  <2>4. QED
    BY <2>3 DEF BarrierSlack
<1>5. CASE UNCHANGED succeeded
  BY <1>3, <1>5 DEF BarrierSlack
<1>6. QED
  BY <1>4, <1>5
     DEF Next, Master, Announce, Collect, TimeOut, SignalFailure, Runner, Enter, Resume,
         RunSucceeds, RunFails, SpuriousWake, vars, master

\* With nothing posted and nothing taken the invariant holds.
LEMMA SlackInit == Init => SlackInv
<1> SUFFICES ASSUME Init PROVE SlackInv
  OBVIOUS
<1>1. TypeOK /\ ControlOK
  BY InitTypeOK
<1>2. MasterOK /\ RunnersFollow /\ BarrierSlack
  BY DEF Init, MasterOK, Pending, RunnersFollow, BarrierSlack
<1>3. PostsCovered
  <2>1. Rerunning = {}
    BY DEF Init, Rerunning
  <2>2. PostsTaken = 0 /\ finishedStage = 0 /\ spurious = 0
    BY NumOfRunnersType DEF Init, PostsTaken, Pending
  <2>3. QED
    BY <2>1, <2>2, CountTypes, FS_EmptySet DEF PostsCovered
<1>4. QED
  BY <1>1, <1>2, <1>3 DEF SlackInv

\* The inductive invariant behind BarrierSlack: the posts, taken or not, that a
\* stage has are covered by runners that finished it or by spurious wake-ups.
THEOREM SlackInvariant ==
  ASSUME StopsOnError
  PROVE  Spec => []SlackInv
<1>1. SlackInv /\ [Next]_vars => SlackInv'
  BY TypeStep, MasterStep, RunnersFollowStep, PostsCoveredStep, BarrierSlackStep DEF SlackInv
<1>2. QED
  BY <1>1, SlackInit, PTL DEF Spec

\* When runStage(s) has returned without error under runAllStages, the runners
\* that have not finished s are at most as many as the spurious wake-ups.
THEOREM BarrierSlackHolds ==
  ASSUME StopsOnError
  PROVE  Spec => []BarrierSlack
<1>1. SlackInv => BarrierSlack
  BY DEF SlackInv
<1>2. QED
  BY <1>1, SlackInvariant, PTL

-----------------------------------------------------------------------------
(***************************************************************************)
(* Up to the first spurious wake-up: the stage barrier.                    *)
(***************************************************************************)
\* Up to the first spurious wake-up nobody is behind a stage that was reported
\* as successful.
StageAgreement == spurious = 0 => \A s \in succeeded : Behind(s) = {}

\* With no spurious wake-up the slack is empty.
LEMMA SlackGivesAgreement == SlackInv => StageAgreement
<1> SUFFICES ASSUME SlackInv, spurious = 0, NEW s \in succeeded PROVE Behind(s) = {}
  BY DEF StageAgreement
<1>1. IsFiniteSet(Behind(s)) /\ Cardinality(Behind(s)) \in Nat
  <2>1. Behind(s) \in SUBSET Runners
    BY DEF Behind
  <2>2. QED
    BY <2>1, SubsetCardinality
<1>2. Cardinality(Behind(s)) = 0
  BY <1>1 DEF SlackInv, BarrierSlack
<1>3. QED
  BY <1>1, <1>2, FS_EmptySet

\* Up to the first spurious wake-up a runner goes through the stages one by one,
\* and a woken runner finds a stage it has not run.
InOrder ==
  spurious = 0 =>
  \A r \in Runners :
    /\ pc[r] = "running" => stage[r] = lastRunStage[r] + 1
    /\ pc[r] = "woken" /\ ~failure => lastRunStage[r] < runStage

\* When the master publishes a stage, everybody has finished the one before.
LEMMA NobodyLeftBehind ==
  ASSUME SlackInv, spurious = 0, NEW r \in Runners
  PROVE  /\ lastRunStage[r] >= runStage - 1
         /\ mpc = "announce" \/ (mpc = "done" /\ ~failure) => lastRunStage[r] = runStage
<1> USE DEF SlackInv, TypeOK
<1>1. \A s \in succeeded : lastRunStage[r] >= s
  BY SlackGivesAgreement DEF StageAgreement, Behind
<1>2. lastRunStage[r] >= runStage - 1
  <2>1. runStage <= INIT \/ runStage - 1 \in succeeded
    BY DEF MasterOK
  <2>2. QED
    BY <1>1, <2>1
<1>3. ASSUME mpc = "announce" \/ (mpc = "done" /\ ~failure)
      PROVE  lastRunStage[r] = runStage
  <2>1. runStage = 0 \/ runStage \in succeeded
    BY <1>3 DEF MasterOK, Pending
  <2>2. QED
    BY <1>1, <2>1 DEF RunnersFollow
<1>4. QED
  BY <1>2, <1>3

\* Wake-ups are counted and not forgotten.
LEMMA SpuriousGrows ==
  ASSUME SlackInv, [Next]_vars, spurious' = 0
  PROVE  spurious = 0
<1> USE DEF SlackInv, TypeOK
<1>1. CASE Master
  BY <1>1 DEF Master, Announce, Collect, StageComplete, TimeOut, SignalFailure, runners
<1>2. ASSUME NEW r \in Runners, Runner(r) PROVE spurious = 0
  BY <1>2 DEF Runner, Enter, Resume, RunSucceeds, RunFails, Return, ReadStage
<1>3. ASSUME NEW r \in Runners, SpuriousWake(r) PROVE spurious = 0
  BY <1>3, SpuriousAssumption DEF SpuriousWake
<1>4. QED
  BY <1>1, <1>2, <1>3 DEF Next, vars, runners

\* Runners go through the stages one after the other.
LEMMA InOrderStep ==
  ASSUME SlackInv, InOrder, [Next]_vars
  PROVE  InOrder'
<1> SUFFICES ASSUME spurious' = 0, spurious = 0 PROVE InOrder'
  BY SpuriousGrows DEF InOrder
<1> USE DEF SlackInv, TypeOK, InOrder
<1>1. CASE Announce
  BY <1>1 DEF Announce, NotifyAll, RunnersFollow
<1>2. CASE SignalFailure
  BY <1>2 DEF SignalFailure, NotifyAll
<1>3. CASE UNCHANGED <<runStage, failure, runners>>
  BY <1>3 DEF runners
<1>4. ASSUME NEW p \in Runners, Enter(p) \/ Resume(p)
      PROVE  InOrder'
  <2>1. lastRunStage[p] >= runStage - 1 /\ lastRunStage[p] <= runStage
    BY NobodyLeftBehind DEF RunnersFollow
  <2>2. QED
    BY <1>4, <2>1 DEF Enter, Resume, Return, ReadStage, Goto, shared, master
<1>5. ASSUME NEW p \in Runners, RunSucceeds(p) \/ RunFails(p)
      PROVE  InOrder'
  BY <1>5 DEF RunSucceeds, RunFails, Return, Goto, shared, master
<1>6. ~ \E p \in Runners : SpuriousWake(p)
  BY DEF SpuriousWake
<1>7. QED
  BY <1>1, <1>2, <1>3, <1>4, <1>5, <1>6
     DEF Next, Master, Runner, Collect, StageComplete, TimeOut, vars, shared

\* Every step of the protocol is a step of the stage barrier or a stutter.
LEMMA StepIsBarrierStep ==
  ASSUME StopsOnError, SlackInv, StageAgreement', InOrder, [Next]_vars, spurious' = 0
  PROVE  [Barrier!Next]_(Barrier!vars)
<1>0. spurious = 0
  BY SpuriousGrows
<1> USE <1>0 DEF SlackInv, TypeOK, Barrier!vars
<1>1. CASE Announce
  <2>1. \A r \in Runners : lastRunStage[r] = runStage
    BY <1>1, NobodyLeftBehind DEF Announce
  <2>2. ~failure /\ runStage < FINAL
    BY <1>1 DEF Announce, ControlOK, MasterOK
  <2>3. Barrier!Open
    BY <1>1, <2>1, <2>2 DEF Announce, NotifyAll, Barrier!Open
  <2>4. QED
    BY <2>3 DEF Barrier!Next
<1>2. CASE Collect \/ TimeOut
  BY <1>2 DEF Collect, TimeOut, shared, runners
<1>3. CASE StageComplete
  <2>1. CASE runStage = FINAL
    <3>1. mpc' = "done" /\ ~failure' /\ ~failure /\ UNCHANGED <<runStage, lastRunStage>>
      BY <1>3, <2>1 DEF StageComplete, MasterOK, shared, runners
    <3>2. FINAL \in succeeded'
      BY <1>3, <2>1 DEF StageComplete
    <3>3. \A r \in Runners : lastRunStage[r] = FINAL
      <4>1. \A r \in Runners : ~(lastRunStage'[r] < FINAL)
        BY <3>2 DEF StageAgreement, Behind
      <4>2. QED
        BY <3>1, <4>1
    <3>4. mpc = "collect" /\ UNCHANGED <<failure, pc>>
      BY <1>3 DEF StageComplete, shared, runners
    <3>5. Barrier!Succeed
      BY <3>1, <3>3, <3>4 DEF Barrier!Succeed
    <3>6. QED
      BY <3>5 DEF Barrier!Next
  <2>2. CASE runStage # FINAL
    BY <1>3, <2>2 DEF StageComplete, shared, runners
  <2>3. QED
    BY <2>1, <2>2
<1>4. CASE SignalFailure
  <2>1. Barrier!Abort
    BY <1>4 DEF SignalFailure, NotifyAll, ControlOK, Barrier!Abort
  <2>2. QED
    BY <2>1 DEF Barrier!Next
<1>5. ASSUME NEW r \in Runners, Enter(r) \/ Resume(r)
      PROVE  [Barrier!Next]_(Barrier!vars)
  <2> USE DEF Enter, Resume, Return, ReadStage, Goto, shared, master
  <2>1. CASE failure
    <3>1. Barrier!Leave(r)
      BY <1>5, <2>1 DEF Barrier!Leave
    <3>2. QED
      BY <3>1 DEF Barrier!Next
  <2>2. CASE ~failure /\ pc'[r] = "running"
    <3>1. lastRunStage[r] < runStage
      BY <1>5, <2>2 DEF InOrder, RunnersFollow
    <3>2. Barrier!Start(r)
      BY <1>5, <2>2, <3>1 DEF Barrier!Start
    <3>3. QED
      BY <3>2 DEF Barrier!Next
  <2>3. CASE ~failure /\ pc'[r] # "running"
    BY <1>5, <2>3
  <2>4. QED
    BY <2>1, <2>2, <2>3
<1>6. ASSUME NEW r \in Runners, RunSucceeds(r)
      PROVE  [Barrier!Next]_(Barrier!vars)
  <2>1. stage[r] = lastRunStage[r] + 1
    BY <1>6 DEF RunSucceeds, InOrder
  <2>2. Barrier!Finish(r)
    BY <1>6, <2>1 DEF RunSucceeds, Goto, master, Barrier!Finish
  <2>3. QED
    BY <2>2 DEF Barrier!Next
<1>7. ASSUME NEW r \in Runners, RunFails(r)
      PROVE  [Barrier!Next]_(Barrier!vars)
  <2>1. Barrier!Break(r)
    BY <1>7 DEF RunFails, Return, Goto, shared, master, Barrier!Break
  <2>2. QED
    BY <2>1 DEF Barrier!Next
<1>8. CASE UNCHANGED vars
  BY <1>8 DEF vars, shared, master, runners
<1>9. ~ \E r \in Runners : SpuriousWake(r)
  BY DEF SpuriousWake
<1>10. QED
  BY <1>1, <1>2, <1>3, <1>4, <1>5, <1>6, <1>7, <1>8, <1>9 DEF Next, Master, Runner

\* Up to the first spurious wake-up runAllStages and the runners implement the
\* stage barrier.
THEOREM RefinesStageBarrier ==
  ASSUME StopsOnError
  PROVE  Spec => IsStageBarrier
<1>1. Init => Barrier!Init
  BY DEF Init, Barrier!Init
<1>2. Init => InOrder
  BY DEF Init, InOrder
<1>3. SlackInv /\ InOrder /\ [Next]_vars => InOrder'
  BY InOrderStep
<1>4. SlackInv => StageAgreement
  BY SlackGivesAgreement
<1>5. SlackInv /\ StageAgreement' /\ InOrder /\ [Next]_vars
        => [spurious' = 0 => Barrier!Next \/ UNCHANGED Barrier!vars]_vars
  BY StepIsBarrierStep
<1>6. QED
  BY <1>1, <1>2, <1>3, <1>4, <1>5, SlackInvariant, PTL DEF Spec, IsStageBarrier
=============================================================================
