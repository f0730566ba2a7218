------------------------- MODULE MTSchedulerProofs -------------------------
(***************************************************************************)
(* Proofs about MTScheduler, for any events, periods, times and number of  *)
(* spurious wake-ups.                                                      *)
(***************************************************************************)
EXTENDS MTScheduler, TLAPS

-----------------------------------------------------------------------------
(* The inductive invariant *)

Handling == {"tryLock", "check", "unstarted", "recheck", "oneShot"}
InvokerHolds == ipc \in Handling \cup {"top", "clean", "scan"}
StopHolds == spc \in {"cancel", "join", "joinRest"}

\* eventsMutex_ is held by whom the variable says, and so by one thread.
LockInv ==
  /\ InvokerHolds => mutex = "invoker"
  /\ StopHolds => mutex = "stop"

\* The invoker handles one event at a time.  While it does, the event is in the
\* container from which the invoker has it.
CurInv ==
  /\ \A e, f \in cur : e = f
  /\ cur # {} => ipc \in Handling \cup {"clean"}
  /\ ipc = "clean" => cur \subseteq cleaning
  /\ ipc \in Handling => cur \subseteq queued

\* An event that is being created is not in the schedule yet, and it is none
\* that stop() found.
FreshInv == creating \cap (queued \cup nonPeriodic \cup found) = {}

\* How far stop() has come.
StopInv ==
  /\ StopHolds => found = queued \cup nonPeriodic
  /\ spc = "cancel" => queued \ todo \subseteq canceled
  /\ spc \in {"join", "joinRest"} => queued \subseteq canceled
  /\ spc = "join" => \A e \in queued \ todo : ~Alive(e)
  /\ spc = "joinRest" => \A e \in queued \cup (nonPeriodic \ todo) : ~Alive(e)
  /\ spc \in {"joinInvoker", "returned"} =>
       found \cap queued = {} /\ \A e \in found : ~Alive(e)
  /\ spc = "returned" => MainThread \/ ipc = "returned"

SafeInv == TypeOK /\ LockInv /\ CurInv /\ FreshInv /\ StopInv /\ ThreadsOwned

\* What the invoker knows of the event it handles, which no other thread changes.
HandledInv ==
  /\ nowRead <= now
  /\ ipc \in Handling => \A e \in cur : due[e] <= nowRead
  /\ ipc = "oneShot" => cur \subseteq OneShot
  /\ ipc \in Handling \ {"oneShot"} => cur \subseteq Periodic
  /\ ipc = "unstarted" => \A e \in cur : ~Alive(e)

\* How the place of a thread and the runs of its task go together.
ThreadInv ==
  /\ \A e \in Events : /\ thread[e] = "none" => runs[e] = 0
                       /\ thread[e] # "none" => e \in scheduled \ creating /\ first[e] <= now
                       /\ first[e] <= due[e]
  /\ \A e \in OneShot : /\ e \in queued => thread[e] = "none"
                        /\ runs[e] <= (IF thread[e] \in {"none", "spawned"} THEN 0 ELSE 1)
  /\ \A e \in Periodic : /\ thread[e] \in {"exited", "joined"} => e \in canceled
                         /\ thread[e] \in {"running", "waiting", "notified"} => runs[e] >= 1

\* The runs of a task, and the one that it is about to start.
Activations(e) ==
  runs[e] + IF e \notin canceled /\ thread[e] \in {"spawned", "notified", "locked"} THEN 1 ELSE 0

\* The key of an event pays for its activations: every one has moved it on by
\* one period, from a time that has come.
Paid(e) == /\ first[e] + Activations(e) * Period <= due[e] + spurious * Period
           /\ due[e] <= now + Period

\* The key has come, and it has not been moved for the last activation yet.
Owing(e) == /\ first[e] + Activations(e) * Period <= due[e] + Period + spurious * Period
            /\ due[e] <= now

\* Between the notification and the insertion of the new key.
Granting(e) == e \in cur /\ ipc \in {"check", "recheck"}

\* Every activation of a periodic event is paid for, or is about to be: the
\* event does not go back into events_ before.
RateInv ==
  \A e \in Periodic : Activations(e) > 0 =>
    /\ Paid(e) \/ Owing(e)
    /\ e \in queued /\ ~Granting(e) => Paid(e)

PaceInv == SafeInv /\ HandledInv /\ ThreadInv /\ RateInv

-----------------------------------------------------------------------------
USE DEF Events, lock, clients, table, tasks, invoker, stopper, world

(* Type correctness *)

\* A step of a client, a task, the invoker or stop() keeps every type.
LEMMA TypeStep == TypeOK /\ [Next]_vars => TypeOK'
<1> SUFFICES ASSUME TypeOK, [Next]_vars PROVE TypeOK'
  OBVIOUS
<1> USE EventsAssumption, TimeAssumption, ModeAssumption DEF TypeOK
<1>1. CASE Tick
  BY <1>1 DEF Tick
<1>2. ASSUME NEW e \in Events, NEW o \in Offsets, Create(e, o) PROVE TypeOK'
  BY <1>2 DEF Create
<1>3. ASSUME NEW e \in Events, Insert(e) PROVE TypeOK'
  BY <1>3 DEF Insert, NotifyInvoker
<1>4. ASSUME NEW e \in Events, Cancel(e) PROVE TypeOK'
  BY <1>4 DEF Cancel
<1>5. ASSUME NEW e \in Events, TaskLock(e) PROVE TypeOK'
  BY <1>5 DEF TaskLock, SetThread
<1>6. ASSUME NEW e \in Events, TaskCheck(e) PROVE TypeOK'
  BY <1>6 DEF TaskCheck, SetThread, RunBody
<1>7. ASSUME NEW e \in Events, OneShotStart(e) PROVE TypeOK'
  BY <1>7 DEF OneShotStart, SetThread, RunBody
<1>8. ASSUME NEW e \in Events, BodyEnd(e) PROVE TypeOK'
  BY <1>8 DEF BodyEnd, SetThread, AfterBody
<1>9. ASSUME NEW e \in Events, TaskSpuriousWake(e) PROVE TypeOK'
  BY <1>9 DEF TaskSpuriousWake, SetThread
<1>10. CASE RunFinal
  BY <1>10 DEF RunFinal
<1>11. CASE InvokerBegin
  BY <1>11 DEF InvokerBegin
<1>12. CASE LoopTop
  BY <1>12 DEF LoopTop, Sleep
<1>13. CASE SleepUntilNext
  BY <1>13 DEF SleepUntilNext, Sleep, IsFirst
<1>14. CASE Wake
  BY <1>14 DEF Wake, WakeUp
<1>15. CASE SpuriousWake
  BY <1>15 DEF SpuriousWake, WakeUp
<1>16. CASE ScanDone
  BY <1>16 DEF ScanDone
<1>17. ASSUME NEW e \in Events, CleanJoin(e) PROVE TypeOK'
  BY <1>17 DEF CleanJoin, SetThread, IsDone
<1>18. ASSUME NEW e \in Events, CleanErase(e) PROVE TypeOK'
  BY <1>18 DEF CleanErase, IsDone
<1>19. ASSUME NEW e \in Events, ScanNext(e) PROVE TypeOK'
  BY <1>19 DEF ScanNext, IsFirst
<1>20. ASSUME NEW e \in Events, MissedDeadline(e) PROVE TypeOK'
  BY <1>20 DEF MissedDeadline, Reschedule, EndOfIteration
<1>21. ASSUME NEW e \in Events, Notify(e) PROVE TypeOK'
  BY <1>21 DEF Notify, NotifyTask, SetThread
<1>22. ASSUME NEW e \in Events, CheckCanceled(e) PROVE TypeOK'
  BY <1>22 DEF CheckCanceled, Unqueue, EndOfIteration
<1>23. ASSUME NEW e \in Events, StartPeriodic(e) PROVE TypeOK'
  BY <1>23 DEF StartPeriodic, SetThread
<1>24. ASSUME NEW e \in Events, Recheck(e) PROVE TypeOK'
  BY <1>24 DEF Recheck, Unqueue, Reschedule, EndOfIteration
<1>25. ASSUME NEW e \in Events, StartOneShot(e) PROVE TypeOK'
  BY <1>25 DEF StartOneShot, SetThread, KeepOneShot, Unqueue, EndOfIteration
<1>26. CASE StopBegin
  BY <1>26 DEF StopBegin
<1>27. ASSUME NEW e \in Events, StopCancel(e) PROVE TypeOK'
  BY <1>27 DEF StopCancel, NotifyTask, SetThread
<1>28. CASE StopNextLoop
  BY <1>28 DEF StopNextLoop, NextLoop
<1>29. ASSUME NEW e \in Events, StopJoin(e) PROVE TypeOK'
  BY <1>29 DEF StopJoin, SetThread
<1>30. ASSUME NEW e \in Events, StopJoinRest(e) PROVE TypeOK'
  BY <1>30 DEF StopJoinRest, SetThread
<1>31. CASE StopClear
  BY <1>31 DEF StopClear, NextLoop
<1>32. CASE JoinInvoker
  BY <1>32 DEF JoinInvoker
<1>33. CASE UNCHANGED vars
  BY <1>33 DEF vars
<1>34. QED
  BY <1>1, <1>2, <1>3, <1>4, <1>5, <1>6, <1>7, <1>8, <1>9, <1>10, <1>11, <1>12, <1>13, <1>14, <1>15, <1>16, <1>17, <1>18, <1>19, <1>20, <1>21, <1>22, <1>23, <1>24, <1>25, <1>26, <1>27, <1>28, <1>29, <1>30, <1>31, <1>32, <1>33
     DEF Next, Client, Task, TaskStep, InvokerStep, InvokerHandles, StopStep

\* With no event scheduled and no thread the invariant holds.
LEMMA InitSafe == Init => SafeInv
<1> SUFFICES ASSUME Init PROVE SafeInv
  OBVIOUS
<1>1. TypeOK
  <2>1. started \in BOOLEAN /\ notified \in BOOLEAN
    <3>1. FALSE \in BOOLEAN
      OBVIOUS
    <3>2. started = FALSE /\ notified = FALSE
      BY DEF Init
    <3>3. QED
      BY <3>1, <3>2, Zenon
  <2>2. now \in 0 .. MaxTime /\ nowRead \in 0 .. MaxTime /\ spurious \in 0 .. MaxSpurious
    BY TimeAssumption, ModeAssumption DEF Init
  <2>3. /\ sleepUntil \subseteq Nat /\ scheduled \subseteq Events
        /\ creating \cup queued \cup nonPeriodic \cup cur \cup todo \cup found \subseteq scheduled
        /\ canceled \subseteq scheduled /\ cleaning \subseteq nonPeriodic
    BY DEF Init
  <2>4. /\ due \in [Events -> Nat] /\ first \in [Events -> Nat] /\ runs \in [Events -> Nat]
    BY DEF Init
  <2>5. \A e \in Events : thread[e] = "none"
    BY DEF Init
  <2>6. thread \in [Events -> {"none", "spawned", "locked", "running", "waiting", "notified",
                              "exited", "joined"}]
    BY DEF Init
  <2>7. \A e \in OneShot : thread[e] \notin {"locked", "waiting", "notified"}
    BY <2>5 DEF Events
  <2>8. /\ mutex \in {"free", "invoker", "stop"}
        /\ ipc \in {"none", "start", "top", "clean", "sleeping", "scan", "tryLock", "check",
                    "unstarted", "recheck", "oneShot", "returned"}
        /\ spc \in {"idle", "cancel", "join", "joinRest", "joinInvoker", "returned", "threw"}
    BY DEF Init
  <2>9. QED
    BY <2>1, <2>2, <2>3, <2>4, <2>6, <2>7, <2>8 DEF TypeOK
<1>2. LockInv /\ CurInv /\ FreshInv /\ StopInv
  BY DEF Init, LockInv, CurInv, FreshInv, StopInv, InvokerHolds, StopHolds, Handling
<1>3. ThreadsOwned
  BY DEF Init, ThreadsOwned, Alive
<1>4. QED
  BY <1>1, <1>2, <1>3 DEF SafeInv

\* Every variable keeps its type; only periodic tasks lock and wait.
THEOREM TypeCorrect == Spec => []TypeOK
<1>1. Init => TypeOK
  BY InitSafe DEF SafeInv
<1>2. QED
  BY <1>1, TypeStep, PTL DEF Spec

-----------------------------------------------------------------------------
(* Mutual exclusion, ownership and stop() *)

\* Nobody takes eventsMutex_ from its holder.
LEMMA LockStep == TypeOK /\ LockInv /\ [Next]_vars => LockInv'
<1> SUFFICES ASSUME TypeOK /\ LockInv, [Next]_vars PROVE LockInv'
  OBVIOUS
<1> USE EventsAssumption, TimeAssumption, ModeAssumption DEF TypeOK, LockInv, InvokerHolds, StopHolds, Handling
<1>1. CASE Tick
  BY <1>1 DEF Tick
<1>2. ASSUME NEW e \in Events, NEW o \in Offsets, Create(e, o) PROVE LockInv'
  BY <1>2 DEF Create
<1>3. ASSUME NEW e \in Events, Insert(e) PROVE LockInv'
  BY <1>3 DEF Insert, NotifyInvoker
<1>4. ASSUME NEW e \in Events, Cancel(e) PROVE LockInv'
  BY <1>4 DEF Cancel
<1>5. ASSUME NEW e \in Events, TaskLock(e) PROVE LockInv'
  BY <1>5 DEF TaskLock, SetThread
<1>6. ASSUME NEW e \in Events, TaskCheck(e) PROVE LockInv'
  BY <1>6 DEF TaskCheck, SetThread, RunBody
<1>7. ASSUME NEW e \in Events, OneShotStart(e) PROVE LockInv'
  BY <1>7 DEF OneShotStart, SetThread, RunBody
<1>8. ASSUME NEW e \in Events, BodyEnd(e) PROVE LockInv'
  BY <1>8 DEF BodyEnd, SetThread, AfterBody
<1>9. ASSUME NEW e \in Events, TaskSpuriousWake(e) PROVE LockInv'
  BY <1>9 DEF TaskSpuriousWake, SetThread
<1>10. CASE RunFinal
  BY <1>10 DEF RunFinal
<1>11. CASE InvokerBegin
  BY <1>11 DEF InvokerBegin
<1>12. CASE LoopTop
  BY <1>12 DEF LoopTop, Sleep
<1>13. CASE SleepUntilNext
  BY <1>13 DEF SleepUntilNext, Sleep, IsFirst
<1>14. CASE Wake
  BY <1>14 DEF Wake, WakeUp
<1>15. CASE SpuriousWake
  BY <1>15 DEF SpuriousWake, WakeUp
<1>16. CASE ScanDone
  BY <1>16 DEF ScanDone
<1>17. ASSUME NEW e \in Events, CleanJoin(e) PROVE LockInv'
  BY <1>17 DEF CleanJoin, SetThread, IsDone
<1>18. ASSUME NEW e \in Events, CleanErase(e) PROVE LockInv'
  BY <1>18 DEF CleanErase, IsDone
<1>19. ASSUME NEW e \in Events, ScanNext(e) PROVE LockInv'
  BY <1>19 DEF ScanNext, IsFirst
<1>20. ASSUME NEW e \in Events, MissedDeadline(e) PROVE LockInv'
  BY <1>20 DEF MissedDeadline, Reschedule, EndOfIteration
<1>21. ASSUME NEW e \in Events, Notify(e) PROVE LockInv'
  BY <1>21 DEF Notify, NotifyTask, SetThread
<1>22. ASSUME NEW e \in Events, CheckCanceled(e) PROVE LockInv'
  BY <1>22 DEF CheckCanceled, Unqueue, EndOfIteration
<1>23. ASSUME NEW e \in Events, StartPeriodic(e) PROVE LockInv'
  BY <1>23 DEF StartPeriodic, SetThread
<1>24. ASSUME NEW e \in Events, Recheck(e) PROVE LockInv'
  BY <1>24 DEF Recheck, Unqueue, Reschedule, EndOfIteration
<1>25. ASSUME NEW e \in Events, StartOneShot(e) PROVE LockInv'
  BY <1>25 DEF StartOneShot, SetThread, KeepOneShot, Unqueue, EndOfIteration
<1>26. CASE StopBegin
  BY <1>26 DEF StopBegin
<1>27. ASSUME NEW e \in Events, StopCancel(e) PROVE LockInv'
  BY <1>27 DEF StopCancel, NotifyTask, SetThread
<1>28. CASE StopNextLoop
  BY <1>28 DEF StopNextLoop, NextLoop
<1>29. ASSUME NEW e \in Events, StopJoin(e) PROVE LockInv'
  BY <1>29 DEF StopJoin, SetThread
<1>30. ASSUME NEW e \in Events, StopJoinRest(e) PROVE LockInv'
  BY <1>30 DEF StopJoinRest, SetThread
<1>31. CASE StopClear
  BY <1>31 DEF StopClear, NextLoop
<1>32. CASE JoinInvoker
  BY <1>32 DEF JoinInvoker
<1>33. CASE UNCHANGED vars
  BY <1>33 DEF vars
<1>34. QED
  BY <1>1, <1>2, <1>3, <1>4, <1>5, <1>6, <1>7, <1>8, <1>9, <1>10, <1>11, <1>12, <1>13, <1>14, <1>15, <1>16, <1>17, <1>18, <1>19, <1>20, <1>21, <1>22, <1>23, <1>24, <1>25, <1>26, <1>27, <1>28, <1>29, <1>30, <1>31, <1>32, <1>33
     DEF Next, Client, Task, TaskStep, InvokerStep, InvokerHandles, StopStep

\* The invoker handles one event, and nobody takes it away: stop() and clients have
\* to wait for eventsMutex_.
LEMMA CurStep == TypeOK /\ LockInv /\ CurInv /\ [Next]_vars => CurInv'
<1> SUFFICES ASSUME TypeOK /\ LockInv /\ CurInv, [Next]_vars PROVE CurInv'
  OBVIOUS
<1> USE EventsAssumption, TimeAssumption, ModeAssumption DEF TypeOK, LockInv, CurInv, InvokerHolds, StopHolds, Handling
<1>1. CASE Tick
  BY <1>1 DEF Tick
<1>2. ASSUME NEW e \in Events, NEW o \in Offsets, Create(e, o) PROVE CurInv'
  BY <1>2 DEF Create
<1>3. ASSUME NEW e \in Events, Insert(e) PROVE CurInv'
  BY <1>3 DEF Insert, NotifyInvoker
<1>4. ASSUME NEW e \in Events, Cancel(e) PROVE CurInv'
  BY <1>4 DEF Cancel
<1>5. ASSUME NEW e \in Events, TaskLock(e) PROVE CurInv'
  BY <1>5 DEF TaskLock, SetThread
<1>6. ASSUME NEW e \in Events, TaskCheck(e) PROVE CurInv'
  BY <1>6 DEF TaskCheck, SetThread, RunBody
<1>7. ASSUME NEW e \in Events, OneShotStart(e) PROVE CurInv'
  BY <1>7 DEF OneShotStart, SetThread, RunBody
<1>8. ASSUME NEW e \in Events, BodyEnd(e) PROVE CurInv'
  BY <1>8 DEF BodyEnd, SetThread, AfterBody
<1>9. ASSUME NEW e \in Events, TaskSpuriousWake(e) PROVE CurInv'
  BY <1>9 DEF TaskSpuriousWake, SetThread
<1>10. CASE RunFinal
  BY <1>10 DEF RunFinal
<1>11. CASE InvokerBegin
  BY <1>11 DEF InvokerBegin
<1>12. CASE LoopTop
  BY <1>12 DEF LoopTop, Sleep
<1>13. CASE SleepUntilNext
  BY <1>13 DEF SleepUntilNext, Sleep, IsFirst
<1>14. CASE Wake
  BY <1>14 DEF Wake, WakeUp
<1>15. CASE SpuriousWake
  BY <1>15 DEF SpuriousWake, WakeUp
<1>16. CASE ScanDone
  BY <1>16 DEF ScanDone
<1>17. ASSUME NEW e \in Events, CleanJoin(e) PROVE CurInv'
  BY <1>17 DEF CleanJoin, SetThread, IsDone
<1>18. ASSUME NEW e \in Events, CleanErase(e) PROVE CurInv'
  BY <1>18 DEF CleanErase, IsDone
<1>19. ASSUME NEW e \in Events, ScanNext(e) PROVE CurInv'
  BY <1>19 DEF ScanNext, IsFirst
<1>20. ASSUME NEW e \in Events, MissedDeadline(e) PROVE CurInv'
  BY <1>20 DEF MissedDeadline, Reschedule, EndOfIteration
<1>21. ASSUME NEW e \in Events, Notify(e) PROVE CurInv'
  BY <1>21 DEF Notify, NotifyTask, SetThread
<1>22. ASSUME NEW e \in Events, CheckCanceled(e) PROVE CurInv'
  BY <1>22 DEF CheckCanceled, Unqueue, EndOfIteration
<1>23. ASSUME NEW e \in Events, StartPeriodic(e) PROVE CurInv'
  BY <1>23 DEF StartPeriodic, SetThread
<1>24. ASSUME NEW e \in Events, Recheck(e) PROVE CurInv'
  BY <1>24 DEF Recheck, Unqueue, Reschedule, EndOfIteration
<1>25. ASSUME NEW e \in Events, StartOneShot(e) PROVE CurInv'
  BY <1>25 DEF StartOneShot, SetThread, KeepOneShot, Unqueue, EndOfIteration
<1>26. CASE StopBegin
  BY <1>26 DEF StopBegin
<1>27. ASSUME NEW e \in Events, StopCancel(e) PROVE CurInv'
  BY <1>27 DEF StopCancel, NotifyTask, SetThread
<1>28. CASE StopNextLoop
  BY <1>28 DEF StopNextLoop, NextLoop
<1>29. ASSUME NEW e \in Events, StopJoin(e) PROVE CurInv'
  BY <1>29 DEF StopJoin, SetThread
<1>30. ASSUME NEW e \in Events, StopJoinRest(e) PROVE CurInv'
  BY <1>30 DEF StopJoinRest, SetThread
<1>31. CASE StopClear
  BY <1>31 DEF StopClear, NextLoop
<1>32. CASE JoinInvoker
  BY <1>32 DEF JoinInvoker
<1>33. CASE UNCHANGED vars
  BY <1>33 DEF vars
<1>34. QED
  BY <1>1, <1>2, <1>3, <1>4, <1>5, <1>6, <1>7, <1>8, <1>9, <1>10, <1>11, <1>12, <1>13, <1>14, <1>15, <1>16, <1>17, <1>18, <1>19, <1>20, <1>21, <1>22, <1>23, <1>24, <1>25, <1>26, <1>27, <1>28, <1>29, <1>30, <1>31, <1>32, <1>33
     DEF Next, Client, Task, TaskStep, InvokerStep, InvokerHandles, StopStep

\* An event enters the schedule once.
LEMMA FreshStep == TypeOK /\ LockInv /\ CurInv /\ FreshInv /\ [Next]_vars => FreshInv'
<1> SUFFICES ASSUME TypeOK /\ LockInv /\ CurInv /\ FreshInv, [Next]_vars PROVE FreshInv'
  OBVIOUS
<1> USE EventsAssumption, TimeAssumption, ModeAssumption DEF TypeOK, LockInv, CurInv, FreshInv, InvokerHolds, StopHolds, Handling
<1>1. CASE Tick
  BY <1>1 DEF Tick
<1>2. ASSUME NEW e \in Events, NEW o \in Offsets, Create(e, o) PROVE FreshInv'
  BY <1>2 DEF Create
<1>3. ASSUME NEW e \in Events, Insert(e) PROVE FreshInv'
  BY <1>3 DEF Insert, NotifyInvoker
<1>4. ASSUME NEW e \in Events, Cancel(e) PROVE FreshInv'
  BY <1>4 DEF Cancel
<1>5. ASSUME NEW e \in Events, TaskLock(e) PROVE FreshInv'
  BY <1>5 DEF TaskLock, SetThread
<1>6. ASSUME NEW e \in Events, TaskCheck(e) PROVE FreshInv'
  BY <1>6 DEF TaskCheck, SetThread, RunBody
<1>7. ASSUME NEW e \in Events, OneShotStart(e) PROVE FreshInv'
  BY <1>7 DEF OneShotStart, SetThread, RunBody
<1>8. ASSUME NEW e \in Events, BodyEnd(e) PROVE FreshInv'
  BY <1>8 DEF BodyEnd, SetThread, AfterBody
<1>9. ASSUME NEW e \in Events, TaskSpuriousWake(e) PROVE FreshInv'
  BY <1>9 DEF TaskSpuriousWake, SetThread
<1>10. CASE RunFinal
  BY <1>10 DEF RunFinal
<1>11. CASE InvokerBegin
  BY <1>11 DEF InvokerBegin
<1>12. CASE LoopTop
  BY <1>12 DEF LoopTop, Sleep
<1>13. CASE SleepUntilNext
  BY <1>13 DEF SleepUntilNext, Sleep, IsFirst
<1>14. CASE Wake
  BY <1>14 DEF Wake, WakeUp
<1>15. CASE SpuriousWake
  BY <1>15 DEF SpuriousWake, WakeUp
<1>16. CASE ScanDone
  BY <1>16 DEF ScanDone
<1>17. ASSUME NEW e \in Events, CleanJoin(e) PROVE FreshInv'
  BY <1>17 DEF CleanJoin, SetThread, IsDone
<1>18. ASSUME NEW e \in Events, CleanErase(e) PROVE FreshInv'
  BY <1>18 DEF CleanErase, IsDone
<1>19. ASSUME NEW e \in Events, ScanNext(e) PROVE FreshInv'
  BY <1>19 DEF ScanNext, IsFirst
<1>20. ASSUME NEW e \in Events, MissedDeadline(e) PROVE FreshInv'
  BY <1>20 DEF MissedDeadline, Reschedule, EndOfIteration
<1>21. ASSUME NEW e \in Events, Notify(e) PROVE FreshInv'
  BY <1>21 DEF Notify, NotifyTask, SetThread
<1>22. ASSUME NEW e \in Events, CheckCanceled(e) PROVE FreshInv'
  BY <1>22 DEF CheckCanceled, Unqueue, EndOfIteration
<1>23. ASSUME NEW e \in Events, StartPeriodic(e) PROVE FreshInv'
  BY <1>23 DEF StartPeriodic, SetThread
<1>24. ASSUME NEW e \in Events, Recheck(e) PROVE FreshInv'
  BY <1>24 DEF Recheck, Unqueue, Reschedule, EndOfIteration
<1>25. ASSUME NEW e \in Events, StartOneShot(e) PROVE FreshInv'
  BY <1>25 DEF StartOneShot, SetThread, KeepOneShot, Unqueue, EndOfIteration
<1>26. CASE StopBegin
  BY <1>26 DEF StopBegin
<1>27. ASSUME NEW e \in Events, StopCancel(e) PROVE FreshInv'
  BY <1>27 DEF StopCancel, NotifyTask, SetThread
<1>28. CASE StopNextLoop
  BY <1>28 DEF StopNextLoop, NextLoop
<1>29. ASSUME NEW e \in Events, StopJoin(e) PROVE FreshInv'
  BY <1>29 DEF StopJoin, SetThread
<1>30. ASSUME NEW e \in Events, StopJoinRest(e) PROVE FreshInv'
  BY <1>30 DEF StopJoinRest, SetThread
<1>31. CASE StopClear
  BY <1>31 DEF StopClear, NextLoop
<1>32. CASE JoinInvoker
  BY <1>32 DEF JoinInvoker
<1>33. CASE UNCHANGED vars
  BY <1>33 DEF vars
<1>34. QED
  BY <1>1, <1>2, <1>3, <1>4, <1>5, <1>6, <1>7, <1>8, <1>9, <1>10, <1>11, <1>12, <1>13, <1>14, <1>15, <1>16, <1>17, <1>18, <1>19, <1>20, <1>21, <1>22, <1>23, <1>24, <1>25, <1>26, <1>27, <1>28, <1>29, <1>30, <1>31, <1>32, <1>33
     DEF Next, Client, Task, TaskStep, InvokerStep, InvokerHandles, StopStep

\* What stop() has canceled stays canceled, and what it has joined does not live
\* again: only the invoker starts threads, and stop() keeps it out.
LEMMA StopInvStep == SafeInv /\ [Next]_vars => StopInv'
<1> SUFFICES ASSUME SafeInv, [Next]_vars PROVE StopInv'
  OBVIOUS
<1> USE EventsAssumption, TimeAssumption, ModeAssumption DEF SafeInv, TypeOK, LockInv, CurInv, FreshInv, StopInv, Alive, InvokerHolds, StopHolds, Handling
<1>1. CASE Tick
  BY <1>1 DEF Tick
<1>2. ASSUME NEW e \in Events, NEW o \in Offsets, Create(e, o) PROVE StopInv'
  BY <1>2 DEF Create
<1>3. ASSUME NEW e \in Events, Insert(e) PROVE StopInv'
  BY <1>3 DEF Insert, NotifyInvoker
<1>4. ASSUME NEW e \in Events, Cancel(e) PROVE StopInv'
  BY <1>4 DEF Cancel
<1>5. ASSUME NEW e \in Events, TaskLock(e) PROVE StopInv'
  BY <1>5 DEF TaskLock, SetThread
<1>6. ASSUME NEW e \in Events, TaskCheck(e) PROVE StopInv'
  BY <1>6 DEF TaskCheck, SetThread, RunBody
<1>7. ASSUME NEW e \in Events, OneShotStart(e) PROVE StopInv'
  BY <1>7 DEF OneShotStart, SetThread, RunBody
<1>8. ASSUME NEW e \in Events, BodyEnd(e) PROVE StopInv'
  BY <1>8 DEF BodyEnd, SetThread, AfterBody
<1>9. ASSUME NEW e \in Events, TaskSpuriousWake(e) PROVE StopInv'
  BY <1>9 DEF TaskSpuriousWake, SetThread
<1>10. CASE RunFinal
  BY <1>10 DEF RunFinal
<1>11. CASE InvokerBegin
  BY <1>11 DEF InvokerBegin
<1>12. CASE LoopTop
  BY <1>12 DEF LoopTop, Sleep
<1>13. CASE SleepUntilNext
  BY <1>13 DEF SleepUntilNext, Sleep, IsFirst
<1>14. CASE Wake
  BY <1>14 DEF Wake, WakeUp
<1>15. CASE SpuriousWake
  BY <1>15 DEF SpuriousWake, WakeUp
<1>16. CASE ScanDone
  BY <1>16 DEF ScanDone
<1>17. ASSUME NEW e \in Events, CleanJoin(e) PROVE StopInv'
  BY <1>17 DEF CleanJoin, SetThread, IsDone
<1>18. ASSUME NEW e \in Events, CleanErase(e) PROVE StopInv'
  BY <1>18 DEF CleanErase, IsDone
<1>19. ASSUME NEW e \in Events, ScanNext(e) PROVE StopInv'
  BY <1>19 DEF ScanNext, IsFirst
<1>20. ASSUME NEW e \in Events, MissedDeadline(e) PROVE StopInv'
  BY <1>20 DEF MissedDeadline, Reschedule, EndOfIteration
<1>21. ASSUME NEW e \in Events, Notify(e) PROVE StopInv'
  BY <1>21 DEF Notify, NotifyTask, SetThread
<1>22. ASSUME NEW e \in Events, CheckCanceled(e) PROVE StopInv'
  BY <1>22 DEF CheckCanceled, Unqueue, EndOfIteration
<1>23. ASSUME NEW e \in Events, StartPeriodic(e) PROVE StopInv'
  BY <1>23 DEF StartPeriodic, SetThread
<1>24. ASSUME NEW e \in Events, Recheck(e) PROVE StopInv'
  BY <1>24 DEF Recheck, Unqueue, Reschedule, EndOfIteration
<1>25. ASSUME NEW e \in Events, StartOneShot(e) PROVE StopInv'
  BY <1>25 DEF StartOneShot, SetThread, KeepOneShot, Unqueue, EndOfIteration
<1>26. CASE StopBegin
  BY <1>26 DEF StopBegin
<1>27. ASSUME NEW e \in Events, StopCancel(e) PROVE StopInv'
  BY <1>27 DEF StopCancel, NotifyTask, SetThread
<1>28. CASE StopNextLoop
  BY <1>28 DEF StopNextLoop, NextLoop
<1>29. ASSUME NEW e \in Events, StopJoin(e) PROVE StopInv'
  BY <1>29 DEF StopJoin, SetThread
<1>30. ASSUME NEW e \in Events, StopJoinRest(e) PROVE StopInv'
  BY <1>30 DEF StopJoinRest, Joins, SetThread
<1>31. CASE StopClear
  BY <1>31 DEF StopClear, NextLoop
<1>32. CASE JoinInvoker
  BY <1>32 DEF JoinInvoker
<1>33. CASE UNCHANGED vars
  BY <1>33 DEF vars
<1>34. QED
  BY <1>1, <1>2, <1>3, <1>4, <1>5, <1>6, <1>7, <1>8, <1>9, <1>10, <1>11, <1>12, <1>13, <1>14, <1>15, <1>16, <1>17, <1>18, <1>19, <1>20, <1>21, <1>22, <1>23, <1>24, <1>25, <1>26, <1>27, <1>28, <1>29, <1>30, <1>31, <1>32, <1>33
     DEF Next, Client, Task, TaskStep, InvokerStep, InvokerHandles, StopStep

\* The event of a living thread leaves a container only for another one, unless it
\* is canceled.
LEMMA OwnedStep == SafeInv /\ [Next]_vars => ThreadsOwned'
<1> SUFFICES ASSUME SafeInv, [Next]_vars PROVE ThreadsOwned'
  OBVIOUS
<1> USE EventsAssumption, TimeAssumption, ModeAssumption DEF SafeInv, TypeOK, LockInv, CurInv, StopInv, ThreadsOwned, Owned, Alive, InvokerHolds, StopHolds, Handling
<1>1. CASE Tick
  BY <1>1 DEF Tick
<1>2. ASSUME NEW e \in Events, NEW o \in Offsets, Create(e, o) PROVE ThreadsOwned'
  BY <1>2 DEF Create
<1>3. ASSUME NEW e \in Events, Insert(e) PROVE ThreadsOwned'
  BY <1>3 DEF Insert, NotifyInvoker
<1>4. ASSUME NEW e \in Events, Cancel(e) PROVE ThreadsOwned'
  BY <1>4 DEF Cancel
<1>5. ASSUME NEW e \in Events, TaskLock(e) PROVE ThreadsOwned'
  BY <1>5 DEF TaskLock, SetThread
<1>6. ASSUME NEW e \in Events, TaskCheck(e) PROVE ThreadsOwned'
  BY <1>6 DEF TaskCheck, SetThread, RunBody
<1>7. ASSUME NEW e \in Events, OneShotStart(e) PROVE ThreadsOwned'
  BY <1>7 DEF OneShotStart, SetThread, RunBody
<1>8. ASSUME NEW e \in Events, BodyEnd(e) PROVE ThreadsOwned'
  BY <1>8 DEF BodyEnd, SetThread, AfterBody
<1>9. ASSUME NEW e \in Events, TaskSpuriousWake(e) PROVE ThreadsOwned'
  BY <1>9 DEF TaskSpuriousWake, SetThread
<1>10. CASE RunFinal
  BY <1>10 DEF RunFinal
<1>11. CASE InvokerBegin
  BY <1>11 DEF InvokerBegin
<1>12. CASE LoopTop
  BY <1>12 DEF LoopTop, Sleep
<1>13. CASE SleepUntilNext
  BY <1>13 DEF SleepUntilNext, Sleep, IsFirst
<1>14. CASE Wake
  BY <1>14 DEF Wake, WakeUp
<1>15. CASE SpuriousWake
  BY <1>15 DEF SpuriousWake, WakeUp
<1>16. CASE ScanDone
  BY <1>16 DEF ScanDone
<1>17. ASSUME NEW e \in Events, CleanJoin(e) PROVE ThreadsOwned'
  BY <1>17 DEF CleanJoin, SetThread, IsDone
<1>18. ASSUME NEW e \in Events, CleanErase(e) PROVE ThreadsOwned'
  BY <1>18 DEF CleanErase, IsDone
<1>19. ASSUME NEW e \in Events, ScanNext(e) PROVE ThreadsOwned'
  BY <1>19 DEF ScanNext, IsFirst
<1>20. ASSUME NEW e \in Events, MissedDeadline(e) PROVE ThreadsOwned'
  BY <1>20 DEF MissedDeadline, Reschedule, EndOfIteration
<1>21. ASSUME NEW e \in Events, Notify(e) PROVE ThreadsOwned'
  BY <1>21 DEF Notify, NotifyTask, SetThread
<1>22. ASSUME NEW e \in Events, CheckCanceled(e) PROVE ThreadsOwned'
  BY <1>22 DEF CheckCanceled, Unqueue, EndOfIteration
<1>23. ASSUME NEW e \in Events, StartPeriodic(e) PROVE ThreadsOwned'
  BY <1>23 DEF StartPeriodic, SetThread
<1>24. ASSUME NEW e \in Events, Recheck(e) PROVE ThreadsOwned'
  BY <1>24 DEF Recheck, Unqueue, Reschedule, EndOfIteration
<1>25. ASSUME NEW e \in Events, StartOneShot(e) PROVE ThreadsOwned'
  BY <1>25 DEF StartOneShot, SetThread, KeepOneShot, Unqueue, EndOfIteration
<1>26. CASE StopBegin
  BY <1>26 DEF StopBegin
<1>27. ASSUME NEW e \in Events, StopCancel(e) PROVE ThreadsOwned'
  BY <1>27 DEF StopCancel, NotifyTask, SetThread
<1>28. CASE StopNextLoop
  BY <1>28 DEF StopNextLoop, NextLoop
<1>29. ASSUME NEW e \in Events, StopJoin(e) PROVE ThreadsOwned'
  BY <1>29 DEF StopJoin, SetThread
<1>30. ASSUME NEW e \in Events, StopJoinRest(e) PROVE ThreadsOwned'
  BY <1>30 DEF StopJoinRest, SetThread
<1>31. CASE StopClear
  BY <1>31 DEF StopClear, NextLoop
<1>32. CASE JoinInvoker
  BY <1>32 DEF JoinInvoker
<1>33. CASE UNCHANGED vars
  BY <1>33 DEF vars
<1>34. QED
  BY <1>1, <1>2, <1>3, <1>4, <1>5, <1>6, <1>7, <1>8, <1>9, <1>10, <1>11, <1>12, <1>13, <1>14, <1>15, <1>16, <1>17, <1>18, <1>19, <1>20, <1>21, <1>22, <1>23, <1>24, <1>25, <1>26, <1>27, <1>28, <1>29, <1>30, <1>31, <1>32, <1>33
     DEF Next, Client, Task, TaskStep, InvokerStep, InvokerHandles, StopStep

\* The invariant behind the next two theorems: eventsMutex_ has one holder, the
\* invoker's event stays where it is, and what stop() has done is not undone.
THEOREM SafeInvariant == Spec => []SafeInv
<1>1. SafeInv /\ [Next]_vars => SafeInv'
  BY TypeStep, LockStep, CurStep, FreshStep, StopInvStep, OwnedStep DEF SafeInv
<1>2. QED
  BY <1>1, InitSafe, PTL DEF Spec

\* An event whose thread lives is owned by a container, or by the invoker on the
\* way to one, as long as nobody has canceled it: schedule, cancel, the cleaning
\* and missed deadlines never leave its thread where stop() cannot find it.
THEOREM ThreadsOwnedHolds == Spec => []ThreadsOwned
<1>1. SafeInv => ThreadsOwned
  BY DEF SafeInv
<1>2. QED
  BY <1>1, SafeInvariant, PTL

\* When stop() has returned, no thread lives of the events that it found.
THEOREM QuietAfterStopHolds == Spec => []QuietAfterStop
<1>1. SafeInv => QuietAfterStop
  BY DEF SafeInv, StopInv, QuietAfterStop
<1>2. QED
  BY <1>1, SafeInvariant, PTL

-----------------------------------------------------------------------------
(* The pace of the tasks *)

\* Between two steps of the invoker nobody changes the event it handles in a way
\* that matters.
LEMMA HandledStep == SafeInv /\ HandledInv /\ [Next]_vars => HandledInv'
<1> SUFFICES ASSUME SafeInv /\ HandledInv, [Next]_vars PROVE HandledInv'
  OBVIOUS
<1> USE EventsAssumption, TimeAssumption, ModeAssumption DEF SafeInv, TypeOK, LockInv, CurInv, HandledInv, Alive, InvokerHolds, StopHolds, Handling
<1>1. CASE Tick
  BY <1>1 DEF Tick
<1>2. ASSUME NEW e \in Events, NEW o \in Offsets, Create(e, o) PROVE HandledInv'
  BY <1>2 DEF Create
<1>3. ASSUME NEW e \in Events, Insert(e) PROVE HandledInv'
  BY <1>3 DEF Insert, NotifyInvoker
<1>4. ASSUME NEW e \in Events, Cancel(e) PROVE HandledInv'
  BY <1>4 DEF Cancel
<1>5. ASSUME NEW e \in Events, TaskLock(e) PROVE HandledInv'
  BY <1>5 DEF TaskLock, SetThread
<1>6. ASSUME NEW e \in Events, TaskCheck(e) PROVE HandledInv'
  BY <1>6 DEF TaskCheck, SetThread, RunBody
<1>7. ASSUME NEW e \in Events, OneShotStart(e) PROVE HandledInv'
  BY <1>7 DEF OneShotStart, SetThread, RunBody
<1>8. ASSUME NEW e \in Events, BodyEnd(e) PROVE HandledInv'
  BY <1>8 DEF BodyEnd, SetThread, AfterBody
<1>9. ASSUME NEW e \in Events, TaskSpuriousWake(e) PROVE HandledInv'
  BY <1>9 DEF TaskSpuriousWake, SetThread
<1>10. CASE RunFinal
  BY <1>10 DEF RunFinal
<1>11. CASE InvokerBegin
  BY <1>11 DEF InvokerBegin
<1>12. CASE LoopTop
  BY <1>12 DEF LoopTop, Sleep
<1>13. CASE SleepUntilNext
  BY <1>13 DEF SleepUntilNext, Sleep, IsFirst
<1>14. CASE Wake
  BY <1>14 DEF Wake, WakeUp
<1>15. CASE SpuriousWake
  BY <1>15 DEF SpuriousWake, WakeUp
<1>16. CASE ScanDone
  BY <1>16 DEF ScanDone
<1>17. ASSUME NEW e \in Events, CleanJoin(e) PROVE HandledInv'
  BY <1>17 DEF CleanJoin, SetThread, IsDone
<1>18. ASSUME NEW e \in Events, CleanErase(e) PROVE HandledInv'
  BY <1>18 DEF CleanErase, IsDone
<1>19. ASSUME NEW e \in Events, ScanNext(e) PROVE HandledInv'
  BY <1>19 DEF ScanNext, IsFirst, IsStarted
<1>20. ASSUME NEW e \in Events, MissedDeadline(e) PROVE HandledInv'
  BY <1>20 DEF MissedDeadline, Reschedule, EndOfIteration
<1>21. ASSUME NEW e \in Events, Notify(e) PROVE HandledInv'
  BY <1>21 DEF Notify, NotifyTask, SetThread
<1>22. ASSUME NEW e \in Events, CheckCanceled(e) PROVE HandledInv'
  BY <1>22 DEF CheckCanceled, Unqueue, EndOfIteration
<1>23. ASSUME NEW e \in Events, StartPeriodic(e) PROVE HandledInv'
  BY <1>23 DEF StartPeriodic, SetThread
<1>24. ASSUME NEW e \in Events, Recheck(e) PROVE HandledInv'
  BY <1>24 DEF Recheck, Unqueue, Reschedule, EndOfIteration
<1>25. ASSUME NEW e \in Events, StartOneShot(e) PROVE HandledInv'
  BY <1>25 DEF StartOneShot, SetThread, KeepOneShot, Unqueue, EndOfIteration
<1>26. CASE StopBegin
  BY <1>26 DEF StopBegin
<1>27. ASSUME NEW e \in Events, StopCancel(e) PROVE HandledInv'
  BY <1>27 DEF StopCancel, NotifyTask, SetThread
<1>28. CASE StopNextLoop
  BY <1>28 DEF StopNextLoop, NextLoop
<1>29. ASSUME NEW e \in Events, StopJoin(e) PROVE HandledInv'
  BY <1>29 DEF StopJoin, SetThread
<1>30. ASSUME NEW e \in Events, StopJoinRest(e) PROVE HandledInv'
  BY <1>30 DEF StopJoinRest, SetThread
<1>31. CASE StopClear
  BY <1>31 DEF StopClear, NextLoop
<1>32. CASE JoinInvoker
  BY <1>32 DEF JoinInvoker
<1>33. CASE UNCHANGED vars
  BY <1>33 DEF vars
<1>34. QED
  BY <1>1, <1>2, <1>3, <1>4, <1>5, <1>6, <1>7, <1>8, <1>9, <1>10, <1>11, <1>12, <1>13, <1>14, <1>15, <1>16, <1>17, <1>18, <1>19, <1>20, <1>21, <1>22, <1>23, <1>24, <1>25, <1>26, <1>27, <1>28, <1>29, <1>30, <1>31, <1>32, <1>33
     DEF Next, Client, Task, TaskStep, InvokerStep, InvokerHandles, StopStep

\* A thread is created once, when its event is due.
LEMMA ThreadStep == SafeInv /\ HandledInv /\ ThreadInv /\ [Next]_vars => ThreadInv'
<1> SUFFICES ASSUME SafeInv /\ HandledInv /\ ThreadInv, [Next]_vars PROVE ThreadInv'
  OBVIOUS
<1> USE EventsAssumption, TimeAssumption, ModeAssumption DEF SafeInv, TypeOK, LockInv, CurInv, FreshInv, HandledInv, ThreadInv, Alive, InvokerHolds, StopHolds, Handling
<1>1. CASE Tick
  BY <1>1 DEF Tick
<1>2. ASSUME NEW e \in Events, NEW o \in Offsets, Create(e, o) PROVE ThreadInv'
  BY <1>2 DEF Create
<1>3. ASSUME NEW e \in Events, Insert(e) PROVE ThreadInv'
  BY <1>3 DEF Insert, NotifyInvoker
<1>4. ASSUME NEW e \in Events, Cancel(e) PROVE ThreadInv'
  BY <1>4 DEF Cancel
<1>5. ASSUME NEW e \in Events, TaskLock(e) PROVE ThreadInv'
  BY <1>5 DEF TaskLock, SetThread
<1>6. ASSUME NEW e \in Events, TaskCheck(e) PROVE ThreadInv'
  BY <1>6 DEF TaskCheck, SetThread, RunBody
<1>7. ASSUME NEW e \in Events, OneShotStart(e) PROVE ThreadInv'
  BY <1>7 DEF OneShotStart, SetThread, RunBody
<1>8. ASSUME NEW e \in Events, BodyEnd(e) PROVE ThreadInv'
  BY <1>8 DEF BodyEnd, SetThread, AfterBody
<1>9. ASSUME NEW e \in Events, TaskSpuriousWake(e) PROVE ThreadInv'
  BY <1>9 DEF TaskSpuriousWake, SetThread
<1>10. CASE RunFinal
  BY <1>10 DEF RunFinal
<1>11. CASE InvokerBegin
  BY <1>11 DEF InvokerBegin
<1>12. CASE LoopTop
  BY <1>12 DEF LoopTop, Sleep
<1>13. CASE SleepUntilNext
  BY <1>13 DEF SleepUntilNext, Sleep, IsFirst
<1>14. CASE Wake
  BY <1>14 DEF Wake, WakeUp
<1>15. CASE SpuriousWake
  BY <1>15 DEF SpuriousWake, WakeUp
<1>16. CASE ScanDone
  BY <1>16 DEF ScanDone
<1>17. ASSUME NEW e \in Events, CleanJoin(e) PROVE ThreadInv'
  BY <1>17 DEF CleanJoin, SetThread, IsDone
<1>18. ASSUME NEW e \in Events, CleanErase(e) PROVE ThreadInv'
  BY <1>18 DEF CleanErase, IsDone
<1>19. ASSUME NEW e \in Events, ScanNext(e) PROVE ThreadInv'
  BY <1>19 DEF ScanNext, IsFirst
<1>20. ASSUME NEW e \in Events, MissedDeadline(e) PROVE ThreadInv'
  BY <1>20 DEF MissedDeadline, Reschedule, EndOfIteration
<1>21. ASSUME NEW e \in Events, Notify(e) PROVE ThreadInv'
  BY <1>21 DEF Notify, NotifyTask, SetThread
<1>22. ASSUME NEW e \in Events, CheckCanceled(e) PROVE ThreadInv'
  BY <1>22 DEF CheckCanceled, Unqueue, EndOfIteration
<1>23. ASSUME NEW e \in Events, StartPeriodic(e) PROVE ThreadInv'
  BY <1>23 DEF StartPeriodic, SetThread
<1>24. ASSUME NEW e \in Events, Recheck(e) PROVE ThreadInv'
  BY <1>24 DEF Recheck, Unqueue, Reschedule, EndOfIteration
<1>25. ASSUME NEW e \in Events, StartOneShot(e) PROVE ThreadInv'
  BY <1>25 DEF StartOneShot, SetThread, KeepOneShot, Unqueue, EndOfIteration
<1>26. CASE StopBegin
  BY <1>26 DEF StopBegin
<1>27. ASSUME NEW e \in Events, StopCancel(e) PROVE ThreadInv'
  BY <1>27 DEF StopCancel, NotifyTask, SetThread
<1>28. CASE StopNextLoop
  BY <1>28 DEF StopNextLoop, NextLoop
<1>29. ASSUME NEW e \in Events, StopJoin(e) PROVE ThreadInv'
  BY <1>29 DEF StopJoin, SetThread
<1>30. ASSUME NEW e \in Events, StopJoinRest(e) PROVE ThreadInv'
  BY <1>30 DEF StopJoinRest, SetThread
<1>31. CASE StopClear
  BY <1>31 DEF StopClear, NextLoop
<1>32. CASE JoinInvoker
  BY <1>32 DEF JoinInvoker
<1>33. CASE UNCHANGED vars
  BY <1>33 DEF vars
<1>34. QED
  BY <1>1, <1>2, <1>3, <1>4, <1>5, <1>6, <1>7, <1>8, <1>9, <1>10, <1>11, <1>12, <1>13, <1>14, <1>15, <1>16, <1>17, <1>18, <1>19, <1>20, <1>21, <1>22, <1>23, <1>24, <1>25, <1>26, <1>27, <1>28, <1>29, <1>30, <1>31, <1>32, <1>33
     DEF Next, Client, Task, TaskStep, InvokerStep, InvokerHandles, StopStep

\* Only the invoker grants an activation, once for each key of the event, and only
\* a spurious wake-up runs a task without one.
LEMMA RateStep == PaceInv /\ [Next]_vars => RateInv'
<1> SUFFICES ASSUME PaceInv, [Next]_vars PROVE RateInv'
  OBVIOUS
<1> USE EventsAssumption, TimeAssumption, ModeAssumption DEF PaceInv, SafeInv, TypeOK, LockInv, CurInv, FreshInv, HandledInv, ThreadInv, RateInv, Activations, Paid, Owing, Granting, Alive, InvokerHolds, StopHolds, Handling
<1>1. CASE Tick
  BY <1>1 DEF Tick
<1>2. ASSUME NEW e \in Events, NEW o \in Offsets, Create(e, o) PROVE RateInv'
  BY <1>2 DEF Create
<1>3. ASSUME NEW e \in Events, Insert(e) PROVE RateInv'
  BY <1>3 DEF Insert, NotifyInvoker
<1>4. ASSUME NEW e \in Events, Cancel(e) PROVE RateInv'
  BY <1>4 DEF Cancel
<1>5. ASSUME NEW e \in Events, TaskLock(e) PROVE RateInv'
  BY <1>5 DEF TaskLock, SetThread
<1>6. ASSUME NEW e \in Events, TaskCheck(e) PROVE RateInv'
  <2>1. \A f \in Events : Activations(f)' = Activations(f)
    BY <1>6 DEF TaskCheck, SetThread, RunBody
  <2>2. \A f \in Events : (Paid(f)' <=> Paid(f)) /\ (Owing(f)' <=> Owing(f))
    BY <1>6, <2>1 DEF TaskCheck
  <2>3. QED
    BY <1>6, <2>1, <2>2 DEF TaskCheck
<1>7. ASSUME NEW e \in Events, OneShotStart(e) PROVE RateInv'
  BY <1>7 DEF OneShotStart, SetThread, RunBody
<1>8. ASSUME NEW e \in Events, BodyEnd(e) PROVE RateInv'
  BY <1>8 DEF BodyEnd, SetThread, AfterBody
<1>9. ASSUME NEW e \in Events, TaskSpuriousWake(e) PROVE RateInv'
  BY <1>9 DEF TaskSpuriousWake, SetThread
<1>10. CASE RunFinal
  BY <1>10 DEF RunFinal
<1>11. CASE InvokerBegin
  BY <1>11 DEF InvokerBegin
<1>12. CASE LoopTop
  BY <1>12 DEF LoopTop, Sleep
<1>13. CASE SleepUntilNext
  BY <1>13 DEF SleepUntilNext, Sleep, IsFirst
<1>14. CASE Wake
  BY <1>14 DEF Wake, WakeUp
<1>15. CASE SpuriousWake
  BY <1>15 DEF SpuriousWake, WakeUp
<1>16. CASE ScanDone
  BY <1>16 DEF ScanDone
<1>17. ASSUME NEW e \in Events, CleanJoin(e) PROVE RateInv'
  BY <1>17 DEF CleanJoin, SetThread, IsDone
<1>18. ASSUME NEW e \in Events, CleanErase(e) PROVE RateInv'
  BY <1>18 DEF CleanErase, IsDone
<1>19. ASSUME NEW e \in Events, ScanNext(e) PROVE RateInv'
  BY <1>19 DEF ScanNext, IsFirst
<1>20. ASSUME NEW e \in Events, MissedDeadline(e) PROVE RateInv'
  BY <1>20 DEF MissedDeadline, Reschedule, EndOfIteration
<1>21. ASSUME NEW e \in Events, Notify(e) PROVE RateInv'
  BY <1>21 DEF Notify, NotifyTask, SetThread
<1>22. ASSUME NEW e \in Events, CheckCanceled(e) PROVE RateInv'
  BY <1>22 DEF CheckCanceled, Unqueue, EndOfIteration
<1>23. ASSUME NEW e \in Events, StartPeriodic(e) PROVE RateInv'
  <2>1. CASE e \in canceled
    BY <1>23, <2>1 DEF StartPeriodic
  <2>2. CASE e \notin canceled
    <3>1. thread[e] = "none" /\ thread' = [thread EXCEPT ![e] = "spawned"]
      BY <1>23, <2>2 DEF StartPeriodic, SetThread
    <3>2. Activations(e)' = 1
      BY <1>23, <2>2, <3>1 DEF StartPeriodic
    <3>3. spurious * Period \in Nat
      OBVIOUS
    <3>4. Owing(e)'
      BY <1>23, <3>2, <3>3 DEF StartPeriodic
    <3>5. \A f \in Periodic : f # e => f \notin cur
      BY <1>23 DEF StartPeriodic
    <3>6. \A f \in Periodic : f # e => /\ Activations(f)' = Activations(f)
                                       /\ Paid(f)' <=> Paid(f)
                                       /\ Owing(f)' <=> Owing(f)
      BY <1>23, <3>1 DEF StartPeriodic
    <3>7. Granting(e)'
      BY <1>23 DEF StartPeriodic
    <3>8. QED
      BY <1>23, <3>4, <3>5, <3>6, <3>7 DEF StartPeriodic
  <2>3. QED
    BY <2>1, <2>2
<1>24. ASSUME NEW e \in Events, Recheck(e) PROVE RateInv'
  BY <1>24 DEF Recheck, Unqueue, Reschedule, EndOfIteration
<1>25. ASSUME NEW e \in Events, StartOneShot(e) PROVE RateInv'
  BY <1>25 DEF StartOneShot, SetThread, KeepOneShot, Unqueue, EndOfIteration
<1>26. CASE StopBegin
  BY <1>26 DEF StopBegin
<1>27. ASSUME NEW e \in Events, StopCancel(e) PROVE RateInv'
  BY <1>27 DEF StopCancel, NotifyTask, SetThread
<1>28. CASE StopNextLoop
  BY <1>28 DEF StopNextLoop, NextLoop
<1>29. ASSUME NEW e \in Events, StopJoin(e) PROVE RateInv'
  BY <1>29 DEF StopJoin, SetThread
<1>30. ASSUME NEW e \in Events, StopJoinRest(e) PROVE RateInv'
  BY <1>30 DEF StopJoinRest, SetThread
<1>31. CASE StopClear
  BY <1>31 DEF StopClear, NextLoop
<1>32. CASE JoinInvoker
  BY <1>32 DEF JoinInvoker
<1>33. CASE UNCHANGED vars
  BY <1>33 DEF vars
<1>34. QED
  BY <1>1, <1>2, <1>3, <1>4, <1>5, <1>6, <1>7, <1>8, <1>9, <1>10, <1>11, <1>12, <1>13, <1>14, <1>15, <1>16, <1>17, <1>18, <1>19, <1>20, <1>21, <1>22, <1>23, <1>24, <1>25, <1>26, <1>27, <1>28, <1>29, <1>30, <1>31, <1>32, <1>33
     DEF Next, Client, Task, TaskStep, InvokerStep, InvokerHandles, StopStep

\* Nothing has run and nothing is due: the books are balanced.
LEMMA InitPace == Init => PaceInv
<1> SUFFICES ASSUME Init PROVE PaceInv
  OBVIOUS
<1>1. SafeInv
  BY InitSafe
<1>2. HandledInv
  BY DEF Init, HandledInv, Handling
<1>3. ThreadInv
  BY EventsAssumption DEF Init, ThreadInv
<1>4. \A e \in Events : Activations(e) = 0
  BY DEF Init, Activations
<1>5. QED
  BY <1>1, <1>2, <1>3, <1>4 DEF PaceInv, RateInv

\* The invariant behind RateBound: every activation is paid for by a key of the
\* event that time had reached, or by a spurious wake-up.
THEOREM PaceInvariant == Spec => []PaceInv
<1>1. PaceInv /\ [Next]_vars => PaceInv'
  BY TypeStep, LockStep, CurStep, FreshStep, StopInvStep, OwnedStep, HandledStep, ThreadStep,
     RateStep DEF SafeInv, PaceInv
<1>2. QED
  BY <1>1, InitPace, PTL DEF Spec

\* A key that has paid for so many activations lies in the past by as much.
LEMMA PaceGivesRate == PaceInv => RateBound
<1> SUFFICES ASSUME PaceInv, NEW e \in Events, runs[e] > 0
             PROVE  /\ now >= first[e]
                    /\ IF e \in OneShot THEN runs[e] = 1
                       ELSE first[e] + runs[e] * Period <= now + (1 + spurious) * Period
  BY DEF RateBound
<1> USE EventsAssumption, TimeAssumption, ModeAssumption DEF PaceInv, SafeInv, TypeOK
<1>1. now >= first[e]
  BY DEF ThreadInv
<1>2. CASE e \in OneShot
  BY <1>1, <1>2 DEF ThreadInv
<1>3. CASE e \in Periodic
  <2>1. Activations(e) > 0 /\ Activations(e) \in {runs[e], runs[e] + 1}
    BY DEF Activations
  <2>2. runs[e] * Period <= Activations(e) * Period
    BY <2>1
  <2>3. Paid(e) \/ Owing(e)
    BY <1>3, <2>1 DEF RateInv
  <2>4. first[e] + Activations(e) * Period <= now + Period + spurious * Period
    <3>1. Activations(e) \in Nat
      BY DEF Activations
    <3>2. Activations(e) * Period \in Nat /\ spurious * Period \in Nat
      BY <3>1
    <3>3. first[e] \in Nat /\ due[e] \in Nat /\ now \in Nat /\ Period \in Nat
      OBVIOUS
    <3>4. CASE Paid(e)
      BY <3>2, <3>3, <3>4 DEF Paid
    <3>5. CASE Owing(e)
      BY <3>2, <3>3, <3>5 DEF Owing
    <3>6. QED
      BY <2>3, <3>4, <3>5
  <2>5. (1 + spurious) * Period = Period + spurious * Period
    OBVIOUS
  <2>6. first[e] + runs[e] * Period <= now + (1 + spurious) * Period
    BY <2>1, <2>2, <2>4, <2>5
  <2>7. QED
    BY <1>1, <1>3, <2>6
<1>4. QED
  BY <1>2, <1>3

\* No task runs more often than its schedule allows, up to spurious wake-ups.
THEOREM RateBoundHolds == Spec => []RateBound
  BY PaceInvariant, PaceGivesRate, PTL
=============================================================================
