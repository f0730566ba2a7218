---------------------------- MODULE MTScheduler ----------------------------
(***************************************************************************)
(* MultiThreadingScheduler: an invoker thread (runSchedule) that starts    *)
(* and wakes task threads when their events are due, client threads that   *)
(* schedule and cancel events, tasks that schedule further tasks, and a    *)
(* thread that calls stop().                                               *)
(*                                                                         *)
(* eventsMutex_ is the variable mutex: the invoker holds it except while   *)
(* it waits at wakeupCondition_, stop() holds it while it joins threads.   *)
(* The executionMutex of a periodic event is held exactly while its body   *)
(* runs.  isCanceled, isStarted and isDone are atomics that are read and   *)
(* written without a lock, so what the invoker does between two reads of   *)
(* one of them is a step of its own.  isStarted and isDone are written     *)
(* where a thread starts and ends, and follow from where it is.            *)
(*                                                                         *)
(* Time is counted from startingTime_.  It passes at any moment, so a task *)
(* or the invoker can be late by any amount.                               *)
(***************************************************************************)
EXTENDS Naturals, FiniteSets

CONSTANTS
  Periodic,     \* events scheduled with a period
  OneShot,      \* events scheduled without one
  Cancelable,   \* the events whose Event handle a client may cancel
  Spawned,      \* events that the task of Spawner schedules, not a client
  Spawner,      \* the events whose task schedules others; at most one
  Offsets,      \* the values of initialFromNow
  Period,       \* the period of every periodic event
  MainThread,   \* mainThread_: startSchedule() runs the invoker, not run(FINAL)
  MaxTime,      \* bound: time does not go past it
  MaxSpurious   \* bound: spurious wake-ups of condition variables

Events == Periodic \cup OneShot

ASSUME EventsAssumption ==
  /\ Periodic \cap OneShot = {}
  /\ Cancelable \subseteq Events
  /\ Spawned \subseteq Events
  /\ Spawner \subseteq Events
ASSUME TimeAssumption ==
  /\ Offsets \subseteq Nat
  /\ Period \in Nat \ {0}
  /\ MaxTime \in Nat
ASSUME ModeAssumption == MainThread \in BOOLEAN /\ MaxSpurious \in Nat

VARIABLES
  now,          \* timeProvider->now() - startingTime_
  mutex,        \* who holds eventsMutex_: "free", "invoker" or "stop"
  started,      \* started_
  notified,     \* wakeupCondition_ was notified since the invoker sleeps
  scheduled,    \* the events for which schedule() was called
  creating,     \* those whose time is computed, before the lock is taken
  first,        \* first[e]: the time with which e was scheduled
  queued,       \* the events in events_
  due,          \* due[e]: the key of e in events_
  nonPeriodic,  \* nonPeriodicEvents_
  canceled,     \* the events with isCanceled
  thread,       \* thread[e]: the periodicThread of e, and where it is
  runs,         \* runs[e]: how often the body of e was started
  spurious,     \* spurious wake-ups so far
  ipc,          \* where the invoker is in runSchedule
  nowRead,      \* its local now
  sleepUntil,   \* the end of its wait, {} if it has none
  cur,          \* the event it is handling, as a set
  cleaning,     \* the part of nonPeriodicEvents_ it has yet to clean
  spc,          \* where stop() is
  todo,         \* the events that its present loop has yet to see
  found         \* the events in events_ or nonPeriodicEvents_ as it began

lock == <<mutex, started, notified>>
clients == <<scheduled, creating, first>>
table == <<queued, due, nonPeriodic>>
tasks == <<thread, runs, spurious>>
invoker == <<ipc, nowRead, sleepUntil, cur, cleaning>>
stopper == <<spc, todo, found>>
world == <<now, clients, canceled, stopper>>  \* what neither tasks nor the invoker change
vars == <<world, lock, table, tasks, invoker>>

Init ==
  /\ now = 0
  /\ mutex = "free" /\ started = FALSE /\ notified = FALSE
  /\ scheduled = {} /\ creating = {} /\ queued = {} /\ nonPeriodic = {} /\ canceled = {}
  /\ first = [e \in Events |-> 0] /\ due = [e \in Events |-> 0]
  /\ thread = [e \in Events |-> "none"] /\ runs = [e \in Events |-> 0] /\ spurious = 0
  /\ ipc = "none" /\ nowRead = 0 /\ sleepUntil = {} /\ cur = {} /\ cleaning = {}
  /\ spc = "idle" /\ todo = {} /\ found = {}

\* Time counts from startingTime_.
Tick ==
  /\ ipc \notin {"none", "start"}
  /\ now < MaxTime
  /\ now' = now + 1
  /\ UNCHANGED <<clients, canceled, stopper, lock, table, tasks, invoker>>

-----------------------------------------------------------------------------
(* What becomes of threads and events *)

SetThread(e, where) == thread' = [thread EXCEPT ![e] = where]
Alive(e) == thread[e] \in {"spawned", "locked", "running", "waiting", "notified"}
IsStarted(e) == e \in Periodic /\ Alive(e)
IsDone(e) == e \in OneShot /\ thread[e] \in {"exited", "joined"}

\* periodicTask holds executionMutex from its start to its end, waits excepted.
HoldsExecution(e) == e \in Periodic /\ thread[e] \in {"locked", "running"}

\* Somebody other than its own thread holds a shared_ptr to the EventBody.
Owned(e) == e \in queued \cup nonPeriodic \cup cur

\* The last shared_ptr to an EventBody is gone, and its thread has ended and was
\* never joined: ~thread() calls std::terminate, and the process is gone.
Terminated == \E e \in Events : thread[e] = "exited" /\ ~Owned(e)

\* intervalCondition.notify
NotifyTask(e) == IF thread[e] = "waiting" THEN SetThread(e, "notified") ELSE UNCHANGED thread

-----------------------------------------------------------------------------
(* Clients: schedule and cancel *)

\* createSchedule, called by a client or by a task: the time is computed before
\* eventsMutex_ is taken.
Create(e, initialFromNow) ==
  /\ e \notin scheduled
  /\ e \in Spawned => \E p \in Spawner : thread[p] = "running"
  /\ scheduled' = scheduled \cup {e}
  /\ creating' = creating \cup {e}
  /\ first' = [first EXCEPT ![e] = initialFromNow + (IF started THEN now ELSE 0)]
  /\ due' = [due EXCEPT ![e] = first'[e]]
  /\ UNCHANGED <<now, queued, nonPeriodic, canceled, stopper, lock, tasks, invoker>>

\* A slip: the invoker is not notified.
NotifyNobody == UNCHANGED notified

\* wakeupCondition_.notify_all()
NotifyInvoker == notified' = TRUE

\* The rest of schedule(), under eventsMutex_.
Insert(e) ==
  /\ e \in creating
  /\ mutex = "free"
  /\ creating' = creating \ {e}
  /\ queued' = queued \cup {e}
  /\ NotifyInvoker
  /\ UNCHANGED <<now, scheduled, first, due, nonPeriodic, canceled, stopper, mutex, started,
                 tasks, invoker>>

\* Event::cancel only sets the flag.
Cancel(e) ==
  /\ e \in (Cancelable \cap scheduled) \ canceled
  /\ canceled' = canceled \cup {e}
  /\ UNCHANGED <<now, clients, stopper, lock, table, tasks, invoker>>

Client == \E e \in Events : (\E o \in Offsets : Create(e, o)) \/ Insert(e) \/ Cancel(e)

-----------------------------------------------------------------------------
(* Task threads *)

\* periodicTask takes executionMutex: at its start, and when its wait returns.
TaskLock(e) ==
  /\ e \in Periodic /\ thread[e] \in {"spawned", "notified"}
  /\ SetThread(e, "locked")
  /\ UNCHANGED <<world, lock, table, runs, spurious, invoker>>

RunBody(e) ==
  /\ SetThread(e, "running")
  /\ runs' = [runs EXCEPT ![e] = @ + 1]

\* The condition of its loop: the body runs, or the thread ends.
TaskCheck(e) ==
  /\ e \in Periodic /\ thread[e] = "locked"
  /\ \/ e \notin canceled /\ RunBody(e)
     \/ e \in canceled /\ SetThread(e, "exited") /\ UNCHANGED runs
  /\ UNCHANGED <<world, lock, table, spurious, invoker>>

\* The thread of an event without a period only runs its body.
OneShotStart(e) ==
  /\ e \in OneShot /\ thread[e] = "spawned"
  /\ RunBody(e)
  /\ UNCHANGED <<world, lock, table, spurious, invoker>>

\* A slip: every task waits for its next interval.
AlwaysWaits(e) == "waiting"

\* Where a thread goes when its body is over.
AfterBody(e) == IF e \in Periodic THEN "waiting" ELSE "exited"

\* The body returns, which it cannot while it is inside schedule().
BodyEnd(e) ==
  /\ thread[e] = "running"
  /\ e \in Spawner => creating \cap Spawned = {}
  /\ SetThread(e, AfterBody(e))
  /\ UNCHANGED <<world, lock, table, runs, spurious, invoker>>

\* intervalCondition.wait has no predicate.
TaskSpuriousWake(e) ==
  /\ thread[e] = "waiting"
  /\ spurious < MaxSpurious /\ spurious' = spurious + 1
  /\ SetThread(e, "notified")
  /\ UNCHANGED <<world, lock, table, runs, invoker>>

TaskStep(e) == TaskLock(e) \/ TaskCheck(e) \/ OneShotStart(e) \/ BodyEnd(e)
Task == \E e \in Events : TaskStep(e) \/ TaskSpuriousWake(e)

-----------------------------------------------------------------------------
(* The invoker: runSchedule *)

\* run(FINAL) creates the invoker thread, or startSchedule() becomes it.
RunFinal ==
  /\ ipc = "none" /\ ipc' = "start"
  /\ UNCHANGED <<world, lock, table, tasks, nowRead, sleepUntil, cur, cleaning>>

InvokerBegin ==
  /\ ipc = "start" /\ ipc' = "top"
  /\ mutex = "free" /\ mutex' = "invoker"
  /\ started' = TRUE
  /\ UNCHANGED <<world, notified, table, tasks, nowRead, sleepUntil, cur, cleaning>>

\* e is a first element of the multimap: events due at once stand in it in the
\* order of their insertion, which the model leaves open.
IsFirst(e) == e \in queued /\ \A o \in queued : due[e] <= due[o]
SomethingDue(t) == \E e \in queued : due[e] <= t

\* The wait releases eventsMutex_.
Sleep(until) ==
  /\ ipc' = "sleeping"
  /\ sleepUntil' = until
  /\ notified' = FALSE
  /\ mutex' = "free"

LoopTop ==
  /\ ipc = "top"
  /\ nowRead' = now
  /\ \/ queued = {} /\ Sleep({}) /\ UNCHANGED cleaning
     \/ /\ queued # {}
        /\ ipc' = IF SomethingDue(now) THEN "scan" ELSE "clean"
        /\ cleaning' = IF SomethingDue(now) THEN {} ELSE nonPeriodic
        /\ UNCHANGED <<mutex, notified, sleepUntil>>
  /\ UNCHANGED <<world, started, table, tasks, cur>>

\* Cleaning reads the flags of an element twice: first to join its thread, if
\* it is done,
CleanJoin(e) ==
  /\ ipc = "clean" /\ cur = {} /\ e \in cleaning
  /\ IF IsDone(e) THEN SetThread(e, "joined") ELSE UNCHANGED thread
  /\ cur' = {e}
  /\ UNCHANGED <<world, lock, table, runs, spurious, ipc, nowRead, sleepUntil, cleaning>>

\* and then to erase it, if it is canceled or done.
CleanErase(e) ==
  /\ ipc = "clean" /\ e \in cur
  /\ nonPeriodic' = IF e \in canceled \/ IsDone(e) THEN nonPeriodic \ {e} ELSE nonPeriodic
  /\ cleaning' = cleaning \ {e}
  /\ cur' = {}
  /\ UNCHANGED <<world, lock, queued, due, tasks, ipc, nowRead, sleepUntil>>

\* waitUntil the first event of the multimap is due.
SleepUntilNext ==
  /\ ipc = "clean" /\ cur = {} /\ cleaning = {}
  /\ \E e \in Events : IsFirst(e) /\ Sleep({due[e]})
  /\ UNCHANGED <<world, started, table, tasks, nowRead, cur, cleaning>>

\* The wait returns.  Only the timed one is followed by a new reading of now.
WakeUp ==
  /\ ipc = "sleeping" /\ ipc' = "scan"
  /\ mutex = "free" /\ mutex' = "invoker"
  /\ nowRead' = IF sleepUntil = {} THEN nowRead ELSE now
  /\ sleepUntil' = {}
  /\ UNCHANGED <<world, started, notified, table, thread, runs, cur, cleaning>>

Wake == (notified \/ \E t \in sleepUntil : t <= now) /\ WakeUp /\ UNCHANGED spurious
SpuriousWake == WakeUp /\ spurious < MaxSpurious /\ spurious' = spurious + 1

\* The condition of the inner loop, and the look at the first element.
ScanNext(e) ==
  /\ ipc = "scan"
  /\ IsFirst(e) /\ due[e] <= nowRead
  /\ cur' = {e}
  /\ ipc' = IF e \in OneShot THEN "oneShot"
            ELSE IF IsStarted(e) THEN "tryLock" ELSE "unstarted"
  /\ UNCHANGED <<world, lock, table, tasks, nowRead, sleepUntil, cleaning>>

\* The inner loop is over: go round, or return if stop() was called.
ScanDone ==
  /\ ipc = "scan"
  /\ ~SomethingDue(nowRead)
  /\ ipc' = IF started THEN "top" ELSE "returned"
  /\ mutex' = IF started THEN mutex ELSE "free"
  /\ UNCHANGED <<world, started, notified, table, tasks, nowRead, sleepUntil, cur, cleaning>>

\* A slip: the event is put back at the time it had.
KeepDue(e) == due' = due

\* The insertion with a new key, and the erasure of the old one.
Reschedule(e) == due' = [due EXCEPT ![e] = @ + Period]
Unqueue(e) == queued' = queued \ {e}
EndOfIteration == ipc' = "scan" /\ cur' = {}

\* The try_lock fails: handleMissedDeadline.
MissedDeadline(e) ==
  /\ ipc = "tryLock" /\ e \in cur /\ HoldsExecution(e)
  /\ Reschedule(e)
  /\ EndOfIteration
  /\ UNCHANGED <<world, lock, queued, nonPeriodic, tasks, nowRead, sleepUntil, cleaning>>

\* It succeeds: the task thread is notified, if it is waiting.
Notify(e) ==
  /\ ipc = "tryLock" /\ e \in cur /\ ~HoldsExecution(e)
  /\ NotifyTask(e)
  /\ ipc' = "check"
  /\ UNCHANGED <<world, lock, table, runs, spurious, nowRead, sleepUntil, cur, cleaning>>

\* A canceled event is left for the cleaning.
CheckCanceled(e) ==
  /\ ipc = "check" /\ e \in cur
  /\ \/ e \in canceled /\ nonPeriodic' = nonPeriodic \cup {e} /\ Unqueue(e) /\ EndOfIteration
     \/ e \notin canceled /\ ipc' = "recheck" /\ UNCHANGED <<nonPeriodic, queued, cur>>
  /\ UNCHANGED <<world, lock, due, tasks, nowRead, sleepUntil, cleaning>>

\* The first activation of a periodic event creates its thread.
StartPeriodic(e) ==
  /\ ipc = "unstarted" /\ e \in cur
  /\ IF e \in canceled THEN UNCHANGED thread ELSE SetThread(e, "spawned")
  /\ ipc' = "recheck"
  /\ UNCHANGED <<world, lock, table, runs, spurious, nowRead, sleepUntil, cur, cleaning>>

\* The event is put back for its next activation, unless it was canceled.
Recheck(e) ==
  /\ ipc = "recheck" /\ e \in cur
  /\ \/ e \in canceled /\ Unqueue(e) /\ UNCHANGED due
     \/ e \notin canceled /\ Reschedule(e) /\ UNCHANGED queued
  /\ EndOfIteration
  /\ UNCHANGED <<world, lock, nonPeriodic, tasks, nowRead, sleepUntil, cleaning>>

\* A slip: nobody keeps the event whose thread was created.
ForgetOneShot(e) == nonPeriodic' = nonPeriodic

\* nonPeriodicEvents_.push_back
KeepOneShot(e) == nonPeriodic' = nonPeriodic \cup {e}

StartOneShot(e) ==
  /\ ipc = "oneShot" /\ e \in cur
  /\ \/ e \in canceled /\ UNCHANGED <<thread, nonPeriodic>>
     \/ e \notin canceled /\ SetThread(e, "spawned") /\ KeepOneShot(e)
  /\ Unqueue(e)
  /\ EndOfIteration
  /\ UNCHANGED <<world, lock, due, runs, spurious, nowRead, sleepUntil, cleaning>>

InvokerHandles(e) ==
  \/ CleanJoin(e) \/ CleanErase(e) \/ ScanNext(e) \/ MissedDeadline(e) \/ Notify(e)
  \/ CheckCanceled(e) \/ StartPeriodic(e) \/ Recheck(e) \/ StartOneShot(e)
InvokerStep ==
  \/ InvokerBegin \/ LoopTop \/ SleepUntilNext \/ Wake \/ ScanDone
  \/ \E e \in Events : InvokerHandles(e)

-----------------------------------------------------------------------------
(* stop(): one caller, which holds eventsMutex_ until it has joined the tasks *)

StopBegin ==
  /\ spc = "idle" /\ spc' = "cancel"
  /\ mutex = "free" /\ mutex' = "stop"
  /\ started' = FALSE
  /\ todo' = queued
  /\ found' = queued \cup nonPeriodic
  /\ UNCHANGED <<now, clients, canceled, notified, table, tasks, invoker>>

\* A slip: an event is canceled and notified without its executionMutex.
LocksNothing(e) == TRUE

\* Lock l(event.second->executionMutex)
LocksExecution(e) == ~HoldsExecution(e)

\* The first loop waits for the executionMutex of each event.
StopCancel(e) ==
  /\ spc = "cancel" /\ e \in todo
  /\ LocksExecution(e)
  /\ canceled' = canceled \cup {e}
  /\ NotifyTask(e)
  /\ todo' = todo \ {e}
  /\ UNCHANGED <<now, clients, spc, found, lock, table, runs, spurious, invoker>>

NextLoop(from, to, set) == spc = from /\ todo = {} /\ spc' = to /\ todo' = set

StopNextLoop ==
  /\ NextLoop("cancel", "join", queued) \/ NextLoop("join", "joinRest", nonPeriodic)
  /\ UNCHANGED <<now, clients, canceled, found, lock, table, tasks, invoker>>

\* The second loop joins without asking joinable(): std::system_error if the
\* event was never started.  The exception leaves stop() and the lock.
StopJoin(e) ==
  /\ spc = "join" /\ e \in todo
  /\ \/ thread[e] = "exited" /\ SetThread(e, "joined") /\ todo' = todo \ {e}
        /\ UNCHANGED <<spc, mutex>>
     \/ thread[e] = "none" /\ spc' = "threw" /\ mutex' = "free" /\ todo' = {}
        /\ UNCHANGED thread
  /\ UNCHANGED <<now, clients, canceled, found, started, notified, table, runs, spurious, invoker>>

\* A slip: the third loop leaves running tasks alone.
SkipsBusy(e) == TRUE

\* join() returns when the thread has ended.
Joins(e) == ~Alive(e)

StopJoinRest(e) ==
  /\ spc = "joinRest" /\ e \in todo
  /\ Joins(e)
  /\ IF thread[e] = "exited" THEN SetThread(e, "joined") ELSE UNCHANGED thread
  /\ todo' = todo \ {e}
  /\ UNCHANGED <<now, clients, canceled, spc, found, lock, table, runs, spurious, invoker>>

StopClear ==
  /\ NextLoop("joinRest", IF MainThread THEN "returned" ELSE "joinInvoker", {})
  /\ queued' = {}
  /\ notified' = TRUE
  /\ mutex' = "free"
  /\ UNCHANGED <<now, clients, canceled, found, started, due, nonPeriodic, tasks, invoker>>

\* invokerThread_.join(), which throws if run(FINAL) was never called.
JoinInvoker ==
  /\ spc = "joinInvoker"
  /\ ipc \in {"returned", "none"}
  /\ spc' = IF ipc = "returned" THEN "returned" ELSE "threw"
  /\ UNCHANGED <<now, clients, canceled, todo, found, lock, table, tasks, invoker>>

StopStep ==
  \/ StopNextLoop \/ StopClear \/ JoinInvoker
  \/ \E e \in Events : StopCancel(e) \/ StopJoin(e) \/ StopJoinRest(e)

-----------------------------------------------------------------------------
Next ==
  /\ ~Terminated
  /\ \/ Tick \/ Client \/ Task \/ RunFinal \/ InvokerStep \/ SpuriousWake
     \/ StopBegin \/ StopStep

Spec == Init /\ [][Next]_vars

\* Threads that can go on do, bodies return, and a caller inside schedule() or
\* stop() goes on.  Nobody has to call schedule(), cancel() or stop().
FairSpec ==
  /\ Spec
  /\ WF_vars(~Terminated /\ Tick)
  /\ WF_vars(~Terminated /\ InvokerStep)
  /\ WF_vars(~Terminated /\ StopStep)
  /\ \A e \in Events :
       WF_vars(~Terminated /\ Insert(e)) /\ WF_vars(~Terminated /\ TaskStep(e))

-----------------------------------------------------------------------------
(* Properties *)

\* Every variable has its type; only periodic tasks lock and wait.
TypeOK ==
  /\ now \in 0 .. MaxTime /\ nowRead \in 0 .. MaxTime /\ sleepUntil \subseteq Nat
  /\ mutex \in {"free", "invoker", "stop"} /\ started \in BOOLEAN /\ notified \in BOOLEAN
  /\ scheduled \subseteq Events
  /\ creating \cup queued \cup nonPeriodic \cup cur \cup todo \cup found \subseteq scheduled
  /\ canceled \subseteq scheduled /\ cleaning \subseteq nonPeriodic
  /\ due \in [Events -> Nat] /\ first \in [Events -> Nat] /\ runs \in [Events -> Nat]
  /\ thread \in [Events -> {"none", "spawned", "locked", "running", "waiting", "notified",
                            "exited", "joined"}]
  /\ \A e \in OneShot : thread[e] \notin {"locked", "waiting", "notified"}
  /\ spurious \in 0 .. MaxSpurious
  /\ ipc \in {"none", "start", "top", "clean", "sleeping", "scan", "tryLock", "check",
              "unstarted", "recheck", "oneShot", "returned"}
  /\ spc \in {"idle", "cancel", "join", "joinRest", "joinInvoker", "returned", "threw"}

\* A task never runs more often than its schedule allows: at most once for each
\* of its activations that time has reached, and not before the first, whatever
\* missed deadlines and notifications that find the task late come in between.
\* The one exception is a spurious wake-up, which is a run too many.
RateBound ==
  \A e \in Events :
    runs[e] > 0 => /\ now >= first[e]
                   /\ IF e \in OneShot THEN runs[e] = 1
                      ELSE first[e] + runs[e] * Period <= now + (1 + spurious) * Period

\* As long as nobody has canceled it, an event whose thread lives is where
\* stop() will find it: the thread is not forgotten, whatever the invoker, the
\* cleaning and the task do at the same time.
ThreadsOwned ==
  \A e \in Events : Alive(e) /\ e \notin canceled => Owned(e)

\* When stop() has returned, no task thread runs of an event that it found, and
\* the invoker has returned too, unless it is the main thread.
QuietAfterStop ==
  spc = "returned" => /\ \A e \in found : ~Alive(e)
                      /\ MainThread \/ ipc = "returned"

\* An event that is inserted is started once it is due, unless it is canceled or
\* the scheduler is stopped: neither an insertion nor a deadline escapes the
\* invoker, whatever it was doing when they came.
EventsStart ==
  \A e \in Events :
    (e \in queued /\ ipc # "none" /\ due[e] <= MaxTime)
      ~> (thread[e] # "none" \/ e \in canceled \/ spc # "idle" \/ Terminated)

\* The thread of e waits and nobody will notify it: it had looked at isCanceled
\* before the cancel, and the invoker after it, which took the event out of events_.
Stranded(e) == thread[e] = "waiting" /\ e \in canceled /\ e \in nonPeriodic \ queued

\* stop() returns, or throws, when the invoker has begun, whatever tasks, the
\* invoker and cancel do: its joins do not wait for a task that waits to be
\* notified, nor the notification for the join.  The one thing on which it hangs
\* is the thread of a canceled event that was stranded.
StopReturns ==
  (spc = "cancel" /\ ipc \notin {"none", "start"})
    ~> \/ spc \in {"returned", "threw"} \/ Terminated
       \/ spc = "joinRest" /\ \E e \in todo : Stranded(e)

\* No EventBody is destroyed with a thread that had to be joined.
NeverTerminates == ~Terminated
=============================================================================
