# TLA+ models of cpsCore

Models of cpsCore, of its concurrent core and of what surrounds it, model-checked
with TLC and, where it matters most, proved with TLAPS. Everything is written from
the C++ code. Where the code and one of its tests or comments disagree, the
model follows the code and a run shows the disagreement.

## 1. The system

cpsCore is a library for autopilot-like processes. A process aggregates objects
that find each other by type, configures them from JSON, and takes them through
the run stages INIT, NORMAL and FINAL, in step with other processes. After that
a scheduler drives it: periodic and one-shot tasks, IPC subscriptions, network
layers.

| component | state | operations | hard behaviours | what makes it correct |
|---|---|---|---|---|
| **Synchronized runners** (`Synchronization/SynchronizedRunner*`) | in shared memory: `runStage`, `failure`, a mutex, a condition variable, a semaphore; per runner `stage`, `lastRunStage` | `runAllStages`, `runStage`, `runSynchronized` | processes interleave, a runner fails or is late, spurious wake-ups, posts after the deadline | stages are run in lock-step; everybody returns |
| **MultiThreadingScheduler** (`Utilities/Scheduler`) | `events_`, `nonPeriodicEvents_`, `started_`; per event `isCanceled`, `isStarted`, `isDone`, `executionMutex`, `intervalCondition`, a thread | `schedule`, `Event::cancel`, `changePeriod`, `runSchedule`, `periodicTask`, `stop` | atomics read twice without a lock, lost notifications, missed deadlines, joins under a lock, cancel against restart | each due event is started, no task runs too often, no thread is forgotten, nothing runs after `stop` |
| **MicroSimulator** | `events_`, `now_`, `stopped_`, real-time factor | `schedule`, `simulate`, `stop`, `clearSchedule`; clock waits `waitFor`, `waitUntil`, `releaseWait` | bodies schedule, cancel and stop; other threads do so while it waits | each activation is called once, in order, at its time |
| **ThreadPoolScheduler** | a list of tasks with times and dependencies | `threadLoop` | an iterator kept across an unlock | a task runs once, after its dependencies |
| **ExternalSimulator** | a subscription | calls `simulate` for each received time | packets overtaken by the next | the simulation follows the last time received |
| **IPC** (`Utilities/IPC`) | publications, subscriptions, retry list; in shared memory a packet, `active`, a sharable mutex, a condition; message queues | `publish`, `subscribeOnPackets`, `retrySubscriptions`, `start`, `cancel`, `sigintHandler`, destructors | packets overwritten or dropped, teardown missed, start against cancel against retry, a queue that is full | a packet is delivered whole and once, a torn-down publication ends the subscription, `cancel` returns |
| **IDC** (`Utilities/IDC`) | senders, receivers, the serial buffer | `sendPacket`, `subscribeOnPacket`, serial `receive` | bytes lost or altered, resynchronisation | a delivered packet is one that was sent |
| **SignalHandler** | handler lists, a handler thread | `subscribeOnSigint`, `subscribeOnExit`, `callSigHandlers` | handlers run in a thread that is joined | each handler is called once and the process ends |
| **Aggregation** | handles between objects | `add`, `merge`, `mergeInto`, `clear`, `notifyAggregationOnUpdate` | handles that are stale after a replacement | a handle points to an object of the aggregation |
| **Configuration** | parameters, `mandatoryCheck` | `configure`, `PropertyMapper::add` | unknown enumerators, missing mandatory parameters | a missing mandatory parameter is reported |
| **Local runners** (`SimpleRunner`, `AggregatableRunner`) | none | `runAllStages`, `runStage` | an object fails in the middle | no stage is run after an error |
| **DataPresentation** | none | archives, Hamming(7,4), headers | lengths in 8 and 16 bits, bit errors | reading gives what was written |
| **Framework, Logging, time, filters, linear algebra** | little | | | |

How they interact. The runners call `run(stage)` of every object of a process;
that is how the scheduler is started (`run(FINAL)` creates the invoker) and how
the IPC schedules its retries (`run(NORMAL)`). The IPC and the network layers
put their work into the scheduler as tasks; a task may schedule further tasks.
The scheduler asks its time provider for the time and waits through it; a
MicroSimulator can be that time provider. The SignalHandler calls `stop()` of
the scheduler and cancels the subscriptions from a thread of its own. Between
processes there is only shared memory, message queues and the serial line.

The hazards that follow from this are listed in `PROJECT.json`, each at its line
with the properties that would catch it.

## 2. The modules

| module | models | checked by | proofs |
|---|---|---|---|
| `StageBarrier` | what a group of runners promises (abstract) | `sync_stages` | |
| `SyncRunner` | `SynchronizedRunnerMaster`, `SynchronizedRunner` | `sync_stages` | `SyncRunnerProofs` |
| `MTScheduler` | `MultiThreadingScheduler`, `Event`, `EventBody` | `sched_*` | `MTSchedulerProofs` |
| `MicroSim` | `MicroSimulator` as a scheduler | `microsim_calls` | `MicroSimProofs` |
| `PacketChannel` | what a subscription promises of its packets (abstract) | `ipc_channels` | |
| `Ipc` | `IPC`, publishers and subscriptions over shared memory and message queues | `ipc_*` | `IpcProofs` |
| `JsonTree` | JSON values and parameters | `app_startup`, `config_mandatory` | |
| `ParamMapping` | `PropertyMapper` | the same | `StartupProofs` |
| `ParamWriting` | `JsonPopulator` | the same | |
| `Startup` | `StaticHelper`, factories, plugins, `Aggregator` and handles, local runners | the same | `StartupProofs` |
| `StartupMapping` | `Startup` with the mapper of `ParamMapping` | the same | `StartupProofs` |
| `StartupConfig` | `StartupMapping` with the files of `JsonPopulator` | the same | |
| `Hamming74` | the Hamming code | `link` | `SerialLinkProofs` |
| `SerialLink` | `IDC`, serial and Redis layers, `SignalHandler` | `link` | `SerialLinkProofs` |
| `Codec` | `DataPresentation`, `Packet` | `codec_values` | `CodecProofs` |

`NatSetInduction` holds two lemmas on numbers that the proofs share.
`StartupConfig` composes configuration with creation, aggregation and the local runners;
`SerialLink` composes the network layers with the signal handler and the last
act of the scheduler. A module `MC...` instantiates a module for TLC. A
module also holds a few operators marked "A slip": what a plausible mistake in
the code would do. The model does not use them; each shows that a property
notices it when it takes the place of the right definition.

### SyncRunner

| model | code |
|---|---|
| `runStage`, `failure`, `finishedStage` | the fields of `Synchronizer` |
| `mpc`, `taken` | where `runStage` is, and its loop counter `i` |
| `pc`, `stage`, `lastRunStage` | where `runSynchronized` is, and its locals |
| `Announce` | the first critical section of `runStage`: publish and `notify_all` |
| `Collect`, `TimeOut` | `timed_wait` of the semaphore with and without a post |
| `SignalFailure` | the second critical section: raise `failure`, `notify_all` |
| `StageComplete` | the end of the loop, and what the caller does next |
| `Enter`, `Resume` | the critical section of a runner before and after its `wait` |
| `RunSucceeds`, `RunFails` | the runnables, and the post or the return after them |

A critical section under `runStageMutex` is one step: nothing that it touches is
touched outside it. The semaphore is outside of it, so its operations are steps.
`timed_wait` returns false only when there is no post, which is why `TimeOut`
asks for an empty semaphore; *when* the deadline passes is left open. `succeeded`
remembers the stages for which `runStage` returned "no error".

The constant `StopsOnError` chooses the caller: `runAllStages`, which stops at a
failed stage, or a caller that uses `runStage` as `RunnerTest` does.

### MTScheduler

| model | code |
|---|---|
| `mutex` | the holder of `eventsMutex_` |
| `queued`, `due` | `events_` and its keys; `nonPeriodic` is `nonPeriodicEvents_` |
| `creating` | between `createSchedule`, which computes the time without a lock, and the insertion |
| `thread[e]` | `periodicThread`, and where it is in `periodicTask`; `isStarted`, `isDone` and the holder of `executionMutex` follow from it |
| `cur`, `nowRead`, `sleepUntil`, `cleaning`, `ipc` | the locals of `runSchedule`, and where it is |
| `LoopTop` ... `StartOneShot` | `runSchedule`, one step for each read of an atomic, each lock and each wait |
| `TaskLock`, `TaskCheck`, `BodyEnd`, `OneShotStart` | `periodicTask` and the thread of a one-shot event |
| `StopBegin`, `StopCancel`, `StopJoin`, `StopJoinRest`, `StopClear`, `JoinInvoker` | `stop()` |
| `Create`, `Insert`, `Cancel` | `schedule` and `Event::cancel`, by a client or by a task |

Three things deserve a word.

* The invoker holds `eventsMutex_` all the time except while it waits. So the
  model has no interleaving of the invoker with `Insert` or `stop()`, but with
  tasks and with `cancel`, which take no lock: `isCanceled` is read up to three
  times for one activation and the model lets it change between the reads.
* `Terminated` is the state in which the last owner of an `EventBody` is gone
  while its thread was not joined: `~thread` calls `std::terminate`. The next-state
  relation ends there, as the process does.
* Time passes at any moment (`Tick`), so a task can take any time and the invoker
  can be late. Events with equal keys are handled in any order.

### MicroSim

`simulate` is followed through its loop (`Simulate`, `Await`, `WaitReturns`,
`TakeNext`, `BodyReturns`, `ReturnStopped`, `LeaveLoop`, `Finish`). `events` is the
multimap in its order, since here the order of equal keys is a property.
`Schedule`, `Cancel`, `Stop` and `ClearSchedule` are possible where somebody can
make the call: between calls of `simulate`, from the body of an event, and, with
`Clients`, from other threads while they hold `getSimMutex()`. `simulate` gives
that mutex up between two turns of its loop, during the real-time wait, and before
it sets the time to its end. An event that comes in the last gap is scheduled
from the time of the last event, and the clock passes it (`late`).
`first`, `scheduled`, `dropped`, `lost`, `late` and `calls` remember what happened for the sake
of the properties.

`clearSchedule` has no guard in the code and has none here. In a body it takes the element away that
`simulate` erases afterwards (line 117): an event that was scheduled since then is erased in its place
(`lost`), or there is none and `erase(end())` is undefined (`EraseNothing`). During the real-time wait it leaves line 105
without an element (`TakeNothing`) or with one that is beyond the end, which is called, and
the clock is set back afterwards. What is undefined ends the model (`pc = "undefined"`).

### Ipc

| model | code |
|---|---|
| `named` | the channel that the name in `/dev/shm` or of the queue stands for; an older channel lives on for those that have it open |
| `active`, `box`, `sent` | `MessageObjectHeader::active`, the packet in the segment or the packets in the queue, and what was published |
| `subscribed`, `retries` | the entry in `subscriptions_`, the id in `retryVector_` |
| `channel`, `connected`, `canceled`, `listener` | `sharedMem_` or `messageQueue_`, `connected_`, `listenerCanceled_`, `listenerThread_` |
| `Publish_Remove`, `Publish_Create`, `Publish_Truncate`, `Publish_Header` | the constructor: remove the name, create, give a size to, and initialise a segment; a queue is made in one step |
| `building`, `built` | where a constructor is, and what it has made of a channel |
| `Publish`, `Destroy`, `Remove` | `publish`, the two halves of the destructor |
| `Crash`, `CrashBuilding`, `locked` | an end without the destructor, inside `publish` with the mutex of the segment (`locked`), or in the constructor |
| `Starter...`, `Retry...` | `start()` in the scheduled task and in `retrySubscriptions`, step by step |
| `CancelLoad`, `CancelStore`, `CancelJoin`, `DestroySub` | `cancel()` and the destructor, by the SIGINT handler or by the task that drops the last reference |
| `Listen...` | `onSharedMemory`, `onMessageQueue` |

Three threads work on one `std::thread` and two flags without a lock, so each read, write,
join and assignment is a step. What ends the process is recorded in `failed`
(`std::terminate`, `std::system_error`, a reference to an erased element, a segment without a size
that cannot be mapped, a mutex in use that the header is copied over) and nothing
is modelled after it. A listener of a segment holds its mutex from the return of a wait to the
next wait, slots included (`Reads`): a publisher waits for it. Packets are numbered
per channel, and `got` is the last that the slots were called with. `timed_wait` has no predicate:
`ListenSpurious` wakes a listener without a notification, and the slots get the same packet again, or
an empty one (`repeats`).

### Startup and ParamMapping

`ParamMapping` has one operator for each function of `PropertyMapper` (`AddPod`,
`AddVector`, `AddMap`, ...), and `ParamWriting` for each kind of value that `JsonPopulator` writes.
A result says what the value is, what the function returns, whether `mandatoryCheck_`
was set and whether an exception leaves the mapper: these four do not follow
from each other in the code. JSON is a tree of tagged values.

`Startup` takes a configuration, with the overrides of the command line, to a plan of
objects (`CreateAggregation`: defaults, merging, the helper's own objects, plugins), makes
them one parameter at a time (`CreateObject`, `MapParameter`, `AddObjectToAggregator`), lets the
client add, hold, release and clear objects (`Client...`) and runs the stages (`BeginStage`,
`RunObject`, `RunObjectAdding`, `EndStages`). `box` holds the `shared_ptr`s of the aggregator,
`handle` and `many` the weak ones; an object is alive while somebody of `Alive`
holds it. `notifyAggregationOnUpdate` is part of each action that adds (`Notify`,
and `RunnerNotified` for an `AggregatableRunner`, which is itself a member of the aggregator
and so no longer told of anything after `clear()`).

How a parameter is mapped is a parameter of `Startup` (`AddParam`): the objects, their handles
and the runners do not depend on it. `StartupMapping` is what depends on it: what becomes of the
parameters of the objects. The types of parameters nest, and so does the code of the mapper; a recursive
operator would keep the provers out. So `ParamMapping` uses `AddParam` for a type within another one, and `Accepts`
uses `AcceptsParam`, and the configurations of TLC give these constants the values of `Add` and `Accepts`. What is written by
`JsonPopulator` is recursive (`ParamWriting`), and the properties of its files are in `StartupConfig`.

### SerialLink and Hamming74

The sender writes frames (checksum, Hamming code, delimiter) to a sequence of bytes;
the receiver reads it up to the last character of the delimiter, collects until the whole delimiter
has come, decodes, checks and raises the packet (`Receive`). The checksum and
the code are computed, since the properties depend on them. `Fault` loses a byte
or changes a bit anywhere on the line. `InitLayer` flushes what has arrived before, which may be a part
of a frame. A frame of nothing but a delimiter of several characters does not end a packet
(`EndOfPacket`: the comparison in lines 145-148 takes one character too few of it), and stays in
`packetBuffer_` in front of the next one. Asynchronous writes of Boost are modelled as they are used: an
operation sends what the buffer has when it starts and removes as much of it when it is done
(`WriteDone`), which is how two of them send the same bytes.

`TestCanceled`, `RunReturns`, `Restart`, `Restarted` are the loop of `startHandler`, which runs as a
task of the scheduler. `SigIntHandler`, `OnSigInt`, `Cancel`, `StopScheduler` and `JoinHandler` are
the thread of the signal handler: it calls the slots, stops the scheduler, which
joins that task, and then joins itself (`"self"`), which throws and ends the process.

### Codec

Bytes are digits of the base `Byte`, so that a length overflows its counter after a
few elements instead of 256 or 65536. `StoreKind` and `LoadKind` have an operator for
each overload of `BasicSerializationImpl.hpp`. A load returns a value and a
position, or that an `ArchiveError` was thrown, or that bytes outside of the archive or an
uninitialised variable were used (`"undefined"`). `LoadValue` is `dp::extract`, `dp::getHeader` or one value
of `DataPresentation::deserialize`.

| model | code |
|---|---|
| `Types`, `Vals` | the types that are instantiated, closed under what they are made of, and their values |
| `case` | what is stored and how: values, headers, `ArchiveOptions`, packet or file |
| `buffer` | the `std::string` of the packet, or the file |
| `pos` | `idx_` of the archive that is read |
| `cut` | how many bytes `Transmit` leaves off: any number up to all of them |
| `StoreValue`, `AddHeader` | `serialize` of one value, `addHeader` with `Packet::prepend` |
| `got`, `status` | the values loaded, and how the last load ended |

The overloads of `store` and `load` call each other through the nesting of types. The model has tables
instead of recursive operators, which would keep the provers out: `Stores[n]` and `Loads[n]` have the bytes
and the results for every type, value, archive and position of types that nest at most `n` deep, and
`StoreKind` and `LoadKind` find what is within a value in the table below (`Inner`). `Depth` says how deep types
nest; the proofs are for any. A matrix is a type of its own with a size for
each direction (0 if dynamic) and scalars, which are read without the test for a first byte.

## 3. The runs

| run | instance | shows |
|---|---|---|
| `sync_stages` | 3 runners, 2 spurious wake-ups, any failures and delays | `BarrierSlack`: a stage reported as successful is unfinished in at most as many runners as there were spurious wake-ups; up to the first one the protocol implements `StageBarrier`; `RunnersReturn`, and `MasterReturns` even if runners stop for good |
| `sched_tasks` | a periodic event that is canceled, a one-shot event whose task schedules another, `stop` at any time, invoker = main thread | `RateBound`, `ThreadsOwned`, `QuietAfterStop` |
| `sched_progress` | a periodic and a one-shot event, an invoker thread, `cancel` of the periodic one at any time, fairness | `EventsStart`, `StopReturns` |
| `sched_destroy` | one periodic event, `cancel` | **violation** of `NeverTerminates`, see section 5 |
| `microsim_calls` | a periodic and two one-shot events, offsets 0 and 1, durations 1 and 2, other threads, fairness | `OnSchedule`, `NothingLeftBehind`, `NoOvertaking`, `SimulateReturns` |
| `ipc_channels` | both transports, 2 publishers of a name, 2 packets, a queue of 2, 1 spurious wake-up | `Ipc` implements `PacketChannel`; `FailsOnlyInTeardown`, `FlagMatchesListener` |
| `ipc_live` | both transports, 2 publishers, 1 packet, fairness | `AlwaysListening`, `CancelReturns` |
| `ipc_missing` | shared memory, 2 publishers, 1 packet, fairness | **violation** of `DontMissOut` |
| `app_startup` | files for a class with a parameter of each kind, each missing once and with each of 18 values, 13 files of an application with overrides and up to 3 calls of a client, one with 6 calls, both runners | `HandlesComplete`, `MultiComplete`, `StageBarrier`; `MandatoryReported`, `KeepsDefault`, `RoundTrip`, `PopulatedCreates` |
| `config_mandatory` | the same | **violation** of `MandatoryEnforced` |
| `link` | 9 configurations of delimiter ("*-*", "*-", newline), checksum, Hamming code, blocking, direction and networks; 1 to 3 packets, 1 fault, in two of them 1 signal, fairness | `Integrity`, `HeardOnce`, `Resynchronizes`, `Corrects`, `SignalHandled` |
| `codec_values` | a value of every type next to another, up to 2 headers, any number of bytes missing, both compressions | `RoundTrip`, `MissingNoticed` |

### Bounds

* *Three runners.* The protocol treats runners alike and counts them; two can
  disagree, a third is needed for one to be behind while the posts of two others
  are taken for three. The proofs need no bound.
* *Spurious wake-ups* (`MaxSpurious`): nothing limits them in the code. Two show that the
  slack adds up; `IsStageBarrier` is about the steps up to the first. `sched_tasks` has one,
  `sched_progress` none, as fairness says nothing of them. The bounds are constants of the theorems.
* *Time* (`MaxTime = 2`, period 1): a periodic event is due at three times, so it is
  started, notified, can miss a deadline, and is put back after that; one-shot
  events fall before, on and after its activations. `RateBound` and the ownership
  of threads are proved without the bound.
* *Events.* Each of the kinds that the code tells apart occurs: periodic and not,
  canceled and not, scheduled by a client before and after the start and by a
  task. Events meet only through `eventsMutex_` and the order of keys.
* *Channels* (`MaxChannels = 2`, `MaxPackets = 2`, `Capacity = 2`): a name changes its
  publisher once, with any of a teardown, a crash and nothing before it; a segment is overwritten
  once; a queue is filled by one packet and the ending packet or by two packets. `MaxSpurious = 1` repeats a
  packet or delivers an empty one. The liveness run has one packet, a queue of one and no spurious wake-up: what must
  happen depends on who goes, not on what was sent.
* *Files.* Each parameter of the class is missing once, and has each of 18 values once, while the others
  have good values: the mapper treats parameters one after another. The client's 3 calls
  are enough to hold, clear and add again; 6, for one file, to release an object on which a handle rests and see
  what the next change makes of it.
* *Faults* (`MaxFaults = 1`): the bound of `Resynchronizes` grows with the faults. Three packets leave one
  before and one behind a damaged frame.
* *Bytes* (`Byte = 3`): nine elements are too many for a vector, three for a map. *Depth* 3: the types of the
  instance nest at most that deep. The proofs need neither bound.
* *Deadlock* is not checked, because the programs end: the runners have returned,
  `stop()` has returned, the process is closed, or nobody calls again. That
  nobody is stuck before that is what the liveness properties say.

### Fairness

* *Master* (`WF(Master)`): `timed_wait` bounds every wait of the master, and the
  mutex is released by everybody who takes it.
* *Runners* (`WF(Runner(r))`): a runner goes on if its runnables return. The wait
  for a stage is not in it: `pc = "waiting"` has no step but a notification.
  This assumption is part of `RunnersReturn`; the specification of the run has only the first, and so
  `MasterReturns` does not rest on it.
* *Scheduler* (`FairSpec` of `MTScheduler`): threads that can run do, bodies return, time passes, and
  a caller inside `schedule()` or `stop()` goes on. `RunFinal`, `StopBegin`, calls
  by clients and spurious wake-ups are not fair.
* *MicroSimulator*: `WF(Running)`. Bodies return and the wait ends by itself. The
  number of events is finite, so bodies cannot schedule at the present time for ever.
* *IPC* (`FairSpec` of `Ipc`): the scheduled start, the retry task, a closing thread and the listener go on,
  since each is a thread or a task of the scheduler and waits of the listener have
  timeouts; a constructor of a publisher that has begun goes on or dies. Publishers and clients do what they like.
* *Serial link* (`FairSpec` of `SerialLink`): the threads of `startHandler` and of the signal handler go on.
  Sender, line and signal are not fair.

## 4. The proofs

`SyncRunnerProofs`, for any finite set of runners and any number of spurious
wake-ups:

* `TypeCorrect`.
* `BarrierSlackHolds` (under `StopsOnError`). `BarrierSlack` is not inductive: it
  says nothing of the posts on their way. The invariant `SlackInv` counts them:
  posts taken plus posts in the semaphore are at most the runners that
  finished the present stage plus the spurious wake-ups. A runner that finishes adds one to
  both sides, one that runs the stage a second time has been woken spuriously
  before. A stage is complete when as many posts as runners were taken, so those
  that have not finished are at most as many as the spurious wake-ups.
* `RefinesStageBarrier` (under `StopsOnError`): up to the first spurious wake-up each step maps to
  a step of `StageBarrier` or to a stutter under the refinement mapping of `SyncRunner`. A step that
  completes a stage needs that all runners have finished it, which is `BarrierSlack` without a
  wake-up.

`MTSchedulerProofs`, for any finite or infinite sets of events, any period, any
offsets and any number of spurious wake-ups, in both modes of the invoker:

* `TypeCorrect`.
* `SafeInvariant`: `SafeInv` is inductive. It adds to the properties who holds
  `eventsMutex_` (`LockInv`), that the event in the invoker's hands stays in the
  container it came from (`CurInv`), that an event is inserted once (`FreshInv`)
  and what each loop of `stop()` has achieved (`StopInv`). `ThreadsOwnedHolds`
  and `QuietAfterStopHolds` follow.
* `PaceInvariant` and `RateBoundHolds`. `RateBound` compares the runs of a task with the
  time, but what limits them is the key of its event: each activation moves it
  on by one period, and it is handled only when time has reached it. `RateInv` says that the
  key has paid for every activation, or that the invoker is between the
  notification and the insertion of the new key (`Granting`). A missed deadline
  pays without an activation; a notification that finds nobody waiting pays and is lost; a
  spurious wake-up is an activation that nobody paid for, and so it appears in the bound.

`IpcProofs`, for any number of publishers and packets, any capacity and both
transports:

* `TypeCorrect`.
* `InvariantHolds`: `IInv` is inductive. Its parts are that the scheduled start, the
  retry and the listener are never at work at the same time (`OneAtWork`), so that a
  listener keeps the channel it opened; that channels are opened, and packets delivered
  from them, in the order of their creation (`NameInv`); that what a segment or a queue holds
  was sent, and a queue holds it in order and newer than what was delivered (`BoxInv`);
  that a listener which has been woken finds a packet newer than the last, or has been woken once more without
  a notification than it has repeated a packet (`WakeInv`); that nothing is sent on a channel that is not complete
  (`BuildInv`) and a segment has the last packet sent (`LatestInv`); and that, before the teardown, a thread is assigned only where none is joinable and with the
  flag cleared (`TeardownInv`).
* `OnlyTeardownFails` and `FlagMatches` follow from `TeardownInv` and `OneAtWork`. The first names the two ways in which
  a segment that is not complete ends the process, see section 5.
* `RefinesPacketChannel`: a step of a publisher maps to `Send`, one of the listener that
  calls the slots to `Deliver`, or to `Repeat` after a spurious wake-up, by `BoxInv` and `WakeInv`, and all others to a stutter.
  What "ending" does to a queue needs no assumption: it is never delivered.

`MicroSimProofs`, for any finite or infinite sets of events, any period, offsets, durations and end of
the simulation, with and without real time and other threads:

* `TypeCorrect`.
* `InvariantHolds`: `IInv` is inductive. `OnSchedule` compares what was called with the
  clock, but the only thing that moves an event is the key of its entry. So the invariant
  follows the entry: the multimap is sorted and has one entry for an event at most (`EntriesInv`),
  the key is the time of the activation after those that the event has had (`DueInv`),
  only a cancellation, `clearSchedule`, the one call of a one-shot event or the erasure of the wrong event takes an entry
  away (`KeptInv`), and at each place of the loop `simulate` finds at the front what it relies on (`PlaceInv`).
  While a body runs its entry is still in front, unless it was cleared away, since nothing that the body
  schedules can be earlier, and nothing of the same time comes before it.
* `OnScheduleHolds`, `NothingLeftBehindHolds` and `NoOvertakingHolds` follow. The last is an action
  property: `std::multimap` inserts behind the keys that are equal, and the lemmas about `Inserted`
  and `RemoveAt` show that no other step changes their order.

`StartupProofs`, for any classes, factories, plugins, clients and configurations, and for any mapper of
parameters, so for one that throws or reports errors as it likes too:

* `TypeCorrect`.
* `InvariantHolds`: `IInv` is inductive. An object is in the containers once, and what a runner takes through
  the stages is in the aggregator or, after `clear()`, held by the runner (`PlaceInv`).
* `HandlesCompleteHolds`. A notification makes the handles of all members complete, so what has to be shown is
  that nothing makes them incomplete between notifications: no object of a container dies, `clear()` leaves an
  aggregator without members, and what is left is that the client releases an object that was cleared
  away. `HandlesComplete` is therefore a property of steps.
* `MultiCompleteHolds`. A Multi handle is taken again only if its length differs from the number of
  objects. The proof has to show that an equal number means equal objects: a handle that was complete
  is a prefix of what `getAll` returns, because containers only grow at their end until `clear()`. This needs
  the Multi handles of the default objects to be complete in the container of the defaults (`ManyInv`), and in
  `merge` that what `getAll` finds in the joined container is the one followed by the other.
* `StageBarrierHolds`. `StageInv` says how far an object is: one in the queue has the present stage
  to run, the others of the runner have run it, or had no chance to because `AggregatableRunner`
  returned at an error.

The same module has the proofs about the mapping of parameters, for any classes, any types of parameters, nested as
deep as one likes, and any files with finitely many keys in an object. Parameters have a key that is not empty, since
`addVector` takes the empty one for the element itself. The theorems assume `Knot`: `AddParam` is `Add` and `AcceptsParam` is
`Accepts` for every type there is. The instances of TLC are built so, and since no type is within itself these
equations have a solution for any types.

* `AllAddsRight`: for each of the 14 kinds of types, what a function of the mapper notes as missing is a mandatory
  parameter for which there is no fitting value, and what it could not read it leaves as it is (`Right`). An exception
  says nothing. The kinds in which others nest need the same for those (`OptionalRight`,
  `ObjectRight`), and so it is an induction over `Level`. A vector of a fixed size is noted if its size is wrong, for which
  all elements have to be counted (`ElementsLength`). A nested set is not an exception to `MandatoryReported`, although what is missing in
  it is not noted (see `config_mandatory`): `Accepts` asks of a set only that there is an object. Nor is a vector of vectors that has
  an element of another kind: `addVector` gives it up in the middle, with the value cleared, and `KeepsDefault` says what is left of
  it (`Torn`).
* `MappingInvariantHolds`: `MappingInv` is inductive. What `configure` has found out so far is about the parameters that it has
  read; that those to come still have their defaults is what `KeepsDefault` needs of the next (`PendingInv`). That
  every configuration comes out of the file is `PlanType`, from what factories and plugins make of its keys.
* `MandatoryReportedHolds` and `KeepsDefaultHolds` follow.

`SerialLinkProofs`, for any packets, any delimiter and any configuration:

* `StringCorrected`, and with it `CorrectsHolds`: the syndrome of a codeword with one wrong bit is its
  position, which is shown from the bits of a byte (a byte is the sum of its bits, and to flip one leaves
  the others alone) and not by trying the bytes one after another.
* `TypeCorrect`, with the count of packets: each packet that `receive` completes is either raised or counted as
  corrupted, whatever the line has done to its bytes. The checksum is computed by a recursive function over the
  bits of a packet; that it has a value, of 16 bits, is `Crc16Type`.
* `LosslessHolds`, the first part of `Resynchronizes`: without a fault, with nothing flushed, with blocking writes, and for packets whose
  messages have the delimiter only at their end and are more than a delimiter of several characters, the receiver raises what was sent, in order, and all of it
  when everything has arrived. The invariant `LineInv` is about the bytes that have been read, have arrived and are on the way,
  taken together (`Stream`): they are the messages of the packets that have not been raised, one
  after the other. Arrival does not change them, `sendPacket` appends to them, and `receive` takes whole
  messages off their front. For the last the proof has to show that a read ends at the end of the first message
  or before it (`MessageRead`), that what it puts into `packetBuffer_` is part of that message,
  and that a whole message is decoded to its packet and passes the check (`WholeMessage`).
* `HeardOnceHolds`. With a checksum and blocking writes, which is what `HeardOnce` speaks of, a subscriber hears packets
  at most once and in order over Redis, whatever is wrong with the serial line, and over the serial line without a
  fault and a flush. The invariant `HeardInv` is not about `heard` alone, because what is
  on its way to a subscriber has to come after what it has heard: for Redis the packets heard,
  followed by those in the channel, are a subsequence of what was sent, and for the line those heard are
  the last ones raised. That the sender writes each packet to both layers does no harm since a slot is
  connected to one of them.

`CodecProofs`, for any types and any nesting of them, any values, headers and cut, any base of bytes, both
compressions, over packets and files:

* `TablesEach`: for each depth of nesting, loading is the inverse of storing. What has to be shown for a kind
  of type (`StoreKindGood`) is not only that the whole bytes of a kept value give that value and the next position.
  For this the bytes need to be only as right as the value goes (`Agree`), since others may be missing behind it. Where
  the archive ends at its first byte, the load has to notice if its type begins with the test (`BeginsEach`). The kinds
  are put together by `Sequel` (a value behind its size), `TwoSizes` (a matrix behind its rows and columns) and `Follows` (one
  more element), the last by an induction over the elements. That a load gives a result of its type whatever
  the bytes are is `LoadKindResult`; that a map comes back although it is loaded as a sequence of pairs needs
  that `Keys` has each key once.
* `InvariantHolds`: `IInv` is inductive. The properties speak of the end only. Before, the buffer has the bytes of a
  range of the items in the order in which they are loaded (`StoredSoFar`; headers are put before it,
  so the range grows at both ends); after the transmission it has what is not passed, as far as it has
  arrived, and every value that has arrived whole is loaded or comes next (`Returned`).
* `TypeCorrect`, `RoundTripHolds` and `MissingNoticedHolds` follow.

The recursive functions of `Codec` are unrolled once and for all by `Recursion`, the one lemma on functions
that are defined by what they give for the number before.

The inductive invariants were checked by TLC on the instances of the runs before they
were proved. Induction is over sets of numbers (`NatSetInduction`), from the well-foundedness of
their order.

Only model-checked:

* all liveness properties (`RunnersReturn`, `EventsStart`, `StopReturns`, `SimulateReturns`, ...): fairness and `ENABLED`
  are beyond the prover;
* what is written and read again (`RoundTrip` and `PopulatedCreates` of `StartupConfig`), and `MandatoryEnforced`, which the
  code does not keep: they follow the nesting of JSON with recursive operators;
* `Integrity`, the second part of `Resynchronizes`, and `HeardOnce` over the serial line with faults. For all packets these
  do not even hold: a damaged frame can have the checksum it should have by accident, and
  a fault can put a delimiter into a packet. The instance of `link` has packets for which they do hold;
* what happens to packets that contain the delimiter, and to asynchronous writes, for which `LosslessHolds` says nothing.

## 5. Disagreements

Shown by a run:

1. `sched_destroy`. A `cancel` between the creation of the thread and
   `MultiThreadingScheduler.cpp:251` takes the event out of `events_` without putting it elsewhere; its `EventBody` is
   destroyed with a joinable thread.
2. `ipc_missing`. `SharedMemoryPublisherImpl.cpp:26` sets `existing` to false where it has found an
   existing segment. In the run a publisher crashes while a subscriber waits on its segment. The next publisher
   removes the segment, and the subscriber goes on waiting on it and misses out on the
   new one, which the comment in line 49 wants to prevent.
3. `config_mandatory`. What a nested parameter set that is not empty lacks is returned by `operator&`
   (`PropertyMapper.hpp:478`), but `configure` looks at `mandatoryCheck_` only. (An empty nested set, for which the code
   returns before, is left out of `MandatoryEnforced`.)

Found while modelling, part of the models, but not shown by a run of their own:

* The wait of a runner (`SynchronizedRunner.cpp:61`) is not in a loop. After a spurious
  wake-up it runs its stage again and posts again, and the master takes that for the post of
  a runner that is still at work (`BarrierSlack` has the spurious wake-ups in its bound).
* A post that comes after the deadline stays in the semaphore. A caller of `runStage`
  that goes on after an error (`StopsOnError = FALSE`) gets success for the next stage
  without anybody having run it. `runAllStages` stops, and is not affected.
* The invoker gets `executionMutex` and concludes that the task is waiting
  (`MultiThreadingScheduler.cpp:214`). The thread may as well not have locked it yet, and the
  notification is lost without the warning of a missed deadline.
* `stop()` joins the thread of an event whose first activation did not come:
  `std::system_error` (`StopJoin`, the state `"threw"`).
* `stop()` before the new invoker thread has taken the lock: `started_` is set
  again and `stop()` waits for an invoker that goes on. `StopReturns` is stated
  for an invoker that has begun.
* A task that calls `schedule()` while `stop()` joins it: both wait. `StopReturns`
  is checked without such tasks, `sched_tasks` has them.
* `clearSchedule` in a body, or during the real-time wait, makes `simulate` erase an event that it has not called, use an element that is
  not there, or call one beyond its end (`lost`, `"undefined"`).
* A `cancel` between the read of `isCanceled` by a task and that by the invoker
  (`MultiThreadingScheduler.cpp:308`, `:225`) removes the event while its thread waits for a notification, which
  nobody sends any more. `stop()` joins that thread in line 82 with `eventsMutex_` held and never returns. `StopReturns`
  names this (`Stranded`), and says that it is the only thing on which `stop()` hangs once the invoker
  has begun.
* A one-shot task that ends between the two reads of `isDone` in the cleaning
  (lines 173 and 175) is erased without a join.
* `simulate` gives `simMutex_` up at the end of its loop (line 92) and then sets the
  time (line 120). An event that a holder of `getSimMutex()` schedules in between
  is due in the past; the next `simulate` calls it and turns the clock back.
* `schedule()` after `stop()`: the event stays in `events_` and is never called.
* A subscriber that connects while a publisher is in its constructor maps a segment of size zero, which throws an exception that
  nobody catches, or has its mutex and condition overwritten by the header (`SharedMemoryPublisherImpl.cpp:32-44`). If the
  publisher dies there the next subscriber fails as well. `FailsOnlyInTeardown` names these cases.
* A publisher that dies inside `publish` leaves the mutex of the segment locked: its listener, and a `cancel` that joins
  it, wait for ever (the condition of `CancelReturns` and `AlwaysListening`).
* `timed_wait` without a predicate: a spurious wake-up delivers the last packet again, or an empty one
  (`SharedMemorySubscriptionImpl.cpp:73`; `PacketChannel` has `Repeat` for it).
* A teardown that comes before the listener's first wait, or between two waits, is
  missed: the subscription stays connected to a removed segment. A queue that is full loses the
  ending packet in the same way.
* In a shutdown, a start that is still scheduled can meet the cancellation in ways that throw,
  terminate or never return (`FailsOnlyInTeardown`, and the condition of `CancelReturns`).
* Every SIGINT ends in `std::system_error`: `callSigHandlers` runs in the thread that
  `joinHandler` joins (`SignalHandler.h:70`).
* After a read error nothing reads from the serial port any more, and `startHandler` spins.
* An empty packet without a checksum is never raised under a delimiter of several characters, and its bytes stay in front of the
  next packet (`SerialHandler.cpp:145-148`).
* The flush of the constructor can cut a frame (`SerialHandler.cpp:22`); `Resynchronizes` counts what is lost by it.
* The delimiter is not escaped, and the characters of the default one are Hamming
  codewords: a packet can contain it and is then cut (`Clear`). Two asynchronous writes send
  bytes twice.
* `StaticHelper` does not look at what `configure` returns (`StaticHelper.h:217`).
* A vector of vectors with an element that is no array is given up in the middle: its default is lost and, if it is mandatory, `configure`
  does not fail (`PropertyMapper.hpp:111`, `:136-140`, `:150-154`).
* `JsonPopulator` writes every key of a map as "key" (`JsonPopulator.h:105`), an empty vector as
  null, which the merge removes, and a map of enumerators as an array. A duration that is
  no number throws. `Kept` in `StartupConfig` lists what survives.
* The file written for a factory that creates one object has all of them and is refused
  (`StaticFactory.h:36`).
* An object that was cleared away and is then released by the client leaves dead handles in objects of the aggregator until
  the next change of it, although it may have another object of the type (`ObjectHandleContainer.hpp:189`).
* A `MultiObjectHandle` is not refreshed after a `clear()` when as many objects are added as it had.
* Lengths over 65535, and over 255 for maps, are truncated (`KeptKind` in `Codec`); vectors and
  optionals are loaded on top of what they hold.
* An archive checks the first byte of a value only. What is cut within a value is copied from beyond the end of the string
  (`BasicSerialization.cpp:21-25`, `BinaryFromArchive.cpp:72-75`), a file that is too short leaves the variable as it was
  (`FileFromArchive.cpp:39-43`), and `Packet::consume` does nothing if it is asked for too much, so that bytes are read twice. Nobody
  notices any of these. `MissingNoticed` is about what the code does notice: a packet that ends exactly before a value whose loading
  begins with the test; the data of a matrix are loaded without it.

## 6. Not modelled

* *ThreadPoolScheduler*: nothing puts a task into it or starts a thread.
* *ExternalSimulator*: a conversion between a subscription and `simulate`, both of which are modelled.
* *MicroSimulator as a clock* (`waitFor`, `waitUntil`, `releaseWait`), which only tests use.
* *A master that starts over a segment in use*: it destroys the condition on which the runners wait, and
  none of the promises survives.
* `changePeriod` (a data race on the period), a second `stop()` and one called by a task (both throw), thread
  priorities.
* In `Ipc`: a second subscriber of a queue, a second slot on an id, packets that are too large, Redis, and two publishers of one
  name whose constructors run at the same time (the second would throw at `create_only`).
* In `Startup`: `mergeInto` (which does not notify its target, `Aggregator.cpp:47`), static
  containers, adding objects while an `AggregatableRunner` iterates (undefined behaviour).
* In `StartupMapping`: vectors of Eigen vectors and of configurations.
* In `SerialLink`: overlapping asynchronous writes whose buffer moves, that send parts in turns, or that consume outside of
  `sendingMutex_` (`SerialHandler.cpp:83-91`; here each write sends whole and intact bytes), transport layers (no implementation exists), the statistics by bytes, the tasks that
  connect to Redis again, subscriptions while the signal is handled.
* Logging, terminal input, the parser of JSON, `dlopen`, filters, angles and linear algebra: no state,
  or not this program's.
* Not proved: see the end of section 4.

`PROJECT.json` lists each component with its status.
