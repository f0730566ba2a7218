------------------------------ MODULE MicroSim ------------------------------
(***************************************************************************)
(* MicroSimulator: a scheduler that is also the clock.  simulate(duration) *)
(* goes from event to event, sets the time to that of the event and calls  *)
(* its body, which may schedule, cancel and stop in its turn.              *)
(*                                                                         *)
(* simulate holds simMutex_ while it takes an event and calls its body.    *)
(* schedule() and clearSchedule() do not take it: other threads have to    *)
(* lock getSimMutex() first.  They get it between two turns of the loop,   *)
(* during the real-time wait before an event, and after the loop, when     *)
(* simulate has yet to set the time to its end.                            *)
(*                                                                         *)
(* After that wait and after a body it goes on with events_.begin().  By   *)
(* a clearSchedule() this is another event, or none: what follows then is  *)
(* undefined, and nothing is modelled after it.                            *)
(***************************************************************************)
EXTENDS Naturals, Sequences, FiniteSets, SequencesExt

CONSTANTS
  Periodic,   \* events scheduled with a period
  OneShot,    \* events scheduled without one
  Offsets,    \* the values of initialFromNow
  Period,     \* the period of every periodic event
  Durations,  \* the values of simulate's duration
  RealTime,   \* realTimeFactor_ > 0
  Clients,    \* other threads make calls, under getSimMutex()
  MaxTime     \* bound: simulate is not asked to go beyond it

Events == Periodic \cup OneShot

ASSUME SimAssumption ==
  /\ Periodic \cap OneShot = {}
  /\ Offsets \subseteq Nat /\ Durations \subseteq Nat
  /\ Period \in Nat \ {0}
  /\ RealTime \in BOOLEAN /\ Clients \in BOOLEAN /\ MaxTime \in Nat

VARIABLES
  now,        \* now_
  events,     \* events_: the pairs of the multimap in their order
  isCanceled, \* the events with isCanceled
  stopped,    \* stopped_
  pc,         \* where simulate is: "idle", "loop", "waiting", "step", "body", "end",
              \* or "undefined" after it used begin() of an empty map
  endSim,     \* simulate's local endSim
  nextEvent,  \* simulate's local nextEvent, as a set
  runs,       \* runs_
  first,      \* first[e]: the time for which e was scheduled, 0 if it was not
  scheduled,  \* the events that were scheduled
  dropped,    \* the events that clearSchedule() threw away
  lost,       \* those erased in place of the called one, whose body cleared the schedule
  late,       \* those scheduled after the loop's end, and not called since
  calls       \* calls[e]: how often the body of e was called

sim == <<pc, endSim, nextEvent, runs>>
history == <<first, scheduled, dropped, lost, late, calls>>
vars == <<now, events, isCanceled, stopped, sim, history>>

Init ==
  /\ now = 0 /\ events = <<>> /\ isCanceled = {} /\ stopped = FALSE
  /\ pc = "idle" /\ endSim = 0 /\ nextEvent = {} /\ runs = 0
  /\ first = [e \in Events |-> 0] /\ calls = [e \in Events |-> 0]
  /\ scheduled = {} /\ dropped = {} /\ lost = {} /\ late = {}

-----------------------------------------------------------------------------
(* The multimap *)

\* A slip: a new element goes before the elements of its key, not behind them.
InsertBefore(es, at, e) ==
  InsertAt(es, Cardinality({i \in DOMAIN es : es[i].at < at}) + 1, [at |-> at, event |-> e])

\* multimap::insert puts a new element behind those of the same key.
Inserted(es, at, e) ==
  InsertAt(es, Cardinality({i \in DOMAIN es : es[i].at <= at}) + 1, [at |-> at, event |-> e])

-----------------------------------------------------------------------------
(* What bodies, clients and other threads do *)

\* simMutex_ is free.
Unlocked == pc \in {"idle", "loop", "waiting", "end"}

\* Calls come between calls of simulate, from a body, and from other threads.
Callable == pc \in {"idle", "body"} \/ (Clients /\ Unlocked)

Schedule(e, initialFromNow) ==
  /\ Callable
  /\ e \notin scheduled
  /\ events' = Inserted(events, now + initialFromNow, e)
  /\ scheduled' = scheduled \cup {e}
  /\ first' = [first EXCEPT ![e] = now + initialFromNow]
  /\ late' = IF pc = "end" THEN late \cup {e} ELSE late
  /\ UNCHANGED <<now, isCanceled, stopped, sim, dropped, lost, calls>>

Cancel(e) ==
  /\ Callable
  /\ e \in scheduled \ isCanceled
  /\ isCanceled' = isCanceled \cup {e}
  /\ UNCHANGED <<now, events, stopped, sim, history>>

\* Nothing sets stopped_ back.
Stop ==
  /\ Callable
  /\ ~stopped
  /\ stopped' = TRUE
  /\ UNCHANGED <<now, events, isCanceled, sim, history>>

\* Also from a body and during the wait
ClearSchedule ==
  /\ Callable
  /\ events # <<>>
  /\ dropped' = dropped \cup {x.event : x \in ToSet(events)}
  /\ events' = <<>>
  /\ UNCHANGED <<now, isCanceled, stopped, sim, first, scheduled, lost, late, calls>>

-----------------------------------------------------------------------------
(* simulate(duration) *)

Simulate(duration) ==
  /\ pc = "idle"
  /\ now + duration <= MaxTime
  /\ pc' = "loop"
  /\ endSim' = now + duration
  /\ runs' = 0
  /\ UNCHANGED <<now, events, isCanceled, stopped, nextEvent, history>>

\* A slip: simulate goes on beyond its end.
AnythingLeft == events # <<>>

\* A slip: an event at the very end is left for the next call.
SomethingBefore == now <= endSim /\ events # <<>> /\ Head(events).at < endSim

\* There is an event that simulate has to call, and it has not gone beyond its end.
SomethingDue == now <= endSim /\ events # <<>> /\ Head(events).at <= endSim

\* Nothing more to do before endSim: the loop is left, and the mutex with it.
LeaveLoop ==
  /\ pc = "loop"
  /\ ~SomethingDue
  /\ pc' = "end"
  /\ UNCHANGED <<now, events, isCanceled, stopped, endSim, nextEvent, runs, history>>

\* The time is set to the end.
Finish ==
  /\ pc = "end"
  /\ now' = endSim
  /\ pc' = "idle"
  /\ UNCHANGED <<events, isCanceled, stopped, endSim, nextEvent, runs, history>>

\* The real-time wait, which stop() ends early.
Await ==
  /\ pc = "loop"
  /\ SomethingDue
  /\ pc' = IF RealTime THEN "waiting" ELSE "step"
  /\ UNCHANGED <<now, events, isCanceled, stopped, endSim, nextEvent, runs, history>>

WaitReturns ==
  /\ pc = "waiting"
  /\ pc' = "step"
  /\ UNCHANGED <<now, events, isCanceled, stopped, endSim, nextEvent, runs, history>>

\* A slip: simulate tries again instead of returning.
TriesAgain == "loop"

\* return runs_
Returns == "idle"

\* stop() was called: return at once, at the time of the last event.
ReturnStopped ==
  /\ pc = "step" /\ stopped
  /\ pc' = Returns
  /\ UNCHANGED <<now, events, isCanceled, stopped, endSim, nextEvent, runs, history>>

\* The schedule was cleared during the wait: begin() is the end.
TakeNothing ==
  /\ pc = "step" /\ ~stopped /\ events = <<>>
  /\ pc' = "undefined"
  /\ UNCHANGED <<now, events, isCanceled, stopped, endSim, nextEvent, runs, history>>

\* The first event is looked at again after the wait, but not whether it is still
\* due.  A canceled one is erased.
TakeNext ==
  /\ pc = "step" /\ ~stopped /\ events # <<>>
  /\ now' = Head(events).at
  /\ LET e == Head(events).event IN
       \/ /\ e \in isCanceled
          /\ events' = Tail(events)
          /\ pc' = "loop"
          /\ UNCHANGED <<nextEvent, late, calls>>
       \/ /\ e \notin isCanceled
          /\ nextEvent' = {e}
          /\ calls' = [calls EXCEPT ![e] = @ + 1]
          /\ late' = late \ {e}
          /\ pc' = "body"
          /\ UNCHANGED events
  /\ UNCHANGED <<isCanceled, stopped, endSim, runs, first, scheduled, dropped, lost>>

\* The body of e returns: a periodic event is put back one period later, canceled
\* or not.
PutBack(e) == IF e \in Periodic THEN Inserted(events, now + Period, e) ELSE events

\* Then the element that is first by now is erased.
BodyReturns(e) ==
  /\ pc = "body" /\ e \in nextEvent
  /\ PutBack(e) # <<>>
  /\ events' = Tail(PutBack(e))
  /\ lost' = IF e \in dropped THEN lost \cup {Head(PutBack(e)).event} ELSE lost
  /\ runs' = runs + 1
  /\ nextEvent' = {}
  /\ pc' = "loop"
  /\ UNCHANGED <<now, isCanceled, stopped, endSim, first, scheduled, dropped, late, calls>>

\* There is none: erase(end()).
EraseNothing(e) ==
  /\ pc = "body" /\ e \in nextEvent
  /\ PutBack(e) = <<>>
  /\ runs' = runs + 1
  /\ nextEvent' = {}
  /\ pc' = "undefined"
  /\ UNCHANGED <<now, events, isCanceled, stopped, endSim, history>>

Running ==
  \/ LeaveLoop \/ Finish \/ Await \/ WaitReturns \/ ReturnStopped \/ TakeNothing \/ TakeNext
  \/ \E e \in Events : BodyReturns(e) \/ EraseNothing(e)

Next ==
  \/ Running
  \/ \E e \in Events : Cancel(e) \/ \E o \in Offsets : Schedule(e, o)
  \/ \E d \in Durations : Simulate(d)
  \/ Stop \/ ClearSchedule

Spec == Init /\ [][Next]_vars

\* Bodies return and the wait ends.
FairSpec == Spec /\ WF_vars(Running)

-----------------------------------------------------------------------------
(* Properties *)

Entries(e) == {i \in DOMAIN events : events[i].event = e}

\* Every variable has its type, and time is within the call of simulate but for an
\* event that was put in place of the one it waited for.
TypeOK ==
  /\ now \in Nat /\ endSim \in 0 .. MaxTime
  /\ pc = "idle" => now <= MaxTime
  /\ pc \in {"waiting", "step"} => now <= endSim
  /\ events \in Seq([at : Nat, event : Events])
  /\ isCanceled \subseteq scheduled /\ scheduled \subseteq Events
  /\ dropped \cup lost \cup late \subseteq scheduled
  /\ stopped \in BOOLEAN
  /\ pc \in {"idle", "loop", "waiting", "step", "body", "end", "undefined"}
  /\ nextEvent \subseteq scheduled
  /\ (pc = "body") <=> (nextEvent # {})
  /\ runs \in Nat
  /\ first \in [Events -> Nat] /\ calls \in [Events -> Nat]

\* No activation is lost, repeated or moved.  Between two bodies, a periodic
\* event that nobody canceled or threw away has been called for exactly its
\* activations so far: it is in the schedule once, for the next one.  An event
\* without period is there until it is called.  The only events that go without
\* being called are those that simulate erases in place of the called one when the
\* body has cleared the schedule.  The clock has passed none that is in the
\* schedule, but for those that another thread schedules when the loop has ended
\* and the time is not set yet.
OnSchedule ==
  pc # "body" =>
    /\ \A e \in scheduled \ (isCanceled \cup dropped \cup lost) :
         IF e \in OneShot /\ Entries(e) = {} THEN calls[e] = 1 ELSE Cardinality(Entries(e)) = 1
    /\ \A i \in DOMAIN events : LET e == events[i].event IN
         /\ events[i].at = first[e] + calls[e] * Period
         /\ e \in OneShot => calls[e] = 0
         /\ e \notin late => events[i].at >= now

\* simulate(duration) leaves nothing behind that was due: unless it was stopped,
\* what is left when it has set the time to its end is later than that, or was
\* scheduled by another thread after the loop's end.
NothingLeftBehind ==
  [][Finish => \A i \in DOMAIN events' :
                 events'[i].at > now' \/ events'[i].event \in late]_vars

\* Events due at once are called in the order in which they were put in: an
\* entry never comes to stand before an older one of its time.
NoOvertaking ==
  [][\A i, j \in DOMAIN events' :
       i < j /\ events'[i].at = events'[j].at /\ events'[j] \in ToSet(events)
         => events'[i] \in ToSet(events)]_vars

\* Whatever bodies schedule at the present time, and whoever clears the schedule,
\* simulate returns, if it does not use begin() of an empty map.
SimulateReturns == (pc # "idle") ~> (pc \in {"idle", "undefined"})
=============================================================================
