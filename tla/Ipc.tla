-------------------------------- MODULE Ipc --------------------------------
(***************************************************************************)
(* One subscription of IPC and the publishers of its name, over shared     *)
(* memory or over a message queue.                                         *)
(*                                                                         *)
(* A publisher object creates a new segment (or queue) under the name and  *)
(* removes an older one of that name; processes that have the older one    *)
(* open keep it.  The subscription connects to what the name stands for,   *)
(* and its listener thread is started by a scheduled task (the starter) or *)
(* by the retry task, and canceled by the SIGINT handler or the destructor *)
(* of IPC (the closer), whose last act is to drop the subscription.  These *)
(* threads share listenerCanceled_, connected_ and the std::thread object. *)
(*                                                                         *)
(* A shared segment holds the last packet and wakes a listener that waits; *)
(* a queue holds up to Capacity packets.  Packets are numbered per channel *)
(* and Ending stands for the packet with the text "ending".                *)
(*                                                                         *)
(* The constructor of a shared segment takes several steps under the name. *)
(* A process that opens it too early fails: mapping a segment of size zero *)
(* throws, and the header is copied over a mutex that is in use, which is  *)
(* undefined.  Nothing is modelled after that.                             *)
(***************************************************************************)
EXTENDS Integers, Sequences, Functions

CONSTANTS MaxChannels,  \* bound on the publisher objects of the name
          MaxPackets,   \* bound on the packets published, all channels together
          Capacity,     \* max_num: packets a message queue holds
          MaxSpurious,  \* bound on the spurious wake-ups of timed_wait
          Transports    \* the transports to model, of {"shm", "mq"}

ASSUME IpcAssumption == /\ MaxChannels \in Nat /\ MaxPackets \in Nat
                        /\ Capacity \in Nat \ {0} /\ MaxSpurious \in Nat
                        /\ Transports \subseteq {"shm", "mq"}

Channels == 1..MaxChannels
Ending == 0

VARIABLES
  transport,   \* options.multiTarget: "shm" or "mq"
  named,       \* the channel that the name stands for, 0 if none
  created,     \* channels created so far
  building,    \* where the constructor of a publisher is: "no", "removed", "made"
  built,       \* what it has made of each channel: "none", "empty", "sized", "ready"
  live,        \* channels whose publisher object exists
  removing,    \* channels whose publisher is in its destructor, before remove
  locked,      \* shm: channels whose publisher died with their mutex locked
  active,      \* shm: MessageObjectHeader::active, per channel
  box,         \* the packets in a channel: the last one, or the queue
  sent,        \* packets published per channel
  got,         \* channel and number of the packet the slots got last
  spurious,    \* spurious wake-ups so far
  repeats,     \* calls of the slots with a packet they had, or with an empty one
  subscribed,  \* the subscription is in subscriptions_
  retries,     \* its id is in retryVector_
  channel,     \* sharedMem_ / messageQueue_: the channel it has open
  connected,   \* connected_ / messageQueue_ != nullptr
  canceled,    \* listenerCanceled_
  listener,    \* where listenerThread_ is, "none" if it is not joinable
  starter,     \* where the task scheduled by subscribeOnPackets is
  retry,       \* where the retry task is
  closer,      \* where the SIGINT handler or the destructor of IPC is
  failed       \* what ended the process: std::terminate or the like

names == <<transport, named, created, building, built, live, removing, locked>>
wakes == <<spurious, repeats>>
data  == <<active, box, sent, got, wakes>>
sub   == <<subscribed, retries, channel>>
flags == <<connected, canceled>>
tasks == <<starter, retry, closer>>
vars  == <<names, data, sub, flags, listener, tasks, failed>>

ListenerStates == {"none", "begin", "test", "wait", "late", "notified", "slot",
                   "flag", "disconnect", "ended"}
StarterStates == {"none", "pending", "start", "assign", "drop", "load", "store", "join",
                  "destroy", "done"}
CloserStates == {"idle", "load", "store", "join", "clear", "destroy", "done"}

NamesOK == /\ transport \in Transports /\ named \in 0..MaxChannels
           /\ created \in 0..MaxChannels
           /\ building \in {"no", "removed", "made"}
           /\ built \in [Channels -> {"none", "empty", "sized", "ready"}]
           /\ locked \subseteq Channels
           /\ live \subseteq Channels /\ removing \subseteq Channels
DataOK == /\ active \in [Channels -> BOOLEAN]
          /\ sent \in [Channels -> 0..MaxPackets]
          /\ got \in (0..MaxChannels) \X (0..MaxPackets)
          /\ spurious \in 0..MaxSpurious /\ repeats \in 0..MaxSpurious
BoxOK == /\ box \in [Channels -> Seq(0..MaxPackets)]
         /\ \A c \in Channels : Len(box[c]) <= IF transport = "shm" THEN 1 ELSE Capacity
ThreadsOK == /\ subscribed \in BOOLEAN /\ retries \in BOOLEAN
             /\ channel \in 0..MaxChannels
             /\ connected \in BOOLEAN /\ canceled \in BOOLEAN
             /\ listener \in ListenerStates /\ starter \in StarterStates
             /\ retry \in {"idle", "start", "join", "assign"} /\ closer \in CloserStates
             /\ failed \in {"no", "terminate", "system_error", "dangling", "unsized", "overwritten"}

\* Every variable has its type; no channel holds more than it has room for.
TypeOK == NamesOK /\ DataOK /\ BoxOK /\ ThreadsOK

Init ==
  /\ transport \in Transports /\ named = 0 /\ created = 0
  /\ building = "no" /\ built = [c \in Channels |-> "none"]
  /\ live = {} /\ removing = {} /\ locked = {}
  /\ active = [c \in Channels |-> FALSE] /\ box = [c \in Channels |-> << >>]
  /\ sent = [c \in Channels |-> 0] /\ got = <<0, 0>>
  /\ spurious = 0 /\ repeats = 0
  /\ subscribed = FALSE /\ retries = FALSE /\ channel = 0
  /\ connected = FALSE /\ canceled = TRUE
  /\ listener = "none" /\ starter = "none" /\ retry = "idle"
  /\ closer = "idle" /\ failed = "no"

----------------------------------------------------------------------------
\* Publishers

\* nothing is modelled of a process that has failed
Running == failed = "no"

\* the listener holds a sharable lock of the mutex in segment c
Reads(c) == /\ transport = "shm" /\ channel = c
            /\ listener \in {"test", "slot", "flag", "disconnect"}

\* notify_all on segment c wakes a listener that waits now, and no other
WakesListener(c) ==
  listener' = IF transport = "shm" /\ channel = c /\ listener = "wait"
              THEN "notified" ELSE listener

\* A publisher object is constructed: what has the name is removed first,
Publish_Remove ==
  /\ Running /\ created < MaxChannels /\ building = "no"
  /\ building' = "removed" /\ named' = 0
  /\ UNCHANGED <<transport, created, built, live, removing, locked, data, sub, flags, listener,
                 tasks, failed>>

\* then a new segment, or the whole queue, is made under the name (create_only).
Publish_Create ==
  /\ Running /\ building = "removed"
  /\ created' = created + 1 /\ named' = created + 1
  /\ \/ /\ transport = "shm" /\ building' = "made"
        /\ built' = [built EXCEPT ![created + 1] = "empty"]
        /\ UNCHANGED <<live, active>>
     \/ /\ transport = "mq" /\ building' = "no"
        /\ built' = [built EXCEPT ![created + 1] = "ready"]
        /\ live' = live \cup {created + 1}
        /\ active' = [active EXCEPT ![created + 1] = TRUE]
  /\ UNCHANGED <<transport, removing, locked, box, sent, got, wakes, sub, flags, listener, tasks,
                 failed>>

\* A segment gets its size, and is full of zeros.
Publish_Truncate ==
  /\ Running /\ building = "made" /\ built[created] = "empty"
  /\ built' = [built EXCEPT ![created] = "sized"]
  /\ UNCHANGED <<transport, named, created, building, live, removing, locked, data, sub, flags,
                 listener, tasks, failed>>

\* the listener has segment c mapped
Maps(c) == /\ transport = "shm" /\ channel = c
           /\ listener \in {"test", "wait", "late", "notified", "slot", "flag", "disconnect"}

\* The header is copied into it, over whatever a listener made of the zeros.
Publish_Header ==
  /\ Running /\ building = "made" /\ built[created] = "sized"
  /\ building' = "no"
  /\ built' = [built EXCEPT ![created] = "ready"]
  /\ live' = live \cup {created}
  /\ active' = [active EXCEPT ![created] = TRUE]
  /\ failed' = IF Maps(created) THEN "overwritten" ELSE failed
  /\ UNCHANGED <<transport, named, created, removing, locked, box, sent, got, wakes, sub, flags,
                 listener, tasks>>

Construct == Publish_Create \/ Publish_Truncate \/ Publish_Header

\* the bound on all packets
Bounded == FoldFunction(+, 0, sent) < MaxPackets
MayPublish(c) == Running /\ c \in live /\ sent[c] < MaxPackets /\ Bounded
\* A slip: a full queue is not noticed
NeverFull(c) == FALSE
Full(c) == Len(box[c]) >= Capacity

\* publish(): under the exclusive lock of the segment, or try_send
Publish(c) ==
  /\ MayPublish(c) /\ ~Reads(c)
  /\ sent' = [sent EXCEPT ![c] = @ + 1]
  /\ box' = [box EXCEPT ![c] = IF transport = "shm" THEN <<sent[c] + 1>>
                               ELSE IF Full(c) THEN @ ELSE Append(@, sent[c] + 1)]
  /\ WakesListener(c)
  /\ UNCHANGED <<names, active, got, wakes, sub, flags, tasks, failed>>

\* A client publishes the text that the destructor uses as its last packet.
PublishEnding(c) ==
  /\ transport = "mq" /\ MayPublish(c) /\ ~Full(c)
  /\ sent' = [sent EXCEPT ![c] = @ + 1]
  /\ box' = [box EXCEPT ![c] = Append(@, Ending)]
  /\ UNCHANGED <<names, active, got, wakes, sub, flags, listener, tasks, failed>>

\* The destructor, up to the removal: teardown, or the ending packet.
Destroy(c) ==
  /\ Running /\ c \in live /\ ~Reads(c)
  /\ live' = live \ {c} /\ removing' = removing \cup {c}
  /\ active' = [active EXCEPT ![c] = FALSE]
  /\ box' = [box EXCEPT ![c] = IF transport = "shm" \/ Full(c) THEN @
                               ELSE Append(@, Ending)]
  /\ WakesListener(c)
  /\ UNCHANGED <<transport, named, created, building, built, locked, sent, got, wakes, sub,
                 flags, tasks, failed>>

\* The destructor removes the name, whichever channel has it by now.
Remove(c) ==
  /\ Running /\ c \in removing
  /\ removing' = removing \ {c} /\ named' = 0
  /\ UNCHANGED <<transport, created, building, built, live, locked, data, sub, flags, listener,
                 tasks, failed>>

\* The publishing process ends without its destructors, also inside publish or
\* teardown, where it has the mutex of the segment,
Crash(c) ==
  /\ Running /\ c \in live /\ live' = live \ {c}
  /\ \/ UNCHANGED locked
     \/ transport = "shm" /\ ~Reads(c) /\ locked' = locked \cup {c}
  /\ UNCHANGED <<transport, named, created, building, built, removing, data, sub, flags, listener,
                 tasks, failed>>

\* or in the constructor.
CrashBuilding ==
  /\ Running /\ building # "no" /\ building' = "no"
  /\ UNCHANGED <<transport, named, created, built, live, removing, locked, data, sub, flags,
                 listener, tasks, failed>>

----------------------------------------------------------------------------
\* The client and the tasks

\* connect(): open what has the name.
Connect == IF named # 0 THEN channel' = named /\ connected' = TRUE
                        ELSE UNCHANGED channel /\ connected' = FALSE

Subscribe ==
  /\ Running /\ ~subscribed /\ starter = "none" /\ closer = "idle"
  /\ subscribed' = TRUE /\ retries' \in BOOLEAN
  /\ Connect
  /\ starter' = IF named # 0 THEN "pending" ELSE "none"
  /\ UNCHANGED <<names, data, canceled, listener, retry, closer, failed>>

\* start(): clear the flag, join what the std::thread still runs, and assign a
\* new thread to it, which terminates the process if it is joinable again.
Joinable == listener # "none"
Join == IF Joinable THEN listener = "ended" /\ listener' = "none" ELSE UNCHANGED listener
Assign == IF Joinable THEN failed' = "terminate" /\ UNCHANGED listener
                      ELSE listener' = "begin" /\ UNCHANGED failed

StarterStart ==
  /\ Running /\ starter = "pending" /\ canceled' = FALSE /\ starter' = "start"
  /\ UNCHANGED <<names, data, sub, connected, listener, retry, closer, failed>>
StarterJoin ==
  /\ Running /\ starter = "start" /\ Join /\ starter' = "assign"
  /\ UNCHANGED <<names, data, sub, flags, retry, closer, failed>>
StarterAssign ==
  /\ Running /\ starter = "assign" /\ Assign /\ starter' = "drop"
  /\ UNCHANGED <<names, data, sub, flags, retry, closer>>

\* The scheduler erases the task and with it a reference to the subscription:
\* if IPC dropped its own, the destructor runs here.
StarterDrop ==
  /\ Running /\ starter = "drop"
  /\ starter' = IF closer = "done" THEN "load" ELSE "done"
  /\ UNCHANGED <<names, data, sub, flags, listener, retry, closer, failed>>

\* retrySubscriptions: a subscription that is not connected tries again.
\* A slip: the retry task does not ask whether the subscription is connected
RetriesAlways == subscribed /\ retries
RetryConnects == subscribed /\ retries /\ ~connected

RetryCheck ==
  /\ Running /\ retry = "idle" /\ RetryConnects
  /\ Connect
  /\ retry' = IF named # 0 THEN "start" ELSE "idle"
  /\ UNCHANGED <<names, data, subscribed, retries, canceled, listener, starter, closer, failed>>
RetryStart ==
  /\ Running /\ retry = "start" /\ canceled' = FALSE /\ retry' = "join"
  /\ UNCHANGED <<names, data, sub, connected, listener, starter, closer, failed>>
RetryJoin ==
  /\ Running /\ retry = "join" /\ Join /\ retry' = "assign"
  /\ UNCHANGED <<names, data, sub, flags, starter, closer, failed>>
RetryAssign ==
  /\ Running /\ retry = "assign" /\ Assign /\ retry' = "idle"
  /\ UNCHANGED <<names, data, sub, flags, starter, closer>>

----------------------------------------------------------------------------
\* cancel(), by the closer and by the starter when it drops the last reference

\* the caller at state s goes on to t
Moves(who, s, t) ==
  /\ Running
  /\ \/ /\ who = "closer" /\ closer = s /\ closer' = t /\ UNCHANGED <<starter, retry>>
     \/ /\ who = "starter" /\ starter = s /\ starter' = t /\ UNCHANGED <<closer, retry>>

\* the closer cancels twice: as the handler does, and in the destructor
AfterCancel(who) == IF who = "closer" /\ subscribed THEN "clear" ELSE "destroy"

CloserBegin ==
  /\ closer = "idle" /\ subscribed /\ Moves("closer", "idle", "load")
  /\ UNCHANGED <<names, data, sub, flags, listener, failed>>

CancelLoad(who) ==
  /\ Moves(who, "load", IF canceled THEN AfterCancel(who) ELSE "store")
  /\ UNCHANGED <<names, data, sub, flags, listener, failed>>
CancelStore(who) ==
  /\ Moves(who, "store", "join") /\ canceled' = TRUE
  /\ UNCHANGED <<names, data, sub, connected, listener, failed>>
\* join() returns when the thread has ended and throws if there is none
CancelJoin(who) ==
  /\ Moves(who, "join", AfterCancel(who))
  /\ IF Joinable THEN listener = "ended" /\ listener' = "none" /\ UNCHANGED failed
                 ELSE UNCHANGED listener /\ failed' = "system_error"
  /\ UNCHANGED <<names, data, sub, flags>>

\* subscriptions_.clear(): a retry that is under way holds a dangling reference
\* to the erased element; the task that was scheduled keeps a shared_ptr.
CloserClear ==
  /\ Running /\ closer = "clear" /\ subscribed' = FALSE
  /\ closer' = IF starter \in {"none", "done"} THEN "load" ELSE "done"
  /\ failed' = IF retry # "idle" THEN "dangling" ELSE failed
  /\ UNCHANGED <<names, data, retries, channel, flags, listener, starter, retry>>

\* The destructor ends: a joinable std::thread calls std::terminate.
DestroySub(who) ==
  /\ Moves(who, "destroy", "done")
  /\ failed' = IF Joinable THEN "terminate" ELSE failed
  /\ UNCHANGED <<names, data, sub, flags, listener>>

----------------------------------------------------------------------------
\* The listener thread

Listens(s, t) == Running /\ listener = s /\ listener' = t

\* nobody has died with the mutex of the segment that the listener has open
Lockable == channel \notin locked

\* The listener maps the segment and locks its mutex.
ListenBegin ==
  /\ Listens("begin", "test")
  /\ built[channel] # "empty" /\ Lockable
  /\ UNCHANGED <<names, data, sub, flags, tasks, failed>>

\* A segment of size zero cannot be mapped: an exception that nobody catches.
ListenUnmapped ==
  /\ Listens("begin", "begin")
  /\ built[channel] = "empty"
  /\ failed' = "unsized"
  /\ UNCHANGED <<names, data, sub, flags, tasks>>

\* A slip: the flag is not tested
LoopsForEver ==
  /\ Listens("test", "wait")
  /\ UNCHANGED <<names, data, sub, flags, tasks, failed>>

\* the loop condition; the queue's listener returns without a word
ListenTest ==
  /\ Listens("test", IF ~canceled THEN "wait"
                     ELSE IF transport = "shm" THEN "flag" ELSE "ended")
  /\ UNCHANGED <<names, data, sub, flags, tasks, failed>>

\* 10 or 100 ms without a packet.  What is notified before timed_wait has the lock
\* again is missed, the teardown as well.
ListenTimeout ==
  /\ Listens("wait", IF transport = "shm" THEN "late" ELSE "test")
  /\ transport = "mq" => box[channel] = << >>
  /\ UNCHANGED <<names, data, sub, flags, tasks, failed>>
ListenRelock ==
  /\ Lockable
  /\ Listens("late", "test")
  /\ UNCHANGED <<names, data, sub, flags, tasks, failed>>

\* timed_wait returns without a notification: it has no predicate.
ListenSpurious ==
  /\ transport = "shm"
  /\ spurious < MaxSpurious /\ spurious' = spurious + 1
  /\ Listens("wait", "notified")
  /\ UNCHANGED <<names, active, box, sent, got, repeats, sub, flags, tasks, failed>>

\* A slip: active is not looked at after a wake-up
NeverInactive == FALSE
\* what the segment holds, the empty packet before the first
Latest(c) == IF box[c] = << >> THEN 0 ELSE box[c][1]
Inactive == ~active[channel]
\* the slots have not been called with it, nor with a later one
New == Latest(channel) # 0 /\ (channel = got[1] => Latest(channel) > got[2])

\* Woken in timed_wait: end if the publisher is gone, else call the slots.
ListenShm ==
  /\ transport = "shm" /\ Lockable
  /\ Listens("notified", IF Inactive THEN "flag" ELSE "slot")
  /\ got' = IF Inactive THEN got ELSE <<channel, Latest(channel)>>
  /\ repeats' = IF Inactive \/ New THEN repeats ELSE repeats + 1
  /\ UNCHANGED <<names, active, box, sent, spurious, sub, flags, tasks, failed>>

\* timed_receive: end if the packet has the text "ending", else call the slots.
ListenMq ==
  /\ transport = "mq" /\ listener = "wait" /\ box[channel] # << >>
  /\ LET p == Head(box[channel]) IN
       /\ Listens("wait", IF p = Ending THEN "flag" ELSE "slot")
       /\ got' = IF p = Ending THEN got ELSE <<channel, p>>
  /\ box' = [box EXCEPT ![channel] = Tail(@)]
  /\ UNCHANGED <<names, active, sent, wakes, sub, flags, tasks, failed>>

ListenSlotReturns ==
  /\ Listens("slot", "test")
  /\ UNCHANGED <<names, data, sub, flags, tasks, failed>>

\* Slips: the two stores change places; the second one is missing
SwappedStore(n) == IF n = 2 THEN canceled' = TRUE /\ UNCHANGED connected
                            ELSE connected' = FALSE /\ UNCHANGED canceled
FlagOnly(n) == canceled' = TRUE /\ UNCHANGED connected

\* The listener of an inactive segment, or of the packet "ending", sets first
\* listenerCanceled_ and then what connected() reads.
EndStore(n) == IF n = 1 THEN canceled' = TRUE /\ UNCHANGED connected
                        ELSE connected' = FALSE /\ UNCHANGED canceled

ListenFlag ==
  /\ Listens("flag", "disconnect") /\ EndStore(1)
  /\ UNCHANGED <<names, data, sub, tasks, failed>>
ListenDisconnect ==
  /\ Listens("disconnect", "ended") /\ EndStore(2)
  /\ UNCHANGED <<names, data, sub, tasks, failed>>

----------------------------------------------------------------------------
Publishers == \/ Publish_Remove \/ Construct \/ CrashBuilding
              \/ \E c \in Channels : \/ Publish(c) \/ PublishEnding(c)
                                     \/ Destroy(c) \/ Remove(c) \/ Crash(c)
Starter == \/ StarterStart \/ StarterJoin \/ StarterAssign \/ StarterDrop
           \/ CancelLoad("starter") \/ CancelStore("starter")
           \/ CancelJoin("starter") \/ DestroySub("starter")
Retry == RetryCheck \/ RetryStart \/ RetryJoin \/ RetryAssign
Close == \/ CancelLoad("closer") \/ CancelStore("closer")
         \/ CancelJoin("closer") \/ CloserClear \/ DestroySub("closer")
Listener == \/ ListenBegin \/ ListenUnmapped \/ ListenTest \/ ListenTimeout \/ ListenRelock
            \/ ListenShm \/ ListenMq \/ ListenSlotReturns \/ ListenFlag \/ ListenDisconnect

Next == \/ Publishers \/ Subscribe \/ CloserBegin \/ Starter \/ Retry \/ Close
        \/ Listener \/ ListenSpurious

Spec == Init /\ [][Next]_vars

\* Threads, constructors and scheduled tasks go on; nobody has to publish, subscribe
\* or close.
FairSpec == /\ Spec /\ WF_vars(Construct) /\ WF_vars(Starter) /\ WF_vars(Retry)
            /\ WF_vars(Close) /\ WF_vars(Listener)

----------------------------------------------------------------------------
Abstract == INSTANCE PacketChannel WITH MaxRepeats <- MaxSpurious

\* Every behaviour is one of the lossy channel: packets are delivered in order and
\* never after one of a later publisher, and each but once for every wake-up
\* without a notification, whatever is lost, canceled, retried, crashed or created
\* again (onSharedMemory, onMessageQueue).
IsPacketChannel == Abstract!Spec

\* The threads that start and cancel a subscription can end the process
\* (std::terminate, std::system_error, a dangling reference), but only once the
\* SIGINT handler or the destructor of IPC is at work: a listener that ends by
\* itself and is retried is joined before its std::thread is assigned.  Before
\* that, only a segment that was opened while its publisher was in its constructor,
\* or that was left behind by one that died there, ends it: one of size zero, or
\* the latest one, whose header was copied over the mutex in use.
FailsOnlyInTeardown ==
  failed # "no" =>
    \/ closer # "idle"
    \/ failed = "unsized" /\ built[channel] = "empty"
    \/ failed = "overwritten" /\ Maps(created) /\ sent[created] = 0

\* A listener that runs has its flag cleared, unless a cancel is under way or it
\* is about to end: nobody clears the flag of a listener that is already ending.
Listening == listener \in {"test", "wait", "late", "notified", "slot"}
FlagMatchesListener ==
  (closer = "idle" /\ Listening) => (~canceled /\ connected /\ channel # 0)

\* While the name exists, a subscription that retries listens again and again:
\* it does not stay disconnected after a publisher went and another came, unless
\* it waits for the mutex of a segment with which a publisher died.
AlwaysListening ==
  []<>(\/ Listening \/ named = 0 \/ ~subscribed \/ ~retries
       \/ ~Lockable \/ closer # "idle" \/ failed # "no")

\* cancel() returns, unless a start that is under way clears the flag that it set
\* (the listener then never sees it and join() waits for ever), or the listener
\* waits for a mutex with which a publisher died.
CancelReturns ==
  (closer = "join" /\ canceled)
    ~> (closer # "join" \/ ~canceled \/ failed # "no" \/ ~Lockable)

\* the listener waits on the segment that has the name, whose publisher crashed
\* while it did not have the mutex
WaitsOnCrashed ==
  /\ transport = "shm" /\ listener = "wait" /\ subscribed /\ retries
  /\ named = channel /\ built[channel] = "ready" /\ active[channel]
  /\ channel \notin live \cup locked

\* "if existing just set values, do not copy new conditions and mutexes so that
\* waiting processes don't miss out": a subscription that waits on the segment of
\* a crashed publisher and that retries ends up with the publisher that is
\* constructed after it, if that one stays.
DontMissOut ==
  <>WaitsOnCrashed /\ <>[](named \in live /\ closer = "idle" /\ failed = "no")
     => <>[](channel = named)
=============================================================================
