----------------------------- MODULE IpcProofs -----------------------------
(***************************************************************************)
(* Proofs about Ipc, for any number of channels and packets, any capacity  *)
(* and both transports: the types of the variables, and that a             *)
(* subscription implements the lossy channel of PacketChannel.             *)
(***************************************************************************)
EXTENDS Ipc, TLAPS

-----------------------------------------------------------------------------
(* The inductive invariant *)

Active == {"begin", "test", "wait", "late", "notified", "slot", "flag", "disconnect"}
Starting == {"pending", "start", "assign"}

\* Channels are named in the order of their creation, and so are those that the
\* subscription opens and those from which it has delivered.
NameInv ==
  /\ named \in {0, created}
  /\ channel <= created
  /\ got[1] <= channel
  /\ connected => channel # 0

\* Only one of the scheduled start, the retry and the listener is at work, and
\* the subscription stays connected meanwhile, so that nobody connects it to
\* another channel.
OneAtWork ==
  /\ starter \in Starting => connected /\ retry = "idle" /\ listener = "none"
  /\ retry # "idle" => connected /\ listener \notin Active
  /\ listener \in Active => connected
  /\ ~subscribed /\ closer = "idle" => listener = "none" /\ retry = "idle" /\ starter = "none"

\* The packets in a channel were sent on it, in their order, and those in a queue
\* have not been delivered.
Orderly(c) ==
  \A i \in 1..Len(box[c]) :
    /\ box[c][i] <= sent[c]
    /\ transport = "shm" => box[c][i] >= 1
    /\ transport = "mq" /\ box[c][i] # Ending =>
         /\ c = got[1] => box[c][i] > got[2]
         /\ \A j \in 1..(i - 1) : box[c][j] < box[c][i]
BoxInv ==
  /\ got[1] # 0 => got[2] <= sent[got[1]]
  /\ \A c \in Channels : Orderly(c)

\* A segment holds the last packet that was sent.
LatestInv == transport = "shm" => \A c \in Channels : Latest(c) = sent[c]

\* Nothing is sent on a channel before its constructor has ended.
BuildInv ==
  /\ building = "removed" => created < MaxChannels
  /\ building = "made" => created # 0
  /\ \A c \in live : c <= created /\ (building = "made" => c # created)
  /\ \A c \in Channels : c > created \/ (building = "made" /\ c = created) => sent[c] = 0

\* The slots get an old packet at most once for every spurious wake-up: a listener
\* that a packet has woken finds one that is newer than the last.
WakeInv ==
  /\ repeats <= spurious
  /\ listener = "notified" => transport = "shm"
  /\ Running /\ listener = "notified" /\ active[channel] /\ repeats = spurious => New

\* Until the teardown, a thread is assigned only where none is joinable, with
\* the flag cleared, which only a listener that is about to end sets again.
TeardownInv ==
  closer = "idle" =>
    /\ starter \notin {"load", "store", "join", "destroy"}
    /\ retry = "assign" => listener = "none"
    /\ \/ starter \in {"start", "assign"}
       \/ retry \in {"join", "assign"}
       \/ listener = "begin" \/ Listening
       => ~canceled

IInv == /\ TypeOK /\ NameInv /\ OneAtWork /\ BoxInv /\ LatestInv /\ BuildInv
        /\ WakeInv /\ TeardownInv /\ FailsOnlyInTeardown

-----------------------------------------------------------------------------
(* Types *)

\* What publishers create, destroy, remove or lose keeps its type.
LEMMA NamesStep ==
  ASSUME TypeOK, BuildInv, Next
  PROVE  NamesOK'
<1> USE DEF NamesOK, Channels
<1>0. NamesOK
  BY DEF TypeOK
<1>1. CASE Publish_Create
  <2>1. created + 1 \in 1..MaxChannels
    BY <1>0, <1>1, IpcAssumption DEF Publish_Create, BuildInv
  <2>2. /\ named' = created + 1 /\ created' = created + 1 /\ UNCHANGED <<transport, removing, locked>>
        /\ building' \in {"no", "made"} /\ (live' = live \/ live' = live \cup {created + 1})
        /\ \E b \in {"empty", "ready"} : built' = [built EXCEPT ![created + 1] = b]
    BY <1>1 DEF Publish_Create
  <2>3. built' \in [Channels -> {"none", "empty", "sized", "ready"}]
    <3>1. PICK b \in {"empty", "ready"} : built' = [built EXCEPT ![created + 1] = b]
      BY <2>2
    <3> QED
      BY <1>0, <3>1
  <2>4. live' \subseteq Channels
    BY <1>0, <2>1, <2>2
  <2>5. created + 1 \in 0..MaxChannels
    BY <2>1, IpcAssumption
  <2> QED
    BY <1>0, <2>2, <2>3, <2>4, <2>5
<1>6. CASE Publish_Remove \/ CrashBuilding
  <2>1. /\ UNCHANGED <<transport, created, built, live, removing, locked>>
        /\ named' \in {0, named} /\ building' \in {"no", "removed"}
    BY <1>6 DEF Publish_Remove, CrashBuilding
  <2> QED
    BY <1>0, <2>1, IpcAssumption
<1>7. CASE Publish_Truncate \/ Publish_Header
  <2>1. created \in 1..MaxChannels
    BY <1>0, <1>7, IpcAssumption DEF Publish_Truncate, Publish_Header, BuildInv
  <2>2. /\ UNCHANGED <<transport, named, created, removing, locked>>
        /\ building' \in {"no", "made"} /\ (live' = live \/ live' = live \cup {created})
        /\ \E b \in {"sized", "ready"} : built' = [built EXCEPT ![created] = b]
    BY <1>7 DEF Publish_Truncate, Publish_Header
  <2> QED
    BY <1>0, <2>1, <2>2
<1>2. ASSUME NEW c \in Channels, Destroy(c) PROVE NamesOK'
  BY <1>0, <1>2 DEF Destroy
<1>3. ASSUME NEW c \in Channels, Remove(c) PROVE NamesOK'
  BY <1>0, <1>3, IpcAssumption DEF Remove
<1>4. ASSUME NEW c \in Channels, Crash(c) PROVE NamesOK'
  BY <1>0, <1>4 DEF Crash
<1>5. CASE UNCHANGED names
  BY <1>0, <1>5 DEF names
<1> HIDE DEF NamesOK
<1> QED
  BY <1>1, <1>2, <1>3, <1>4, <1>5, <1>6, <1>7 DEF Next, Publishers, Construct, Publish, PublishEnding,
     Subscribe, CloserBegin,
     Starter, Retry, Close, Listener, StarterStart, StarterJoin, StarterAssign, StarterDrop,
     RetryCheck, RetryStart, RetryJoin, RetryAssign, CancelLoad, CancelStore, CancelJoin, DestroySub,
     CloserClear, ListenBegin, ListenUnmapped, ListenSpurious, ListenTest, ListenTimeout, ListenRelock, ListenShm, ListenMq,
     ListenSlotReturns, ListenFlag, ListenDisconnect

\* The subscription, its flags and the states of the threads keep their types.
LEMMA ThreadsStep ==
  ASSUME TypeOK, Next
  PROVE  ThreadsOK'
<1> USE DEF ThreadsOK, ListenerStates, StarterStates, CloserStates, sub, flags, tasks
<1>0. ThreadsOK /\ named \in 0..MaxChannels
  BY DEF TypeOK, NamesOK
<1>1. CASE Publishers
  BY <1>0, <1>1 DEF Publishers, Construct, Publish_Remove, Publish_Create, Publish_Truncate,
     Publish_Header, CrashBuilding, Publish, PublishEnding, Destroy, Remove, Crash, WakesListener
<1>2. CASE Subscribe
  BY <1>0, <1>2 DEF Subscribe, Connect
<1>3. CASE CloserBegin
  BY <1>0, <1>3 DEF CloserBegin, Moves
<1>4. (Join => listener' \in ListenerStates)
        /\ (Assign => listener' \in ListenerStates
                        /\ failed' \in {"no", "terminate", "system_error", "dangling", "unsized", "overwritten"})
  BY <1>0 DEF Join, Assign
<1>5. ASSUME NEW who \in {"starter", "closer"},
             CancelLoad(who) \/ CancelStore(who) \/ CancelJoin(who) \/ DestroySub(who)
      PROVE  ThreadsOK'
  <2>1. CASE CancelLoad(who)
    BY <1>0, <2>1 DEF CancelLoad, Moves, AfterCancel
  <2>2. CASE CancelStore(who)
    BY <1>0, <2>2 DEF CancelStore, Moves
  <2>3. CASE CancelJoin(who)
    BY <1>0, <2>3 DEF CancelJoin, Moves, AfterCancel, Joinable
  <2>4. CASE DestroySub(who)
    BY <1>0, <2>4 DEF DestroySub, Moves, Joinable
  <2> QED
    BY <1>5, <2>1, <2>2, <2>3, <2>4
<1>6. CASE Starter \/ Retry
  <2>1. CASE StarterStart \/ RetryStart
    BY <1>0, <2>1 DEF StarterStart, RetryStart
  <2>2. CASE StarterJoin \/ RetryJoin
    BY <1>0, <1>4, <2>2 DEF StarterJoin, RetryJoin
  <2>3. CASE StarterAssign \/ RetryAssign
    BY <1>0, <1>4, <2>3 DEF StarterAssign, RetryAssign
  <2>4. CASE StarterDrop
    BY <1>0, <2>4 DEF StarterDrop
  <2>5. CASE RetryCheck
    <3>1. channel' \in 0..MaxChannels /\ connected' \in BOOLEAN
      BY <1>0, <2>5 DEF RetryCheck, Connect
    <3>2. retry' \in {"start", "idle"}
      BY <2>5 DEF RetryCheck
    <3> QED
      BY <1>0, <2>5, <3>1, <3>2 DEF RetryCheck
  <2> QED
    BY <1>5, <1>6, <2>1, <2>2, <2>3, <2>4, <2>5 DEF Starter, Retry
<1>7. CASE CloserClear
  BY <1>0, <1>7 DEF CloserClear
<1>8. CASE Listener \/ ListenSpurious
  BY <1>0, <1>8 DEF Listener, ListenBegin, ListenUnmapped, ListenSpurious, ListenTest, ListenTimeout, ListenRelock, ListenShm, ListenMq,
     ListenSlotReturns, ListenFlag, ListenDisconnect, Listens, EndStore
<1> QED
  BY <1>1, <1>2, <1>3, <1>5, <1>6, <1>7, <1>8 DEF Next, Close

\* No step puts more into a segment or a queue than there is room for.
LEMMA BoxStep ==
  ASSUME TypeOK, NameInv, OneAtWork, Next
  PROVE  BoxOK'
<1> USE IpcAssumption DEF BoxOK, DataOK, Channels, Ending
<1>0. BoxOK /\ DataOK /\ NamesOK /\ ThreadsOK
  BY DEF TypeOK
<1>1. ASSUME NEW c \in Channels, Publish(c) PROVE BoxOK'
  <2>1. sent[c] + 1 \in 0..MaxPackets /\ transport' = transport
    BY <1>0, <1>1 DEF Publish, MayPublish, names
  <2>2. CASE transport = "shm"
    <3>1. box' = [box EXCEPT ![c] = <<sent[c] + 1>>]
      BY <1>1, <2>2 DEF Publish
    <3> QED
      BY <1>0, <2>1, <2>2, <3>1
  <2>3. CASE transport # "shm" /\ Full(c)
    <3>1. box' = [box EXCEPT ![c] = box[c]]
      BY <1>1, <2>3 DEF Publish
    <3> QED
      BY <1>0, <2>1, <2>3, <3>1
  <2>4. CASE transport # "shm" /\ ~Full(c)
    <3>1. box' = [box EXCEPT ![c] = Append(box[c], sent[c] + 1)]
      BY <1>1, <2>4 DEF Publish
    <3> QED
      BY <1>0, <2>1, <2>4, <3>1 DEF Full
  <2> QED
    BY <2>2, <2>3, <2>4
<1>2. ASSUME NEW c \in Channels, PublishEnding(c) PROVE BoxOK'
  <2>1. /\ box' = [box EXCEPT ![c] = Append(box[c], 0)] /\ ~Full(c)
        /\ transport = "mq" /\ transport' = transport
    BY <1>2 DEF PublishEnding, names
  <2> QED
    BY <1>0, <2>1 DEF Full
<1>3. ASSUME NEW c \in Channels, Destroy(c) PROVE BoxOK'
  <2>1. transport' = transport
    BY <1>3 DEF Destroy
  <2>2. CASE transport = "shm" \/ Full(c)
    <3>1. box' = [box EXCEPT ![c] = box[c]]
      BY <1>3, <2>2 DEF Destroy
    <3> QED
      BY <1>0, <2>1, <3>1
  <2>3. CASE transport # "shm" /\ ~Full(c)
    <3>1. box' = [box EXCEPT ![c] = Append(box[c], 0)]
      BY <1>3, <2>3 DEF Destroy
    <3> QED
      BY <1>0, <2>1, <2>3, <3>1 DEF Full
  <2> QED
    BY <2>2, <2>3
<1>4. CASE ListenMq
  <2>1. channel \in Channels /\ box[channel] # << >>
    BY <1>0, <1>4 DEF ListenMq, NameInv, OneAtWork, Active, ThreadsOK
  <2>2. Tail(box[channel]) \in Seq(0..MaxPackets) /\ Len(Tail(box[channel])) <= Len(box[channel])
    BY <1>0, <2>1
  <2>3. box' = [box EXCEPT ![channel] = Tail(box[channel])] /\ transport' = transport
    BY <1>4 DEF ListenMq, names
  <2>4. Len(box[channel]) \in Nat
    BY <1>0, <2>1
  <2>5. ASSUME NEW c \in Channels PROVE Len(box'[c]) <= IF transport' = "shm" THEN 1 ELSE Capacity
    <3>1. Len(box'[c]) \in Nat /\ Len(box[c]) \in Nat /\ Len(box'[c]) <= Len(box[c])
      BY <1>0, <2>1, <2>2, <2>3
    <3>2. Len(box[c]) <= IF transport = "shm" THEN 1 ELSE Capacity
      BY <1>0
    <3>3. transport' = transport
      BY <2>3
    <3> HIDE DEF BoxOK, DataOK
    <3> QED
      BY <3>1, <3>2, <3>3
  <2> QED
    BY <1>0, <2>1, <2>2, <2>3, <2>5
<1>5. CASE UNCHANGED <<transport, box>>
  BY <1>0, <1>5
<1> QED
  BY <1>1, <1>2, <1>3, <1>4, <1>5 DEF Next, Publishers, Construct, Publish_Remove, Publish_Create, Publish_Truncate,
     Publish_Header, CrashBuilding, Remove, Crash, Subscribe,
     CloserBegin, Starter, Retry, Close, Listener, StarterStart, StarterJoin, StarterAssign, StarterDrop,
     RetryCheck, RetryStart, RetryJoin, RetryAssign, CancelLoad, CancelStore, CancelJoin, DestroySub,
     CloserClear, ListenBegin, ListenUnmapped, ListenSpurious, ListenTest, ListenTimeout, ListenRelock, ListenShm,
     ListenSlotReturns, ListenFlag, ListenDisconnect, names, data

\* A listener that reads has a channel open.
LEMMA ListenerChannel ==
  ASSUME TypeOK, NameInv, OneAtWork, listener \in Active
  PROVE  channel \in Channels
BY IpcAssumption DEF TypeOK, ThreadsOK, NameInv, OneAtWork, Channels

\* What was sent, what was delivered and the active flags keep their types.
LEMMA DataStep ==
  ASSUME TypeOK, NameInv, OneAtWork, BuildInv, WakeInv, WakeInv', Next
  PROVE  DataOK'
<1> USE IpcAssumption DEF DataOK, Channels, Ending
<1>0. BoxOK /\ DataOK /\ NamesOK /\ ThreadsOK
  BY DEF TypeOK
<1>1. CASE Publish_Create \/ Publish_Header
  <2>1. /\ UNCHANGED <<sent, got, spurious, repeats>>
        /\ \/ active' = active
           \/ \E c \in {created, created + 1} : active' = [active EXCEPT ![c] = TRUE]
    BY <1>1 DEF Publish_Create, Publish_Header, wakes
  <2>2. active' \in [Channels -> BOOLEAN]
    <3>1. CASE active' = active
      BY <1>0, <3>1
    <3>2. CASE active' # active
      <4>1. PICK c \in {created, created + 1} : active' = [active EXCEPT ![c] = TRUE]
        BY <2>1, <3>2
      <4> QED
        BY <1>0, <4>1
    <3> QED
      BY <3>1, <3>2
  <2> QED
    BY <1>0, <2>1, <2>2
<1>2. ASSUME NEW c \in Channels, Publish(c) \/ PublishEnding(c) PROVE DataOK'
  <2>1. /\ UNCHANGED <<active, got, spurious, repeats>> /\ sent[c] < MaxPackets
        /\ sent' = [sent EXCEPT ![c] = sent[c] + 1]
    BY <1>2 DEF Publish, PublishEnding, MayPublish, wakes
  <2>2. sent[c] + 1 \in 0..MaxPackets
    BY <1>0, <2>1
  <2> QED
    BY <1>0, <2>1, <2>2
<1>3. ASSUME NEW c \in Channels, Destroy(c) PROVE DataOK'
  BY <1>0, <1>3 DEF Destroy, wakes
<1>4. CASE ListenShm
  <2>1. channel \in Channels
    BY <1>4, ListenerChannel DEF ListenShm, Listens, Active
  <2>2. Latest(channel) \in 0..MaxPackets
    BY <1>0, <2>1 DEF Latest, BoxOK
  <2>3. got' = got \/ got' = <<channel, Latest(channel)>>
    BY <1>4 DEF ListenShm
  <2>4. repeats' \in 0..MaxSpurious
    <3>1. repeats' \in Nat /\ repeats' <= spurious'
      BY <1>0, <1>4 DEF ListenShm, WakeInv
    <3> QED
      BY <1>0, <1>4, <3>1 DEF ListenShm
  <2> QED
    BY <1>0, <1>4, <2>1, <2>2, <2>3, <2>4 DEF ListenShm
<1>5. CASE ListenMq
  <2>1. channel \in Channels /\ box[channel] # << >>
    BY <1>5, ListenerChannel DEF ListenMq, Active
  <2>2. Head(box[channel]) \in 0..MaxPackets
    BY <1>0, <2>1 DEF BoxOK
  <2>3. got' = got \/ got' = <<channel, Head(box[channel])>>
    BY <1>5 DEF ListenMq
  <2> QED
    BY <1>0, <1>5, <2>1, <2>2, <2>3 DEF ListenMq, wakes
<1>7. CASE ListenSpurious
  BY <1>0, <1>7 DEF ListenSpurious
<1>6. CASE UNCHANGED <<active, sent, got, wakes>>
  BY <1>0, <1>6 DEF wakes
<1> QED
  BY <1>1, <1>2, <1>3, <1>4, <1>5, <1>6, <1>7 DEF Next, Publishers, Construct, Publish_Remove,
     Publish_Truncate, CrashBuilding, Remove, Crash, Subscribe,
     CloserBegin, Starter, Retry, Close, Listener, StarterStart, StarterJoin, StarterAssign, StarterDrop,
     RetryCheck, RetryStart, RetryJoin, RetryAssign, CancelLoad, CancelStore, CancelJoin, DestroySub,
     CloserClear, ListenBegin, ListenUnmapped, ListenTest, ListenTimeout, ListenRelock,
     ListenSlotReturns, ListenFlag, ListenDisconnect, data

-----------------------------------------------------------------------------
(* Who is at work *)

\* No step opens an older channel than the one that was open, or delivers from it.
LEMMA NameStep ==
  ASSUME TypeOK, NameInv, OneAtWork, Next
  PROVE  NameInv'
<1> USE IpcAssumption DEF NameInv
<1>0. /\ named \in Nat /\ created \in Nat /\ channel \in Nat /\ got[1] \in Nat
      /\ connected \in BOOLEAN
  BY DEF TypeOK, NamesOK, DataOK, ThreadsOK
<1>1. CASE Publish_Create \/ Publish_Remove
  BY <1>0, <1>1 DEF Publish_Create, Publish_Remove, data, sub, flags
<1>2. ASSUME NEW c \in Channels, Remove(c) PROVE NameInv'
  BY <1>0, <1>2 DEF Remove, data, sub, flags
<1>3. CASE Subscribe \/ RetryCheck
  BY <1>0, <1>3 DEF Subscribe, RetryCheck, Connect, names, data
<1>4. CASE ListenShm
  <2>1. got' = got \/ got'[1] = channel
    BY <1>4 DEF ListenShm
  <2> QED
    BY <1>0, <1>4, <2>1 DEF ListenShm, names, sub, flags
<1>5. CASE ListenMq
  <2>1. got' = got \/ got'[1] = channel
    BY <1>5 DEF ListenMq
  <2> QED
    BY <1>0, <1>5, <2>1 DEF ListenMq, names, sub, flags
<1>6. CASE ListenDisconnect
  BY <1>0, <1>6 DEF ListenDisconnect, EndStore, names, data, sub
<1>7. CASE UNCHANGED <<named, created, channel, got, connected>>
  BY <1>7
<1> QED
  BY <1>1, <1>2, <1>3, <1>4, <1>5, <1>6, <1>7 DEF Next, Publishers, Construct, Publish_Truncate,
     Publish_Header, CrashBuilding, Publish, PublishEnding, Destroy, Crash, CloserBegin, Starter, Retry, Close, Listener, StarterStart, StarterJoin, StarterAssign,
     StarterDrop, RetryStart, RetryJoin, RetryAssign, CancelLoad, CancelStore, CancelJoin, DestroySub,
     CloserClear, ListenBegin, ListenUnmapped, ListenSpurious, ListenTest, ListenTimeout, ListenRelock,
     ListenSlotReturns, ListenFlag, EndStore, names, data, sub, flags

\* No step puts a second task or thread to work on the subscription, and none
\* disconnects it under one that is at work.
LEMMA WorkStep ==
  ASSUME TypeOK, NameInv, OneAtWork, Next
  PROVE  OneAtWork'
<1> USE DEF OneAtWork, Active, Starting, sub, flags, tasks
<1>0. ThreadsOK
  BY DEF TypeOK
<1>1. CASE Publishers
  BY <1>0, <1>1 DEF Publishers, Construct, Publish_Remove, Publish_Create, Publish_Truncate,
     Publish_Header, CrashBuilding, Publish, PublishEnding, Destroy, Remove, Crash, WakesListener
<1>2. CASE Subscribe
  BY <1>0, <1>2 DEF Subscribe, Connect
<1>3. CASE CloserBegin
  BY <1>0, <1>3 DEF CloserBegin, Moves
<1>4. CASE StarterStart
  BY <1>0, <1>4 DEF StarterStart
<1>5. CASE StarterJoin
  BY <1>0, <1>5 DEF StarterJoin, Join, Joinable
<1>6. CASE StarterAssign
  BY <1>0, <1>6 DEF StarterAssign, Assign, Joinable
<1>7. CASE StarterDrop
  BY <1>0, <1>7 DEF StarterDrop
<1>8. CASE RetryCheck
  BY <1>0, <1>8 DEF RetryCheck, RetryConnects, Connect, ThreadsOK
<1>9. CASE RetryStart
  BY <1>0, <1>9 DEF RetryStart
<1>10. CASE RetryJoin
  BY <1>0, <1>10 DEF RetryJoin, Join, Joinable
<1>11. CASE RetryAssign
  BY <1>0, <1>11 DEF RetryAssign, Assign, Joinable
<1>12. ASSUME NEW who \in {"starter", "closer"},
              CancelLoad(who) \/ CancelStore(who) \/ CancelJoin(who) \/ DestroySub(who)
       PROVE  OneAtWork'
  <2>1. CASE CancelLoad(who)
    BY <1>0, <2>1 DEF CancelLoad, Moves, AfterCancel
  <2>2. CASE CancelStore(who)
    BY <1>0, <2>2 DEF CancelStore, Moves
  <2>3. CASE CancelJoin(who)
    BY <1>0, <2>3 DEF CancelJoin, Moves, AfterCancel, Joinable
  <2>4. CASE DestroySub(who)
    BY <1>0, <2>4 DEF DestroySub, Moves, Joinable
  <2> QED
    BY <1>12, <2>1, <2>2, <2>3, <2>4
<1>13. CASE CloserClear
  BY <1>0, <1>13 DEF CloserClear
<1>14. CASE Listener \/ ListenSpurious
  BY <1>0, <1>14 DEF Listener, ListenBegin, ListenUnmapped, ListenSpurious, ListenTest, ListenTimeout, ListenRelock, ListenShm, ListenMq,
     ListenSlotReturns, ListenFlag, ListenDisconnect, Listens, EndStore
<1> QED
  BY <1>1, <1>2, <1>3, <1>4, <1>5, <1>6, <1>7, <1>8, <1>9, <1>10, <1>11, <1>12, <1>13, <1>14
     DEF Next, Starter, Retry, Close

\* No step before the teardown ends the process or sets the flag of a listener
\* that goes on.
LEMMA TeardownStep ==
  ASSUME TypeOK, OneAtWork, TeardownInv, Next
  PROVE  TeardownInv'
<1> USE DEF TeardownInv, OneAtWork, Active, Starting, Listening, sub, flags, tasks
<1>0. ThreadsOK
  BY DEF TypeOK
<1>1. CASE Publishers
  BY <1>0, <1>1 DEF Publishers, Construct, Publish_Remove, Publish_Create, Publish_Truncate,
     Publish_Header, CrashBuilding, Publish, PublishEnding, Destroy, Remove, Crash, WakesListener
<1>2. CASE Subscribe
  BY <1>0, <1>2 DEF Subscribe
<1>3. CASE CloserBegin
  BY <1>0, <1>3 DEF CloserBegin, Moves
<1>4. CASE StarterStart
  BY <1>0, <1>4 DEF StarterStart
<1>5. CASE StarterJoin
  BY <1>0, <1>5 DEF StarterJoin, Join, Joinable
<1>6. CASE StarterAssign
  BY <1>0, <1>6 DEF StarterAssign, Assign, Joinable
<1>7. CASE StarterDrop
  BY <1>0, <1>7 DEF StarterDrop
<1>8. CASE RetryCheck
  <2>1. retry' \in {"start", "idle"} /\ UNCHANGED <<canceled, listener, starter, closer, failed>>
    BY <1>8 DEF RetryCheck
  <2> QED
    BY <1>0, <1>8, <2>1 DEF RetryCheck
<1>9. CASE RetryStart
  BY <1>0, <1>9 DEF RetryStart
<1>10. CASE RetryJoin
  BY <1>0, <1>10 DEF RetryJoin, Join, Joinable
<1>11. CASE RetryAssign
  BY <1>0, <1>11 DEF RetryAssign, Assign, Joinable
<1>12. ASSUME NEW who \in {"starter", "closer"},
              CancelLoad(who) \/ CancelStore(who) \/ CancelJoin(who) \/ DestroySub(who)
       PROVE  TeardownInv'
  <2>1. closer # "idle"
    BY <1>0, <1>12 DEF CancelLoad, CancelStore, CancelJoin, DestroySub, Moves
  <2>2. closer' # "idle"
    BY <1>0, <1>12, <2>1 DEF CancelLoad, CancelStore, CancelJoin, DestroySub, Moves, AfterCancel
  <2> QED
    BY <2>2
<1>13. CASE CloserClear
  BY <1>0, <1>13 DEF CloserClear
<1>14. CASE Listener \/ ListenSpurious
  BY <1>0, <1>14 DEF Listener, ListenBegin, ListenUnmapped, ListenSpurious, ListenTest, ListenTimeout, ListenRelock, ListenShm, ListenMq,
     ListenSlotReturns, ListenFlag, ListenDisconnect, Listens, EndStore
<1> QED
  BY <1>1, <1>2, <1>3, <1>4, <1>5, <1>6, <1>7, <1>8, <1>9, <1>10, <1>11, <1>12, <1>13, <1>14
     DEF Next, Starter, Retry, Close

-----------------------------------------------------------------------------
(* The packets in the channels *)

\* What Append does to a queue of numbers.
LEMMA AppendEntries ==
  ASSUME NEW q \in Seq(Nat), NEW x \in Nat
  PROVE  /\ Len(Append(q, x)) = Len(q) + 1 /\ Append(q, x)[Len(q) + 1] = x
         /\ \A i \in 1..Len(q) : Append(q, x)[i] = q[i] /\ q[i] \in Nat
         /\ Len(q) \in Nat
OBVIOUS

\* The boxes hold numbers.
LEMMA BoxEntries ==
  ASSUME TypeOK, NEW c \in Channels
  PROVE  box[c] \in Seq(Nat) /\ \A i \in 1..Len(box[c]) : box[c][i] \in Nat
<1>1. box[c] \in Seq(0..MaxPackets)
  BY DEF TypeOK, BoxOK
<1> QED
  BY <1>1, IpcAssumption

\* A channel whose box is left as it is, or gets one more packet that is new or
\* "ending", keeps its packets in order.
LEMMA OrderlyAppend ==
  ASSUME TypeOK, BoxInv, NEW c \in Channels, UNCHANGED <<transport, got>>,
         sent'[c] \in Nat, sent'[c] >= sent[c],
         \/ box'[c] = box[c]
         \/ transport = "mq" /\ box'[c] = Append(box[c], Ending)
         \/ transport = "mq" /\ box'[c] = Append(box[c], sent[c] + 1) /\ sent'[c] = sent[c] + 1
         \/ transport = "shm" /\ box'[c] = <<sent[c] + 1>> /\ sent'[c] = sent[c] + 1
  PROVE  Orderly(c)'
<1> USE DEF Channels, Ending
<1>1. /\ box[c] \in Seq(0..MaxPackets) /\ sent[c] \in Nat /\ got[1] \in Nat /\ got[2] \in Nat
      /\ c = got[1] => got[2] <= sent[c]
  BY IpcAssumption DEF TypeOK, BoxOK, DataOK, BoxInv
<1>2. Orderly(c)
  BY DEF BoxInv
<1>3. CASE box'[c] = box[c]
  <2>1. \A i \in 1..Len(box[c]) : box[c][i] \in Nat
    BY BoxEntries
  <2>2. \A i \in 1..Len(box[c]) : box[c][i] <= sent'[c]
    <3>1. \A i \in 1..Len(box[c]) : box[c][i] <= sent[c]
      BY <1>2 DEF Orderly
    <3>2. sent[c] \in Nat /\ sent'[c] \in Nat /\ sent[c] <= sent'[c]
      BY <1>1
    <3> HIDE DEF Channels
    <3> QED
      BY <2>1, <3>1, <3>2
  <2>3. transport' = transport /\ got' = got
    OBVIOUS
  <2> HIDE DEF Channels
  <2> QED
    BY <1>2, <1>3, <2>2, <2>3 DEF Orderly
<1>4. ASSUME NEW x \in Nat, box'[c] = Append(box[c], x), transport = "mq",
             x = 0 \/ (x = sent[c] + 1 /\ sent'[c] = sent[c] + 1)
      PROVE  Orderly(c)'
  <2>1. /\ Len(box'[c]) = Len(box[c]) + 1 /\ box'[c][Len(box[c]) + 1] = x
        /\ \A i \in 1..Len(box[c]) : box'[c][i] = box[c][i] /\ box[c][i] \in Nat
        /\ Len(box[c]) \in Nat
    <3>1. box[c] \in Seq(Nat)
      BY BoxEntries
    <3> QED
      BY <1>4, <3>1, AppendEntries
  <2>2. ASSUME NEW i \in 1..Len(box[c])
        PROVE  /\ box'[c][i] <= sent'[c]
               /\ box'[c][i] # 0 => /\ c = got[1] => box'[c][i] > got[2]
                                    /\ \A j \in 1..(i - 1) : box'[c][j] < box'[c][i]
    BY <1>1, <1>2, <1>4, <2>1 DEF Orderly
  <2>3. ASSUME x # 0
        PROVE  /\ c = got[1] => x > got[2]
               /\ \A j \in 1..Len(box[c]) : box'[c][j] < x
    BY <1>1, <1>2, <1>4, <2>1, <2>3 DEF Orderly
  <2>4. x <= sent'[c]
    BY <1>1, <1>4
  <2>5. SUFFICES ASSUME NEW i \in 1..Len(box'[c])
                 PROVE  /\ box'[c][i] <= sent'[c]
                        /\ box'[c][i] # 0 => /\ c = got[1] => box'[c][i] > got[2]
                                             /\ \A j \in 1..(i - 1) : box'[c][j] < box'[c][i]
    BY <1>4 DEF Orderly
  <2>6. CASE i = Len(box[c]) + 1
    BY <2>1, <2>3, <2>4, <2>6
  <2>7. CASE i # Len(box[c]) + 1
    BY <2>1, <2>2, <2>7
  <2> QED
    BY <2>6, <2>7
<1>5. CASE transport = "shm" /\ box'[c] = <<sent[c] + 1>> /\ sent'[c] = sent[c] + 1
  BY <1>1, <1>5 DEF Orderly
<1> QED
  BY <1>1, <1>3, <1>4, <1>5

\* Every step keeps the packets of the channels in order: a packet that leaves a
\* queue leaves with those before it, and those behind it are newer.
LEMMA BoxInvStep ==
  ASSUME TypeOK, NameInv, OneAtWork, BoxInv, Next
  PROVE  BoxInv'
<1> USE IpcAssumption DEF Channels, Ending
<1>0. /\ sent \in [Channels -> Nat] /\ got[1] \in 0..MaxChannels /\ got[2] \in Nat
      /\ box \in [Channels -> Seq(0..MaxPackets)] /\ got = <<got[1], got[2]>>
  BY DEF TypeOK, BoxOK, DataOK
<1>1. ASSUME NEW c \in Channels, Publish(c) \/ PublishEnding(c) \/ Destroy(c) PROVE BoxInv'
  <2>1. UNCHANGED <<transport, got>>
    BY <1>1 DEF Publish, PublishEnding, Destroy, names
  <2>2. /\ sent' = sent \/ sent' = [sent EXCEPT ![c] = sent[c] + 1]
        /\ \A d \in Channels : sent'[d] \in Nat /\ sent'[d] >= sent[d]
    <3>1. sent' = sent \/ sent' = [sent EXCEPT ![c] = sent[c] + 1]
      BY <1>1 DEF Publish, PublishEnding, Destroy
    <3>2. CASE sent' = sent
      BY <1>0, <3>2
    <3>3. CASE sent' = [sent EXCEPT ![c] = sent[c] + 1]
      <4>1. ASSUME NEW d \in Channels
            PROVE  sent'[d] = IF d = c THEN sent[c] + 1 ELSE sent[d]
        BY <1>0, <3>3
      <4>2. ASSUME NEW d \in Channels PROVE sent'[d] \in Nat /\ sent'[d] >= sent[d]
        <5>1. sent[d] \in Nat /\ sent[c] \in Nat
          BY <1>0
        <5> QED
          BY <4>1, <5>1
      <4> QED
        BY <3>3, <4>2
    <3> QED
      BY <3>1, <3>2, <3>3
  <2>3. /\ \A d \in Channels : d # c => box'[d] = box[d]
        /\ \/ box'[c] = box[c]
           \/ transport = "mq" /\ box'[c] = Append(box[c], 0)
           \/ transport = "mq" /\ box'[c] = Append(box[c], sent[c] + 1) /\ sent'[c] = sent[c] + 1
           \/ transport = "shm" /\ box'[c] = <<sent[c] + 1>> /\ sent'[c] = sent[c] + 1
    <3>1. transport \in {"shm", "mq"}
      BY DEF TypeOK, NamesOK
    <3>2. CASE Publish(c)
      <4>1. sent'[c] = sent[c] + 1
        BY <1>0, <3>2 DEF Publish
      <4>2. CASE transport = "shm"
        <5>1. box' = [box EXCEPT ![c] = <<sent[c] + 1>>]
          BY <3>2, <4>2 DEF Publish
        <5> QED
          BY <1>0, <4>1, <4>2, <5>1
      <4>3. CASE transport # "shm" /\ Full(c)
        <5>1. box' = [box EXCEPT ![c] = box[c]]
          BY <3>2, <4>3 DEF Publish
        <5> QED
          BY <1>0, <5>1
      <4>4. CASE transport # "shm" /\ ~Full(c)
        <5>1. box' = [box EXCEPT ![c] = Append(box[c], sent[c] + 1)]
          BY <3>2, <4>4 DEF Publish
        <5> QED
          BY <1>0, <3>1, <4>1, <4>4, <5>1
      <4> QED
        BY <4>2, <4>3, <4>4
    <3>3. CASE PublishEnding(c)
      <4>1. box' = [box EXCEPT ![c] = Append(box[c], 0)] /\ transport = "mq"
        BY <3>3 DEF PublishEnding
      <4> QED
        BY <1>0, <4>1
    <3>4. CASE Destroy(c)
      <4>1. CASE transport = "shm" \/ Full(c)
        <5>1. box' = [box EXCEPT ![c] = box[c]]
          BY <3>4, <4>1 DEF Destroy
        <5> QED
          BY <1>0, <5>1
      <4>2. CASE transport # "shm" /\ ~Full(c)
        <5>1. box' = [box EXCEPT ![c] = Append(box[c], 0)]
          BY <3>4, <4>2 DEF Destroy
        <5> QED
          BY <1>0, <3>1, <4>2, <5>1
      <4> QED
        BY <4>1, <4>2
    <3> QED
      BY <1>1, <3>2, <3>3, <3>4
  <2>4. ASSUME NEW d \in Channels PROVE Orderly(d)'
    <3>1. /\ sent'[d] \in Nat /\ sent'[d] >= sent[d]
          /\ \/ box'[d] = box[d]
             \/ transport = "mq" /\ box'[d] = Append(box[d], 0)
             \/ transport = "mq" /\ box'[d] = Append(box[d], sent[d] + 1) /\ sent'[d] = sent[d] + 1
             \/ transport = "shm" /\ box'[d] = <<sent[d] + 1>> /\ sent'[d] = sent[d] + 1
      BY <2>2, <2>3
    <3> QED
      BY <2>1, <3>1, OrderlyAppend
  <2>5. got'[1] # 0 => got'[2] <= sent'[got'[1]]
    <3> SUFFICES ASSUME got[1] # 0 PROVE got[2] <= sent'[got[1]]
      BY <2>1
    <3>1. got[1] \in Channels /\ got[2] <= sent[got[1]]
      BY <1>0 DEF BoxInv
    <3>2. sent'[got[1]] \in Nat /\ sent'[got[1]] >= sent[got[1]] /\ sent[got[1]] \in Nat
      BY <1>0, <2>2, <3>1
    <3> QED
      BY <1>0, <3>1, <3>2
  <2> QED
    BY <2>4, <2>5 DEF BoxInv
<1>2. CASE ListenShm
  <2>1. channel \in Channels
    BY <1>2, ListenerChannel DEF ListenShm, Listens, Active
  <2>2. Orderly(channel)
    BY <2>1 DEF BoxInv
  <2>3. Latest(channel) <= sent[channel]
    <3>1. CASE box[channel] = << >>
      BY <1>0, <2>1, <3>1 DEF Latest
    <3>2. CASE box[channel] # << >>
      <4>1. 1 \in 1..Len(box[channel])
        BY <1>0, <2>1, <3>2
      <4> QED
        BY <2>2, <3>2, <4>1 DEF Latest, Orderly
    <3> QED
      BY <3>1, <3>2
  <2>4. got' = got \/ got' = <<channel, Latest(channel)>>
    BY <1>2 DEF ListenShm
  <2>5. UNCHANGED <<transport, box, sent>> /\ transport = "shm"
    BY <1>2 DEF ListenShm, names
  <2>6. got'[1] # 0 => got'[2] <= sent'[got'[1]]
    BY <2>3, <2>4, <2>5 DEF BoxInv
  <2> QED
    BY <2>5, <2>6 DEF BoxInv, Orderly
<1>3. CASE ListenMq
  <2>1. channel \in Channels /\ box[channel] # << >>
    BY <1>3, ListenerChannel DEF ListenMq, Active
  <2>2. Orderly(channel)
    BY <2>1 DEF BoxInv
  <2> DEFINE p == Head(box[channel])
  <2>3. /\ UNCHANGED <<transport, sent>> /\ transport = "mq"
        /\ box' = [box EXCEPT ![channel] = Tail(box[channel])]
        /\ got' = got \/ (p # 0 /\ got' = <<channel, p>>)
    BY <1>3 DEF ListenMq, names
  <2>4. /\ p = box[channel][1] /\ 1 \in 1..Len(box[channel]) /\ p \in Nat
        /\ Len(box[channel]) \in Nat
        /\ \A i \in 1..Len(box[channel]) : box[channel][i] \in Nat
    BY <1>0, <2>1
  <2>5. p <= sent[channel]
    BY <2>2, <2>4 DEF Orderly
  <2>6. got'[1] # 0 => got'[2] <= sent'[got'[1]]
    BY <2>3, <2>5 DEF BoxInv
  <2>7. ASSUME NEW c \in Channels, c # channel PROVE Orderly(c)'
    <3>1. Orderly(c) /\ box'[c] = box[c]
      BY <1>0, <2>3, <2>7 DEF BoxInv
    <3>2. c = got'[1] => got' = got
      BY <2>3, <2>7
    <3> QED
      BY <2>3, <3>1, <3>2 DEF Orderly
  <2>8. Orderly(channel)'
    <3> DEFINE q == box[channel]
               r == box'[channel]
    <3>1. /\ Len(r) = Len(q) - 1 /\ \A i \in 1..Len(r) : r[i] = q[i + 1]
      <4>1. r = Tail(q)
        BY <1>0, <2>1, <2>3
      <4>2. q \in Seq(0..MaxPackets) /\ q # << >>
        BY <1>0, <2>1
      <4> HIDE DEF q, r
      <4> QED
        BY <4>1, <4>2
    <3>2. channel' = channel
      BY <1>3 DEF ListenMq, sub
    <3>3. ASSUME NEW i \in 1..Len(r)
          PROVE  /\ r[i] <= sent[channel]
                 /\ r[i] # 0 => /\ channel = got'[1] => r[i] > got'[2]
                                /\ \A j \in 1..(i - 1) : r[j] < r[i]
      <4>1. i + 1 \in 1..Len(q) /\ r[i] = q[i + 1] /\ i \in Nat
        BY <2>4, <3>1
      <4>2. /\ q[i + 1] <= sent[channel]
            /\ q[i + 1] # 0 => /\ channel = got[1] => q[i + 1] > got[2]
                               /\ \A j \in 1..i : q[j] < q[i + 1]
        BY <2>2, <2>3, <4>1 DEF Orderly
      <4>3. \A j \in 1..(i - 1) : r[j] = q[j + 1] /\ j + 1 \in 1..i
        BY <2>4, <3>1
      <4>4. q[i + 1] # 0 => p < q[i + 1]
        BY <2>4, <4>1, <4>2
      <4> HIDE DEF p, q, r
      <4> QED
        BY <2>3, <4>1, <4>2, <4>3, <4>4
    <3> HIDE DEF q
    <3> QED
      BY <2>3, <3>2, <3>3 DEF Orderly
  <2> QED
    BY <2>6, <2>7, <2>8, <1>3 DEF BoxInv, ListenMq, sub
<1>4. CASE UNCHANGED <<transport, box, sent, got>>
  BY <1>4 DEF BoxInv, Orderly
<1> QED
  BY <1>1, <1>2, <1>3, <1>4 DEF Next, Publishers, Construct, Publish_Remove, Publish_Create, Publish_Truncate,
     Publish_Header, CrashBuilding, Remove, Crash, Subscribe,
     CloserBegin, Starter, Retry, Close, Listener, StarterStart, StarterJoin, StarterAssign, StarterDrop,
     RetryCheck, RetryStart, RetryJoin, RetryAssign, CancelLoad, CancelStore, CancelJoin, DestroySub,
     CloserClear, ListenBegin, ListenUnmapped, ListenSpurious, ListenTest, ListenTimeout, ListenRelock,
     ListenSlotReturns, ListenFlag, ListenDisconnect, names, data

\* The segment holds the last packet after every publish, and empty ones are of
\* segments in which nothing was published.
LEMMA LatestStep ==
  ASSUME TypeOK, LatestInv, Next
  PROVE  LatestInv'
<1> USE DEF LatestInv
<1>0. /\ sent \in [Channels -> 0..MaxPackets] /\ box \in [Channels -> Seq(0..MaxPackets)]
      /\ \A c \in Channels : transport = "shm" => (Latest(c) = sent[c])
  BY DEF TypeOK, BoxOK, DataOK
<1>1. ASSUME NEW c \in Channels, Publish(c) PROVE LatestInv'
  <2>1. /\ transport' = transport /\ sent' = [sent EXCEPT ![c] = sent[c] + 1]
        /\ transport = "shm" => box' = [box EXCEPT ![c] = <<sent[c] + 1>>]
    BY <1>1 DEF Publish, names
  <2> SUFFICES ASSUME transport = "shm", NEW d \in Channels PROVE Latest(d)' = sent'[d]
    BY <2>1
  <2>2. CASE d = c
    <3>1. box'[c] = <<sent[c] + 1>> /\ sent'[c] = sent[c] + 1
      BY <1>0, <2>1
    <3>2. <<sent[c] + 1>> # << >> /\ <<sent[c] + 1>>[1] = sent[c] + 1
      OBVIOUS
    <3> QED
      BY <2>2, <3>1, <3>2 DEF Latest
  <2>3. CASE d # c
    <3>1. box'[d] = box[d] /\ sent'[d] = sent[d]
      BY <1>0, <2>1, <2>3
    <3> QED
      BY <1>0, <3>1 DEF Latest
  <2> QED
    BY <2>2, <2>3
<1>2. ASSUME NEW c \in Channels, Destroy(c) PROVE LatestInv'
  <2>1. /\ UNCHANGED <<transport, sent>>
        /\ transport = "shm" => box' = [box EXCEPT ![c] = box[c]]
    BY <1>2 DEF Destroy
  <2>2. transport = "shm" => box' = box
    BY <1>0, <2>1
  <2> QED
    BY <1>0, <2>1, <2>2 DEF Latest
<1>3. CASE ListenMq \/ \E c \in Channels : PublishEnding(c)
  BY <1>3 DEF ListenMq, PublishEnding, names
<1>4. CASE UNCHANGED <<transport, box, sent>>
  BY <1>0, <1>4 DEF Latest
<1> HIDE DEF LatestInv
<1> QED
  BY <1>1, <1>2, <1>3, <1>4 DEF Next, Publishers, Construct, Publish_Remove, Publish_Create, Publish_Truncate,
     Publish_Header, CrashBuilding, Remove, Crash, Subscribe,
     CloserBegin, Starter, Retry, Close, Listener, StarterStart, StarterJoin, StarterAssign, StarterDrop,
     RetryCheck, RetryStart, RetryJoin, RetryAssign, CancelLoad, CancelStore, CancelJoin, DestroySub,
     CloserClear, ListenBegin, ListenUnmapped, ListenSpurious, ListenTest, ListenTimeout, ListenRelock,
     ListenShm, ListenSlotReturns, ListenFlag, ListenDisconnect, names, data

\* A publisher object exists from the end of its constructor, and only an object
\* that exists publishes.
LEMMA BuildStep ==
  ASSUME TypeOK, BuildInv, Next
  PROVE  BuildInv'
<1> USE IpcAssumption DEF BuildInv, Channels
<1>0. /\ created \in 0..MaxChannels /\ live \subseteq Channels /\ sent \in [Channels -> 0..MaxPackets]
      /\ building \in {"no", "removed", "made"}
  BY DEF TypeOK, NamesOK, DataOK
<1>1. CASE Publish_Remove \/ CrashBuilding
  BY <1>0, <1>1 DEF Publish_Remove, CrashBuilding, data
<1>2. CASE Publish_Create
  <2>1. /\ created' = created + 1 /\ sent' = sent /\ created < MaxChannels /\ building = "removed"
        /\ \/ building' = "made" /\ live' = live
           \/ building' = "no" /\ live' = live \cup {created + 1}
    BY <1>2 DEF Publish_Create, BuildInv, data
  <2>2. \A c \in Channels : c > created => sent[c] = 0
    OBVIOUS
  <2>3. \A c \in Channels : c > created + 1 \/ c = created + 1 => c > created
    BY <1>0
  <2>4. \A c \in live : c <= created + 1 /\ c # created + 1
    BY <1>0
  <2>5. (building' = "removed" => created' < MaxChannels) /\ (building' = "made" => created' # 0)
    BY <1>0, <2>1
  <2>6. \A c \in live' : c <= created' /\ (building' = "made" => c # created')
    <3>1. CASE building' = "made" /\ live' = live
      BY <2>1, <2>4, <3>1
    <3>2. CASE building' = "no" /\ live' = live \cup {created + 1}
      BY <1>0, <2>1, <2>4, <3>2
    <3> QED
      BY <2>1, <3>1, <3>2
  <2>7. \A c \in Channels : c > created' \/ (building' = "made" /\ c = created') => sent'[c] = 0
    BY <2>1, <2>2, <2>3
  <2> QED
    BY <2>5, <2>6, <2>7
<1>3. CASE Publish_Truncate \/ Publish_Header
  <2>1. /\ UNCHANGED <<created, sent>> /\ building = "made" /\ created # 0
        /\ \/ building' = "made" /\ live' = live
           \/ building' = "no" /\ live' = live \cup {created}
    BY <1>3 DEF Publish_Truncate, Publish_Header, BuildInv, data
  <2>2. (building' = "removed" => created' < MaxChannels) /\ (building' = "made" => created' # 0)
    BY <1>0, <2>1
  <2>3. \A c \in live' : c <= created' /\ (building' = "made" => c # created')
    <3>1. CASE building' = "made" /\ live' = live
      BY <2>1, <3>1
    <3>2. CASE building' = "no" /\ live' = live \cup {created}
      BY <1>0, <2>1, <3>2
    <3> QED
      BY <2>1, <3>1, <3>2
  <2>4. \A c \in Channels : c > created' \/ (building' = "made" /\ c = created') => sent'[c] = 0
    BY <2>1
  <2> QED
    BY <2>2, <2>3, <2>4
<1>4. ASSUME NEW c \in Channels, Publish(c) \/ PublishEnding(c) PROVE BuildInv'
  <2>1. /\ UNCHANGED <<building, created, live>> /\ c \in live
        /\ sent' = [sent EXCEPT ![c] = sent[c] + 1]
    BY <1>4 DEF Publish, PublishEnding, MayPublish, names
  <2> QED
    BY <1>0, <2>1
<1>5. ASSUME NEW c \in Channels, Destroy(c) \/ Remove(c) \/ Crash(c) PROVE BuildInv'
  BY <1>0, <1>5 DEF Destroy, Remove, Crash, data
<1>6. CASE UNCHANGED <<building, created, live, sent>>
  BY <1>6
<1> HIDE DEF BuildInv
<1> QED
  BY <1>1, <1>2, <1>3, <1>4, <1>5, <1>6 DEF Next, Publishers, Construct, Subscribe,
     CloserBegin, Starter, Retry, Close, Listener, StarterStart, StarterJoin, StarterAssign, StarterDrop,
     RetryCheck, RetryStart, RetryJoin, RetryAssign, CancelLoad, CancelStore, CancelJoin, DestroySub,
     CloserClear, ListenBegin, ListenUnmapped, ListenSpurious, ListenTest, ListenTimeout, ListenRelock,
     ListenShm, ListenMq, ListenSlotReturns, ListenFlag, ListenDisconnect, names, data

\* A listener wakes because of a packet that is newer than all that it delivered,
\* and finds this packet or a newer one while the publisher is there; or it wakes
\* for nothing, which is counted.
LEMMA WakeInvStep ==
  ASSUME TypeOK, NameInv, OneAtWork, BoxInv, WakeInv, Next
  PROVE  WakeInv'
<1> USE IpcAssumption DEF WakeInv
<1>0. /\ sent \in [Channels -> Nat] /\ active \in [Channels -> BOOLEAN]
      /\ got[1] \in Nat /\ got[2] \in Nat /\ channel \in 0..MaxChannels /\ created \in 0..MaxChannels
      /\ box \in [Channels -> Seq(0..MaxPackets)] /\ transport \in {"shm", "mq"}
      /\ repeats \in Nat /\ spurious \in Nat
  BY DEF TypeOK, BoxOK, DataOK, ThreadsOK, NamesOK, Channels
<1>a. listener = "notified" => channel \in Channels
  BY ListenerChannel DEF Active
<1>1. CASE Publish_Create
  <2>1. /\ UNCHANGED <<transport, box, got, channel, listener, repeats, spurious, failed>>
        /\ active' = [active EXCEPT ![created + 1] = TRUE] \/ active' = active
    BY <1>1 DEF Publish_Create, sub, wakes
  <2>2. channel # created + 1
    BY <1>0 DEF NameInv
  <2>3. listener = "notified" => active'[channel] = active[channel]
    BY <1>0, <1>a, <2>1, <2>2
  <2> QED
    BY <2>1, <2>3 DEF New, Latest, Running
<1>11. CASE Publish_Header
  <2>1. /\ UNCHANGED <<transport, box, got, channel, listener, repeats, spurious>>
        /\ active' = [active EXCEPT ![created] = TRUE]
        /\ failed' = IF Maps(created) THEN "overwritten" ELSE failed
    BY <1>11 DEF Publish_Header, sub, wakes
  <2>2. CASE Maps(created)
    BY <2>1, <2>2 DEF Running
  <2>3. CASE ~Maps(created)
    <3>1. listener = "notified" => channel # created
      BY <2>3 DEF Maps
    <3>2. listener = "notified" => active'[channel] = active[channel]
      BY <1>0, <1>a, <2>1, <3>1
    <3> QED
      BY <2>1, <2>3, <3>2 DEF New, Latest, Running
  <2> QED
    BY <2>2, <2>3
<1>2. ASSUME NEW c \in Channels, Publish(c) PROVE WakeInv'
  <2>1. UNCHANGED <<transport, active, got, channel, repeats, spurious, failed>>
    BY <1>2 DEF Publish, names, sub, wakes
  <2>2. CASE transport = "shm"
    <3>1. box' = [box EXCEPT ![c] = <<sent[c] + 1>>]
      BY <1>2, <2>2 DEF Publish
    <3>2. CASE channel = c
      <4>1. c = got[1] => got[2] < sent[c] + 1
        BY <1>0, <3>2 DEF BoxInv, Channels
      <4>2. box'[c] = <<sent[c] + 1>>
        BY <1>0, <3>1
      <4>3. Latest(c)' = sent[c] + 1
        <5>1. <<sent[c] + 1>> # << >> /\ <<sent[c] + 1>>[1] = sent[c] + 1
          OBVIOUS
        <5> QED
          BY <4>2, <5>1 DEF Latest
      <4>4. New'
        <5>1. sent[c] \in Nat
          BY <1>0
        <5> QED
          BY <2>1, <3>2, <4>1, <4>3, <5>1 DEF New
      <4> QED
        BY <2>1, <2>2, <4>4
    <3>3. CASE channel # c
      <4>1. listener' = listener
        BY <1>2, <3>3 DEF Publish, WakesListener
      <4>2. listener = "notified" => box'[channel] = box[channel]
        BY <1>0, <1>a, <3>1, <3>3
      <4> QED
        BY <2>1, <4>1, <4>2 DEF New, Latest, Running
    <3> QED
      BY <3>2, <3>3
  <2>3. CASE transport # "shm"
    <3>1. listener' = listener
      BY <1>2, <2>3 DEF Publish, WakesListener
    <3> QED
      BY <2>1, <2>3, <3>1
  <2> QED
    BY <2>2, <2>3
<1>3. ASSUME NEW c \in Channels, PublishEnding(c) PROVE WakeInv'
  BY <1>3 DEF PublishEnding, names, sub, wakes
<1>4. ASSUME NEW c \in Channels, Destroy(c) PROVE WakeInv'
  <2>1. /\ UNCHANGED <<transport, got, channel, repeats, spurious, failed>>
        /\ active' = [active EXCEPT ![c] = FALSE]
    BY <1>4 DEF Destroy, sub, wakes
  <2>2. CASE channel = c
    <3>1. listener' # listener => transport = "shm"
      BY <1>4 DEF Destroy, WakesListener
    <3> QED
      BY <1>0, <2>1, <2>2, <3>1
  <2>3. CASE channel # c
    <3>1. listener' = listener
      BY <1>4, <2>3 DEF Destroy, WakesListener
    <3>2. listener = "notified" => box'[channel] = box[channel] /\ active'[channel] = active[channel]
      <4>1. box' = [box EXCEPT ![c] = box'[c]]
        BY <1>0, <1>4 DEF Destroy
      <4> QED
        BY <1>0, <1>a, <2>1, <2>3, <4>1
    <3> QED
      BY <2>1, <3>1, <3>2 DEF New, Latest, Running
  <2> QED
    BY <2>2, <2>3
<1>5. CASE Subscribe \/ RetryCheck
  <2>1. listener # "notified" /\ listener' = listener /\ UNCHANGED <<repeats, spurious>>
    BY <1>5 DEF Subscribe, RetryCheck, RetryConnects, OneAtWork, Active, data, wakes
  <2> QED
    BY <2>1
<1>6. CASE /\ UNCHANGED <<transport, active, box, got, wakes, channel>>
           /\ \/ listener' = listener /\ (Running' => Running)
              \/ listener' # "notified"
  BY <1>6 DEF New, Latest, wakes
<1>7. CASE ListenShm
  <2>1. listener' # "notified" /\ spurious' = spurious /\ listener = "notified" /\ Running
    BY <1>7 DEF ListenShm, Listens
  <2>2. repeats' <= spurious
    <3>1. ~Inactive /\ ~New => repeats < spurious
      BY <1>0, <2>1 DEF Inactive
    <3> QED
      BY <1>0, <1>7, <3>1 DEF ListenShm
  <2> QED
    BY <2>1, <2>2
<1>12. CASE ListenMq
  <2>1. listener' # "notified" /\ UNCHANGED <<repeats, spurious>>
    BY <1>12 DEF ListenMq, Listens, wakes
  <2> QED
    BY <2>1
<1>13. CASE ListenSpurious
  <2>1. repeats' = repeats /\ spurious' = spurious + 1 /\ transport' = transport /\ transport = "shm"
    BY <1>13 DEF ListenSpurious, names
  <2> QED
    BY <1>0, <2>1
<1>8. CASE StarterJoin \/ RetryJoin \/ StarterAssign \/ RetryAssign
  <2>1. UNCHANGED <<transport, active, box, got, wakes, channel>>
    BY <1>8 DEF StarterJoin, RetryJoin, StarterAssign, RetryAssign, names, data, sub
  <2>2. Running
    BY <1>8 DEF StarterJoin, RetryJoin, StarterAssign, RetryAssign
  <2>3. listener' = listener \/ listener' # "notified"
    BY <1>8 DEF StarterJoin, RetryJoin, StarterAssign, RetryAssign, Join, Assign
  <2> QED
    BY <1>6, <2>1, <2>2, <2>3
<1>9. ASSUME NEW who \in {"starter", "closer"}, CancelJoin(who) PROVE WakeInv'
  <2>1. UNCHANGED <<transport, active, box, got, wakes, channel>>
    BY <1>9 DEF CancelJoin, names, data, sub
  <2>2. Running
    BY <1>9 DEF CancelJoin, Moves
  <2>3. listener' = listener \/ listener' # "notified"
    BY <1>9 DEF CancelJoin
  <2> QED
    BY <1>6, <2>1, <2>2, <2>3
<1>10. CASE Listener
  <2>1. CASE ListenShm \/ ListenMq
    BY <1>7, <1>12, <2>1
  <2>2. CASE ~(ListenShm \/ ListenMq)
    BY <1>6, <1>10, <2>2 DEF Listener, ListenBegin, ListenUnmapped, ListenTest, ListenTimeout, ListenRelock,
       ListenSlotReturns, ListenFlag, ListenDisconnect, Listens, names, data, sub
  <2> QED
    BY <2>1, <2>2
<1>14. CASE CloserClear \/ \E who \in {"starter", "closer"} : DestroySub(who)
  <2>1. UNCHANGED <<transport, active, box, got, wakes, channel, listener>> /\ Running
    BY <1>14 DEF CloserClear, DestroySub, Moves, names, data, sub
  <2> QED
    BY <1>6, <2>1
<1>15. CASE UNCHANGED <<transport, active, box, got, wakes, channel, listener, failed>>
  BY <1>6, <1>15 DEF Running
<1> HIDE DEF WakeInv
<1> QED
  BY <1>1, <1>2, <1>3, <1>4, <1>5, <1>8, <1>9, <1>10, <1>11, <1>13, <1>14, <1>15 DEF Next, Publishers,
     Construct, Publish_Remove, Publish_Truncate, CrashBuilding, Remove, Crash,
     CloserBegin, Starter, Retry, Close, StarterStart, StarterDrop,
     RetryStart, CancelLoad, CancelStore, names, data, sub

\* No step before the teardown ends the process, but for a listener that maps a
\* segment of size zero and a constructor that copies over a mutex in use.
LEMMA FailsStep ==
  ASSUME TypeOK, OneAtWork, BuildInv, TeardownInv, FailsOnlyInTeardown, Next
  PROVE  FailsOnlyInTeardown'
<1> USE DEF FailsOnlyInTeardown
<1>0. created \in 0..MaxChannels /\ ThreadsOK
  BY DEF TypeOK, NamesOK
<1>1. Running
  BY DEF Next, Publishers, Construct, Publish_Remove, Publish_Create, Publish_Truncate,
     Publish_Header, CrashBuilding, Publish, PublishEnding, MayPublish, Destroy, Remove, Crash, Subscribe,
     CloserBegin, Starter, Retry, Close, Listener, StarterStart, StarterJoin, StarterAssign, StarterDrop,
     RetryCheck, RetryStart, RetryJoin, RetryAssign, CancelLoad, CancelStore, CancelJoin, DestroySub,
     CloserClear, ListenBegin, ListenUnmapped, ListenSpurious, ListenTest, ListenTimeout, ListenRelock,
     ListenShm, ListenMq, ListenSlotReturns, ListenFlag, ListenDisconnect, Moves, Listens
<1>2. CASE Publish_Header
  <2>1. /\ UNCHANGED <<transport, created, channel, listener, sent>>
        /\ failed' = IF Maps(created) THEN "overwritten" ELSE failed
    BY <1>2 DEF Publish_Header, sub
  <2>2. sent[created] = 0
    BY <1>0, <1>2, IpcAssumption DEF Publish_Header, BuildInv, Channels
  <2> QED
    BY <1>1, <2>1, <2>2 DEF Maps, Running
<1>3. CASE ListenUnmapped
  BY <1>3 DEF ListenUnmapped, names, sub
<1>4. CASE StarterAssign \/ RetryAssign
  BY <1>0, <1>1, <1>4 DEF StarterAssign, RetryAssign, Assign, Joinable, OneAtWork, Starting, TeardownInv,
     Running, tasks
<1>5. CASE CloserClear \/ \E who \in {"starter", "closer"} : CancelJoin(who) \/ DestroySub(who)
  <2>1. closer # "idle"
    BY <1>5 DEF CloserClear, CancelJoin, DestroySub, Moves, TeardownInv
  <2>2. closer' # "idle"
    BY <1>5, <2>1 DEF CloserClear, CancelJoin, DestroySub, Moves, AfterCancel
  <2> QED
    BY <2>2
<1>6. CASE failed' = failed
  BY <1>1, <1>6 DEF Running
<1> HIDE DEF FailsOnlyInTeardown
<1> QED
  BY <1>2, <1>3, <1>4, <1>5, <1>6 DEF Next, Publishers, Construct, Publish_Remove, Publish_Create,
     Publish_Truncate, CrashBuilding, Publish, PublishEnding, Destroy, Remove, Crash, Subscribe,
     CloserBegin, Starter, Retry, Close, Listener, StarterStart, StarterJoin, StarterDrop,
     RetryCheck, RetryStart, RetryJoin, CancelLoad, CancelStore,
     ListenBegin, ListenSpurious, ListenTest, ListenTimeout, ListenRelock,
     ListenShm, ListenMq, ListenSlotReturns, ListenFlag, ListenDisconnect

-----------------------------------------------------------------------------
(* The theorems *)

\* The invariant holds at first.
LEMMA InitInv ==
  Init => IInv
<1> SUFFICES ASSUME Init PROVE IInv
  OBVIOUS
<1> USE IpcAssumption DEF Init
<1>1. \A c \in Channels : box[c] = << >> /\ sent[c] = 0 /\ Len(box[c]) = 0
  OBVIOUS
<1>2. TypeOK
  <2>1. NamesOK /\ ThreadsOK
    <3>1. 0 \in 0..MaxChannels
      BY IpcAssumption
    <3>2. NamesOK
      BY <3>1 DEF NamesOK
    <3>3. ThreadsOK
      BY <3>1 DEF ThreadsOK, ListenerStates, StarterStates, CloserStates
    <3> QED
      BY <3>2, <3>3
  <2>2. DataOK
    BY DEF DataOK, Channels
  <2>3. box \in [Channels -> Seq(0..MaxPackets)]
    <3>1. << >> \in Seq(0..MaxPackets)
      OBVIOUS
    <3> QED
      BY <3>1
  <2>4. BoxOK
    BY <1>1, <2>3 DEF BoxOK
  <2> QED
    BY <2>1, <2>2, <2>4 DEF TypeOK
<1>3. NameInv /\ OneAtWork /\ WakeInv /\ BuildInv /\ FailsOnlyInTeardown
  BY <1>1 DEF NameInv, OneAtWork, WakeInv, BuildInv, FailsOnlyInTeardown, Active, Starting
<1>6. LatestInv
  BY <1>1 DEF LatestInv, Latest
<1>5. TeardownInv
  BY DEF TeardownInv, Listening
<1>4. BoxInv
  BY <1>1 DEF BoxInv, Orderly
<1> QED
  BY <1>2, <1>3, <1>4, <1>5, <1>6 DEF IInv

\* Every step keeps the invariant.
LEMMA NextInv ==
  IInv /\ [Next]_vars => IInv'
<1> SUFFICES ASSUME IInv, [Next]_vars PROVE IInv'
  OBVIOUS
<1>1. CASE Next
  <2>1. TypeOK'
    BY <1>1, NamesStep, DataStep, BoxStep, ThreadsStep, WakeInvStep DEF IInv, TypeOK
  <2> QED
    BY <1>1, <2>1, NameStep, WorkStep, BoxInvStep, LatestStep, BuildStep, WakeInvStep, TeardownStep,
       FailsStep DEF IInv
<1>2. CASE UNCHANGED vars
  BY <1>2 DEF vars, names, data, wakes, sub, flags, tasks, IInv, TypeOK, NamesOK, DataOK, BoxOK, ThreadsOK,
     NameInv, OneAtWork, BoxInv, Orderly, LatestInv, Latest, BuildInv, WakeInv, New, Running,
     TeardownInv, Listening, FailsOnlyInTeardown, Maps
<1> QED
  BY <1>1, <1>2

\* Channels are opened in the order of their creation, one task or thread at a
\* time has the subscription in its hands, and what is in a queue was sent and
\* not delivered (connect, start, onSharedMemory, onMessageQueue).
THEOREM InvariantHolds == Spec => []IInv
BY InitInv, NextInv, PTL DEF Spec

\* Every variable has its type; no channel holds more than it has room for: one
\* packet in a segment, max_num in a queue, however many publishers there are.
THEOREM TypeCorrect == Spec => []TypeOK
<1>1. IInv => TypeOK
  BY DEF IInv
<1> QED
  BY <1>1, InvariantHolds, PTL

\* Before the SIGINT handler or the destructor of IPC is at work, nothing ends the
\* process but the use of a segment that its publisher has not finished: a
\* std::thread that start() assigns to is not joinable.
THEOREM OnlyTeardownFails == Spec => []FailsOnlyInTeardown
<1>1. IInv => FailsOnlyInTeardown
  BY DEF IInv
<1> QED
  BY <1>1, InvariantHolds, PTL

\* A listener that runs is not canceled and has a channel open, until the
\* teardown: what one listener sets when it ends cannot stop the next.
THEOREM FlagMatches == Spec => []FlagMatchesListener
<1>1. IInv => FlagMatchesListener
  BY DEF IInv, TypeOK, ThreadsOK, NameInv, OneAtWork, TeardownInv, FlagMatchesListener, Listening, Active
<1> QED
  BY <1>1, InvariantHolds, PTL

\* A step publishes a packet, delivers one that was published and is newer than
\* the last, delivers the last or an empty one again for a wake-up without a
\* notification, or is invisible.
LEMMA StepRefines ==
  ASSUME IInv, Next
  PROVE  [Abstract!Next]_<<sent, got, repeats>>
<1> USE IpcAssumption
<1>0. /\ sent \in [Channels -> Nat] /\ box \in [Channels -> Seq(0..MaxPackets)]
      /\ TypeOK /\ NameInv /\ OneAtWork /\ BoxInv /\ WakeInv /\ LatestInv
      /\ got[1] \in Nat /\ got[2] \in Nat /\ got = <<got[1], got[2]>> /\ channel \in Nat
      /\ repeats \in Nat /\ spurious \in 0..MaxSpurious
  BY DEF IInv, TypeOK, BoxOK, DataOK, ThreadsOK, Channels
<1>1. ASSUME NEW c \in Channels, Publish(c) \/ PublishEnding(c) PROVE Abstract!Next
  BY <1>1 DEF Publish, PublishEnding, Abstract!Next, Abstract!Send, Abstract!Channels, Channels, wakes
<1>2. ASSUME channel \in Channels, NEW p \in 1..sent[channel],
             channel = got[1] => p > got[2], got' = <<channel, p>>, UNCHANGED <<sent, repeats>>
      PROVE  Abstract!Next
  <2>1. Abstract!Later(channel, p, got)
    BY <1>0, <1>2 DEF Abstract!Later, NameInv
  <2>2. Abstract!Deliver(channel)
    BY <1>2, <2>1 DEF Abstract!Deliver
  <2> QED
    BY <1>2, <2>2 DEF Abstract!Next, Abstract!Channels, Channels
<1>3. CASE ListenShm
  <2>1. /\ channel \in Channels /\ listener = "notified" /\ sent' = sent /\ Running
        /\ transport = "shm"
    BY <1>0, <1>3, ListenerChannel DEF ListenShm, Listens, Active
  <2>2. CASE Inactive
    BY <1>3, <2>1, <2>2 DEF ListenShm
  <2>3. Latest(channel) = sent[channel] /\ sent[channel] \in Nat
    BY <1>0, <2>1 DEF LatestInv
  <2>4. CASE ~Inactive /\ New
    <3>1. got' = <<channel, sent[channel]>> /\ repeats' = repeats
      BY <1>3, <2>3, <2>4 DEF ListenShm
    <3>2. sent[channel] \in 1..sent[channel] /\ (channel = got[1] => sent[channel] > got[2])
      BY <2>3, <2>4 DEF New
    <3> QED
      BY <1>2, <2>1, <3>1, <3>2
  <2>5. CASE ~Inactive /\ ~New
    <3>1. got' = <<channel, sent[channel]>> /\ repeats' = repeats + 1
      BY <1>3, <2>3, <2>5 DEF ListenShm
    <3>2. repeats < MaxSpurious
      BY <1>0, <2>1, <2>5 DEF WakeInv, Inactive
    <3>3. CASE channel = got[1]
      <4>1. got[2] <= sent[channel]
        BY <1>0, <2>1, <3>3 DEF BoxInv, Channels
      <4>2. sent[channel] = got[2]
        BY <1>0, <2>3, <2>5, <3>3, <4>1 DEF New
      <4>3. got' = got
        BY <1>0, <3>1, <3>3, <4>2
      <4> QED
        BY <2>1, <3>1, <3>2, <3>3, <4>3 DEF Abstract!Next, Abstract!Repeat, Abstract!Channels, Channels
    <3>4. CASE channel # got[1]
      <4>1. channel > got[1]
        BY <1>0, <3>4 DEF NameInv
      <4>2. sent[channel] = 0
        BY <2>3, <2>5, <3>4 DEF New
      <4> QED
        BY <2>1, <3>1, <3>2, <4>1, <4>2 DEF Abstract!Next, Abstract!Repeat, Abstract!Channels, Channels
    <3> QED
      BY <3>3, <3>4
  <2> QED
    BY <2>2, <2>4, <2>5
<1>4. CASE ListenMq
  <2>1. channel \in Channels /\ box[channel] # << >> /\ UNCHANGED <<sent, repeats>>
    BY <1>0, <1>4, ListenerChannel DEF ListenMq, Active, wakes
  <2> DEFINE p == Head(box[channel])
  <2>2. got' = IF p = Ending THEN got ELSE <<channel, p>>
    BY <1>4 DEF ListenMq
  <2>3. CASE p = Ending
    BY <2>1, <2>2, <2>3
  <2>4. CASE p # Ending
    <3>1. 1 \in 1..Len(box[channel]) /\ p = box[channel][1] /\ p \in Nat
      BY <1>0, <2>1
    <3>2. p <= sent[channel] /\ (channel = got[1] => p > got[2])
      BY <1>0, <1>4, <2>1, <2>4, <3>1 DEF BoxInv, Orderly, ListenMq
    <3>3. p \in 1..sent[channel]
      BY <1>0, <2>1, <2>4, <3>1, <3>2 DEF Ending
    <3>4. got' = <<channel, p>>
      BY <2>2, <2>4
    <3> HIDE DEF p
    <3> QED
      BY <1>2, <2>1, <3>2, <3>3, <3>4
  <2> QED
    BY <2>3, <2>4
<1>5. CASE UNCHANGED <<sent, got, repeats>>
  BY <1>5
<1> QED
  BY <1>1, <1>3, <1>4, <1>5 DEF Next, Publishers, Construct, Publish_Remove, Publish_Create, Publish_Truncate,
     Publish_Header, CrashBuilding, Destroy, Remove, Crash, Subscribe,
     CloserBegin, Starter, Retry, Close, Listener, StarterStart, StarterJoin, StarterAssign, StarterDrop,
     RetryCheck, RetryStart, RetryJoin, RetryAssign, CancelLoad, CancelStore, CancelJoin, DestroySub,
     CloserClear, ListenBegin, ListenUnmapped, ListenSpurious, ListenTest, ListenTimeout, ListenRelock,
     ListenSlotReturns, ListenFlag, ListenDisconnect, data, wakes

\* A subscription over shared memory or a message queue is a lossy channel: packets
\* are delivered in order, never after one of a later publisher, and each but once
\* for every wake-up of the listener without a notification.
THEOREM RefinesPacketChannel == Spec => IsPacketChannel
<1>1. Init => Abstract!Init
  BY DEF Init, Abstract!Init, Abstract!Channels, Channels
<1>2. IInv /\ [Next]_vars => [Abstract!Next]_<<sent, got, repeats>>
  BY StepRefines DEF vars, data, wakes
<1> QED
  BY <1>1, <1>2, InvariantHolds, PTL DEF Spec, IsPacketChannel, Abstract!Spec
=============================================================================
