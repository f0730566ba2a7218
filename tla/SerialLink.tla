----------------------------- MODULE SerialLink -----------------------------
(***************************************************************************)
(* Two devices that talk through IDC.  The sender hands a packet to every  *)
(* network layer that knows the id: a serial line, where SerialHandler     *)
(* puts it into a frame, and a Redis channel.  The receiver subscribes on  *)
(* the first layer that knows the id.                                      *)
(*                                                                         *)
(* The serial line is a sequence of bytes, of which it may lose and damage *)
(* some; frames, checksum and Hamming code are the real ones.  What Boost  *)
(* and cpp_redis do is modelled as it is used: an asynchronous write sends *)
(* the bytes that outBuffer_ has when it starts, one write after another,  *)
(* and takes as many out of outBuffer_ when it is done.                    *)
(***************************************************************************)
EXTENDS Hamming74, FiniteSets, SequencesExt

CONSTANTS
  Configs,    \* what both ends are configured to: [delim, crc, hamming, blocking,
              \* direction, nets], with bounds [packets, signals] on the calls of
              \* IDC::sendPacket and on the signals
  Payloads,   \* the packets, as sequences of bytes
  Bits,       \* the bits of a byte that the line may change
  MaxFaults   \* bound on the faults of the line and of the Redis connection

ASSUME SerialAssumption ==
  /\ \A p \in Payloads : p \in Seq(0..255)
  /\ \A c \in Configs : /\ c.delim \in Seq(0..255) /\ c.delim # << >>
                        /\ c.crc \in BOOLEAN /\ c.hamming \in BOOLEAN /\ c.blocking \in BOOLEAN
  /\ Bits \subseteq 0..7 /\ MaxFaults \in Nat

VARIABLES
  config,       \* the configuration
  stage,        \* of the receiver: "new", "init", "failed", "normal", and with the signal
                \* "sigint", "canceling", "exit", "join", "self"
  sent,         \* packets for which sendPacket returned true
  calls,        \* calls of sendPacket
  out,          \* outBuffer_ of the sender
  writes,       \* the asynchronous writes that are not done
  line,         \* bytes on the way
  in,           \* inBuffer_ of the receiver
  packetBuffer, \* packetBuffer_ of the receiver
  reading,      \* async_read_until is pending
  raised,       \* packets with which onPacket_ was called
  stats,        \* [received, corrupted] packets
  slot,         \* the layer that the receiver's slot is connected to, or "none"
  heard,        \* packets that the slot was called with
  channel,      \* packets on the way through Redis
  online,       \* the Redis client of the sender is connected
  canceled, stopped,  \* handlerCanceled_ and io_.stop()
  loop,         \* startHandler: "none", "test", "run", "ran", "done"
  faults,
  flushed       \* packets that the flush of the receiver's port may cost

sender == <<sent, calls, out, writes>>
receiver == <<in, packetBuffer, reading, raised, stats, heard>>
redis == <<channel, online>>
ending == <<canceled, stopped, loop>>
vars == <<config, stage, sender, line, receiver, slot, redis, ending, faults, flushed>>

UseSerial == "serial" \in config.nets
UseRedis == "redis" \in config.nets
Delim == config.delim
delim == Delim[Len(Delim)]   \* delim_, the last character

----------------------------------------------------------------------------
\* Frames

\* Packet::getCRC16 (boost::crc_ccitt_type): the polynomial is 2^12 + 2^5 + 1
ShiftCrc(crc, bit) ==
  LET shifted == (2 * crc) % 65536
  IN IF Bit(crc, 15) = bit THEN shifted ELSE Flip(Flip(Flip(shifted, 0), 5), 12)
\* after n bits of the bytes, the highest of each first
BitOf(bytes, n) == Bit(bytes[1 + ((n - 1) \div 8)], 7 - ((n - 1) % 8))
CrcAfter(bytes) ==
  LET crc[n \in 0..(8 * Len(bytes))] ==
        IF n = 0 THEN 65535 ELSE ShiftCrc(crc[n - 1], BitOf(bytes, n))
  IN crc
Crc16(bytes) == CrcAfter(bytes)[8 * Len(bytes)]

\* the NetworkHeader is the checksum, its lower byte first
Header(payload) == <<Crc16(payload) % 256, Crc16(payload) \div 256>>

Message(c, payload) ==
  LET packet == (IF c.crc THEN Header(payload) ELSE << >>) \o payload
  IN (IF c.hamming THEN EncodeString(packet) ELSE packet) \o c.delim
Messages == [c \in Configs |-> [p \in Payloads |-> Message(c, p)]]

\* dp::extract<NetworkHeader> and Packet::consume: an empty packet gives the header 0,
\* and one byte is read with the terminating zero of the string and not consumed
ReadHeader(p) == CASE Len(p) = 0 -> 0 [] Len(p) = 1 -> p[1] [] OTHER -> p[1] + 256 * p[2]
Body(p) == IF Len(p) < 2 THEN p ELSE SubSeq(p, 3, Len(p))

\* A slip: the header of an empty packet is taken for no checksum.
ZeroMeansNone(p) == ReadHeader(p) = 0 \/ ReadHeader(p) = Crc16(Body(p))
CrcOk(p) == ReadHeader(p) = Crc16(Body(p))

EndsWith(s, e) == Len(s) >= Len(e) /\ SubSeq(s, Len(s) - Len(e) + 1, Len(s)) = e
FirstOf(b, s) == CHOOSE i \in DOMAIN s : s[i] = b /\ \A k \in 1..(i - 1) : s[k] # b

----------------------------------------------------------------------------
Init ==
  /\ config \in Configs /\ stage = "new" /\ sent = << >> /\ calls = 0
  /\ out = << >> /\ writes = << >> /\ line = << >> /\ in = << >> /\ packetBuffer = << >>
  /\ reading = FALSE /\ raised = << >> /\ stats = [received |-> 0, corrupted |-> 0]
  /\ slot = "none" /\ heard = << >> /\ channel = << >> /\ online = TRUE
  /\ canceled = FALSE /\ stopped = FALSE /\ loop = "none" /\ faults = 0 /\ flushed = 0

\* SerialHandler::sendPacket on a handler that may send
SerialSends == UseSerial /\ config.direction # "receive"
RedisSends == UseRedis /\ online

\* IDC::sendPacket without a transport layer: every network layer gets the packet
Send(p) ==
  /\ calls < config.packets /\ calls' = calls + 1
  /\ sent' = IF SerialSends \/ RedisSends THEN Append(sent, p) ELSE sent
  /\ LET buffer == out \o Messages[config][p]
         now == SerialSends /\ config.blocking
         later == SerialSends /\ ~config.blocking
     IN /\ line' = IF now THEN line \o buffer ELSE line
        /\ out' = IF later THEN buffer ELSE out
        /\ writes' = IF later THEN Append(writes, buffer) ELSE writes
  /\ channel' = IF RedisSends THEN Append(channel, p) ELSE channel
  /\ UNCHANGED <<config, stage, receiver, slot, online, ending, faults, flushed>>

\* an asynchronous write is done (sendStatus); that writes which overlap keep their bytes
\* and their order is assumed
WriteDone ==
  /\ writes # << >> /\ writes' = Tail(writes)
  /\ line' = line \o Head(writes)
  /\ out' = SubSeq(out, Len(Head(writes)) + 1, Len(out))
  /\ UNCHANGED <<config, stage, sent, calls, receiver, slot, redis, ending, faults, flushed>>

\* The bytes up to the next delim_ arrive at the open port: no others make receive do
\* anything.
Chunk == IF \E i \in DOMAIN line : line[i] = delim THEN FirstOf(delim, line) ELSE Len(line)
Arrive ==
  /\ line # << >> /\ stage \notin {"new", "failed"}
  /\ in' = in \o SubSeq(line, 1, Chunk) /\ line' = SubSeq(line, Chunk + 1, Len(line))
  /\ UNCHANGED <<config, stage, sender, packetBuffer, reading, raised, stats, heard, slot, redis, ending, faults, flushed>>

\* a byte on the way is lost or gets a wrong bit
Fault ==
  /\ faults < MaxFaults /\ faults' = faults + 1
  /\ \E i \in 1..Chunk : \/ line' = RemoveAt(line, i)
                          \/ \E bit \in Bits : line' = [line EXCEPT ![i] = Flip(@, bit)]
  /\ UNCHANGED <<config, stage, sender, receiver, slot, redis, ending, flushed>>

----------------------------------------------------------------------------
\* The receiver

Receives == config.direction # "send"

\* SerialNetworkLayer::run(INIT): the handlers, unless a port cannot be opened.  The
\* port is flushed (tcflush): of what is on the way, the bytes that have come by then are
\* gone, be it within a frame.
InitLayer ==
  /\ stage = "new"
  /\ \/ /\ stage' = "init" /\ reading' = (UseSerial /\ Receives)
        /\ \E n \in 0..Len(line) :
             /\ line' = SubSeq(line, n + 1, Len(line))
             /\ flushed' = IF n = 0 THEN 0 ELSE Len(sent) + 1
     \/ stage' = "failed" /\ reading' = FALSE /\ UNCHANGED <<line, flushed>>
  /\ UNCHANGED <<config, sender, in, packetBuffer, raised, stats, heard, slot, redis, ending, faults>>

\* run(NORMAL): startHandler is scheduled, and the signal is subscribed on
StartLayer ==
  /\ stage = "init" /\ stage' = "normal"
  /\ loop' = IF UseSerial THEN "test" ELSE "none"
  /\ UNCHANGED <<config, sender, line, receiver, slot, redis, canceled, stopped, faults, flushed>>

\* IDC::subscribeOnPacket: the first layer that knows the id and connects; the map
\* of handlers is empty before INIT and after the signal
SerialConnects == UseSerial /\ Receives /\ stage \in {"init", "normal", "sigint", "canceling"}
Subscribe ==
  /\ slot = "none"
  /\ slot' = IF SerialConnects THEN "serial"
             ELSE IF UseRedis /\ stage \notin {"new", "failed"} THEN "redis" ELSE "none"
  /\ UNCHANGED <<config, stage, sender, line, receiver, redis, ending, faults, flushed>>

\* A slip: the slot is connected to every layer.
HearsAll(net) == slot # "none"
Hears(net) == slot = net

\* onPacket_(packet)
Raise(p) ==
  /\ raised' = Append(raised, p)
  /\ heard' = IF Hears("serial") THEN Append(heard, p) ELSE heard

\* The test for the end of a packet compares at most size() - 1 characters: a buffer
\* that is the delimiter and nothing else does not end, and stays for the next frame.
EndOfPacket(buffer) == EndsWith(buffer, Delim) /\ Len(buffer) > Len(Delim)

\* A slip: packetBuffer_ is not emptied at the end of a packet.
BufferKept(buffer) == buffer
BufferAfter(buffer) == IF EndOfPacket(buffer) THEN << >> ELSE buffer

\* A slip: only good packets are counted as received.
CountGood(good) == IF good THEN [stats EXCEPT !.received = @ + 1] ELSE [stats EXCEPT !.corrupted = @ + 1]
Count(good) == [received |-> stats.received + 1,
                corrupted |-> stats.corrupted + (IF good THEN 0 ELSE 1)]

\* receive: a line of inBuffer_ up to delim_ has arrived, and is read unless the
\* handler has been canceled, when async_read_until is not called again
Receive ==
  /\ reading /\ loop = "run" /\ ~stopped /\ \E i \in DOMAIN in : in[i] = delim
  /\ LET end == FirstOf(delim, in)
         text == SubSeq(in, 1, end - 1)
         buffer == IF Len(Delim) = 1 THEN << >> ELSE packetBuffer \o text \o <<delim>>
         complete == Len(Delim) = 1 \/ EndOfPacket(buffer)
         packetString == IF Len(Delim) = 1 THEN text ELSE SubSeq(buffer, 1, Len(buffer) - Len(Delim))
         packet == IF config.hamming THEN DecodeString(packetString) ELSE packetString
         good == ~config.crc \/ CrcOk(packet)
     IN IF canceled THEN reading' = FALSE /\ UNCHANGED <<in, packetBuffer, raised, heard, stats>>
        ELSE /\ in' = SubSeq(in, end + 1, Len(in))
             /\ packetBuffer' = IF Len(Delim) = 1 THEN packetBuffer ELSE BufferAfter(buffer)
             /\ stats' = IF complete THEN Count(good) ELSE stats
             /\ IF complete /\ good THEN Raise(IF config.crc THEN Body(packet) ELSE packet)
                ELSE UNCHANGED <<raised, heard>>
             /\ UNCHANGED reading
  /\ UNCHANGED <<config, stage, sender, line, slot, redis, ending, faults, flushed>>

\* receive with an error: nothing reads from the port any more
ReadError ==
  /\ reading /\ loop = "run" /\ ~stopped /\ faults < MaxFaults /\ faults' = faults + 1
  /\ reading' = FALSE
  /\ UNCHANGED <<config, stage, sender, line, in, packetBuffer, raised, stats, heard, slot, redis, ending, flushed>>

\* startHandler: while (!handlerCanceled_) { io_.run(); if (!handlerCanceled_) io_.restart(); }
TestCanceled ==
  /\ loop = "test" /\ loop' = IF canceled THEN "done" ELSE "run"
  /\ UNCHANGED <<config, stage, sender, line, receiver, slot, redis, canceled, stopped, faults, flushed>>
\* io_.run() returns when it is stopped or has nothing to wait for
RunReturns ==
  /\ loop = "run" /\ (stopped \/ ~reading) /\ loop' = "ran"
  /\ UNCHANGED <<config, stage, sender, line, receiver, slot, redis, canceled, stopped, faults, flushed>>
Restart ==
  /\ loop = "ran" /\ loop' = IF canceled THEN "test" ELSE "restart"
  /\ UNCHANGED <<config, stage, sender, line, receiver, slot, redis, canceled, stopped, faults, flushed>>
Restarted ==
  /\ loop = "restart" /\ loop' = "test" /\ stopped' = FALSE
  /\ UNCHANGED <<config, stage, sender, line, receiver, slot, redis, canceled, faults, flushed>>

----------------------------------------------------------------------------
\* SIGINT, in the thread of SignalHandlerSingleton: callSigHandlers

\* The slots that NORMAL connects: onSigInt of the serial layer, and stop() of the
\* scheduler on exit.
SigintSlots == IF UseSerial THEN {"onSigInt"} ELSE {}
SigIntHandler ==
  /\ stage = "normal" /\ config.signals > 0
  /\ stage' = IF SigintSlots = {} THEN "exit" ELSE "sigint"
  /\ UNCHANGED <<config, sender, line, receiver, slot, redis, ending, faults, flushed>>

\* onSigInt: cancelHandler sets handlerCanceled_, then stops io_; the map of handlers
\* is cleared
\* A slip: io_ is stopped before handlerCanceled_ is set.
StopsFirst(k) == IF k = 2 THEN canceled' = TRUE /\ UNCHANGED stopped ELSE stopped' = TRUE /\ UNCHANGED canceled
CancelStep(k) == IF k = 1 THEN canceled' = TRUE /\ UNCHANGED stopped ELSE stopped' = TRUE /\ UNCHANGED canceled

OnSigInt ==
  /\ stage = "sigint" /\ CancelStep(1) /\ stage' = "canceling"
  /\ UNCHANGED <<config, sender, line, receiver, slot, redis, loop, faults, flushed>>
Cancel ==
  /\ stage = "canceling" /\ CancelStep(2) /\ stage' = "exit"
  /\ UNCHANGED <<config, sender, line, receiver, slot, redis, loop, faults, flushed>>

\* onExit_: stop() of the scheduler joins the task that runs startHandler
StopScheduler ==
  /\ stage = "exit" /\ loop \in {"none", "done"} /\ stage' = "join"
  /\ UNCHANGED <<config, sender, line, receiver, slot, redis, ending, faults, flushed>>

\* The thread joins itself: std::system_error, which ends the process.  What the other
\* threads do until then is left open.
JoinHandler ==
  /\ stage = "join" /\ stage' = "self"
  /\ UNCHANGED <<config, sender, line, receiver, slot, redis, ending, faults, flushed>>

----------------------------------------------------------------------------
\* Redis: RedisPublisher::publish while connected, RedisSubscriber::onChannel

Connection ==
  /\ UseRedis /\ faults < MaxFaults /\ faults' = faults + 1 /\ online' = ~online
  /\ UNCHANGED <<config, stage, sender, line, receiver, slot, channel, ending, flushed>>

\* the server has it only for who has committed a subscription: start, in NORMAL
OnChannel ==
  /\ channel # << >> /\ channel' = Tail(channel)
  /\ heard' = IF stage \notin {"new", "init", "failed"} /\ Hears("redis") THEN Append(heard, Head(channel)) ELSE heard
  /\ UNCHANGED <<config, stage, sender, line, in, packetBuffer, reading, raised, stats, slot, online, ending, faults, flushed>>

Next == \/ \E p \in Payloads : Send(p)
        \/ WriteDone \/ Arrive \/ Fault
        \/ InitLayer \/ StartLayer \/ Subscribe \/ Receive \/ ReadError
        \/ TestCanceled \/ RunReturns \/ Restart \/ Restarted
        \/ SigIntHandler \/ OnSigInt \/ Cancel \/ StopScheduler \/ JoinHandler
        \/ Connection \/ OnChannel

Spec == Init /\ [][Next]_vars
\* The scheduler runs startHandler, and the thread of the signal handler its slots.
FairSpec == /\ Spec
            /\ WF_vars(TestCanceled \/ RunReturns \/ Restart \/ Restarted)
            /\ WF_vars(OnSigInt \/ Cancel \/ StopScheduler \/ JoinHandler)

----------------------------------------------------------------------------
TypeOK ==
  /\ stage \in {"new", "init", "failed", "normal", "sigint", "canceling", "exit", "join", "self"}
  /\ loop \in {"none", "test", "run", "ran", "restart", "done"}
  /\ slot \in {"none", "serial", "redis"}
  /\ \A s \in {out, line, in, packetBuffer} : \A i \in DOMAIN s : s[i] \in 0..255
  /\ config.blocking => out = << >> /\ writes = << >>
  /\ stats.received = Len(raised) + stats.corrupted

\* With a checksum, only packets that were sent come out of the line, whatever bytes
\* it loses or damages and however the frames are cut.
Integrity == config.crc => \A i \in DOMAIN raised : raised[i] \in ToSet(sent)

\* Packets are heard at most once and in the order in which they were sent, when the
\* writes are blocking, though the sender uses every layer and the frames are damaged.
IsSubsequence(s, t) ==
  \E f \in [1..Len(s) -> 1..Len(t)] :
    /\ \A i, k \in 1..Len(s) : i < k => f[i] < f[k]
    /\ \A i \in 1..Len(s) : s[i] = t[f[i]]
HeardOnce == config.crc /\ config.blocking => IsSubsequence(heard, sent)

\* the packets whose message has the delimiter at its end only, and has more than it
\* (an empty packet without a checksum is never raised when the delimiter is longer)
Clear == [c \in Configs |-> {p \in Payloads : LET m == Messages[c][p] IN
            /\ Len(c.delim) = 1 \/ Len(m) > Len(c.delim)
            /\ \A n \in 1..(Len(m) - 1) : ~EndsWith(SubSeq(m, 1, n), c.delim)}]

\* Without a fault and a flushed byte, the receiver raises exactly the packets that were
\* sent, in their order, and all of them when all bytes have arrived, however reads cut
\* the frames.
Quiet == writes = << >> /\ line = << >> /\ ~\E i \in DOMAIN in : in[i] = delim
Lossless ==
  faults = 0 /\ flushed = 0 /\ config.blocking /\ SerialSends /\ ToSet(sent) \subseteq Clear[config]
    => /\ Len(raised) <= Len(sent) /\ \A i \in 1..Len(raised) : raised[i] = sent[i]
       /\ Quiet => Len(raised) = Len(sent)

\* The line is lossless without a fault.  A fault costs at most the frame it is in and the
\* one after it, and the flush of INIT the frames that are on the way and the next one:
\* when all bytes have arrived, every other packet has been raised.
Resynchronizes ==
  /\ Lossless
  /\ Quiet /\ reading /\ loop = "run" /\ ~canceled /\ config.blocking /\ UseSerial
       /\ ~UseRedis /\ ToSet(sent) \subseteq Clear[config]
     => Len(raised) + 2 * faults + flushed >= Len(sent)

\* What Hamming74::decode makes of an encoded packet is the packet, even if every byte
\* of the code has a wrong bit.  (The delimiter is not coded: a wrong bit in it costs the
\* frame.)
Corrects ==
  config.hamming /\ stage = "new" /\ calls = 0 =>
    \A p \in Payloads, first \in 0..7, second \in 0..7 :
      LET packet == Header(p) \o p
          code == EncodeString(packet)
      IN DecodeString([i \in DOMAIN code |-> Flip(code[i], IF i % 2 = 1 THEN first ELSE second)]) = packet

\* When SIGINT comes, the slots return: startHandler leaves its loop, however its
\* restart of io_ meets the stop of onSigInt, so that stop() of the scheduler, which joins
\* it, returns too and callSigHandlers comes to its end.
SignalHandled == stage \in {"sigint", "exit"} ~> stage = "self"
=============================================================================
