--------------------------- MODULE PacketChannel ---------------------------
(***************************************************************************)
(* What a subscription of IPC promises of the packets it delivers: every   *)
(* publisher object has a channel of its own, channels are numbered in the *)
(* order of their creation, and the slots of one subscription are called   *)
(* with packets that were published, in the order of publication, and      *)
(* never again with those of an earlier channel.  Packets may be lost.  A  *)
(* bounded number of times they are called with the packet that they had   *)
(* last, or with an empty one before the first of a channel.               *)
(***************************************************************************)
EXTENDS Integers

CONSTANTS MaxChannels,  \* bound on the publisher objects of one name
          MaxPackets,   \* bound on the packets published on one channel
          MaxRepeats    \* bound on the calls without a new packet

VARIABLES sent,  \* sent[c]: the packets published on channel c so far
          got,   \* the channel and number of the packet delivered last
         repeats  \* the calls without a new packet so far

Channels == 1..MaxChannels
Deliveries == (0..MaxChannels) \X (0..MaxPackets)

\* <<c, p>> comes later than the delivery g
Later(c, p, g) == c > g[1] \/ (c = g[1] /\ p > g[2])

Init == sent = [c \in Channels |-> 0] /\ got = <<0, 0>> /\ repeats = 0

Send(c) == sent' = [sent EXCEPT ![c] = @ + 1] /\ UNCHANGED <<got, repeats>>

Deliver(c) == \E p \in 1..sent[c] : /\ Later(c, p, got)
                                    /\ got' = <<c, p>>
                                    /\ UNCHANGED <<sent, repeats>>

\* The last packet once more, or an empty one.
Repeat(c) ==
  /\ repeats < MaxRepeats /\ repeats' = repeats + 1
  /\ \/ c = got[1] /\ UNCHANGED got
     \/ c > got[1] /\ got' = <<c, 0>>
  /\ UNCHANGED sent

Next == \E c \in Channels : Send(c) \/ Deliver(c) \/ Repeat(c)

Spec == Init /\ [][Next]_<<sent, got, repeats>>
=============================================================================
