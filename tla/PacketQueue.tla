---------------------------- MODULE PacketQueue ----------------------------
(***************************************************************************)
(* What one direction of a VMBus channel promises its two ends: a reliable *)
(* first-in first-out queue of packets.  VmbusChannelSendPacket appends a  *)
(* packet or fails without a trace; VmbusChannelRecvPacket(Raw) removes    *)
(* the oldest one and returns it whole, or leaves the queue alone.         *)
(***************************************************************************)
EXTENDS Sequences

CONSTANTS Packets, Receivers, None

VARIABLES
  queue,  \* the packets sent and not received, oldest first
  got     \* got[r]: the packet receiver r got last

qvars == <<queue, got>>

Init ==
  /\ queue = <<>>
  /\ got = [r \in Receivers |-> None]

Send(p) ==
  /\ queue' = Append(queue, p)
  /\ UNCHANGED got

Receive(r) ==
  /\ queue # <<>>
  /\ queue' = Tail(queue)
  /\ got' = [got EXCEPT ![r] = Head(queue)]

Next ==
  \/ \E p \in Packets : Send(p)
  \/ \E r \in Receivers : Receive(r)

Spec == Init /\ [][Next]_qvars
=============================================================================
