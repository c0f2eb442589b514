------------------------------ MODULE NetVscInit ------------------------------
(***************************************************************************)
(* How netvsc/hv_net_vsc.c brings a network channel up and down: the NVSP  *)
(* handshake, the receive and the send buffer it shares with the host, and *)
(* the two clean-ups, of a set-up that fails and of a removal.             *)
(*                                                                         *)
(* One thread runs NetVscOnDeviceAdd and later NetVscOnDeviceRemove; the   *)
(* channel callback hands it the host's answers through ChannelInitPacket  *)
(* and ChannelInitEvent.  Both buffers go through the same steps, written  *)
(* once for the buffer in hand.  GPADLs are mapped and unmapped in one     *)
(* step here; ChannelMsg has their protocol, NetDevice the references.     *)
(***************************************************************************)
EXTENDS Naturals, Sequences

CONSTANTS
  MaxRefused   \* bound: calls that fail (no memory, ring full, post refused)

ASSUME MaxRefusedAssumption == MaxRefused \in Nat

Buffers == {"recv", "send"}

\* What the two sides send each other here, by type; a completion carries one
\* number: the version, the count of sections, or the section size.
InitMessages == [type : {"init", "ndis"}]
BufferMessages == [type : {"offer", "revoke"}, b : Buffers]
NvspAnswers == {"initComplete", "offerComplete"}
Completions == [type : NvspAnswers \cup {"other"}, n : 0 .. 2]

VARIABLES
  step,        \* where the thread is
  buf,         \* the buffer it has in hand
  goal,        \* what it is at: "add", "fail" (the clean-up of an add) or "remove"
  channelOpen,
  allocated,   \* allocated[b]: ReceiveBuffer or SendBuffer is not NULL
  handle,      \* handle[b]: its GPADL handle is set
  sections,    \* sections[b]: ReceiveSectionCount or SendSectionSize
  initPacket,  \* ChannelInitPacket: the last answer
  initEvent,   \* ChannelInitEvent is set
  toHost,      \* the outbound ring
  fromHost,    \* the inbound ring
  mapped,      \* mapped[b]: the host has the GPADL
  inUse,       \* inUse[b]: the host accepted the buffer and may write to it
  refused,     \* failed calls so far
  kept         \* history: buffers a failed revoke or teardown left behind

memory == <<allocated, handle, sections, mapped, kept>>
answers == <<initPacket, initEvent>>
rings == <<toHost, fromHost>>
netvscVars == <<step, buf, goal, channelOpen, memory, answers, rings, inUse, refused>>

NetVscInitState ==
  /\ step = "open" /\ buf = "recv" /\ goal = "add" /\ channelOpen = FALSE
  /\ allocated = [b \in Buffers |-> FALSE] /\ handle = [b \in Buffers |-> FALSE]
  /\ sections = [b \in Buffers |-> 0]
  /\ mapped = [b \in Buffers |-> FALSE] /\ inUse = [b \in Buffers |-> FALSE]
  /\ initPacket = [type |-> "none"] /\ initEvent = FALSE
  /\ toHost = <<>> /\ fromHost = <<>>
  /\ refused = 0 /\ kept = {}

At(s, next) == step = s /\ step' = next
Fails == refused < MaxRefused /\ refused' = refused + 1
Sends(m) == toHost' = Append(toHost, m) /\ UNCHANGED fromHost

-----------------------------------------------------------------------------
(* NetVscOnDeviceAdd, NetVscConnectToVsp.                                  *)

OpenChannel ==
  /\ At("open", "init")
  /\ channelOpen' = TRUE
  /\ UNCHANGED <<buf, goal, memory, answers, rings, inUse, refused>>

OpenFails ==
  /\ At("open", "gone")
  /\ Fails
  /\ UNCHANGED <<buf, goal, channelOpen, memory, answers, rings, inUse>>

SendInit ==
  /\ At("init", "initWait")
  /\ Sends([type |-> "init"])
  /\ UNCHANGED <<buf, goal, channelOpen, memory, answers, inUse, refused>>

SendInitFails ==
  /\ step \in {"init", "ndis"}
  /\ Fails
  /\ step' = "close" /\ goal' = "fail"
  /\ UNCHANGED <<buf, channelOpen, memory, answers, rings, inUse>>

\* The status, and then the negotiated version, which has to be 1.
InitAnswered ==
  /\ step = "initWait" /\ initEvent
  /\ initEvent' = FALSE
  /\ IF initPacket.n = 1
     THEN step' = "ndis" /\ UNCHANGED goal
     ELSE step' = "close" /\ goal' = "fail"
  /\ UNCHANGED <<buf, channelOpen, memory, initPacket, rings, inUse, refused>>

\* Sent without asking for a completion, and not waited for.
SendNdis ==
  /\ At("ndis", "alloc")
  /\ Sends([type |-> "ndis"])
  /\ UNCHANGED <<buf, goal, channelOpen, memory, answers, inUse, refused>>

-----------------------------------------------------------------------------
(* NetVscInitializeReceiveBufferWithNetVsp and its twin for the send buffer *)

AllocBuffer ==
  /\ At("alloc", "gpadl")
  /\ allocated' = [allocated EXCEPT ![buf] = TRUE]
  /\ UNCHANGED <<buf, goal, channelOpen, handle, sections, mapped, kept,
                 answers, rings, inUse, refused>>

EstablishGpadl ==
  /\ At("gpadl", "offer")
  /\ handle' = [handle EXCEPT ![buf] = TRUE]
  /\ mapped' = [mapped EXCEPT ![buf] = TRUE]
  /\ UNCHANGED <<buf, goal, channelOpen, allocated, sections, kept, answers,
                 rings, inUse, refused>>

SendOffer ==
  /\ At("offer", "offerWait")
  /\ Sends([type |-> "offer", b |-> buf])
  /\ UNCHANGED <<buf, goal, channelOpen, memory, answers, inUse, refused>>

\* Any of the three that fails brings the thread to the Cleanup label.
BufferFails ==
  /\ step \in {"alloc", "gpadl", "offer"}
  /\ Fails
  /\ step' = "revoke" /\ goal' = "fail"
  /\ UNCHANGED <<buf, channelOpen, memory, answers, rings, inUse>>

Accepted == initPacket.n = 1

\* Broken: the wrong number of sections leaves by the Exit label.
OfferAnsweredExit ==
  /\ step = "offerWait" /\ initEvent
  /\ initEvent' = FALSE
  /\ sections' = [sections EXCEPT ![buf] = initPacket.n]
  /\ IF Accepted
     THEN /\ step' = IF buf = "recv" THEN "alloc" ELSE "up"
          /\ buf' = "send" /\ UNCHANGED goal
     ELSE step' = (IF initPacket.n = 0 THEN "revoke" ELSE "close")
          /\ goal' = "fail" /\ UNCHANGED buf
  /\ UNCHANGED <<channelOpen, allocated, handle, mapped, kept, initPacket, rings,
                 inUse, refused>>

\* The host says how many sections it made of the receive buffer, of which
\* only one is supported, or the section size of the send buffer; 0 stands
\* for a status other than success.
OfferAnswered ==
  /\ step = "offerWait" /\ initEvent
  /\ initEvent' = FALSE
  /\ sections' = [sections EXCEPT ![buf] = initPacket.n]
  /\ IF Accepted
     THEN /\ step' = IF buf = "recv" THEN "alloc" ELSE "up"
          /\ buf' = "send" /\ UNCHANGED goal
     ELSE step' = "revoke" /\ goal' = "fail" /\ UNCHANGED buf
  /\ UNCHANGED <<channelOpen, allocated, handle, mapped, kept, initPacket, rings,
                 inUse, refused>>

-----------------------------------------------------------------------------
(* NetVscDestroyReceiveBuffer, NetVscDestroySendBuffer.                    *)

\* A removal destroys both buffers, a failing set-up the one in hand.
Destroyed ==
  IF goal = "remove" /\ buf = "recv"
  THEN step' = "revoke" /\ buf' = "send"
  ELSE step' = "close" /\ UNCHANGED buf

\* Broken: takes the pages back without telling the host.
RevokeSilently ==
  /\ At("revoke", "teardown")
  /\ UNCHANGED <<buf, goal, channelOpen, memory, answers, rings, inUse, refused>>

Revoke ==
  /\ At("revoke", "teardown")
  /\ IF sections[buf] # 0
     THEN Sends([type |-> "revoke", b |-> buf])
     ELSE UNCHANGED rings
  /\ UNCHANGED <<buf, goal, channelOpen, memory, answers, inUse, refused>>

Teardown ==
  /\ At("teardown", "free")
  /\ handle' = [handle EXCEPT ![buf] = FALSE]
  /\ mapped' = [mapped EXCEPT ![buf] = FALSE]
  /\ UNCHANGED <<buf, goal, channelOpen, allocated, sections, kept, answers,
                 rings, inUse, refused>>

\* Broken: goes on and frees the pages.
DestroyFailsOn ==
  /\ \/ step = "revoke" /\ sections[buf] # 0
     \/ step = "teardown" /\ handle[buf]
  /\ Fails
  /\ kept' = kept \cup {buf}
  /\ step' = "free"
  /\ UNCHANGED <<buf, goal, channelOpen, allocated, handle, sections, mapped, answers,
                 rings, inUse>>

\* "If we failed here, we might as well return and have a leak rather than
\* continue and a bugchk".  (A teardown that cannot be posted does not return
\* at all: see ChannelMsg.)
DestroyFails ==
  /\ \/ step = "revoke" /\ sections[buf] # 0
     \/ step = "teardown" /\ handle[buf]
  /\ Fails
  /\ kept' = kept \cup {buf}
  /\ Destroyed
  /\ UNCHANGED <<goal, channelOpen, allocated, handle, sections, mapped, answers,
                 rings, inUse>>

\* Only the receive buffer's count is reset.
FreeBuffer ==
  /\ step = "free"
  /\ allocated' = [allocated EXCEPT ![buf] = FALSE]
  /\ sections' = [sections EXCEPT !["recv"] = IF buf = "recv" THEN 0 ELSE @]
  /\ Destroyed
  /\ UNCHANGED <<goal, channelOpen, handle, mapped, kept, answers, rings, inUse,
                 refused>>

\* The end of both ways: the host stops using what it had of the channel.
CloseChannel ==
  /\ At("close", "gone")
  /\ channelOpen' = FALSE
  /\ toHost' = <<>> /\ fromHost' = <<>>
  /\ inUse' = [b \in Buffers |-> FALSE]
  /\ UNCHANGED <<buf, goal, memory, answers, refused>>

ConnectToVsp == SendInit \/ InitAnswered \/ SendNdis
InitializeBuffer == AllocBuffer \/ EstablishGpadl \/ SendOffer \/ OfferAnswered
DestroyBuffer == Revoke \/ Teardown \/ FreeBuffer

NetVscThread ==
  OpenChannel \/ ConnectToVsp \/ InitializeBuffer \/ DestroyBuffer \/ CloseChannel
NetVscFails == OpenFails \/ SendInitFails \/ BufferFails \/ DestroyFails

-----------------------------------------------------------------------------
(* The channel callback and the host.                                      *)

\* Broken: every completion counts as the answer.
OnSendCompletionAny ==
  /\ fromHost # <<>> /\ Head(fromHost).type \in NvspAnswers \cup {"other"}
  /\ fromHost' = Tail(fromHost)
  /\ initPacket' = Head(fromHost) /\ initEvent' = TRUE
  /\ UNCHANGED <<step, buf, goal, channelOpen, memory, toHost, inUse, refused>>

\* NetVscOnSendCompletion for anything but an RNDIS packet; a completion of
\* another type is dropped.
OnSendCompletion ==
  /\ fromHost # <<>> /\ Head(fromHost).type \in NvspAnswers \cup {"other"}
  /\ fromHost' = Tail(fromHost)
  /\ IF Head(fromHost).type \in NvspAnswers
     THEN initPacket' = Head(fromHost) /\ initEvent' = TRUE
     ELSE UNCHANGED answers
  /\ UNCHANGED <<step, buf, goal, channelOpen, memory, toHost, inUse, refused>>

Answer(t, n) == fromHost' = Append(fromHost, [type |-> t, n |-> n])

\* The host (external) takes one NVSP message.  It completes the NDIS version
\* too, as the BUGBUG of NetVscConnectToVsp fears.
HostTakesNvsp ==
  /\ toHost # <<>> /\ Head(toHost).type # "rndis"
  /\ toHost' = Tail(toHost)
  /\ LET m == Head(toHost)
     IN  \/ /\ m.type = "init"
            /\ \E version \in 0 .. 2 : Answer("initComplete", version)
            /\ UNCHANGED inUse
         \/ /\ m.type = "ndis"
            /\ Answer("other", 0) /\ UNCHANGED inUse
         \/ /\ m.type = "offer"
            /\ \E n \in IF m.b = "recv" THEN 0 .. 2 ELSE 0 .. 1 :
                 /\ Answer("offerComplete", n)
                 /\ inUse' = [inUse EXCEPT ![m.b] = n > 0]
         \/ /\ m.type = "revoke"
            /\ inUse' = [inUse EXCEPT ![m.b] = FALSE] /\ UNCHANGED fromHost
  /\ UNCHANGED <<step, buf, goal, channelOpen, memory, answers, refused>>

-----------------------------------------------------------------------------
(* Properties.                                                             *)

NetVscSteps == {"open", "init", "initWait", "ndis", "alloc", "gpadl", "offer",
                "offerWait", "up", "waitSends", "revoke", "teardown", "free",
                "close", "gone"}

NetVscTypeOK ==
  /\ step \in NetVscSteps /\ buf \in Buffers /\ goal \in {"add", "fail", "remove"}
  /\ initPacket \in {c \in Completions : c.type # "other"} \cup {[type |-> "none"]}
  /\ {channelOpen, initEvent} \subseteq BOOLEAN
  /\ {allocated, handle, mapped, inUse} \subseteq [Buffers -> BOOLEAN]
  /\ sections \in [Buffers -> 0 .. 2]
  /\ refused \in 0 .. MaxRefused /\ kept \subseteq Buffers

\* The host never has a GPADL of pages that were freed, also when it refused
\* to give one up: the early returns of the two destroy functions.
MappedHasPages == \A b \in Buffers : mapped[b] => allocated[b]

RevokePending(b) ==
  \E i \in DOMAIN toHost : toHost[i].type = "revoke" /\ toHost[i].b = b

\* The host writes to a buffer only while it is shared, or until it takes the
\* revoke that was sent before the pages were unmapped.
UseEndsWithMapping ==
  \A b \in Buffers : inUse[b] => mapped[b] \/ RevokePending(b)

\* When the channel is gone no page is left behind, but for a buffer the host
\* would not give up, and the receive buffer after a failed set-up of the send
\* buffer, which NetVscOnDeviceAdd closes the channel on.
LeaksAreKnown ==
  step = "gone" => \A b \in Buffers :
    allocated[b] => \/ b \in kept
                    \/ b = "recv" /\ goal = "fail" /\ buf = "send"

\* What the thread finds in ChannelInitPacket when it is woken is the answer
\* to what it sent: no completion comes between that could be taken for it.
AnswersFit ==
  initEvent => \/ step = "initWait" /\ initPacket.type = "initComplete"
               \/ step = "offerWait" /\ initPacket.type = "offerComplete"

\* The shared buffers, through set-up, clean-up and removal, with every call that
\* can fail failing: the host reaches no freed page, no page is lost but those
\* named, and no answer is taken for another.
BufferInv ==
  NetVscTypeOK /\ MappedHasPages /\ UseEndsWithMapping /\ LeaksAreKnown /\ AnswersFit
=============================================================================
