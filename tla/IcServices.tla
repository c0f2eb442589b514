------------------------------ MODULE IcServices ------------------------------
(***************************************************************************)
(* The integration services: shutdown_onchannelcallback,                   *)
(* heartbeat_onchannelcallback and timesync_channel_cb with adj_guesttime. *)
(* A callback takes one packet, changes it in its buffer and sends it back *)
(* with the request's id.  It runs in the event software interrupt and in  *)
(* the polling timer, which may overlap and which ChannelEvents has in     *)
(* full: here an event is on its way, or CheckEvents lost it, and the      *)
(* timer comes once an event has started it.  The rings and their locks    *)
(* are RingBuffer's and here they are queues.                              *)
(*                                                                         *)
(* `service' says whose channel it is, so one module stands for the three. *)
(***************************************************************************)
EXTENDS Integers, Sequences, FiniteSets

CONSTANTS
  MaxRequests, \* bound: requests of the host; each is its requestid and its time
  OutSize,     \* answers the outbound ring has room for
  Samples,     \* 50 in the code: samples the clock is set by
  SeqLimit,    \* 2^64 in the code: heartbeat sequence numbers are below it
  MayAsk(_, _) \* bound: MayAsk(past, m): the host may send m after the requests in past

ASSUME BoundsAssumption ==
  /\ {MaxRequests, OutSize, Samples, SeqLimit} \subseteq Nat \ {0}

Contexts == {"event", "timer"}
Services == {"shutdown", "heartbeat", "timesync"}

Probe == 0
Sync == 1
Sample == 2
Ok == 0
Fail == 1

\* icmsg_hdr with what follows it.  A negotiation offers the version the callback looks
\* for, or another; its answer has the version chosen.
Negotiations == [type : {"negotiate"}, data : {3, 4}]
Messages(s) ==
  [type : {s},
   data : CASE s = "shutdown" -> {0, 1, 2}   \* flags; 2 stands for the rest
            [] s = "heartbeat" -> 0 .. SeqLimit - 1
            [] s = "timesync" -> {Probe, Sync, Sample}]

VARIABLES
  service,  \* which of them the channel belongs to
  asked,    \* the requests of the host, by requestid
  inbound,  \* requestids the host has put in the ring
  outbound, \* answers in the ring
  pc,       \* pc[c]: where the callback is that context c runs
  buf,      \* buf[c]: its buffer, the packet and its requestid
  scnt,     \* adj_guesttime's static
  seen,     \* seen[c]: scnt, as adj_guesttime loaded it in context c
  sampled,  \* history: how often a sample was counted, and the clock set by it
  woken,    \* an event of the channel is on its way to the event DPC
  started,  \* the channel's timer was started, and starts itself again from then on
  missed,   \* history: an event of the channel was lost
  clock,    \* the host time the clock was set to last, 0 at first
  answers,  \* history: the answers that were sent, or lost for the ring was full; and
            \* whether the request had been answered before
  halted    \* requestids shutdown_nice was called for

wake == <<woken, started, missed>>
samples == <<scnt, seen, sampled>>
vars == <<service, asked, inbound, outbound, pc, buf, scnt, seen, sampled, woken, started,
          missed, clock, answers, halted>>

Empty == [id |-> 0, type |-> "negotiate", data |-> 0]

Init ==
  /\ service \in Services
  /\ asked = <<>> /\ inbound = <<>> /\ outbound = <<>>
  /\ pc = [c \in Contexts |-> "out"] /\ buf = [c \in Contexts |-> Empty]
  /\ scnt = Samples /\ seen = [c \in Contexts |-> 0] /\ sampled = 0
  /\ woken = FALSE /\ started = FALSE /\ missed = FALSE
  /\ clock = 0 /\ answers = {} /\ halted = {}

Goes(c, where) == pc' = [pc EXCEPT ![c] = where]

-----------------------------------------------------------------------------
(* The host (external).                                                    *)

\* The host signals when the ring ceases to be empty; CheckEvents may overwrite its bit.
HostSignals ==
  /\ IF inbound = <<>>
     THEN \/ woken' = TRUE /\ UNCHANGED missed
          \/ missed' = TRUE /\ UNCHANGED woken
     ELSE UNCHANGED <<woken, missed>>
  /\ UNCHANGED started

HostAsks(m) ==
  /\ Len(asked) < MaxRequests /\ MayAsk(asked, m)
  /\ asked' = Append(asked, m)
  /\ inbound' = Append(inbound, Len(asked) + 1)
  /\ HostSignals
  /\ UNCHANGED <<service, outbound, pc, buf, samples, clock, answers, halted>>

HostReads ==
  /\ outbound # <<>> /\ outbound' = Tail(outbound)
  /\ UNCHANGED <<service, asked, inbound, pc, buf, samples, wake, clock, answers, halted>>

-----------------------------------------------------------------------------
\* Broken: the two contexts have one buffer.
StoreShared(c, p) == buf' = [d \in Contexts |-> p]

\* MemAllocAtomic: the buffer is the callback's own.
Store(c, p) == buf' = [buf EXCEPT ![c] = p]

\* Broken: what the host offered is sent back.
VersionEchoed(offer) == offer

\* icframe_vercnt and icversion_data[1].major
Version(offer) == IF offer = 3 THEN 3 ELSE 1

\* VmbusProcessChannelEvent found the bit, VmbusChannelOnTimer was called.
IsCalled(c) == pc[c] = "out" /\ IF c = "event" THEN woken ELSE started

EventTaken(c) == woken' = (woken /\ c # "event")

\* VmbusChannelRecvPacket.
Receive(c) ==
  /\ IsCalled(c) /\ inbound # <<>>
  /\ EventTaken(c) /\ UNCHANGED <<started, missed>>
  /\ LET id == Head(inbound)
     IN Store(c, [id |-> id, type |-> asked[id].type, data |-> asked[id].data])
  /\ inbound' = Tail(inbound)
  /\ Goes(c, "handle")
  /\ UNCHANGED <<service, asked, outbound, samples, clock, answers, halted>>

\* Broken: TimerStart is left out.
StartsNoTimer(c) == UNCHANGED started

\* VmbusChannelOnChannelEvent starts the timer when the callback has returned, and
\* VmbusChannelOnTimer starts it again.
StartsTimer(c) == started' = TRUE

\* An event that finds the ring empty: the callback returns at once.
ReceiveNothing(c) ==
  /\ c = "event" /\ IsCalled(c) /\ inbound = <<>>
  /\ EventTaken(c) /\ StartsTimer(c)
  /\ UNCHANGED <<service, asked, inbound, outbound, pc, buf, samples, missed, clock, answers,
                 halted>>

Negotiate(c) ==
  /\ pc[c] = "handle" /\ buf[c].type = "negotiate"
  /\ Store(c, [buf[c] EXCEPT !.data = Version(@)])
  /\ Goes(c, "send")
  /\ UNCHANGED <<service, asked, inbound, outbound, samples, wake, clock, answers, halted>>

Flags(c) == buf[c].data

\* Broken: the machine is halted before the host has its answer.
HaltsFirst(c) == halted' = IF Flags(c) \in {0, 1} THEN halted \cup {buf[c].id} ELSE halted

HaltsLater(c) == UNCHANGED halted

\* The status goes where the flags were: HV_S_OK or HV_E_FAIL.
ShutdownMessage(c) ==
  /\ pc[c] = "handle" /\ buf[c].type = "shutdown"
  /\ Store(c, [buf[c] EXCEPT !.data = IF Flags(c) \in {0, 1} THEN Ok ELSE Fail])
  /\ HaltsLater(c)
  /\ Goes(c, "send")
  /\ UNCHANGED <<service, asked, inbound, outbound, samples, wake, clock, answers>>

Heartbeat(c) ==
  /\ pc[c] = "handle" /\ buf[c].type = "heartbeat"
  /\ Store(c, [buf[c] EXCEPT !.data = (@ + 1) % SeqLimit])
  /\ Goes(c, "send")
  /\ UNCHANGED <<service, asked, inbound, outbound, samples, wake, clock, answers, halted>>

(* adj_guesttime.  scnt is tested and decremented without a lock.          *)

\* Broken: one sample more.
SamplesLeftStill(n) == n >= 0

SamplesLeft(n) == n > 0

TimeMessage(c) ==
  /\ pc[c] = "handle" /\ buf[c].type = "timesync"
  /\ Goes(c, CASE buf[c].data = Sync -> "set"
               [] buf[c].data = Sample /\ SamplesLeft(scnt) -> "count"
               [] OTHER -> "send")
  /\ seen' = [seen EXCEPT ![c] = scnt]
  /\ UNCHANGED <<service, asked, inbound, outbound, buf, scnt, sampled, wake, clock, answers,
                 halted>>

\* scnt--: the value loaded for the test, or one loaded anew, as the compiler likes.
CountSample(c) ==
  /\ pc[c] = "count" /\ Goes(c, "set")
  /\ scnt' \in {seen[c] - 1, scnt - 1}
  /\ sampled' = sampled + 1
  /\ UNCHANGED <<service, asked, inbound, outbound, buf, seen, wake, clock, answers, halted>>

\* tc_setclock, resettodr
SetClock(c) ==
  /\ pc[c] = "set" /\ Goes(c, "send")
  /\ clock' = buf[c].id
  /\ UNCHANGED <<service, asked, inbound, outbound, buf, samples, wake, answers, halted>>

\* execute_shutdown
Halts(packet) == packet.type = "shutdown" /\ packet.data = Ok

Record(c) ==
  [again |-> \E a \in answers : a.packet.id = buf[c].id, packet |-> buf[c]]

\* The callback returns, unless it has to shut down.
Reply(c) ==
  /\ pc[c] = "send"
  /\ IF Halts(buf[c]) THEN Goes(c, "halt") /\ UNCHANGED started
                       ELSE Goes(c, "out") /\ StartsTimer(c)
  /\ UNCHANGED <<service, asked, inbound, buf, samples, woken, missed, clock, halted>>

\* VmbusChannelSendPacket, and what it returned is ignored.
Answer(c) ==
  /\ Reply(c)
  /\ Len(outbound) < OutSize
  /\ outbound' = Append(outbound, buf[c])
  /\ answers' = answers \cup {Record(c)}

AnswerLost(c) ==
  /\ Reply(c)
  /\ Len(outbound) = OutSize
  /\ answers' = answers \cup {Record(c)}
  /\ UNCHANGED outbound

\* shutdown_nice
ShutDown(c) ==
  /\ pc[c] = "halt" /\ Goes(c, "out") /\ StartsTimer(c)
  /\ halted' = halted \cup {buf[c].id}
  /\ UNCHANGED <<service, asked, inbound, outbound, buf, samples, woken, missed, clock, answers>>

Callback(c) ==
  \/ Receive(c) \/ ReceiveNothing(c) \/ Negotiate(c) \/ ShutdownMessage(c) \/ Heartbeat(c)
  \/ TimeMessage(c) \/ CountSample(c) \/ SetClock(c) \/ Answer(c) \/ AnswerLost(c) \/ ShutDown(c)

Next ==
  \/ \E c \in Contexts : Callback(c)
  \/ \E m \in Messages(service) \cup Negotiations : HostAsks(m)
  \/ HostReads

Spec == Init /\ [][Next]_vars

\* An event whose bit was not lost is delivered, the timer goes off again and again once it was
\* started, and a callback that began is run to its end.
FairSpec == Spec /\ \A c \in Contexts : WF_vars(Callback(c))

-----------------------------------------------------------------------------
Ids == DOMAIN asked

TypeOK ==
  /\ service \in Services
  /\ \A k \in Ids : asked[k] \in Messages(service) \cup Negotiations
  /\ \A k \in DOMAIN inbound : inbound[k] \in Ids
  /\ Len(outbound) \in 0 .. OutSize
  /\ pc \in [Contexts -> {"out", "handle", "count", "set", "send", "halt"}]
  /\ \A c \in Contexts : buf[c].id \in Ids \cup {0}
  /\ scnt \in -1 .. Samples /\ sampled \in Nat
  /\ {woken, started, missed} \subseteq BOOLEAN /\ clock \in Ids \cup {0}
  /\ halted \subseteq Ids

\* What the host should read for this request.
Expected(m) ==
  CASE m.type = "negotiate" -> IF m.data = 3 THEN 3 ELSE 1
    [] m.type = "shutdown" -> IF m.data = 2 THEN Fail ELSE Ok
    [] m.type = "heartbeat" -> IF m.data = SeqLimit - 1 THEN 0 ELSE m.data + 1
    [] OTHER -> m.data

(* However the two contexts overlap, a request is answered once, under its own id and with *)
(* the answer that belongs to it.                                                          *)
AnswersBelong ==
  \A a, b \in answers :
    /\ a.packet.id = b.packet.id => a = b
    /\ a.packet.data = Expected(asked[a.packet.id])

(* The machine goes down for a request only that asked for it in a way the driver knows,   *)
(* and when the answer that says so has been sent - or was lost, for the ring was full.    *)
HaltIsAnswered ==
  \A id \in halted : \E a \in answers : a.packet.id = id /\ Halts(a.packet)

\* An event was lost before any could start the timer: as the ring is not empty the host
\* signals no more, and the channel is dead.
Dead == missed /\ ~ woken /\ ~ started /\ pc["event"] = "out"

(* Every request is taken, and answered or its answer lost, although a callback takes only *)
(* one: the timer calls again.  Unless the very first event was lost.  (There is a last    *)
(* request, so that time and again none is open means that each is done.)                  *)
RequestsEnd ==
  []<>(Dead \/ \A id \in Ids : \E a \in answers : a.packet.id = id)

(* The samples run out.  A context that is held between its test of scnt and its store     *)
(* raises the count again and gives the samples back that the other took in between, but   *)
(* each time to one less: of n samples the clock is set by n * (n + 3) / 2 at most.        *)
SamplesRunOut == 2 * sampled <= Samples * (Samples + 3)

(* The services answer each request with its own answer, halt the machine only when they   *)
(* have said so, and come to an end of setting the clock by samples.                       *)
ServiceInv == TypeOK /\ AnswersBelong /\ HaltIsAnswered /\ SamplesRunOut
=============================================================================
