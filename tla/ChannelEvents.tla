---------------------------- MODULE ChannelEvents ----------------------------
(***************************************************************************)
(* How a channel learns that the host put something into its inbound ring: *)
(* the bit the host sets in the receive interrupt page, the interrupt and  *)
(* CheckEvents, the event DPC (VmbusOnEvents, VmbusChannelOnChannelEvent), *)
(* the timer that polls the channel (VmbusChannelOnTimer), the poll mode   *)
(* that switches both off, and VmbusChannelClose, which wants them gone.   *)
(*                                                                         *)
(* The interrupt handler, the DPC, the softclock thread and the closing    *)
(* thread run at once, on different processors.  The channels share one    *)
(* word of the page.  Only CheckEvents changes it without a bus lock: it   *)
(* loads and stores, and the host can set a bit in between.                *)
(*                                                                         *)
(* timeout(9) gives every TimerStart a callout of its own; the timer only  *)
(* remembers the last one, so the others are strays nobody can cancel.     *)
(* An int3 of a failed ASSERT, and a call through NULL, end the run.       *)
(***************************************************************************)
EXTENDS Naturals, FiniteSets

CONSTANTS
  N,           \* the channels are 1 .. N, by their bit in the word
  OneByOne,    \* the channels whose callback takes one packet for each call: the
               \* services'; the others' callbacks read until the ring is empty
  MaxPackets,  \* bound: packets the host sends, over all channels
  MaxChanges   \* bound: closes, and changes to poll mode, together

ASSUME NAssumption == N \in Nat \ {0}
ASSUME BoundsAssumption == {MaxPackets, MaxChanges} \subseteq Nat

Channels == 1 .. N

ASSUME OneByOneAssumption == OneByOne \subseteq Channels

VARIABLES
  bits,        \* the word of RecvInterruptPage
  flag,        \* flag 0 of the SynIC event page: an interrupt is pending
  scheduled,   \* swi_sched for the event DPC
  isr,         \* where the interrupt handler is, and the word it loaded
  dpc,         \* where the DPC is, and the channel it is at
  clock,       \* where softclock is, and the channel whose timer fired
  closer,      \* closer[c]: where VmbusChannelClose is for c
  callback,    \* callback[c]: OnChannelCallback is not NULL
  linked,      \* linked[c]: c is in ChannelList
  freed,       \* freed[c]: FreeVmbusChannel ran
  handle,      \* handle[c]: the callout t->handle names is pending
  strays,      \* strays[c]: other callouts pending for c's timer
  polled,      \* the channels in poll mode (VmbusChannelMode)
  masked,      \* InterruptMask of their inbound rings is 1
  unread,      \* unread[c]: packets in the inbound ring
  hostOpen,    \* channels the host may still send on
  packets, modes,
  panicked,    \* history: an ASSERT failed or NULL was called
  overwritten, \* history: channels whose bit CheckEvents overwrote
  overlapped,  \* history: channels whose timer and event were handled at once
  raced        \* history: channels whose close stopped the timer with a handler
               \* inside or a stray pending, or let an event in

page == <<bits, flag, scheduled>>
channel == <<callback, linked, freed, closer>>
timers == <<handle, strays>>
mode == <<polled, masked, modes>>
hostVars == <<unread, hostOpen, packets>>
history == <<panicked, overwritten, overlapped, raced>>
vars == <<page, isr, dpc, clock, channel, timers, mode, hostVars, history>>

Idle == [at |-> "idle", ch |-> 1]

Init ==
  /\ bits = {} /\ flag = FALSE /\ scheduled = FALSE
  /\ isr = [at |-> "idle", word |-> {}] /\ dpc = Idle /\ clock = Idle
  /\ callback = [c \in Channels |-> TRUE] /\ linked = [c \in Channels |-> TRUE]
  /\ freed = [c \in Channels |-> FALSE] /\ closer = [c \in Channels |-> "open"]
  /\ handle = [c \in Channels |-> FALSE] /\ strays = [c \in Channels |-> 0]
  /\ polled = {} /\ masked = {} /\ modes = 0
  /\ unread = [c \in Channels |-> 0] /\ hostOpen = Channels /\ packets = 0
  /\ panicked = FALSE /\ overwritten = {} /\ overlapped = {} /\ raced = {}

Running == ~ panicked
MayChange == modes + Cardinality({c \in Channels : closer[c] # "open"}) < MaxChanges

-----------------------------------------------------------------------------
(* The timer of a channel: TimerStart, TimerStop (timeout and untimeout).  *)

TimerStart(c) ==
  /\ strays' = IF handle[c] THEN [strays EXCEPT ![c] = @ + 1] ELSE strays
  /\ handle' = [handle EXCEPT ![c] = TRUE]

\* Broken: untimeout is given another argument, and finds nothing to cancel.
TimerStopNothing(c) == UNCHANGED timers

TimerStop(c) == handle' = [handle EXCEPT ![c] = FALSE] /\ UNCHANGED strays

-----------------------------------------------------------------------------
(* hv_vmbus_isr, VmbusOnISR, and CheckEvents, which loads the word ...      *)

OnISR ==
  /\ Running /\ isr.at = "idle" /\ flag
  /\ flag' = FALSE
  /\ isr' = IF bits = {} THEN isr ELSE [at |-> "store", word |-> bits]
  /\ UNCHANGED <<bits, scheduled, dpc, clock, channel, timers, mode, hostVars, history>>

\* Broken: schedules the DPC for the bits it cleared only.
CheckEventsStoresPolled ==
  /\ Running /\ isr.at = "store"
  /\ bits' = isr.word \ polled
  /\ scheduled' = (scheduled \/ isr.word \cap polled # {})
  /\ overwritten' = overwritten \cup (bits \ isr.word)
  /\ isr' = [at |-> "idle", word |-> {}]
  /\ UNCHANGED <<flag, dpc, clock, channel, timers, mode, hostVars, panicked,
                 overlapped, raced>>

\* ... and stores it without the bits of the polled channels; the DPC is
\* scheduled when something is left.
CheckEventsStores ==
  /\ Running /\ isr.at = "store"
  /\ bits' = isr.word \ polled
  /\ scheduled' = (scheduled \/ bits' # {})
  /\ overwritten' = overwritten \cup (bits \ isr.word)
  /\ isr' = [at |-> "idle", word |-> {}]
  /\ UNCHANGED <<flag, dpc, clock, channel, timers, mode, hostVars, panicked,
                 overlapped, raced>>

-----------------------------------------------------------------------------
\* What the callback of c leaves in the ring.
LeftBy(c) == IF c \in OneByOne /\ unread[c] > 0 THEN unread[c] - 1 ELSE 0

(* The event DPC.                                                          *)

OnEventDPC ==
  /\ Running /\ dpc.at = "idle" /\ scheduled
  /\ scheduled' = FALSE
  /\ dpc' = [at |-> "scan", ch |-> 1]
  /\ UNCHANGED <<bits, flag, isr, clock, channel, timers, mode, hostVars, history>>

\* Broken: runs past the last channel.
ScanOn(c) == [at |-> "scan", ch |-> c + 1]

Scan(c) == IF c = N THEN Idle ELSE [at |-> "scan", ch |-> c + 1]

\* VmbusOnEvents: bit by bit, each tested and cleared in one locked step.
OnEvents ==
  /\ Running /\ dpc.at = "scan"
  /\ bits' = bits \ {dpc.ch}
  /\ dpc' = IF dpc.ch \in bits THEN [dpc EXCEPT !.at = "find"] ELSE Scan(dpc.ch)
  /\ UNCHANGED <<flag, scheduled, isr, clock, channel, timers, mode, hostVars, history>>

\* Broken: finds a channel that is no longer in the list.
IsFound(c) == TRUE

\* GetChannelFromRelId.
Found(c) == linked[c]

\* VmbusProcessChannelEvent: nothing for a polled channel; ChannelLock is held
\* only for the search.
ProcessChannelEvent ==
  /\ Running /\ dpc.at = "find"
  /\ dpc' = IF dpc.ch \notin polled /\ Found(dpc.ch)
            THEN [dpc EXCEPT !.at = "event"] ELSE Scan(dpc.ch)
  /\ overlapped' = IF dpc'.at = "event" /\ clock.at # "idle" /\ clock.ch = dpc.ch
                   THEN overlapped \cup {dpc.ch} ELSE overlapped
  /\ raced' = IF dpc'.at = "event" /\ closer[dpc.ch] # "open" /\ ~ freed[dpc.ch]
              THEN raced \cup {dpc.ch} ELSE raced
  /\ UNCHANGED <<page, isr, clock, channel, timers, mode, hostVars, panicked,
                 overwritten>>

\* VmbusChannelOnChannelEvent: the ASSERT and TimerStop ...
OnChannelEvent ==
  /\ Running /\ dpc.at = "event"
  /\ panicked' = ~ callback[dpc.ch]
  /\ TimerStop(dpc.ch)
  /\ dpc' = [dpc EXCEPT !.at = "call"]
  /\ UNCHANGED <<page, isr, clock, channel, mode, hostVars, overwritten, overlapped,
                 raced>>

\* ... the callback, which reads the ring ...
EventCalls ==
  /\ Running /\ dpc.at = "call"
  /\ panicked' = ~ callback[dpc.ch]
  /\ unread' = [unread EXCEPT ![dpc.ch] = IF callback[dpc.ch] THEN LeftBy(dpc.ch) ELSE @]
  /\ dpc' = [dpc EXCEPT !.at = "start"]
  /\ UNCHANGED <<page, isr, clock, channel, timers, mode, hostOpen, packets,
                 overwritten, overlapped, raced>>

\* ... and TimerStart.
EventStartsTimer ==
  /\ Running /\ dpc.at = "start"
  /\ TimerStart(dpc.ch)
  /\ dpc' = Scan(dpc.ch)
  /\ UNCHANGED <<page, isr, clock, channel, mode, hostVars, history>>

-----------------------------------------------------------------------------
(* TimerCallback, VmbusChannelOnTimer: one callout at a time.              *)

TimerFires(c) ==
  /\ Running /\ clock.at = "idle"
  /\ \/ handle[c] /\ handle' = [handle EXCEPT ![c] = FALSE] /\ UNCHANGED strays
     \/ strays[c] > 0 /\ strays' = [strays EXCEPT ![c] = @ - 1] /\ UNCHANGED handle
  /\ clock' = [at |-> "test", ch |-> c]
  /\ overlapped' = IF dpc.at \in {"event", "call", "start"} /\ dpc.ch = c
                   THEN overlapped \cup {c} ELSE overlapped
  /\ UNCHANGED <<page, isr, dpc, channel, mode, hostVars, panicked, overwritten, raced>>

OnTimer ==
  /\ Running /\ clock.at = "test"
  /\ clock' = IF clock.ch \notin polled /\ callback[clock.ch]
              THEN [clock EXCEPT !.at = "call"] ELSE Idle
  /\ UNCHANGED <<page, isr, dpc, channel, timers, mode, hostVars, history>>

\* The pointer may be loaded again for the call, or not.
TimerCalls ==
  /\ Running /\ clock.at = "call"
  /\ \/ /\ unread' = [unread EXCEPT ![clock.ch] = LeftBy(clock.ch)]
        /\ UNCHANGED panicked
     \/ /\ ~ callback[clock.ch] /\ panicked' = TRUE
        /\ UNCHANGED unread
  /\ clock' = [clock EXCEPT !.at = "start"]
  /\ UNCHANGED <<page, isr, dpc, channel, timers, mode, hostOpen, packets, overwritten,
                 overlapped, raced>>

\* Broken: polls once.
TimerStopsPolling ==
  /\ Running /\ clock.at = "start"
  /\ clock' = Idle
  /\ UNCHANGED <<page, isr, dpc, channel, timers, mode, hostVars, history>>

TimerRestarts ==
  /\ Running /\ clock.at = "start"
  /\ TimerStart(clock.ch)
  /\ clock' = Idle
  /\ UNCHANGED <<page, isr, dpc, channel, mode, hostVars, history>>

-----------------------------------------------------------------------------
(* VmbusSetChannelMode, by a driver that polls the ring itself.            *)

SetChannelMode(c, poll) ==
  /\ Running /\ closer[c] = "open" /\ poll # (c \in polled)
  /\ (poll => MayChange) /\ modes' = IF poll THEN modes + 1 ELSE modes
  /\ IF poll
     THEN polled' = polled \cup {c} /\ masked' = masked \ {c}
     ELSE polled' = polled \ {c} /\ masked' = masked \cup {c}
  /\ UNCHANGED <<page, isr, dpc, clock, channel, timers, hostVars, history>>

\* A polling driver looks at the ring (VmbusDataReady) and reads it.
DriverPolls(c) ==
  /\ Running /\ c \in polled /\ closer[c] = "open" /\ unread[c] > 0
  /\ unread' = [unread EXCEPT ![c] = 0]
  /\ UNCHANGED <<page, isr, dpc, clock, channel, timers, mode, hostOpen, packets, history>>

-----------------------------------------------------------------------------
(* VmbusChannelClose.                                                      *)

Handlers(c) ==
  {t \in {dpc, clock} : t.at \in {"event", "test", "call", "start"} /\ t.ch = c}

CloseBegins(c) ==
  /\ Running /\ closer[c] = "open"
  /\ MayChange
  /\ callback' = [callback EXCEPT ![c] = FALSE]
  /\ closer' = [closer EXCEPT ![c] = "stop"]
  /\ UNCHANGED <<page, isr, dpc, clock, linked, freed, timers, mode, hostVars, history>>

CloseStopsTimer(c) ==
  /\ Running /\ closer[c] = "stop"
  /\ TimerStop(c)
  /\ closer' = [closer EXCEPT ![c] = "post"]
  /\ raced' = IF Handlers(c) # {} \/ strays[c] > 0 THEN raced \cup {c} ELSE raced
  /\ UNCHANGED <<page, isr, dpc, clock, callback, linked, freed, mode, hostVars, panicked,
                 overwritten, overlapped>>

\* The close message and the teardown of the ring, which the host answers.
ClosePosts(c) ==
  /\ Running /\ closer[c] = "post"
  /\ hostOpen' = hostOpen \ {c}
  /\ unread' = [unread EXCEPT ![c] = 0]
  /\ closer' = [closer EXCEPT ![c] = "free"]
  /\ UNCHANGED <<page, isr, dpc, clock, callback, linked, freed, timers, mode, packets,
                 history>>

\* Out of the list and away with the channel and its timer, unless it closes
\* before VmbusChildDeviceAdd returned: then it stays in the list.
CloseEnds(c) ==
  /\ Running /\ closer[c] = "free"
  /\ closer' = [closer EXCEPT ![c] = "closed"]
  /\ \/ /\ linked' = [linked EXCEPT ![c] = FALSE]
        /\ freed' = [freed EXCEPT ![c] = TRUE]
        /\ TimerStop(c)
     \/ UNCHANGED <<linked, freed, timers>>
  /\ UNCHANGED <<page, isr, dpc, clock, callback, mode, hostVars, history>>

-----------------------------------------------------------------------------
\* The host (external) interrupts when a ring that is not masked ceases to be
\* empty, by a locked set of the bit and the SynIC flag.
HostSends(c) ==
  /\ Running /\ c \in hostOpen
  /\ packets < MaxPackets /\ packets' = packets + 1
  /\ unread' = [unread EXCEPT ![c] = @ + 1]
  /\ IF unread[c] = 0 /\ c \notin masked
     THEN bits' = bits \cup {c} /\ flag' = TRUE
     ELSE UNCHANGED <<bits, flag>>
  /\ UNCHANGED <<scheduled, isr, dpc, clock, channel, timers, mode, hostOpen, history>>

ISR == OnISR \/ CheckEventsStores
DPC == OnEventDPC \/ OnEvents \/ ProcessChannelEvent \/ OnChannelEvent \/ EventCalls
       \/ EventStartsTimer
Softclock ==
  (\E c \in Channels : TimerFires(c)) \/ OnTimer \/ TimerCalls \/ TimerRestarts
Close(c) == CloseBegins(c) \/ CloseStopsTimer(c) \/ ClosePosts(c) \/ CloseEnds(c)

Next ==
  \/ ISR \/ DPC \/ Softclock
  \/ \E c \in Channels :
       \/ Close(c) \/ HostSends(c) \/ DriverPolls(c)
       \/ \E poll \in BOOLEAN : SetChannelMode(c, poll)

Spec == Init /\ [][Next]_vars

\* Interrupts are delivered, the DPC and softclock run, and every callout
\* comes to its turn.
FairSpec ==
  /\ Spec /\ WF_vars(ISR) /\ WF_vars(DPC)
  /\ WF_vars(OnTimer \/ TimerCalls \/ TimerRestarts)
  /\ \A c \in Channels : SF_vars(TimerFires(c))

-----------------------------------------------------------------------------
(* Properties.                                                             *)

\* Every variable keeps its type.
TypeOK ==
  /\ bits \subseteq Channels /\ {flag, scheduled, panicked} \subseteq BOOLEAN
  /\ isr.at \in {"idle", "store"} /\ isr.word \subseteq Channels
  /\ dpc \in [at : {"idle", "scan", "find", "event", "call", "start"}, ch : Channels]
  /\ clock \in [at : {"idle", "test", "call", "start"}, ch : Channels]
  /\ {callback, linked, freed, handle} \subseteq [Channels -> BOOLEAN]
  /\ closer \in [Channels -> {"open", "stop", "post", "free", "closed"}]
  /\ strays \in [Channels -> Nat]
  /\ polled \cup masked \cup hostOpen \subseteq Channels
  /\ unread \in [Channels -> 0 .. MaxPackets]
  /\ packets \in 0 .. MaxPackets /\ modes \in 0 .. MaxChanges
  /\ overwritten \cup overlapped \cup raced \subseteq Channels

ComesTo(c) == dpc.at # "idle" /\ (dpc.ch < c \/ (dpc.at = "scan" /\ dpc.ch = c))
Interrupting(c) ==
  \/ c \in bits /\ (flag \/ isr.at # "idle" \/ scheduled \/ ComesTo(c))
  \/ dpc.at \in {"find", "event", "call"} /\ dpc.ch = c
Polling(c) ==
  \/ handle[c] \/ strays[c] > 0
  \/ clock.at # "idle" /\ clock.ch = c
  \/ dpc.at = "start" /\ dpc.ch = c

Interrupted(c) == closer[c] = "open" /\ c \notin polled \cup masked /\ Running

\* What is in the ring of an open channel that never was in poll mode has somebody
\* on the way to read it: an interrupt up to the callback, or a timer.  Except
\* where CheckEvents wrote over the bit.
UnreadIsWoken ==
  \A c \in Channels :
    unread[c] > 0 /\ Interrupted(c) =>
      Interrupting(c) \/ Polling(c) \/ c \in overwritten

\* A channel has one callout at most, unless an event came while its timer was
\* being handled: from then on it is polled by two, for good.
OneTimer ==
  \A c \in Channels :
    (IF handle[c] THEN 1 ELSE 0) + strays[c] <= 1 \/ c \in overlapped

\* A channel whose close stopped the timer while no handler was inside and no
\* stray pending, and which no event reached in between, is never touched again once it is freed:
\* the DPC no longer finds it and its timer does not come.
QuietCloseIsSafe ==
  \A c \in Channels :
    freed[c] /\ Running /\ c \notin raced =>
      Handlers(c) = {} /\ ~ handle[c] /\ strays[c] = 0

\* A channel that has its timer is read in the end, whatever interrupt was lost: the
\* timer, once started, is never let go of.
TimerMakesUp ==
  \A c \in Channels :
    Polling(c) /\ unread[c] > 0 ~> unread[c] = 0 \/ ~ Interrupted(c)

\* The timer and the handlers against the close: no channel has callouts its timer
\* does not name, and a freed channel has none and no handler inside - but for the
\* overlaps that OneTimer and QuietCloseIsSafe name.
TimerInv == TypeOK /\ OneTimer /\ QuietCloseIsSafe
=============================================================================
