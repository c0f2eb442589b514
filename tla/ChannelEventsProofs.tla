------------------------- MODULE ChannelEventsProofs -------------------------
(***************************************************************************)
(* For any number of channels, packets, closes and changes of mode: an     *)
(* open channel with packets has somebody on the way to read it, a timer   *)
(* is one callout until an event overlaps its handling, and a close that   *)
(* found nobody inside is not followed by anybody.                         *)
(***************************************************************************)
EXTENDS ChannelEvents, FiniteSetTheorems, TLAPS

Types ==
  /\ bits \subseteq Channels /\ flag \in BOOLEAN /\ scheduled \in BOOLEAN
  /\ panicked \in BOOLEAN
  /\ isr \in [at : {"idle", "store"}, word : SUBSET Channels]
  /\ dpc \in [at : {"idle", "scan", "find", "event", "call", "start"}, ch : Channels]
  /\ clock \in [at : {"idle", "test", "call", "start"}, ch : Channels]
  /\ callback \in [Channels -> BOOLEAN] /\ linked \in [Channels -> BOOLEAN]
  /\ freed \in [Channels -> BOOLEAN] /\ handle \in [Channels -> BOOLEAN]
  /\ closer \in [Channels -> {"open", "stop", "post", "free", "closed"}]
  /\ strays \in [Channels -> Nat]
  /\ polled \subseteq Channels /\ masked \subseteq Channels /\ hostOpen \subseteq Channels
  /\ unread \in [Channels -> Nat] /\ packets \in 0 .. MaxPackets
  /\ \A c \in Channels : unread[c] <= packets
  /\ modes \in 0 .. MaxChanges
  /\ overwritten \subseteq Channels /\ overlapped \subseteq Channels /\ raced \subseteq Channels

\* What a channel is while it is open, and what it is no longer once it was freed.
Life ==
  \A c \in Channels :
    /\ closer[c] = "open" => callback[c]
    /\ ~ linked[c] => closer[c] = "closed"
    /\ freed[c] => ~ linked[c]

InTimer(c) == clock.at # "idle" /\ clock.ch = c
InEvent(c) == dpc.at \in {"event", "call", "start"} /\ dpc.ch = c

\* Until the two overlap, the callout is there, or one of the handlers that start it again.
Alone ==
  \A c \in Channels \ overlapped :
    /\ strays[c] = 0
    /\ InTimer(c) => ~ handle[c] /\ ~ InEvent(c)
    /\ InEvent(c) /\ dpc.at # "event" => ~ handle[c]

\* From the moment the close has stopped the timer.
Stopped ==
  \A c \in Channels \ raced :
    closer[c] \in {"post", "free", "closed"} =>
      ~ InTimer(c) /\ ~ InEvent(c) /\ ~ handle[c] /\ strays[c] = 0

IInv == Types /\ Life /\ Alone /\ Stopped /\ UnreadIsWoken

-----------------------------------------------------------------------------
\* The channels are numbered from 1 to N; the bounds are numbers.
LEMMA ChannelFacts ==
  /\ 1 \in Channels /\ N \in Nat
  /\ \A c \in Channels : c \in Nat /\ c <= N /\ (c # N => c + 1 \in Channels)
  /\ MaxPackets \in Nat /\ MaxChanges \in Nat
BY NAssumption, BoundsAssumption DEF Channels

\* Where the DPC goes on: with the next bit, or home after the last.
LEMMA ScanFacts ==
  ASSUME NEW c \in Channels
  PROVE  /\ Scan(c) \in [at : {"idle", "scan"}, ch : Channels]
         /\ Scan(c).at \in {"idle", "scan"} /\ Scan(c).ch \in Channels
         /\ \A d \in Channels : c < d => Scan(c).at = "scan" /\ (Scan(c).ch < d \/ Scan(c).ch = d)
<1>1. CASE c = N
  <2>1. Scan(c) = [at |-> "idle", ch |-> 1]
    BY <1>1 DEF Scan, Idle
  <2>2. \A d \in Channels : ~ (c < d)
    BY <1>1, ChannelFacts
  <2> QED
    BY <2>1, <2>2, ChannelFacts
<1>2. CASE c # N
  <2>1. Scan(c) = [at |-> "scan", ch |-> c + 1] /\ c + 1 \in Channels
    BY <1>2, ChannelFacts DEF Scan
  <2>2. \A d \in Channels : c < d => c + 1 < d \/ c + 1 = d
    BY ChannelFacts
  <2> QED
    BY <2>1, <2>2
<1> QED
  BY <1>1, <1>2

\* Where the DPC and the softclock are, and what changes when they go on.
LEMMA HandlerFacts ==
  ASSUME IInv
  PROVE  /\ dpc.at \in {"idle", "scan", "find", "event", "call", "start"} /\ dpc.ch \in Channels
         /\ clock.at \in {"idle", "test", "call", "start"} /\ clock.ch \in Channels
         /\ \A x \in {"idle", "scan", "find", "event", "call", "start"} :
              LET t == [dpc EXCEPT !.at = x] IN t.at = x /\ t.ch = dpc.ch
         /\ \A x \in {"idle", "test", "call", "start"} :
              LET t == [clock EXCEPT !.at = x] IN t.at = x /\ t.ch = clock.ch
         /\ Idle.at = "idle" /\ Idle.ch = 1
BY DEF IInv, Types, Idle

\* A callback leaves no more than there was.
LEMMA LeftFacts ==
  ASSUME Types, NEW c \in Channels
  PROVE  LeftBy(c) \in Nat /\ LeftBy(c) <= unread[c]
BY DEF Types, LeftBy

\* The channels that were closed can be counted.
LEMMA ClosedAreCounted == Cardinality({c \in Channels : closer[c] # "open"}) \in Nat
<1>1. IsFiniteSet(Channels)
  BY FS_Interval, NAssumption DEF Channels
<1>2. {c \in Channels : closer[c] # "open"} \subseteq Channels
  OBVIOUS
<1> QED
  BY <1>1, <1>2, FS_Subset, FS_CardinalityType

\* Every channel is open at first, and its ring empty.
LEMMA Start == Init => IInv
<1> SUFFICES ASSUME Init PROVE IInv
  OBVIOUS
<1>1. /\ Idle \in [at : {"idle"}, ch : Channels]
      /\ [at |-> "idle", word |-> {}] \in [at : {"idle"}, word : SUBSET Channels]
  BY ChannelFacts DEF Idle
<1>2. Types
  <2>1. isr \in [at : {"idle", "store"}, word : SUBSET Channels]
    BY <1>1 DEF Init
  <2>2. /\ dpc \in [at : {"idle", "scan", "find", "event", "call", "start"}, ch : Channels]
        /\ clock \in [at : {"idle", "test", "call", "start"}, ch : Channels]
    BY <1>1 DEF Init
  <2>3. /\ packets \in 0 .. MaxPackets /\ modes \in 0 .. MaxChanges
        /\ unread \in [Channels -> Nat] /\ strays \in [Channels -> Nat]
        /\ \A c \in Channels : unread[c] <= packets
    BY ChannelFacts DEF Init
  <2>4. /\ callback \in [Channels -> BOOLEAN] /\ linked \in [Channels -> BOOLEAN]
        /\ freed \in [Channels -> BOOLEAN] /\ handle \in [Channels -> BOOLEAN]
        /\ closer \in [Channels -> {"open", "stop", "post", "free", "closed"}]
    BY DEF Init
  <2> QED
    BY <2>1, <2>2, <2>3, <2>4 DEF Init, Types
<1> QED
  BY <1>2, ChannelFacts
     DEF Init, IInv, Life, Alone, Stopped, UnreadIsWoken, Idle, InTimer, InEvent

\* Each step keeps the types.
LEMMA TypesKept == IInv /\ [Next]_vars => Types'
<1> SUFFICES ASSUME IInv, [Next]_vars PROVE Types'
  OBVIOUS
<1> USE ChannelFacts DEF IInv, Types
<1>1. CASE OnISR
  BY <1>1 DEF OnISR, channel, timers, mode, hostVars, history
<1>2. CASE CheckEventsStores
  BY <1>2 DEF CheckEventsStores, channel, timers, mode, hostVars
<1>3. CASE OnEventDPC
  BY <1>3 DEF OnEventDPC, channel, timers, mode, hostVars, history
<1>4. CASE OnEvents
  BY <1>4, ScanFacts DEF OnEvents, channel, timers, mode, hostVars, history
<1>5. CASE ProcessChannelEvent
  BY <1>5, ScanFacts DEF ProcessChannelEvent, Found, page, channel, timers, mode, hostVars
<1>6. CASE OnChannelEvent
  BY <1>6 DEF OnChannelEvent, TimerStop, page, channel, mode, hostVars
<1>7. CASE EventCalls
  <2>1. unread' \in [Channels -> Nat] /\ \A c \in Channels : unread'[c] <= packets
    BY <1>7, LeftFacts DEF EventCalls
  <2> QED
    BY <1>7, <2>1 DEF EventCalls, page, channel, timers, mode
<1>8. CASE EventStartsTimer
  BY <1>8, ScanFacts DEF EventStartsTimer, TimerStart, page, channel, mode, hostVars, history
<1>9. ASSUME NEW c \in Channels, TimerFires(c) PROVE Types'
  <2>1. handle' \in [Channels -> BOOLEAN] /\ strays' \in [Channels -> Nat]
    <3>1. CASE handle[c] /\ handle' = [handle EXCEPT ![c] = FALSE] /\ UNCHANGED strays
      BY <3>1
    <3>2. CASE strays[c] > 0 /\ strays' = [strays EXCEPT ![c] = @ - 1] /\ UNCHANGED handle
      <4>1. strays[c] - 1 \in Nat
        BY <3>2
      <4> QED
        BY <3>2, <4>1
    <3> QED
      BY <1>9, <3>1, <3>2 DEF TimerFires
  <2>2. clock' \in [at : {"idle", "test", "call", "start"}, ch : Channels]
    BY <1>9 DEF TimerFires
  <2>3. overlapped' \subseteq Channels
    BY <1>9 DEF TimerFires
  <2> QED
    BY <1>9, <2>1, <2>2, <2>3 DEF TimerFires, page, channel, mode, hostVars
<1>10. CASE OnTimer
  BY <1>10 DEF OnTimer, Idle, page, channel, timers, mode, hostVars, history
<1>11. CASE TimerCalls
  <2>1. /\ unread' \in [Channels -> Nat] /\ panicked' \in BOOLEAN
        /\ \A c \in Channels : unread'[c] <= packets
    <3>1. unread' = [unread EXCEPT ![clock.ch] = LeftBy(clock.ch)] \/ unread' = unread
      BY <1>11 DEF TimerCalls
    <3>2. panicked' \in BOOLEAN
      BY <1>11 DEF TimerCalls
    <3> QED
      BY <3>1, <3>2, LeftFacts
  <2>2. clock' \in [at : {"idle", "test", "call", "start"}, ch : Channels]
    BY <1>11 DEF TimerCalls
  <2> QED
    BY <1>11, <2>1, <2>2 DEF TimerCalls, page, channel, timers, mode
<1>12. CASE TimerRestarts
  BY <1>12 DEF TimerRestarts, TimerStart, Idle, page, channel, mode, hostVars, history
<1>13. ASSUME NEW c \in Channels, CloseBegins(c) PROVE Types'
  BY <1>13 DEF CloseBegins, page, timers, mode, hostVars, history
<1>14. ASSUME NEW c \in Channels, CloseStopsTimer(c) PROVE Types'
  BY <1>14 DEF CloseStopsTimer, TimerStop, page, mode, hostVars
<1>15. ASSUME NEW c \in Channels, ClosePosts(c) PROVE Types'
  BY <1>15 DEF ClosePosts, page, timers, mode, history
<1>16. ASSUME NEW c \in Channels, CloseEnds(c) PROVE Types'
  BY <1>16 DEF CloseEnds, TimerStop, page, timers, mode, hostVars, history
<1>17. ASSUME NEW c \in Channels, HostSends(c) PROVE Types'
  <2>1. /\ packets' = packets + 1 /\ packets' \in 0 .. MaxPackets
        /\ unread' = [unread EXCEPT ![c] = @ + 1]
        /\ bits' \subseteq Channels /\ flag' \in BOOLEAN
    <3>1. packets < MaxPackets /\ packets' = packets + 1 /\ unread' = [unread EXCEPT ![c] = @ + 1]
      BY <1>17 DEF HostSends
    <3>2. bits' \subseteq Channels /\ flag' \in BOOLEAN
      BY <1>17 DEF HostSends
    <3> QED
      BY <3>1, <3>2
  <2>2. unread' \in [Channels -> Nat] /\ \A d \in Channels : unread'[d] <= packets'
    BY <2>1
  <2> QED
    BY <1>17, <2>1, <2>2 DEF HostSends, channel, timers, mode, history
<1>18. ASSUME NEW c \in Channels, DriverPolls(c) PROVE Types'
  BY <1>18 DEF DriverPolls, page, channel, timers, mode, history
<1>19. ASSUME NEW c \in Channels, NEW poll \in BOOLEAN, SetChannelMode(c, poll) PROVE Types'
  BY <1>19, ClosedAreCounted DEF MayChange, SetChannelMode, page, channel, timers, hostVars, history
<1>20. CASE UNCHANGED vars
  BY <1>20 DEF vars, page, channel, timers, mode, hostVars, history
<1> QED
  BY <1>1, <1>2, <1>3, <1>4, <1>5, <1>6, <1>7, <1>8, <1>9, <1>10,
     <1>11, <1>12, <1>13, <1>14, <1>15, <1>16, <1>17, <1>18, <1>19, <1>20
     DEF Next, ISR, DPC, Softclock, Close

\* Each step keeps what the life of a channel is.
LEMMA LifeKept == IInv /\ [Next]_vars => Life'
<1> SUFFICES ASSUME IInv, [Next]_vars PROVE Life'
  OBVIOUS
<1> USE ChannelFacts, HandlerFacts DEF IInv, Types, Life
<1>1. CASE OnISR
  BY <1>1 DEF OnISR, channel, timers, mode, hostVars, history
<1>2. CASE CheckEventsStores
  BY <1>2 DEF CheckEventsStores, channel, timers, mode, hostVars
<1>3. CASE OnEventDPC
  BY <1>3 DEF OnEventDPC, channel, timers, mode, hostVars, history
<1>4. CASE OnEvents
  BY <1>4, ScanFacts DEF OnEvents, channel, timers, mode, hostVars, history
<1>5. CASE ProcessChannelEvent
  BY <1>5, ScanFacts DEF ProcessChannelEvent, Found, page, channel, timers, mode, hostVars
<1>6. CASE OnChannelEvent
  BY <1>6 DEF OnChannelEvent, TimerStop, page, channel, mode, hostVars
<1>7. CASE EventCalls
  BY <1>7 DEF EventCalls, page, channel, timers, mode
<1>8. CASE EventStartsTimer
  BY <1>8, ScanFacts DEF EventStartsTimer, TimerStart, page, channel, mode, hostVars, history
<1>9. ASSUME NEW c \in Channels, TimerFires(c) PROVE Life'
  BY <1>9 DEF TimerFires, page, channel, mode, hostVars
<1>10. CASE OnTimer
  BY <1>10 DEF OnTimer, Idle, page, channel, timers, mode, hostVars, history
<1>11. CASE TimerCalls
  BY <1>11 DEF TimerCalls, page, channel, timers, mode
<1>12. CASE TimerRestarts
  BY <1>12 DEF TimerRestarts, TimerStart, Idle, page, channel, mode, hostVars, history
<1>13. ASSUME NEW c \in Channels, CloseBegins(c) PROVE Life'
  BY <1>13 DEF CloseBegins, page, timers, mode, hostVars, history
<1>14. ASSUME NEW c \in Channels, CloseStopsTimer(c) PROVE Life'
  BY <1>14 DEF CloseStopsTimer, TimerStop, page, mode, hostVars
<1>15. ASSUME NEW c \in Channels, ClosePosts(c) PROVE Life'
  BY <1>15 DEF ClosePosts, page, timers, mode, history
<1>16. ASSUME NEW c \in Channels, CloseEnds(c) PROVE Life'
  BY <1>16 DEF CloseEnds, TimerStop, page, timers, mode, hostVars, history
<1>17. ASSUME NEW c \in Channels, HostSends(c) PROVE Life'
  BY <1>17 DEF HostSends, channel, timers, mode, history
<1>18. ASSUME NEW c \in Channels, DriverPolls(c) PROVE Life'
  BY <1>18 DEF DriverPolls, page, channel, timers, mode, history
<1>19. ASSUME NEW c \in Channels, NEW poll \in BOOLEAN, SetChannelMode(c, poll) PROVE Life'
  BY <1>19 DEF SetChannelMode, page, channel, timers, hostVars, history
<1>20. CASE UNCHANGED vars
  BY <1>20 DEF vars, page, channel, timers, mode, hostVars, history
<1> QED
  BY <1>1, <1>2, <1>3, <1>4, <1>5, <1>6, <1>7, <1>8, <1>9, <1>10,
     <1>11, <1>12, <1>13, <1>14, <1>15, <1>16, <1>17, <1>18, <1>19, <1>20
     DEF Next, ISR, DPC, Softclock, Close

\* Each step keeps a timer to one callout, until its handling overlaps that of an event.
LEMMA AloneKept == IInv /\ [Next]_vars => Alone'
<1> SUFFICES ASSUME IInv, [Next]_vars PROVE Alone'
  OBVIOUS
<1> USE ChannelFacts, HandlerFacts DEF IInv, Types, Alone, InTimer, InEvent
<1>1. CASE OnISR
  BY <1>1 DEF OnISR, channel, timers, mode, hostVars, history
<1>2. CASE CheckEventsStores
  BY <1>2 DEF CheckEventsStores, channel, timers, mode, hostVars
<1>3. CASE OnEventDPC
  BY <1>3 DEF OnEventDPC, channel, timers, mode, hostVars, history
<1>4. CASE OnEvents
  BY <1>4, ScanFacts DEF OnEvents, channel, timers, mode, hostVars, history
<1>5. CASE ProcessChannelEvent
  BY <1>5, ScanFacts DEF ProcessChannelEvent, Found, page, channel, timers, mode, hostVars
<1>6. CASE OnChannelEvent
  BY <1>6 DEF OnChannelEvent, TimerStop, page, channel, mode, hostVars
<1>7. CASE EventCalls
  BY <1>7 DEF EventCalls, page, channel, timers, mode
<1>8. CASE EventStartsTimer
  BY <1>8, ScanFacts DEF EventStartsTimer, TimerStart, page, channel, mode, hostVars, history
<1>9. ASSUME NEW c \in Channels, TimerFires(c) PROVE Alone'
  BY <1>9 DEF TimerFires, page, channel, mode, hostVars
<1>10. CASE OnTimer
  BY <1>10 DEF OnTimer, Idle, page, channel, timers, mode, hostVars, history
<1>11. CASE TimerCalls
  BY <1>11 DEF TimerCalls, page, channel, timers, mode
<1>12. CASE TimerRestarts
  BY <1>12 DEF TimerRestarts, TimerStart, Idle, page, channel, mode, hostVars, history
<1>13. ASSUME NEW c \in Channels, CloseBegins(c) PROVE Alone'
  BY <1>13 DEF CloseBegins, page, timers, mode, hostVars, history
<1>14. ASSUME NEW c \in Channels, CloseStopsTimer(c) PROVE Alone'
  BY <1>14 DEF CloseStopsTimer, TimerStop, page, mode, hostVars
<1>15. ASSUME NEW c \in Channels, ClosePosts(c) PROVE Alone'
  BY <1>15 DEF ClosePosts, page, timers, mode, history
<1>16. ASSUME NEW c \in Channels, CloseEnds(c) PROVE Alone'
  BY <1>16 DEF CloseEnds, TimerStop, page, timers, mode, hostVars, history
<1>17. ASSUME NEW c \in Channels, HostSends(c) PROVE Alone'
  BY <1>17 DEF HostSends, channel, timers, mode, history
<1>18. ASSUME NEW c \in Channels, DriverPolls(c) PROVE Alone'
  BY <1>18 DEF DriverPolls, page, channel, timers, mode, history
<1>19. ASSUME NEW c \in Channels, NEW poll \in BOOLEAN, SetChannelMode(c, poll) PROVE Alone'
  BY <1>19 DEF SetChannelMode, page, channel, timers, hostVars, history
<1>20. CASE UNCHANGED vars
  BY <1>20 DEF vars, page, channel, timers, mode, hostVars, history
<1> QED
  BY <1>1, <1>2, <1>3, <1>4, <1>5, <1>6, <1>7, <1>8, <1>9, <1>10,
     <1>11, <1>12, <1>13, <1>14, <1>15, <1>16, <1>17, <1>18, <1>19, <1>20
     DEF Next, ISR, DPC, Softclock, Close

\* Each step leaves a channel alone whose close found nobody inside.
LEMMA StoppedKept == IInv /\ [Next]_vars => Stopped'
<1> SUFFICES ASSUME IInv, [Next]_vars PROVE Stopped'
  OBVIOUS
<1> USE ChannelFacts, HandlerFacts DEF IInv, Types, Life, Stopped, InTimer, InEvent
<1>1. CASE OnISR
  BY <1>1 DEF OnISR, channel, timers, mode, hostVars, history
<1>2. CASE CheckEventsStores
  BY <1>2 DEF CheckEventsStores, channel, timers, mode, hostVars
<1>3. CASE OnEventDPC
  BY <1>3 DEF OnEventDPC, channel, timers, mode, hostVars, history
<1>4. CASE OnEvents
  BY <1>4, ScanFacts DEF OnEvents, channel, timers, mode, hostVars, history
<1>5. CASE ProcessChannelEvent
  BY <1>5, ScanFacts DEF ProcessChannelEvent, Found, page, channel, timers, mode, hostVars
<1>6. CASE OnChannelEvent
  BY <1>6 DEF OnChannelEvent, TimerStop, page, channel, mode, hostVars
<1>7. CASE EventCalls
  BY <1>7 DEF EventCalls, page, channel, timers, mode
<1>8. CASE EventStartsTimer
  BY <1>8, ScanFacts DEF EventStartsTimer, TimerStart, page, channel, mode, hostVars, history
<1>9. ASSUME NEW c \in Channels, TimerFires(c) PROVE Stopped'
  BY <1>9 DEF TimerFires, page, channel, mode, hostVars
<1>10. CASE OnTimer
  BY <1>10 DEF OnTimer, Idle, page, channel, timers, mode, hostVars, history
<1>11. CASE TimerCalls
  BY <1>11 DEF TimerCalls, page, channel, timers, mode
<1>12. CASE TimerRestarts
  BY <1>12 DEF TimerRestarts, TimerStart, Idle, page, channel, mode, hostVars, history
<1>13. ASSUME NEW c \in Channels, CloseBegins(c) PROVE Stopped'
  BY <1>13 DEF CloseBegins, page, timers, mode, hostVars, history
<1>14. ASSUME NEW c \in Channels, CloseStopsTimer(c) PROVE Stopped'
  <2>1. /\ handle' = [handle EXCEPT ![c] = FALSE] /\ closer' = [closer EXCEPT ![c] = "post"]
        /\ raced \subseteq raced' /\ UNCHANGED <<dpc, clock, strays>>
    BY <1>14 DEF CloseStopsTimer, TimerStop
  <2>2. c \notin raced' => Handlers(c) = {} /\ strays[c] = 0
    BY <1>14 DEF CloseStopsTimer
  <2>3. Handlers(c) = {} => ~ InTimer(c) /\ ~ InEvent(c)
    BY DEF Handlers
  <2> QED
    BY <2>1, <2>2, <2>3
<1>15. ASSUME NEW c \in Channels, ClosePosts(c) PROVE Stopped'
  BY <1>15 DEF ClosePosts, page, timers, mode, history
<1>16. ASSUME NEW c \in Channels, CloseEnds(c) PROVE Stopped'
  BY <1>16 DEF CloseEnds, TimerStop, page, timers, mode, hostVars, history
<1>17. ASSUME NEW c \in Channels, HostSends(c) PROVE Stopped'
  BY <1>17 DEF HostSends, channel, timers, mode, history
<1>18. ASSUME NEW c \in Channels, DriverPolls(c) PROVE Stopped'
  BY <1>18 DEF DriverPolls, page, channel, timers, mode, history
<1>19. ASSUME NEW c \in Channels, NEW poll \in BOOLEAN, SetChannelMode(c, poll) PROVE Stopped'
  BY <1>19 DEF SetChannelMode, page, channel, timers, hostVars, history
<1>20. CASE UNCHANGED vars
  BY <1>20 DEF vars, page, channel, timers, mode, hostVars, history
<1> QED
  BY <1>1, <1>2, <1>3, <1>4, <1>5, <1>6, <1>7, <1>8, <1>9, <1>10,
     <1>11, <1>12, <1>13, <1>14, <1>15, <1>16, <1>17, <1>18, <1>19, <1>20
     DEF Next, ISR, DPC, Softclock, Close

\* Each step keeps somebody on the way to the packets of an open channel.
LEMMA WokenKept == IInv /\ [Next]_vars => UnreadIsWoken'
<1> SUFFICES ASSUME IInv, [Next]_vars PROVE UnreadIsWoken'
  OBVIOUS
<1> USE ChannelFacts, HandlerFacts
    DEF IInv, Types, Life, UnreadIsWoken, Interrupted, Interrupting, ComesTo, Polling, Running
<1>1. CASE OnISR
  BY <1>1 DEF OnISR, channel, timers, mode, hostVars, history
<1>2. CASE CheckEventsStores
  BY <1>2 DEF CheckEventsStores, channel, timers, mode, hostVars
<1>3. CASE OnEventDPC
  <2> SUFFICES ASSUME NEW c \in Channels, unread[c] > 0, Interrupted(c)
               PROVE  (Interrupting(c) \/ Polling(c) \/ c \in overwritten)'
    BY <1>3 DEF OnEventDPC, channel, mode, hostVars, history
  <2>1. dpc.at = "idle" /\ dpc'.at = "scan" /\ dpc'.ch = 1
    BY <1>3 DEF OnEventDPC
  <2>2. 1 < c \/ 1 = c
    BY NAssumption DEF Channels
  <2>3. ComesTo(c)'
    BY <2>1, <2>2
  <2> HIDE DEF ComesTo
  <2> QED
    BY <1>3, <2>1, <2>3 DEF OnEventDPC, channel, timers, mode, hostVars, history
<1>4. CASE OnEvents
  <2> SUFFICES ASSUME NEW c \in Channels, unread[c] > 0, Interrupted(c)
               PROVE  (Interrupting(c) \/ Polling(c) \/ c \in overwritten)'
    BY <1>4 DEF OnEvents, channel, mode, hostVars, history
  <2>1. Interrupting(c) \/ Polling(c) \/ c \in overwritten
    OBVIOUS
  <2>2. /\ dpc.at = "scan" /\ bits' = bits \ {dpc.ch}
        /\ UNCHANGED <<flag, isr, scheduled, handle, strays, clock, overwritten>>
    BY <1>4 DEF OnEvents, timers, history
  <2>3. CASE dpc.ch = c /\ c \in bits
    BY <1>4, <2>3 DEF OnEvents
  <2>4. CASE dpc.ch # c /\ c \in bits /\ ComesTo(c)
    <3>1. CASE dpc.ch \in bits
      BY <1>4, <2>4, <3>1 DEF OnEvents
    <3>2. CASE dpc.ch \notin bits
      <4>1. dpc' = Scan(dpc.ch) /\ dpc.ch < c /\ dpc.ch \in Channels
        BY <1>4, <2>2, <2>4, <3>2 DEF OnEvents
      <4>2. ComesTo(c)'
        BY <4>1, ScanFacts
      <4> QED
        BY <2>2, <2>4, <4>2
    <3> QED
      BY <3>1, <3>2
  <2> QED
    BY <2>1, <2>2, <2>3, <2>4
<1>5. CASE ProcessChannelEvent
  <2> SUFFICES ASSUME NEW c \in Channels, unread[c] > 0, Interrupted(c)
               PROVE  (Interrupting(c) \/ Polling(c) \/ c \in overwritten)'
    BY <1>5 DEF ProcessChannelEvent, channel, mode, hostVars
  <2>1. Interrupting(c) \/ Polling(c) \/ c \in overwritten
    OBVIOUS
  <2>2. /\ dpc.at = "find"
        /\ UNCHANGED <<bits, flag, isr, scheduled, handle, strays, clock, overwritten>>
    BY <1>5 DEF ProcessChannelEvent, page, timers
  <2>3. CASE dpc.ch = c
    BY <1>5, <2>3 DEF ProcessChannelEvent, Found
  <2>4. CASE c \in bits /\ dpc.ch < c
    <3>1. CASE dpc.ch \notin polled /\ Found(dpc.ch)
      BY <1>5, <2>2, <2>4, <3>1 DEF ProcessChannelEvent
    <3>2. CASE ~ (dpc.ch \notin polled /\ Found(dpc.ch))
      <4>1. dpc' = Scan(dpc.ch) /\ dpc.ch \in Channels
        BY <1>5, <2>2, <3>2 DEF ProcessChannelEvent
      <4>2. ComesTo(c)'
        BY <2>4, <4>1, ScanFacts
      <4> QED
        BY <2>2, <2>4, <4>2
    <3> QED
      BY <3>1, <3>2
  <2> QED
    BY <2>1, <2>2, <2>3, <2>4
<1>6. CASE OnChannelEvent
  BY <1>6 DEF OnChannelEvent, TimerStop, page, channel, mode, hostVars
<1>7. CASE EventCalls
  BY <1>7 DEF EventCalls, page, channel, timers, mode
<1>8. CASE EventStartsTimer
  <2> SUFFICES ASSUME NEW c \in Channels, unread[c] > 0, Interrupted(c)
               PROVE  (Interrupting(c) \/ Polling(c) \/ c \in overwritten)'
    BY <1>8 DEF EventStartsTimer, channel, mode, hostVars, history
  <2>1. Interrupting(c) \/ Polling(c) \/ c \in overwritten
    OBVIOUS
  <2>2. /\ dpc.at = "start" /\ dpc' = Scan(dpc.ch) /\ handle' = [handle EXCEPT ![dpc.ch] = TRUE]
        /\ UNCHANGED <<bits, flag, isr, scheduled, clock, overwritten>>
        /\ dpc.ch # c => strays'[c] = strays[c]
    BY <1>8 DEF EventStartsTimer, TimerStart, page, history
  <2>3. CASE dpc.ch = c
    BY <2>2, <2>3
  <2>4. CASE c \in bits /\ dpc.ch < c
    <3>1. ComesTo(c)'
      BY <2>2, <2>4, ScanFacts
    <3> QED
      BY <2>2, <2>4, <3>1
  <2> QED
    BY <2>1, <2>2, <2>3, <2>4
<1>9. ASSUME NEW c \in Channels, TimerFires(c) PROVE UnreadIsWoken'
  BY <1>9 DEF TimerFires, page, channel, mode, hostVars
<1>10. CASE OnTimer
  BY <1>10 DEF OnTimer, Idle, page, channel, timers, mode, hostVars, history
<1>11. CASE TimerCalls
  BY <1>11 DEF TimerCalls, page, channel, timers, mode
<1>12. CASE TimerRestarts
  BY <1>12 DEF TimerRestarts, TimerStart, Idle, page, channel, mode, hostVars, history
<1>13. ASSUME NEW c \in Channels, CloseBegins(c) PROVE UnreadIsWoken'
  BY <1>13 DEF CloseBegins, page, timers, mode, hostVars, history
<1>14. ASSUME NEW c \in Channels, CloseStopsTimer(c) PROVE UnreadIsWoken'
  BY <1>14 DEF CloseStopsTimer, TimerStop, page, mode, hostVars
<1>15. ASSUME NEW c \in Channels, ClosePosts(c) PROVE UnreadIsWoken'
  BY <1>15 DEF ClosePosts, page, timers, mode, history
<1>16. ASSUME NEW c \in Channels, CloseEnds(c) PROVE UnreadIsWoken'
  BY <1>16 DEF CloseEnds, TimerStop, page, timers, mode, hostVars, history
<1>17. ASSUME NEW c \in Channels, HostSends(c) PROVE UnreadIsWoken'
  BY <1>17 DEF HostSends, channel, timers, mode, history
<1>18. ASSUME NEW c \in Channels, DriverPolls(c) PROVE UnreadIsWoken'
  BY <1>18 DEF DriverPolls, page, channel, timers, mode, history
<1>19. ASSUME NEW c \in Channels, NEW poll \in BOOLEAN, SetChannelMode(c, poll) PROVE UnreadIsWoken'
  BY <1>19 DEF SetChannelMode, page, channel, timers, hostVars, history
<1>20. CASE UNCHANGED vars
  BY <1>20 DEF vars, page, channel, timers, mode, hostVars, history
<1> QED
  BY <1>1, <1>2, <1>3, <1>4, <1>5, <1>6, <1>7, <1>8, <1>9, <1>10,
     <1>11, <1>12, <1>13, <1>14, <1>15, <1>16, <1>17, <1>18, <1>19, <1>20
     DEF Next, ISR, DPC, Softclock, Close

-----------------------------------------------------------------------------
\* The parts of the invariant cover what the run checks.
LEMMA Enough == IInv => TimerInv
<1> SUFFICES ASSUME IInv PROVE TimerInv
  OBVIOUS
<1>1. TypeOK
  BY BoundsAssumption DEF IInv, Types, TypeOK
<1>2. OneTimer
  BY DEF IInv, Types, Alone, OneTimer
<1>3. QuietCloseIsSafe
  BY DEF IInv, Types, Life, Stopped, QuietCloseIsSafe, Handlers, InTimer, InEvent
<1> QED
  BY <1>1, <1>2, <1>3 DEF TimerInv

\* IInv holds whatever the interleaving of interrupts, DPC, softclock, closes and the host.
THEOREM Inductive == Spec => []IInv
<1>1. IInv /\ [Next]_vars => IInv'
  BY TypesKept, LifeKept, AloneKept, StoppedKept, WokenKept DEF IInv
<1> QED
  BY Start, <1>1, PTL DEF Spec

\* What is in the ring of an open channel that was never in poll mode is on the way to be read:
\* the host's bit, CheckEvents, the DPC or the timer has it, unless CheckEvents wrote over the bit.
THEOREM NothingWaitsUnseen == Spec => []UnreadIsWoken
<1>1. IInv => UnreadIsWoken
  BY DEF IInv
<1> QED
  BY Inductive, <1>1, PTL

\* A timer is one callout until an event is handled while the timer is, and a freed channel is not
\* touched when its close stopped the timer with nobody inside and no event came in between.
THEOREM TimersAndCloses == Spec => []TimerInv
BY Inductive, Enough, PTL

==============================================================================
